----------------------------- MODULE DataInduction -----------------------------
(***************************************************************************)
(* Induction over data, for the proofs that need it: a counterexample      *)
(* would have a smallest one, among the natural numbers or the subsets of  *)
(* a finite set.  From it, what a sum over a finite set is; the library    *)
(* defines it by recursion over the subsets, in an order CHOOSE fixes.     *)
(***************************************************************************)
EXTENDS Functions, FiniteSetTheorems, TLAPS

Chosen(T) == CHOOSE x \in T : TRUE
IsIter(iter, f, S) ==
    iter = [T \in SUBSET S |-> IF T = {} THEN 0 ELSE f[Chosen(T)] + iter[T \ {Chosen(T)}]]

\* Of the natural numbers that have a property, one is smallest.
LEMMA SmallestNat ==
    ASSUME NEW T \in SUBSET Nat, T # {}
    PROVE  \E n \in T : \A k \in T : n =< k
<1> DEFINE Less == {ss \in Nat \X Nat : ss[1] < ss[2]}
<1>1. OpToRel(<, Nat) = Less
  BY Zenon DEF OpToRel
<1>2. IsWellFoundedOn(Less, Nat)
  BY <1>1, NatLessThanWellFounded, Zenon
<1>3. \A a, b \in Nat : a < b => <<a, b>> \in Less
  OBVIOUS
<1> HIDE DEF Less
<1>4. PICK n \in T : \A k \in T : ~(<<k, n>> \in Less)
  BY <1>2, WFMin, Zenon
<1>5. \A k \in T : ~(k < n)
  BY <1>3, <1>4
<1> QED
  BY <1>5

\* Of the subsets of a finite set that have a property, one is smallest.
LEMMA MinimalSubset ==
    ASSUME NEW S, IsFiniteSet(S), NEW F \in SUBSET (SUBSET S), F # {}
    PROVE  \E A \in F : \A B \in F : B \subseteq A => B = A
<1>1. F \subseteq FiniteSubsetsOf(S)
  BY FS_Subset DEF FiniteSubsetsOf
<1>2. \E A \in F : \A B \in F : ~(<<B, A>> \in StrictSubsetOrdering(S))
  BY <1>1, FS_StrictSubsetOrderingWellFounded, WFMin, Zenon
<1> QED
  BY <1>2 DEF StrictSubsetOrdering

\* A set that is not empty holds what is chosen from it.
LEMMA ChosenIn == ASSUME NEW T, T # {} PROVE Chosen(T) \in T
  BY DEF Chosen

\* Two recursions over sets that overlap agree on what they share.
LEMMA IterUnique ==
    ASSUME NEW f, NEW S, NEW R, NEW a, NEW b, IsIter(a, f, S), IsIter(b, f, R),
           NEW T, T \subseteq S, T \subseteq R, IsFiniteSet(T)
    PROVE  a[T] = b[T]
<1> DEFINE F == {A \in SUBSET T : a[A] # b[A]}
<1> SUFFICES ASSUME F # {} PROVE FALSE
  OBVIOUS
<1>1. PICK A \in F : \A B \in F : B \subseteq A => B = A
  <2> HIDE DEF F
  <2>1. F \in SUBSET (SUBSET T)
    BY DEF F
  <2> QED
    BY <2>1, MinimalSubset
<1>2. \A C \in SUBSET T : /\ a[C] = IF C = {} THEN 0 ELSE f[Chosen(C)] + a[C \ {Chosen(C)}]
                          /\ b[C] = IF C = {} THEN 0 ELSE f[Chosen(C)] + b[C \ {Chosen(C)}]
  BY DEF IsIter
<1>3. A # {}
  BY <1>2
<1>4. Chosen(A) \in A
  BY <1>3, ChosenIn
<1>5. a[A \ {Chosen(A)}] = b[A \ {Chosen(A)}]
  BY <1>1, <1>4
<1> QED
  BY <1>2, <1>3, <1>5

\* The recursion over the subsets of a finite set has a solution.
LEMMA IterExists ==
    ASSUME NEW f, NEW S, IsFiniteSet(S)
    PROVE  \E iter : IsIter(iter, f, S)
<1> DEFINE F == {A \in SUBSET S : ~\E iter : IsIter(iter, f, A)}
<1> SUFFICES ASSUME F # {} PROVE FALSE
  OBVIOUS
<1>1. PICK A \in F : \A B \in F : B \subseteq A => B = A
  <2> HIDE DEF F
  <2>1. F \in SUBSET (SUBSET S)
    BY DEF F
  <2> QED
    BY <2>1, MinimalSubset
<1>2. A \in SUBSET S /\ ~\E iter : IsIter(iter, f, A)
  OBVIOUS
<1> DEFINE g(B) == CHOOSE iter : IsIter(iter, f, B)
<1>3. \A B \in SUBSET A : B # A => IsIter(g(B), f, B)
  <2>1. \A B \in SUBSET A : B # A => \E iter : IsIter(iter, f, B)
    BY <1>1, <1>2
  <2> QED
    BY <2>1, Zenon
<1> HIDE DEF F, g
<1> DEFINE next(B) == IF B = {} THEN 0 ELSE f[Chosen(B)] + g(B \ {Chosen(B)})[B \ {Chosen(B)}]
           whole == [B \in SUBSET A |-> next(B)]
<1>4. \A B \in SUBSET A : B # A => g(B)[B] = next(B)
  <2> SUFFICES ASSUME NEW B \in SUBSET A, B # A, B # {} PROVE g(B)[B] = next(B)
    BY <1>3 DEF IsIter
  <2> DEFINE C == B \ {Chosen(B)}
  <2>1. Chosen(B) \in B
    BY ChosenIn
  <2>2. C \in SUBSET A /\ C # A /\ IsFiniteSet(C) /\ C \subseteq B
    BY <1>2, <2>1, FS_Subset
  <2>3. g(B)[C] = g(C)[C]
    <3> HIDE DEF C
    <3>1. IsIter(g(B), f, B) /\ IsIter(g(C), f, C)
      BY <1>3, <2>2
    <3> QED
      BY <2>2, <3>1, IterUnique
  <2>4. g(B)[B] = f[Chosen(B)] + g(B)[C]
    BY <1>3 DEF IsIter
  <2> QED
    BY <2>3, <2>4
<1>5. \A B \in SUBSET A : whole[B] = IF B = {} THEN 0 ELSE f[Chosen(B)] + whole[B \ {Chosen(B)}]
  <2> SUFFICES ASSUME NEW B \in SUBSET A, B # {}
               PROVE  whole[B] = f[Chosen(B)] + whole[B \ {Chosen(B)}]
    OBVIOUS
  <2> DEFINE C == B \ {Chosen(B)}
  <2>1. C \in SUBSET A /\ C # A
    BY ChosenIn
  <2>2. whole[C] = next(C) /\ g(C)[C] = next(C)
    BY <1>4, <2>1
  <2> QED
    BY <2>2
<1>6. IsIter(whole, f, A)
  <2> HIDE DEF next
  <2>1. whole = [B \in SUBSET A |-> whole[B]]
    OBVIOUS
  <2> QED
    BY <1>5, <2>1 DEF IsIter
<1> QED
  BY <1>2, <1>6

\* The library's sum is a value of that recursion.
LEMMA SumIsIter ==
    ASSUME NEW f, NEW S, IsFiniteSet(S)
    PROVE  \E iter : IsIter(iter, f, S) /\ SumFunctionOnSet(f, S) = iter[S]
<1> DEFINE iter == CHOOSE i : IsIter(i, f, S)
<1>1. IsIter(iter, f, S)
  BY IterExists, Zenon
<1>2. SumFunctionOnSet(f, S) = iter[S]
  BY DEF SumFunctionOnSet, FoldFunctionOnSet, MapThenFoldSet, IsIter, Chosen
<1> QED
  BY <1>1, <1>2

\* The sum as its definition takes it apart.
LEMMA SumUnfold ==
    ASSUME NEW f, NEW S, IsFiniteSet(S)
    PROVE  SumFunctionOnSet(f, S) =
              IF S = {} THEN 0
              ELSE f[Chosen(S)] + SumFunctionOnSet(f, S \ {Chosen(S)})
<1>1. PICK i : IsIter(i, f, S) /\ SumFunctionOnSet(f, S) = i[S]
  BY SumIsIter
<1>2. i[S] = IF S = {} THEN 0 ELSE f[Chosen(S)] + i[S \ {Chosen(S)}]
  BY <1>1 DEF IsIter
<1> DEFINE C == S \ {Chosen(S)}
<1>3. IsFiniteSet(C) /\ C \subseteq S
  BY FS_Subset
<1> HIDE DEF C
<1>4. PICK j : IsIter(j, f, C) /\ SumFunctionOnSet(f, C) = j[C]
  BY <1>3, SumIsIter
<1>5. i[C] = j[C]
  BY <1>1, <1>3, <1>4, IterUnique
<1> QED
  BY <1>1, <1>2, <1>4, <1>5 DEF C

\* Nothing to add.
LEMMA SumEmpty == ASSUME NEW f PROVE SumFunctionOnSet(f, {}) = 0
  BY FS_EmptySet, SumUnfold

\* f has natural numbers on S.
Natural(f, S) == \A x \in S : f[x] \in Nat

\* A sum of natural numbers is one.
LEMMA SumIsNat ==
    ASSUME NEW f, NEW S, IsFiniteSet(S), Natural(f, S)
    PROVE  SumFunctionOnSet(f, S) \in Nat
<1> DEFINE F == {A \in SUBSET S : SumFunctionOnSet(f, A) \notin Nat}
<1> SUFFICES ASSUME F # {} PROVE FALSE
  OBVIOUS
<1>1. PICK A \in F : \A B \in F : B \subseteq A => B = A
  <2> HIDE DEF F
  <2>1. F \in SUBSET (SUBSET S)
    BY DEF F
  <2> QED
    BY <2>1, MinimalSubset
<1>2. IsFiniteSet(A)
  BY FS_Subset
<1>3. CASE A = {}
  <2>1. SumFunctionOnSet(f, A) = 0
    BY <1>3, SumEmpty
  <2> QED
    BY <2>1
<1>4. CASE A # {}
  <2>1. Chosen(A) \in A
    BY <1>4, ChosenIn
  <2>2. SumFunctionOnSet(f, A \ {Chosen(A)}) \in Nat
    BY <1>1, <2>1
  <2>3. f[Chosen(A)] \in Nat
    BY <2>1 DEF Natural
  <2>4. SumFunctionOnSet(f, A) = f[Chosen(A)] + SumFunctionOnSet(f, A \ {Chosen(A)})
    BY <1>2, <1>4, SumUnfold
  <2> QED
    BY <2>2, <2>3, <2>4
<1> QED
  BY <1>3, <1>4

\* The sum does not depend on the element taken first.
LEMMA SumWithout ==
    ASSUME NEW f, NEW S, IsFiniteSet(S), Natural(f, S), NEW x \in S
    PROVE  SumFunctionOnSet(f, S) = f[x] + SumFunctionOnSet(f, S \ {x})
<1> DEFINE F == {A \in SUBSET S : \E y \in A : SumFunctionOnSet(f, A) # f[y] + SumFunctionOnSet(f, A \ {y})}
<1> SUFFICES ASSUME F # {} PROVE FALSE
  OBVIOUS
<1>1. PICK A \in F : \A B \in F : B \subseteq A => B = A
  <2> HIDE DEF F
  <2>1. F \in SUBSET (SUBSET S)
    BY DEF F
  <2> QED
    BY <2>1, MinimalSubset
<1>2. PICK y \in A : SumFunctionOnSet(f, A) # f[y] + SumFunctionOnSet(f, A \ {y})
  OBVIOUS
<1>a. A \in SUBSET S /\ IsFiniteSet(A)
  BY FS_Subset
<1> DEFINE c == Chosen(A)
<1>3. c \in A /\ c # y
  BY <1>2, <1>a, ChosenIn, SumUnfold
<1>4. SumFunctionOnSet(f, A) = f[c] + SumFunctionOnSet(f, A \ {c})
  BY <1>3, <1>a, SumUnfold
<1> HIDE DEF c
<1>5. A \ {c} \notin F /\ A \ {y} \notin F
  <2> HIDE DEF F
  <2> QED
    BY <1>1, <1>3
<1>6. SumFunctionOnSet(f, A \ {c}) = f[y] + SumFunctionOnSet(f, (A \ {c}) \ {y})
  BY <1>3, <1>5, <1>a
<1>7. SumFunctionOnSet(f, A \ {y}) = f[c] + SumFunctionOnSet(f, (A \ {y}) \ {c})
  BY <1>3, <1>5, <1>a
<1>8. (A \ {c}) \ {y} = (A \ {y}) \ {c}
  OBVIOUS
<1> DEFINE rest == SumFunctionOnSet(f, (A \ {c}) \ {y})
<1>9. rest \in Nat /\ f[c] \in Nat /\ f[y] \in Nat
  <2>1. IsFiniteSet((A \ {c}) \ {y}) /\ Natural(f, (A \ {c}) \ {y})
    BY <1>a, FS_Subset DEF Natural
  <2> QED
    BY <1>3, <1>a, <2>1, SumIsNat DEF Natural
<1>10. SumFunctionOnSet(f, A \ {y}) = f[c] + rest /\ SumFunctionOnSet(f, A) = f[c] + (f[y] + rest)
  BY <1>4, <1>6, <1>7, <1>8
<1> HIDE DEF rest, F
<1>11. f[c] + (f[y] + rest) = f[y] + (f[c] + rest)
  BY <1>9
<1> QED
  BY <1>2, <1>10, <1>11

\* The sum over one element.
LEMMA SumSingle == ASSUME NEW f, NEW x, f[x] \in Nat PROVE SumFunctionOnSet(f, {x}) = f[x]
<1>1. IsFiniteSet({x}) /\ Chosen({x}) = x /\ {x} \ {x} = {}
  BY FS_Singleton, ChosenIn
<1> QED
  BY <1>1, SumEmpty, SumUnfold

\* A new element adds what it has.
LEMMA SumWith ==
    ASSUME NEW f, NEW S, IsFiniteSet(S), NEW x, x \notin S, Natural(f, S \cup {x})
    PROVE  SumFunctionOnSet(f, S \cup {x}) = f[x] + SumFunctionOnSet(f, S)
<1>1. IsFiniteSet(S \cup {x}) /\ x \in S \cup {x} /\ (S \cup {x}) \ {x} = S
  BY FS_AddElement
<1> QED
  BY <1>1, SumWithout

\* A larger function over a larger set has a larger sum.
LEMMA SumAtMost ==
    ASSUME NEW f, NEW g, NEW S, NEW T, IsFiniteSet(T), S \subseteq T, Natural(f, S), Natural(g, T),
           \A x \in S : f[x] =< g[x]
    PROVE  SumFunctionOnSet(f, S) =< SumFunctionOnSet(g, T)
<1> DEFINE F == {A \in SUBSET T : ~ SumFunctionOnSet(f, A \cap S) =< SumFunctionOnSet(g, A)}
<1> SUFFICES ASSUME F # {} PROVE FALSE
  BY S \cap T = S, T \in SUBSET T
<1>1. PICK A \in F : \A B \in F : B \subseteq A => B = A
  <2> HIDE DEF F
  <2>1. F \in SUBSET (SUBSET T)
    BY DEF F
  <2> QED
    BY <2>1, MinimalSubset
<1>2. IsFiniteSet(A) /\ A \subseteq T /\ IsFiniteSet(A \cap S)
  BY FS_Subset
<1>3. A # {}
  <2>1. SumFunctionOnSet(f, {}) = 0 /\ SumFunctionOnSet(g, {}) = 0
    BY SumEmpty
  <2> QED
    BY <2>1
<1> DEFINE c == Chosen(A)
           B == A \ {c}
<1>4. c \in A
  BY <1>3, ChosenIn
<1> HIDE DEF c
<1>5. SumFunctionOnSet(f, B \cap S) =< SumFunctionOnSet(g, B)
  <2>1. B \notin F /\ B \in SUBSET T
    <3> HIDE DEF F
    <3> QED
      BY <1>1, <1>2, <1>4
  <2> QED
    BY <2>1
<1>6. Natural(g, A) /\ Natural(f, A \cap S)
  BY <1>2 DEF Natural
<1>7. SumFunctionOnSet(g, A) = g[c] + SumFunctionOnSet(g, B)
  BY <1>2, <1>4, <1>6, SumWithout
<1>8. SumFunctionOnSet(g, B) \in Nat /\ SumFunctionOnSet(f, B \cap S) \in Nat /\ g[c] \in Nat
  <2>1. IsFiniteSet(B) /\ IsFiniteSet(B \cap S) /\ Natural(g, B) /\ Natural(f, B \cap S)
    BY <1>2, <1>6, FS_Subset DEF Natural
  <2> QED
    BY <1>4, <1>6, <2>1, SumIsNat DEF Natural
<1>9. ~ SumFunctionOnSet(f, A \cap S) =< SumFunctionOnSet(g, A)
  OBVIOUS
<1>10. CASE c \in S
  <2>1. SumFunctionOnSet(f, A \cap S) = f[c] + SumFunctionOnSet(f, B \cap S)
    <3>1. c \in A \cap S /\ (A \cap S) \ {c} = B \cap S
      BY <1>4, <1>10
    <3> QED
      BY <1>2, <1>6, <3>1, SumWithout
  <2>2. f[c] \in Nat /\ f[c] =< g[c]
    BY <1>10 DEF Natural
  <2> HIDE DEF B, F
  <2> QED
    BY <1>5, <1>7, <1>8, <1>9, <2>1, <2>2
<1>11. CASE c \notin S
  <2>1. A \cap S = B \cap S
    BY <1>11
  <2>2. SumFunctionOnSet(f, A \cap S) = SumFunctionOnSet(f, B \cap S)
    BY <2>1
  <2> HIDE DEF B, F
  <2>3. SumFunctionOnSet(f, B \cap S) =< g[c] + SumFunctionOnSet(g, B)
    BY <1>5, <1>8
  <2> QED
    BY <1>7, <1>9, <2>2, <2>3
<1> QED
  BY <1>10, <1>11

\* Functions that agree on a set have the same sum over it.
LEMMA SumSame ==
    ASSUME NEW f, NEW g, NEW S, IsFiniteSet(S), Natural(f, S), \A x \in S : f[x] = g[x]
    PROVE  SumFunctionOnSet(f, S) = SumFunctionOnSet(g, S)
<1>1. Natural(g, S) /\ \A x \in S : f[x] =< g[x] /\ g[x] =< f[x]
  BY DEF Natural
<1>2. SumFunctionOnSet(f, S) =< SumFunctionOnSet(g, S) /\ SumFunctionOnSet(g, S) =< SumFunctionOnSet(f, S)
  BY <1>1, SumAtMost
<1>3. SumFunctionOnSet(f, S) \in Nat /\ SumFunctionOnSet(g, S) \in Nat
  BY <1>1, SumIsNat
<1> QED
  BY <1>2, <1>3

\* The sum over two sets without a common element.
LEMMA SumUnion ==
    ASSUME NEW f, NEW S, NEW T, IsFiniteSet(S), IsFiniteSet(T), S \cap T = {}, Natural(f, S \cup T)
    PROVE  SumFunctionOnSet(f, S \cup T) = SumFunctionOnSet(f, S) + SumFunctionOnSet(f, T)
<1> DEFINE F == {A \in SUBSET T :
                   SumFunctionOnSet(f, S \cup A) # SumFunctionOnSet(f, S) + SumFunctionOnSet(f, A)}
<1> SUFFICES ASSUME F # {} PROVE FALSE
  BY T \in SUBSET T
<1>1. PICK A \in F : \A B \in F : B \subseteq A => B = A
  <2> HIDE DEF F
  <2>1. F \in SUBSET (SUBSET T)
    BY DEF F
  <2> QED
    BY <2>1, MinimalSubset
<1>2. IsFiniteSet(A) /\ A \subseteq T
  BY FS_Subset
<1>3. SumFunctionOnSet(f, S) \in Nat
  BY SumIsNat DEF Natural
<1>4. SumFunctionOnSet(f, S \cup A) # SumFunctionOnSet(f, S) + SumFunctionOnSet(f, A)
  OBVIOUS
<1>5. A # {}
  <2> SUFFICES ASSUME A = {} PROVE FALSE
    OBVIOUS
  <2>1. S \cup A = S /\ SumFunctionOnSet(f, A) = 0
    BY SumEmpty
  <2> HIDE DEF F
  <2> QED
    BY <1>3, <1>4, <2>1
<1> DEFINE c == Chosen(A)
           B == A \ {c}
<1>6. c \in A
  BY <1>5, ChosenIn
<1> HIDE DEF c
<1>7. SumFunctionOnSet(f, S \cup B) = SumFunctionOnSet(f, S) + SumFunctionOnSet(f, B)
  <2>1. B \notin F /\ B \in SUBSET T
    <3> HIDE DEF F
    <3> QED
      BY <1>1, <1>2, <1>6
  <2> QED
    BY <2>1
<1>8. IsFiniteSet(B) /\ IsFiniteSet(S \cup B) /\ c \notin S \cup B /\ c \notin B
  BY <1>2, <1>6, FS_Subset, FS_Union
<1>9. (S \cup B) \cup {c} = S \cup A /\ B \cup {c} = A
  BY <1>6
<1>10. Natural(f, S \cup A) /\ Natural(f, A) /\ Natural(f, B)
  BY <1>2 DEF Natural
<1>11. SumFunctionOnSet(f, S \cup A) = f[c] + SumFunctionOnSet(f, S \cup B)
  BY <1>8, <1>9, <1>10, SumWith
<1>12. SumFunctionOnSet(f, A) = f[c] + SumFunctionOnSet(f, B)
  BY <1>8, <1>9, <1>10, SumWith
<1>13. f[c] \in Nat /\ SumFunctionOnSet(f, B) \in Nat
  BY <1>6, <1>8, <1>10, SumIsNat DEF Natural
<1> HIDE DEF F, B
<1>14. f[c] + (SumFunctionOnSet(f, S) + SumFunctionOnSet(f, B))
          = SumFunctionOnSet(f, S) + (f[c] + SumFunctionOnSet(f, B))
  BY <1>3, <1>13
<1> QED
  BY <1>4, <1>7, <1>11, <1>12, <1>14
===============================================================================
