------------------------ MODULE MCMultiIssueSessions ------------------------
(* Instances of MultiIssueSessions for TLC. *)
EXTENDS MultiIssueSessions, TLC

CONSTANTS s1, s2, m1, m2

Unmetered == [s \in Sessions |-> {NoAmount}]
\* doubles of three significant bits, ties to even: 9 is rounded to 8, 11 to 12
ThreeBits(n) == IF n =< 8 \/ n % 2 = 0 THEN n ELSE 4 * ((n + 2) \div 4)
Exactly(n) == n
\* under a threshold of 8 a second of 5 fits beside the first of 4, by rounding; one of
\* 7 does not, and the first fits beside it only once it has proved cheap
Metering == [s \in Sessions |-> IF s = s1 THEN {4} ELSE {5, 7}]
Managing == Permutations(Managers)
Symmetry == Permutations(Managers) \cup Permutations(Sessions)
=============================================================================
