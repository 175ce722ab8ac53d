--------------------------- MODULE IssueTeam_proofs ---------------------------
(***************************************************************************)
(* For every set of recoveries, of actors, of reported costs and every     *)
(* loop bound and budget: a session is started once per key and one role   *)
(* at a time, only the newest session can be without a recorded outcome,   *)
(* the number of paid calls is bounded, and a team ends as it has earned.  *)
(***************************************************************************)
EXTENDS IssueTeam, DataInduction, FiniteSetTheorems, TLAPS

Implementations(outcomes) ==
    {i \in 1 .. Len(outcomes) : outcomes[i][1] = "implementer"}

\* The step the row names has no outcome yet.
Pending(s) == s.state = "running" \/ (s.state = "failed" /\ s.result = "none")

\* What holds of the stored row by itself.
RunOK(s) ==
    /\ s.attempt = Len(s.outcomes) + (IF Pending(s) THEN 1 ELSE 0)
    /\ s.state = "completed" <=> s.result = "converged"
    /\ s.result = "exhausted" => s.state = "failed"
    /\ s.result = "none" /\ s.role = "tester" => Streak(s.outcomes, Len(s.outcomes), s.clean)
    /\ s.result = "none" /\ s.role = "reviewer" =>
          /\ Len(s.outcomes) >= 1
          /\ s.outcomes[Len(s.outcomes)] = <<"tester", "pass">>
          /\ Streak(s.outcomes, Len(s.outcomes) - 1, s.clean)
    /\ s.result = "converged" => Streak(s.outcomes, Len(s.outcomes), RequiredCleanCycles)
    /\ s.result = "exhausted" =>
          /\ s.repairs = MaxRepairCycles
          /\ s.outcomes[Len(s.outcomes)][2] \in {"fail", "changes_requested"}
    /\ s.repairs <= MaxRepairCycles
    /\ IsFiniteSet(Implementations(s.outcomes))
    /\ Cardinality(Implementations(s.outcomes)) =
          s.repairs + (IF s.role \in {"tester", "reviewer"} THEN 1 ELSE 0)

\* Appending an outcome adds its position, if the implementer's, to the set.
LEMMA ImplementationsAppend ==
  ASSUME NEW outcomes \in Seq(Outcome), NEW o \in Outcome,
         IsFiniteSet(Implementations(outcomes))
  PROVE  /\ IsFiniteSet(Implementations(Append(outcomes, o)))
         /\ Cardinality(Implementations(outcomes)) \in Nat
         /\ Cardinality(Implementations(Append(outcomes, o))) =
               Cardinality(Implementations(outcomes)) + (IF o[1] = "implementer" THEN 1 ELSE 0)
<1> DEFINE longer == Append(outcomes, o)
           n == Len(outcomes)
<1>1. /\ n \in Nat /\ Len(longer) = n + 1 /\ longer[n + 1] = o
      /\ \A i \in 1 .. n : longer[i] = outcomes[i]
  OBVIOUS
<1>2. n + 1 \notin Implementations(outcomes)
  BY <1>1 DEF Implementations
<1>3. Implementations(longer) =
        IF o[1] = "implementer" THEN Implementations(outcomes) \cup {n + 1} ELSE Implementations(outcomes)
  BY <1>1 DEF Implementations
<1>4. Cardinality(Implementations(outcomes)) \in Nat
  BY FS_CardinalityType
<1>5. /\ IsFiniteSet(Implementations(outcomes) \cup {n + 1})
      /\ Cardinality(Implementations(outcomes) \cup {n + 1}) = Cardinality(Implementations(outcomes)) + 1
  BY <1>2, FS_AddElement
<1> QED  BY <1>3, <1>4, <1>5

\* A streak is not disturbed by what comes after it.
LEMMA StreakAppend ==
  ASSUME NEW outcomes \in Seq(Outcome), NEW o \in Outcome,
         NEW m \in Nat, m <= Len(outcomes), NEW n \in Nat, Streak(outcomes, m, n)
  PROVE  Streak(Append(outcomes, o), m, n)
<1>1. \A i \in 1 .. Len(outcomes) : Append(outcomes, o)[i] = outcomes[i]
  OBVIOUS
<1>2. ASSUME NEW i \in 0 .. n - 1
      PROVE  m - 2 * i \in 1 .. Len(outcomes) /\ m - 2 * i - 1 \in 1 .. Len(outcomes)
  BY DEF Streak
<1> QED  BY <1>1, <1>2 DEF Streak

\* The end of a streak is a streak.
LEMMA StreakShorter ==
  ASSUME NEW outcomes, NEW m \in Nat, NEW n \in Nat, NEW k \in Nat, k <= n,
         Streak(outcomes, m, n)
  PROVE  Streak(outcomes, m, k)
<1>1. 2 * k <= m
  BY DEF Streak
<1>2. \A i \in 0 .. k - 1 : i \in 0 .. n - 1
  OBVIOUS
<1> QED  BY <1>1, <1>2 DEF Streak

\* A pass and a clean review after a streak make it one longer.
LEMMA StreakGrows ==
  ASSUME NEW outcomes \in Seq(Outcome), NEW n \in Nat, Len(outcomes) >= 1,
         Streak(outcomes, Len(outcomes) - 1, n),
         outcomes[Len(outcomes)] = <<"tester", "pass">>
  PROVE  Streak(Append(outcomes, <<"reviewer", "clean">>), Len(outcomes) + 1, n + 1)
<1> DEFINE o == <<"reviewer", "clean">>
           longer == Append(outcomes, o)
           m == Len(outcomes) + 1
<1>1. o \in Outcome
  BY DEF Outcome, Roles, Decision
<1>2. Len(outcomes) \in Nat /\ m - 2 \in Nat /\ m - 2 <= Len(outcomes)
  OBVIOUS
<1>3. Streak(longer, m - 2, n)
  BY <1>1, <1>2, StreakAppend
<1>4. longer[m] = o /\ longer[m - 1] = <<"tester", "pass">>
  BY <1>1
<1> HIDE DEF longer
<1>5. ASSUME NEW i \in 0 .. (n + 1) - 1
      PROVE  longer[m - 2 * i] = o /\ longer[m - 2 * i - 1] = <<"tester", "pass">>
  <2>1. CASE i = 0
    BY <2>1, <1>2, <1>4
  <2>2. CASE i # 0
    <3>1. i - 1 \in 0 .. n - 1
      BY <2>2
    <3>2. /\ longer[(m - 2) - 2 * (i - 1)] = o
          /\ longer[(m - 2) - 2 * (i - 1) - 1] = <<"tester", "pass">>
      BY <1>3, <3>1 DEF Streak
    <3>3. (m - 2) - 2 * (i - 1) = m - 2 * i
      BY <1>2, <3>1
    <3> QED  BY <3>2, <3>3
  <2> QED  BY <2>1, <2>2
<1>6. 2 * (n + 1) <= m
  BY <1>2, <1>3 DEF Streak
<1> QED  BY <1>5, <1>6 DEF Streak, longer

-----------------------------------------------------------------------------
\* A new row.
LEMMA CreatedRun ==
  ASSUME NEW c \in Calls
  PROVE  Created(c) \in Snapshot /\ RunOK(Created(c)) /\ Created(c).result = "none"
<1> DEFINE r == Created(c)
<1>1. r \in Snapshot
  BY DEF Created, Snapshot, Roles
<1>2. /\ r.state = "ready" /\ r.result = "none" /\ r.role = "explorer" /\ r.attempt = 0
      /\ r.repairs = 0 /\ r.outcomes = << >>
  BY DEF Created
<1>3. Implementations(<< >>) = {}
  BY DEF Implementations
<1>4. IsFiniteSet(Implementations(<< >>)) /\ Cardinality(Implementations(<< >>)) = 0
  BY <1>3, FS_EmptySet
<1> HIDE DEF r
<1>5. RunOK(r)
  BY <1>2, <1>4, TeamAssumption DEF RunOK, Pending
<1> QED  BY <1>1, <1>2, <1>5 DEF r

\* A claim only takes the next attempt number.
LEMMA ClaimedRun ==
  ASSUME NEW s \in Snapshot, RunOK(s), s.state = "ready"
  PROVE  /\ Claimed(s) \in Snapshot /\ RunOK(Claimed(s))
         /\ Claimed(s).state = "running" /\ Claimed(s).version = s.version + 1
         /\ Claimed(s).outcomes = s.outcomes /\ Claimed(s).result = s.result
         /\ s.result = "none"
<1> DEFINE r == Claimed(s)
<1>1. /\ r.state = "running" /\ r.version = s.version + 1 /\ r.attempt = s.attempt + 1
      /\ r.outcomes = s.outcomes /\ r.result = s.result /\ r.role = s.role
      /\ r.clean = s.clean /\ r.repairs = s.repairs /\ r.leaseId = s.leaseId
  BY DEF Claimed, Snapshot
<1>2. r \in Snapshot
  <2> DEFINE v == s.version + 1
             a == s.attempt + 1
  <2>1. r = [s EXCEPT !.version = v, !.state = "running", !.attempt = a]
    BY DEF Claimed
  <2>2. v \in Nat /\ a \in Nat
    BY DEF Snapshot
  <2> HIDE DEF v, a, r
  <2>3. r = [version |-> v, state |-> "running", role |-> s.role, attempt |-> a,
             clean |-> s.clean, repairs |-> s.repairs, outcomes |-> s.outcomes,
             result |-> s.result, leaseId |-> s.leaseId]
    BY <2>1 DEF Snapshot
  <2> QED  BY <2>2, <2>3 DEF Snapshot
<1> HIDE DEF r
<1>3. s.result = "none"
  BY DEF RunOK, Snapshot
<1>4. RunOK(r)
  BY <1>1, <1>3 DEF RunOK, Pending, Snapshot
<1> QED  BY <1>1, <1>2, <1>3, <1>4 DEF r

\* A role that failed with its receipt leaves its step without an outcome.
LEMMA FailedRun ==
  ASSUME NEW s \in Snapshot, RunOK(s), s.state = "running"
  PROVE  /\ RoleFailed(s) \in Snapshot /\ RunOK(RoleFailed(s))
         /\ RoleFailed(s).state = "failed" /\ RoleFailed(s).result = "none"
         /\ RoleFailed(s).version = s.version + 1
         /\ RoleFailed(s).outcomes = s.outcomes /\ StepId(RoleFailed(s)) = StepId(s)
<1> DEFINE r == RoleFailed(s)
<1>1. /\ r.state = "failed" /\ r.version = s.version + 1 /\ r.attempt = s.attempt
      /\ r.outcomes = s.outcomes /\ r.result = s.result /\ r.role = s.role
      /\ r.clean = s.clean /\ r.repairs = s.repairs /\ r.leaseId = s.leaseId
  BY DEF RoleFailed, Snapshot
<1>2. r \in Snapshot
  <2> DEFINE v == s.version + 1
             a == s.attempt
  <2>1. r = [s EXCEPT !.version = v, !.state = "failed"]
    BY DEF RoleFailed
  <2>2. v \in Nat /\ a \in Nat
    BY DEF Snapshot
  <2> HIDE DEF v, r
  <2>3. r = [version |-> v, state |-> "failed", role |-> s.role, attempt |-> a,
             clean |-> s.clean, repairs |-> s.repairs, outcomes |-> s.outcomes,
             result |-> s.result, leaseId |-> s.leaseId]
    BY <2>1 DEF Snapshot
  <2> QED  BY <2>2, <2>3 DEF Snapshot
<1>3. StepId(r) = StepId(s)
  BY <1>1 DEF StepId
<1> HIDE DEF r
<1>4. s.result = "none"
  BY DEF RunOK, Snapshot
<1>5. RunOK(r)
  BY <1>1, <1>4 DEF RunOK, Pending, Snapshot
<1> QED  BY <1>1, <1>2, <1>3, <1>4, <1>5 DEF r

\* What nextTransition leaves in the row, field by field.
AfterTransition(s, d) ==
    CASE d = "proceed"     -> <<"ready", "implementer", 0, s.repairs, "none">>
      [] d = "implemented" -> <<"ready", "tester", 0, s.repairs, "none">>
      [] d = "pass"        -> <<"ready", "reviewer", s.clean, s.repairs, "none">>
      [] d = "clean"       -> IF s.clean + 1 >= RequiredCleanCycles
                              THEN <<"completed", s.role, s.clean + 1, s.repairs, "converged">>
                              ELSE <<"ready", "tester", s.clean + 1, s.repairs, "none">>
      [] OTHER             -> IF s.repairs >= MaxRepairCycles
                              THEN <<"failed", s.role, 0, s.repairs, "exhausted">>
                              ELSE <<"ready", "implementer", 0, s.repairs + 1, "none">>

LEMMA AcknowledgedFields ==
  ASSUME NEW s \in Snapshot, NEW d \in Decision, s.result = "none"
  PROVE  LET r == Acknowledged(s, d)
             o == <<s.role, d>>
             t == AfterTransition(s, d)
         IN /\ r = [version |-> s.version + 1, state |-> t[1], role |-> t[2], attempt |-> s.attempt,
                    clean |-> t[3], repairs |-> t[4], outcomes |-> Append(s.outcomes, o),
                    result |-> t[5], leaseId |-> s.leaseId]
<1> DEFINE m == Transition(s, d)
           t == AfterTransition(s, d)
<1>1. m = [version |-> s.version, state |-> t[1], role |-> t[2], attempt |-> s.attempt,
           clean |-> t[3], repairs |-> t[4], outcomes |-> s.outcomes,
           result |-> t[5], leaseId |-> s.leaseId]
  <2>1. CASE d = "proceed"
    BY <2>1 DEF Transition, Moved, AfterTransition, Snapshot
  <2>2. CASE d = "implemented"
    BY <2>2 DEF Transition, Moved, AfterTransition, Snapshot
  <2>3. CASE d = "pass"
    BY <2>3 DEF Transition, Moved, AfterTransition, Snapshot
  <2>4. CASE d = "clean"
    BY <2>4 DEF Transition, Moved, AfterTransition, Snapshot
  <2>5. CASE d \in {"fail", "changes_requested"}
    BY <2>5 DEF Transition, Repaired, Moved, AfterTransition, Snapshot
  <2> QED  BY <2>1, <2>2, <2>3, <2>4, <2>5 DEF Decision
<1> HIDE DEF m, t
<1>2. Acknowledged(s, d) = [m EXCEPT !.version = @ + 1, !.outcomes = Append(@, <<s.role, d>>)]
  BY DEF Acknowledged, m
<1> QED  BY <1>1, <1>2 DEF t

\* An acknowledged decision keeps the row well formed: streaks grow by a pass
\* and a clean review and restart with an implementation, which a repair pays for.
LEMMA AcknowledgedRun ==
  ASSUME NEW s \in Snapshot, RunOK(s), s.state = "running",
         NEW d \in Decisions[s.role]
  PROVE  LET r == Acknowledged(s, d)
         IN /\ r \in Snapshot /\ RunOK(r)
            /\ r.version = s.version + 1
            /\ r.result # "none" \/ r.state = "ready"
            /\ Len(r.outcomes) = s.attempt
            /\ r.outcomes[s.attempt] = <<s.role, d>>
            /\ \A i \in 1 .. Len(s.outcomes) : r.outcomes[i] = s.outcomes[i]
<1> DEFINE o == <<s.role, d>>
           t == AfterTransition(s, d)
           r == Acknowledged(s, d)
           n == Len(s.outcomes)
           longer == Append(s.outcomes, o)
<1>1. s.result = "none" /\ s.attempt = n + 1
  BY DEF RunOK, Pending, Snapshot
<1>2. s.role \in Roles /\ d \in Decision /\ o \in Outcome
  BY DEF Snapshot, Roles, Decisions, Decision, Outcome
<1>3. /\ n \in Nat /\ s.outcomes \in Seq(Outcome) /\ s.version \in Nat /\ s.attempt \in Nat
      /\ s.clean \in Nat /\ s.repairs \in Nat /\ s.leaseId \in Calls
  BY DEF Snapshot
<1>4. r = [version |-> s.version + 1, state |-> t[1], role |-> t[2], attempt |-> s.attempt,
           clean |-> t[3], repairs |-> t[4], outcomes |-> longer,
           result |-> t[5], leaseId |-> s.leaseId]
  BY <1>1, <1>2, AcknowledgedFields
<1>5. /\ longer \in Seq(Outcome) /\ Len(longer) = n + 1 /\ longer[n + 1] = o
      /\ \A i \in 1 .. n : longer[i] = s.outcomes[i]
  BY <1>2, <1>3
<1>6. /\ IsFiniteSet(Implementations(longer))
      /\ Cardinality(Implementations(longer)) =
            Cardinality(Implementations(s.outcomes)) + (IF s.role = "implementer" THEN 1 ELSE 0)
  BY <1>2, <1>3, ImplementationsAppend DEF RunOK
<1>7. \/ s.role = "explorer" /\ d = "proceed"
      \/ s.role = "implementer" /\ d = "implemented"
      \/ s.role = "tester" /\ d \in {"pass", "fail"}
      \/ s.role = "reviewer" /\ d \in {"clean", "changes_requested"}
  BY <1>2 DEF Roles, Decisions
<1> HIDE DEF r, longer
<1>8. /\ r.version = s.version + 1 /\ r.state = t[1] /\ r.role = t[2] /\ r.attempt = s.attempt
      /\ r.clean = t[3] /\ r.repairs = t[4] /\ r.outcomes = longer /\ r.result = t[5]
  BY <1>4
<1>9. /\ t[1] \in {"ready", "completed", "failed"} /\ t[2] \in Roles
      /\ t[3] \in Nat /\ t[4] \in Nat /\ t[5] \in {"none", "converged", "exhausted"}
      /\ t[5] # "none" \/ t[1] = "ready"
  BY <1>2, <1>3, <1>7 DEF AfterTransition, Roles
<1>10. r \in Snapshot
  BY <1>3, <1>4, <1>5, <1>9 DEF Snapshot
<1>11. RunOK(r)
  <2>1. /\ ~Pending(r)
        /\ r.state = "completed" <=> r.result = "converged"
        /\ r.result = "exhausted" => r.state = "failed"
    BY <1>7, <1>8 DEF AfterTransition, Pending
  <2>2. r.attempt = Len(r.outcomes)
    BY <1>1, <1>5, <1>8
  <2>3. /\ r.repairs <= MaxRepairCycles
        /\ r.result = "exhausted" =>
              r.repairs = MaxRepairCycles /\ d \in {"fail", "changes_requested"}
    BY <1>3, <1>7, <1>8, TeamAssumption DEF AfterTransition, RunOK
  <2>4. Cardinality(Implementations(r.outcomes)) =
          r.repairs + (IF r.role \in {"tester", "reviewer"} THEN 1 ELSE 0)
    BY <1>3, <1>6, <1>7, <1>8 DEF AfterTransition, RunOK
  <2>5. s.role = "tester" => Streak(longer, n, s.clean)
    BY <1>1, <1>2, <1>3, StreakAppend DEF RunOK, longer
  <2>6. s.role = "reviewer" /\ d = "clean" => Streak(longer, n + 1, s.clean + 1)
    BY <1>1, <1>3, StreakGrows DEF RunOK, longer
  <2>7. Streak(longer, n + 1, 0)
    BY <1>3 DEF Streak
  <2>8. r.result = "none" /\ r.role = "tester" => Streak(longer, n + 1, r.clean)
    BY <1>7, <1>8, <2>6, <2>7 DEF AfterTransition
  <2>9. r.result = "none" /\ r.role = "reviewer" =>
           o = <<"tester", "pass">> /\ Streak(longer, n, r.clean)
    BY <1>7, <1>8, <2>5 DEF AfterTransition
  <2>10. r.result = "converged" => Streak(longer, n + 1, RequiredCleanCycles)
    <3>1. r.result = "converged" =>
             Streak(longer, n + 1, s.clean + 1) /\ s.clean + 1 >= RequiredCleanCycles
      BY <1>7, <1>8, <2>6 DEF AfterTransition
    <3>2. s.clean + 1 \in Nat /\ RequiredCleanCycles \in Nat /\ n + 1 \in Nat
      BY <1>3, TeamAssumption
    <3>3. ASSUME r.result = "converged" PROVE RequiredCleanCycles <= s.clean + 1
      BY <3>1, <3>2, <3>3
    <3> HIDE DEF n
    <3> QED  BY <3>1, <3>2, <3>3, StreakShorter
  <2>11. /\ Len(r.outcomes) = n + 1 /\ Len(r.outcomes) - 1 = n /\ Len(r.outcomes) >= 1
         /\ r.outcomes[Len(r.outcomes)] = o /\ o[2] = d /\ r.outcomes = longer
    BY <1>3, <1>5, <1>8
  <2>12. r.result = "none" /\ r.role = "tester" => Streak(r.outcomes, Len(r.outcomes), r.clean)
    BY <2>8, <2>11
  <2>13. r.result = "none" /\ r.role = "reviewer" =>
            /\ r.outcomes[Len(r.outcomes)] = <<"tester", "pass">>
            /\ Streak(r.outcomes, Len(r.outcomes) - 1, r.clean)
    BY <2>9, <2>11
  <2>14. r.result = "converged" => Streak(r.outcomes, Len(r.outcomes), RequiredCleanCycles)
    BY <2>10, <2>11
  <2>15. r.attempt = Len(r.outcomes) + (IF Pending(r) THEN 1 ELSE 0)
    BY <2>1, <2>2, <2>11, <1>3
  <2>16. r.result = "exhausted" => r.outcomes[Len(r.outcomes)][2] \in {"fail", "changes_requested"}
    BY <2>3, <2>11
  <2>17. IsFiniteSet(Implementations(r.outcomes))
    BY <1>6, <2>11
  <2> HIDE DEF n, o, t
  <2> QED  BY <2>1, <2>3, <2>4, <2>11, <2>12, <2>13, <2>14, <2>15, <2>16, <2>17 DEF RunOK
<1> QED  BY <1>1, <1>5, <1>8, <1>9, <1>10, <1>11 DEF r

-----------------------------------------------------------------------------
Labels == Working \cup {"idle", "allocate", "worktree", "create", "lease", "unlink", "claim", "done", "dead"}
Answers == {"none", "converged", "exhausted", "rejected", "unknown", "threw"}

\* What a call knows of the row it read or wrote.
CallOK(c) ==
    /\ pc[c] \in {"lease", "unlink", "claim"} \cup Working =>
          /\ snap[c] \in Snapshot /\ team # NoRun
          /\ snap[c].version <= team.version
          /\ snap[c].version = team.version => snap[c] = team
    /\ pc[c] \in {"lease", "unlink", "claim"} => snap[c].state = "ready"
    /\ pc[c] \in Working => snap[c] = team /\ team.state = "running"
    /\ pc[c] = "acknowledge" => reply[c] \in Decisions[snap[c].role]

Alone == \A c, d \in Calls : pc[c] \in Working /\ pc[d] \in Working => c = d

Recorded(k) == k[2] \in DOMAIN team.outcomes /\ team.outcomes[k[2]][1] = k[1]

\* A reserved step is recorded or is the pending one; a reserved key whose
\* session has not started is known to the one call about to start it.
KeysOK ==
    /\ \A k \in DOMAIN rows \cap Step :
          team # NoRun /\ (Recorded(k) \/ (k = StepId(team) /\ Pending(team)))
    /\ \A k \in DOMAIN spawned : spawned[k] = 1
    /\ \A c \in Calls : pc[c] = "spawn" => StepId(snap[c]) \in DOMAIN rows \ DOMAIN spawned
    /\ \A k \in Actors : actor[k] = "reserved" => k \in DOMAIN rows \ DOMAIN spawned

BudgetOK ==
    /\ IsFiniteSet(DOMAIN rows)
    /\ \A k \in DOMAIN rows : rows[k].status = "active" => rows[k].amount = Allowance
    /\ WithinBudget
Runs == team # NoRun => RunOK(team)
CallsOK == \A c \in Calls : CallOK(c)

IInv == TypeOK /\ Runs /\ CallsOK /\ Alone /\ KeysOK /\ BudgetOK /\ AnswersAgree

\* What a step of a call does to the stored row.
TeamMove(c) ==
    \/ team' = team
    \/ team = NoRun /\ team' = Created(c)
    \/ /\ team # NoRun /\ team.state = "ready"
       /\ team' = Claimed(team)
    \/ /\ team # NoRun /\ team.state = "running" /\ pc[c] \in Working
       /\ \/ \E d \in Decisions[team.role] : team' = Acknowledged(team, d)
          \/ team' = RoleFailed(team)

LEMMA TeamMoved ==
  ASSUME TypeOK, Runs, NEW c \in Calls, TeamMove(c)
  PROVE  /\ team' \in Snapshot \cup {NoRun} /\ Runs'
         /\ team # NoRun =>
               /\ team' # NoRun /\ team'.version >= team.version
               /\ team'.version = team.version => team' = team
               /\ team.state \in {"completed", "failed"} => team' = team
<1>1. team \in Snapshot \cup {NoRun} /\ NoRun \notin Snapshot
  BY KeyAssumption DEF TypeOK
<1>2. CASE team' = team
  <2>1. Runs'
    BY <1>2 DEF Runs
  <2>2. team # NoRun => team.version \in Nat
    BY <1>1 DEF Snapshot
  <2> QED  BY <1>1, <1>2, <2>1, <2>2
<1>3. CASE team = NoRun /\ team' = Created(c)
  BY <1>1, <1>3, CreatedRun DEF Runs
<1>4. CASE team # NoRun /\ team.state = "ready" /\ team' = Claimed(team)
  <2>1. team \in Snapshot /\ RunOK(team) /\ team.version \in Nat
    BY <1>1, <1>4 DEF Runs, Snapshot
  <2>2. team' \in Snapshot /\ RunOK(team') /\ team'.version = team.version + 1
    BY <1>4, <2>1, ClaimedRun
  <2> QED  BY <1>1, <1>4, <2>1, <2>2 DEF Runs
<1>5. CASE /\ team # NoRun /\ team.state = "running" /\ pc[c] \in Working
           /\ \/ \E d \in Decisions[team.role] : team' = Acknowledged(team, d)
              \/ team' = RoleFailed(team)
  <2>1. team \in Snapshot /\ RunOK(team) /\ team.version \in Nat
    BY <1>1, <1>5 DEF Runs, Snapshot
  <2>2. team' \in Snapshot /\ RunOK(team') /\ team'.version = team.version + 1
    BY <1>5, <2>1, AcknowledgedRun, FailedRun
  <2> QED  BY <1>1, <1>5, <2>1, <2>2 DEF Runs
<1> QED  BY <1>2, <1>3, <1>4, <1>5 DEF TeamMove

\* What a step of a call leaves in its own locals.
Landing(c, l, s, d, v) ==
    /\ pc' = [pc EXCEPT ![c] = l] /\ snap' = [snap EXCEPT ![c] = s]
    /\ reply' = [reply EXCEPT ![c] = d] /\ answer' = [answer EXCEPT ![c] = v]
    /\ l \in {"lease", "unlink", "claim"} \cup Working =>
          /\ s \in Snapshot
          /\ \/ s = team'
             \/ s = snap[c] /\ pc[c] \in {"lease", "unlink", "claim"} \cup Working /\ team' = team
    /\ l \in {"lease", "unlink", "claim"} => s.state = "ready"
    /\ l \in Working =>
          /\ s = team' /\ team'.state = "running"
          /\ pc[c] \in Working \/ (team # NoRun /\ team.state = "ready" /\ pc[c] = "claim")
    /\ l = "acknowledge" => d \in Decisions[s.role]
    /\ \/ v = answer[c] \/ v \in {"unknown", "threw"}
       \/ v \in {"converged", "exhausted"} /\ team' # NoRun /\ team'.result = v
       \/ /\ v = "rejected" /\ team' # NoRun /\ team'.result = "none"
          /\ \/ team'.state = "failed"
             \/ team'.state = "running" /\ team' = team /\ pc[c] \in Working /\ l = "done"

LocalMove(c) ==
    \E l \in Labels, s \in Snapshot \cup {NoRun}, d \in {"none"} \cup Decision, v \in Answers :
        Landing(c, l, s, d, v)

\* Each step of a call is one of the moves above.
LEMMA CallMoves ==
  ASSUME TypeOK, Runs, CallsOK, NEW c \in Calls, CallStep(c)
  PROVE  TeamMove(c) /\ LocalMove(c)
<1>1. /\ team \in Snapshot \cup {NoRun} /\ NoRun \notin Snapshot
      /\ pc[c] \in Labels /\ snap[c] \in Snapshot \cup {NoRun}
      /\ reply[c] \in {"none"} \cup Decision /\ answer[c] \in Answers
      /\ pc \in [Calls -> Labels] /\ snap \in [Calls -> Snapshot \cup {NoRun}]
      /\ reply \in [Calls -> {"none"} \cup Decision] /\ answer \in [Calls -> Answers]
  BY KeyAssumption DEF TypeOK, Labels, Answers
<1>2. /\ CallOK(c)
      /\ team # NoRun => RunOK(team)
  BY DEF CallsOK, Runs
<1>3. ASSUME NEW s0 \in Snapshot, RunOK(s0), Proceed(c, s0), team' = s0, team' # NoRun
      PROVE  LocalMove(c)
  <2>1. s0.state \in {"ready", "running", "completed", "failed"} /\ s0.result \in {"none", "converged", "exhausted"}
    BY DEF Snapshot
  <2>2. CASE s0.result # "none" /\ Returns(c, s0.result)
    <3>1. Landing(c, "done", NoRun, "none", s0.result)
      BY <1>1, <1>3, <2>1, <2>2 DEF Returns, Landing, Working
    <3> QED  BY <3>1, <2>1, <2>2 DEF LocalMove, Labels, Answers
  <2>3. CASE s0.result = "none" /\ s0.state = "failed" /\ Returns(c, "rejected")
    <3>1. Landing(c, "done", NoRun, "none", "rejected")
      BY <1>1, <1>3, <2>1, <2>3 DEF Returns, Landing, Working
    <3> QED  BY <3>1 DEF LocalMove, Labels, Answers
  <2>4. CASE s0.state = "running" /\ Returns(c, IF c \in Recoveries THEN "unknown" ELSE "threw")
    <3> DEFINE w == IF c \in Recoveries THEN "unknown" ELSE "threw"
    <3>1. Landing(c, "done", NoRun, "none", w)
      BY <1>1, <1>3, <2>4 DEF Returns, Landing, Working
    <3>2. w \in Answers
      BY DEF Answers
    <3> QED  BY <3>1, <3>2 DEF LocalMove, Labels
  <2>5. CASE s0.state = "ready" /\ Goes(c, IF c \in Recoveries THEN "lease" ELSE "claim", s0)
    <3> DEFINE w == IF c \in Recoveries THEN "lease" ELSE "claim"
    <3>1. answer' = [answer EXCEPT ![c] = answer[c]]
      BY <1>1, <2>5 DEF Goes
    <3>2. Landing(c, w, s0, "none", answer[c])
      BY <1>1, <1>3, <2>5, <3>1 DEF Goes, Landing, Working
    <3>3. w \in Labels
      BY DEF Labels
    <3> QED  BY <1>1, <3>2, <3>3 DEF LocalMove
  <2> QED  BY <1>3, <2>2, <2>3, <2>4, <2>5 DEF Proceed
<1>4. ASSUME NEW w \in {"unknown", "threw"}, Returns(c, w)
      PROVE  LocalMove(c)
  <2>1. Landing(c, "done", NoRun, "none", w)
    BY <1>1, <1>4 DEF Returns, Landing, Working
  <2> QED  BY <2>1 DEF LocalMove, Labels, Answers
<1>5. ASSUME NEW w \in {"allocate", "worktree", "create", "dead"}, Goes(c, w, NoRun)
      PROVE  LocalMove(c)
  <2>1. answer' = [answer EXCEPT ![c] = answer[c]]
    BY <1>1, <1>5 DEF Goes
  <2>2. Landing(c, w, NoRun, "none", answer[c])
    BY <1>1, <1>5, <2>1 DEF Goes, Landing, Working
  <2> QED  BY <1>1, <2>2 DEF LocalMove, Labels
<1>6. ASSUME NEW w \in Working, w # "acknowledge", pc[c] \in Working, UNCHANGED team, Goes(c, w, snap[c])
      PROVE  LocalMove(c)
  <2>1. answer' = [answer EXCEPT ![c] = answer[c]]
    BY <1>1, <1>6 DEF Goes
  <2>2. snap[c] \in Snapshot /\ snap[c] = team /\ team.state = "running"
    BY <1>2, <1>6 DEF CallOK
  <2>3. Landing(c, w, snap[c], "none", answer[c])
    BY <1>1, <1>6, <2>1, <2>2 DEF Goes, Landing, Working
  <2> QED  BY <1>1, <2>3 DEF LocalMove, Labels
<1>24. ASSUME pc[c] \in Working, RejectedUnrecorded(c) PROVE TeamMove(c) /\ LocalMove(c)
  <2>1. /\ snap[c] = team /\ team # NoRun /\ team.state = "running" /\ RunOK(team)
        /\ team' = team /\ Returns(c, "rejected")
    BY <1>2, <1>24 DEF CallOK, RejectedUnrecorded
  <2>2. team.result = "none"
    BY <1>1, <2>1 DEF RunOK, Snapshot
  <2>3. Landing(c, "done", NoRun, "none", "rejected")
    BY <1>24, <2>1, <2>2 DEF Returns, Landing, Working
  <2> QED  BY <2>1, <2>3 DEF LocalMove, Labels, Answers, TeamMove
<1>7. Throws(c) => LocalMove(c)
  BY <1>4 DEF Throws
<1>8. CASE Begin(c)
  BY <1>1, <1>2, <1>3, <1>5, <1>8 DEF Begin, teamVars, TeamMove
<1>9. CASE TakeLease(c)
  BY <1>4, <1>5, <1>9 DEF TakeLease, TeamMove
<1>10. CASE AddWorktree(c)
  BY <1>4, <1>5, <1>10 DEF AddWorktree, TeamMove
<1>11. CASE CreateOrGet(c)
  <2>1. team' \in Snapshot /\ RunOK(team') /\ team' # NoRun
    BY <1>1, <1>2, <1>11, CreatedRun DEF CreateOrGet
  <2> QED  BY <1>3, <1>11, <2>1 DEF CreateOrGet, TeamMove
<1>12. CASE RecoverLease(c)
  <2>1. CASE Goes(c, "unlink", snap[c])
    <3>1. answer' = [answer EXCEPT ![c] = answer[c]]
      BY <1>1, <2>1 DEF Goes
    <3>2. Landing(c, "unlink", snap[c], "none", answer[c])
      BY <1>1, <1>2, <1>12, <2>1, <3>1 DEF RecoverLease, At, CallOK, Goes, Landing, Working, teamVars
    <3> QED  BY <1>1, <1>12, <3>2 DEF LocalMove, Labels, RecoverLease, TeamMove, teamVars
  <2> QED  BY <1>4, <1>12, <2>1 DEF RecoverLease, TeamMove, teamVars
<1>25. CASE RemoveLease(c)
  <2>1. Goes(c, "claim", snap[c])
    BY <1>25 DEF RemoveLease
  <2>2. answer' = [answer EXCEPT ![c] = answer[c]]
    BY <1>1, <2>1 DEF Goes
  <2>3. Landing(c, "claim", snap[c], "none", answer[c])
    BY <1>1, <1>2, <1>25, <2>1, <2>2 DEF RemoveLease, At, CallOK, Goes, Landing, Working
  <2> QED  BY <1>1, <1>25, <2>3 DEF LocalMove, Labels, RemoveLease, TeamMove
<1>13. CASE Claim(c)
  <2>1. CASE MaySave(c) /\ team' = Claimed(snap[c]) /\ Goes(c, "reserve", team')
    <3>1. team # NoRun /\ team.state = "ready" /\ snap[c] = team
      BY <1>2, <1>13, <2>1 DEF Claim, At, CallOK, MaySave
    <3>2. team \in Snapshot /\ RunOK(team) /\ team' = Claimed(team)
      BY <1>1, <1>2, <2>1, <3>1
    <3>3. team' \in Snapshot /\ team'.state = "running"
      BY <3>1, <3>2, ClaimedRun
    <3>4. answer' = [answer EXCEPT ![c] = answer[c]]
      BY <1>1, <2>1 DEF Goes
    <3>5. Landing(c, "reserve", team', "none", answer[c])
      BY <1>13, <2>1, <3>1, <3>3, <3>4 DEF Claim, At, Goes, Landing, Working
    <3> QED  BY <1>1, <3>1, <3>2, <3>3, <3>5 DEF LocalMove, Labels, Working, TeamMove
  <2> QED  BY <1>7, <1>13, <2>1 DEF Claim, TeamMove
<1>14. CASE ReserveStep(c)
  <2>1. pc[c] \in Working /\ UNCHANGED team
    BY <1>14 DEF ReserveStep, At, Working
  <2> QED  BY <1>6, <1>7, <1>14, <2>1 DEF ReserveStep, TeamMove, Working
<1>15. CASE SpawnRole(c)
  BY <1>6, <1>15 DEF SpawnRole, At, Working, teamVars, TeamMove
<1>16. ASSUME NEW cost \in Costs, RoleFails(c, cost)
       PROVE  TeamMove(c) /\ LocalMove(c)
  BY <1>6, <1>16 DEF RoleFails, At, Working, teamVars, TeamMove
<1>17. ASSUME NEW cost \in Costs, NEW e \in Decision, RoleAnswers(c, e, cost)
       PROVE  TeamMove(c) /\ LocalMove(c)
  <2>1. snap[c] \in Snapshot /\ snap[c] = team /\ team.state = "running" /\ e \in Decisions[snap[c].role]
    BY <1>2, <1>17 DEF RoleAnswers, At, CallOK, Working
  <2>2. answer' = [answer EXCEPT ![c] = answer[c]] /\ snap' = [snap EXCEPT ![c] = snap[c]]
    BY <1>1, <1>17 DEF RoleAnswers
  <2>3. Landing(c, "acknowledge", snap[c], e, answer[c])
    BY <1>17, <2>1, <2>2 DEF RoleAnswers, At, Landing, Working, teamVars
  <2> QED  BY <1>1, <1>17, <2>1, <2>3 DEF LocalMove, Labels, Working, RoleAnswers, teamVars, TeamMove
<1>18. CASE RoleUnpriced(c)
  BY <1>6, <1>18 DEF RoleUnpriced, At, Working, teamVars, TeamMove
<1>19. CASE RoleUnattributable(c)
  BY <1>7, <1>19 DEF RoleUnattributable, TeamMove
<1>20. CASE Acknowledge(c)
  <2>1. /\ snap[c] \in Snapshot /\ snap[c] = team /\ team.state = "running" /\ team # NoRun
        /\ reply[c] \in Decisions[team.role] /\ pc[c] \in Working
    BY <1>2, <1>20 DEF Acknowledge, At, CallOK, Working
  <2>2. team' = Acknowledged(team, reply[c])
    BY <1>20, <2>1 DEF Acknowledge
  <2>3. team' \in Snapshot /\ (team'.result # "none" \/ team'.state = "ready") /\ team' # NoRun
    BY <1>1, <1>2, <2>1, <2>2, AcknowledgedRun
  <2>4. TeamMove(c)
    BY <2>1, <2>2 DEF TeamMove
  <2>5. CASE team'.result = "none"
    <3>1. Goes(c, "claim", team')
      BY <1>20, <2>5 DEF Acknowledge
    <3>2. answer' = [answer EXCEPT ![c] = answer[c]]
      BY <1>1, <3>1 DEF Goes
    <3>3. Landing(c, "claim", team', "none", answer[c])
      BY <2>3, <2>5, <3>1, <3>2 DEF Goes, Landing, Working
    <3> QED  BY <1>1, <2>3, <2>4, <3>3 DEF LocalMove, Labels
  <2>6. CASE team'.result # "none"
    <3>1. Returns(c, team'.result) /\ team'.result \in {"converged", "exhausted"}
      BY <1>20, <2>3, <2>6 DEF Acknowledge, Snapshot
    <3>2. Landing(c, "done", NoRun, "none", team'.result)
      BY <2>3, <3>1 DEF Returns, Landing, Working
    <3> QED  BY <2>4, <3>1, <3>2 DEF LocalMove, Labels, Answers
  <2> QED  BY <2>5, <2>6
<1>21. CASE FailRole(c)
  <2>1. /\ snap[c] \in Snapshot /\ snap[c] = team /\ team.state = "running" /\ team # NoRun
        /\ pc[c] \in Working
    BY <1>2, <1>21 DEF FailRole, At, CallOK, Working
  <2>2. team' = RoleFailed(team)
    BY <1>21, <2>1 DEF FailRole
  <2>3. team' \in Snapshot /\ team'.state = "failed" /\ team'.result = "none" /\ team' # NoRun
    BY <1>1, <1>2, <2>1, <2>2, FailedRun
  <2>4. TeamMove(c)
    BY <2>1, <2>2 DEF TeamMove
  <2>5. Landing(c, "done", NoRun, "none", "rejected")
    BY <1>21, <2>3 DEF FailRole, Returns, Landing, Working
  <2> QED  BY <2>4, <2>5 DEF LocalMove, Labels, Answers
<1>26. CASE RoleUnrecordable(c)
  BY <1>24, <1>26 DEF RoleUnrecordable, At, Working
<1>27. CASE FailureUnsaved(c)
  BY <1>24, <1>27 DEF FailureUnsaved, At, Working
<1>22. CASE StoreThrows(c)
  BY <1>7, <1>22 DEF StoreThrows, TeamMove
<1>23. CASE Crash(c)
  BY <1>5, <1>23 DEF Crash, teamVars, TeamMove
<1> QED  BY <1>8, <1>9, <1>10, <1>11, <1>12, <1>13, <1>14, <1>15, <1>16, <1>17, <1>18, <1>19,
            <1>20, <1>21, <1>22, <1>23, <1>25, <1>26, <1>27 DEF CallStep

-----------------------------------------------------------------------------
\* What a step does to the reservations and to the sessions.
RowsMove ==
    \/ rows' = rows
    \/ \E k \in DOMAIN rows, cost \in Costs : Settle(k, cost)
    \/ \E k \in Step \cup Actors : Reserve(k)

CallKeys(c) ==
    \/ rows' = rows /\ spawned' = spawned /\ pc'[c] # "spawn"
    \/ /\ \E k \in DOMAIN rows, cost \in Costs : Settle(k, cost)
       /\ spawned' = spawned /\ pc'[c] # "spawn"
    \/ /\ pc[c] = "reserve" /\ pc'[c] = "spawn" /\ snap'[c] = snap[c]
       /\ Reserve(StepId(snap[c])) /\ spawned' = spawned /\ team' = team
    \/ /\ pc[c] = "spawn" /\ pc'[c] # "spawn"
       /\ rows' = rows /\ Start(StepId(snap[c])) /\ team' = team

LEMMA CallKeyMoves ==
  ASSUME TypeOK, NEW c \in Calls, CallStep(c)
  PROVE  CallKeys(c) /\ actor' = actor
<1> USE DEF CallKeys
<1>1. pc \in [Calls -> Labels] /\ snap \in [Calls -> Snapshot \cup {NoRun}]
  BY DEF TypeOK, Labels
<1>2. \A w, s : Goes(c, w, s) => pc'[c] = w /\ snap'[c] = s
  BY <1>1 DEF Goes
<1>3. \A w : Returns(c, w) => pc'[c] = "done"
  BY <1>1 DEF Returns
<1>4. \A s : Proceed(c, s) => pc'[c] \in {"done", "lease", "claim"}
  BY <1>2, <1>3 DEF Proceed
<1>5. Throws(c) => pc'[c] = "done"
  BY <1>3 DEF Throws
<1>6. CASE Begin(c)
  BY <1>2, <1>4, <1>6 DEF Begin
<1>7. CASE TakeLease(c)
  BY <1>2, <1>3, <1>7 DEF TakeLease
<1>8. CASE AddWorktree(c)
  BY <1>2, <1>3, <1>8 DEF AddWorktree
<1>9. CASE CreateOrGet(c)
  BY <1>4, <1>9 DEF CreateOrGet
<1>10. CASE RecoverLease(c)
  BY <1>2, <1>3, <1>10 DEF RecoverLease
<1>22. CASE RemoveLease(c)
  BY <1>2, <1>22 DEF RemoveLease
<1>23. RejectedUnrecorded(c) => pc'[c] = "done" /\ spawned' = spawned /\ actor' = actor
  BY <1>3 DEF RejectedUnrecorded
<1>24. CASE RoleUnrecordable(c)
  BY <1>23, <1>24 DEF RoleUnrecordable, Settle
<1>25. CASE FailureUnsaved(c)
  BY <1>23, <1>25 DEF FailureUnsaved
<1>11. CASE Claim(c)
  BY <1>2, <1>5, <1>11 DEF Claim
<1>12. CASE ReserveStep(c)
  BY <1>2, <1>5, <1>12 DEF ReserveStep, At
<1>13. CASE SpawnRole(c)
  BY <1>2, <1>13 DEF SpawnRole, At, teamVars
<1>14. ASSUME NEW cost \in Costs, RoleFails(c, cost)
       PROVE  CallKeys(c) /\ actor' = actor
  BY <1>2, <1>14 DEF RoleFails, Settle
<1>15. ASSUME NEW cost \in Costs, NEW e \in Decision, RoleAnswers(c, e, cost)
       PROVE  CallKeys(c) /\ actor' = actor
  BY <1>1, <1>15 DEF RoleAnswers, Settle
<1>16. CASE RoleUnpriced(c)
  BY <1>2, <1>16 DEF RoleUnpriced
<1>17. CASE RoleUnattributable(c)
  BY <1>5, <1>17 DEF RoleUnattributable, Settle
<1>18. CASE Acknowledge(c)
  BY <1>2, <1>3, <1>18 DEF Acknowledge
<1>19. CASE FailRole(c)
  BY <1>3, <1>19 DEF FailRole
<1>20. CASE StoreThrows(c)
  BY <1>5, <1>20 DEF StoreThrows
<1>21. CASE Crash(c)
  BY <1>2, <1>21 DEF Crash
<1> QED  BY <1>6, <1>7, <1>8, <1>9, <1>10, <1>11, <1>12, <1>13, <1>14, <1>15, <1>16, <1>17,
            <1>18, <1>19, <1>20, <1>21, <1>22, <1>24, <1>25 DEF CallStep

\* What each reservation is charged, without what it overran.
Capped(table) ==
    [k \in DOMAIN table |-> IF table[k].amount <= Allowance THEN table[k].amount ELSE Allowance]
Rows(table) == IsFiniteSet(DOMAIN table) /\ \A k \in DOMAIN table : table[k] \in Row

\* Every charge is a natural number, and a capped one is at most the full one.
LEMMA Charges ==
  ASSUME NEW table, Rows(table)
  PROVE  /\ Natural(Capped(table), DOMAIN table)
         /\ \A k \in DOMAIN table : Capped(table)[k] =< table[k].amount /\ table[k].amount \in Nat
  BY BudgetAssumption DEF Rows, Row, Capped, Natural

\* A reservation the budget admits leaves the capped charges within it.
LEMMA ReservedFits ==
  ASSUME NEW k, Rows(rows), Rows(rows'), Reserve(k)
  PROVE  ChargeIsBounded'
<1> DEFINE D == DOMAIN rows
           old == [x \in D |-> rows[x].amount]
           after == Capped(rows')
<1>1. k \notin D /\ Charged(rows) + Allowance <= MaxCharge /\ rows' = With(rows, k, Active)
  BY DEF Reserve, Admits
<1>2. DOMAIN rows' = D \cup {k} /\ rows'[k].amount = Allowance /\ \A x \in D : rows'[x] = rows[x]
  BY <1>1 DEF With, Active
<1>3. after[k] = Allowance /\ \A x \in D : after[x] = Capped(rows)[x]
  BY <1>2, BudgetAssumption DEF Capped
<1>4. Natural(after, D \cup {k}) /\ Natural(after, D) /\ Natural(old, D) /\ \A x \in D : after[x] =< old[x]
  BY <1>2, <1>3, Charges DEF Natural
<1> HIDE DEF after, old
<1>5. SumFunctionOnSet(after, D \cup {k}) = after[k] + SumFunctionOnSet(after, D)
  BY <1>1, <1>4, SumWith DEF Rows
<1>6. SumFunctionOnSet(after, D) =< SumFunctionOnSet(old, D)
  BY <1>4, SumAtMost DEF Rows
<1>7. SumFunctionOnSet(after, D) \in Nat /\ SumFunctionOnSet(old, D) \in Nat
  BY <1>4, SumIsNat DEF Rows
<1>8. Charged(rows) = SumFunctionOnSet(old, D)
  BY DEF Charged, SumFunction, old
<1>9. SumFunction(after) = SumFunctionOnSet(after, D \cup {k})
  BY <1>2 DEF SumFunction, after, Capped
<1>10. SumFunction(after) <= MaxCharge
  BY <1>1, <1>3, <1>5, <1>6, <1>7, <1>8, <1>9, BudgetAssumption
<1> QED  BY <1>10 DEF ChargeIsBounded, after, Capped

\* A receipt takes the place of the allowance, and is capped at it.
LEMMA SettledFits ==
  ASSUME NEW k \in DOMAIN rows, NEW cost \in Costs, Rows(rows), Rows(rows'), BudgetOK, Settle(k, cost)
  PROVE  ChargeIsBounded'
<1>1. DOMAIN rows' = DOMAIN rows /\ \A x \in DOMAIN rows \ {k} : rows'[x] = rows[x]
  BY DEF Settle, With
<1>2. Capped(rows)[k] = Allowance
  BY BudgetAssumption DEF Settle, BudgetOK, Capped
<1>3. \A x \in DOMAIN rows : Capped(rows')[x] =< Capped(rows)[x]
  <2>1. Capped(rows')[k] =< Allowance
    BY <1>1, BudgetAssumption DEF Capped, Rows, Row
  <2>2. \A x \in DOMAIN rows \ {k} : Capped(rows')[x] = Capped(rows)[x] /\ Capped(rows)[x] \in Nat
    BY <1>1, Charges DEF Capped, Natural
  <2> QED  BY <1>2, <2>1, <2>2
<1>4. Natural(Capped(rows), DOMAIN rows) /\ Natural(Capped(rows'), DOMAIN rows)
  BY <1>1, Charges
<1>5. SumFunctionOnSet(Capped(rows'), DOMAIN rows) =< SumFunctionOnSet(Capped(rows), DOMAIN rows)
  BY <1>3, <1>4, SumAtMost DEF Rows
<1>6. /\ SumFunctionOnSet(Capped(rows'), DOMAIN rows) \in Nat
      /\ SumFunctionOnSet(Capped(rows), DOMAIN rows) \in Nat
  BY <1>4, SumIsNat DEF Rows
<1>7. /\ SumFunction(Capped(rows)) = SumFunctionOnSet(Capped(rows), DOMAIN rows)
      /\ SumFunction(Capped(rows')) = SumFunctionOnSet(Capped(rows'), DOMAIN rows)
  BY <1>1 DEF SumFunction, Capped
<1>8. SumFunction(Capped(rows)) <= MaxCharge
  BY DEF BudgetOK, WithinBudget, ChargeIsBounded, Capped
<1>9. SumFunction(Capped(rows')) <= MaxCharge
  BY <1>5, <1>6, <1>7, <1>8, BudgetAssumption
<1> QED  BY <1>9 DEF ChargeIsBounded, Capped

\* The reservations keep their type, and their number and charge their limits.
LEMMA RowsMoved ==
  ASSUME \A k \in DOMAIN rows : rows[k] \in Row, DOMAIN rows \subseteq Step \cup Actors,
         BudgetOK, RowsMove
  PROVE  /\ \A k \in DOMAIN rows' : rows'[k] \in Row
         /\ DOMAIN rows' \subseteq Step \cup Actors
         /\ DOMAIN rows \subseteq DOMAIN rows' /\ BudgetOK'
<1>1. CASE rows' = rows
  BY <1>1 DEF BudgetOK, WithinBudget, CallsAreBounded, PaidCalls, ChargeIsBounded
<1>2. ASSUME NEW k \in DOMAIN rows, NEW cost \in Costs, Settle(k, cost)
      PROVE  /\ \A x \in DOMAIN rows' : rows'[x] \in Row
             /\ DOMAIN rows' = DOMAIN rows /\ BudgetOK'
  <2>1. Settled(cost) \in Row /\ Settled(cost).status = "settled"
    BY TeamAssumption DEF Settled, Row
  <2>2. /\ DOMAIN rows' = DOMAIN rows /\ rows'[k] = Settled(cost)
        /\ \A x \in DOMAIN rows \ {k} : rows'[x] = rows[x]
    BY <1>2 DEF Settle, With
  <2>3. \A x \in DOMAIN rows' : rows'[x] \in Row
    BY <2>1, <2>2
  <2>4. \A x \in DOMAIN rows' : rows'[x].status = "active" => rows'[x].amount = Allowance
    BY <2>1, <2>2 DEF BudgetOK
  <2>5. Rows(rows) /\ Rows(rows')
    BY <2>2, <2>3 DEF Rows, BudgetOK
  <2>6. ChargeIsBounded'
    BY <1>2, <2>5, SettledFits
  <2>7. IsFiniteSet(DOMAIN rows') /\ CallsAreBounded'
    BY <2>2 DEF BudgetOK, WithinBudget, CallsAreBounded, PaidCalls
  <2> QED  BY <2>2, <2>3, <2>4, <2>6, <2>7 DEF BudgetOK, WithinBudget
<1>3. ASSUME NEW k \in Step \cup Actors, Reserve(k)
      PROVE  /\ \A x \in DOMAIN rows' : rows'[x] \in Row
             /\ DOMAIN rows' = DOMAIN rows \cup {k} /\ BudgetOK'
  <2>1. Active \in Row /\ Active.amount = Allowance
    BY BudgetAssumption DEF Active, Row
  <2>2. k \notin DOMAIN rows /\ PaidCalls + 1 <= MaxPaidCalls /\ rows' = With(rows, k, Active)
    BY <1>3 DEF Reserve, Admits
  <2>3. /\ DOMAIN rows' = DOMAIN rows \cup {k} /\ rows'[k] = Active
        /\ \A x \in DOMAIN rows : rows'[x] = rows[x]
    BY <2>2 DEF With
  <2>4. \A x \in DOMAIN rows' : rows'[x] \in Row
    BY <2>1, <2>3
  <2>5. IsFiniteSet(DOMAIN rows') /\ Cardinality(DOMAIN rows') = Cardinality(DOMAIN rows) + 1
    <3>1. IsFiniteSet(DOMAIN rows)
      BY DEF BudgetOK
    <3> QED  BY <2>2, <2>3, <3>1, FS_AddElement
  <2>6. CallsAreBounded'
    BY <2>2, <2>5 DEF CallsAreBounded, PaidCalls
  <2>7. ChargeIsBounded'
    BY <1>3, <2>4, <2>5, ReservedFits DEF Rows, BudgetOK
  <2>8. \A x \in DOMAIN rows' : rows'[x].status = "active" => rows'[x].amount = Allowance
    BY <2>1, <2>3 DEF BudgetOK
  <2> QED  BY <2>3, <2>4, <2>5, <2>6, <2>7, <2>8 DEF BudgetOK, WithinBudget
<1> QED  BY <1>1, <1>2, <1>3 DEF RowsMove

-----------------------------------------------------------------------------
LEMMA InitIInv == Init => IInv
<1> SUFFICES ASSUME Init PROVE IInv
  OBVIOUS
<1>1. DOMAIN rows = {} /\ DOMAIN spawned = {}
  BY DEF Init, BudgetInit
<1>2. TypeOK
  BY <1>1 DEF Init, TypeOK, Working
<1>3. Runs /\ CallsOK /\ Alone /\ AnswersAgree
  BY DEF Init, Runs, CallsOK, CallOK, Alone, AnswersAgree, Working
<1>4. KeysOK
  BY <1>1 DEF Init, KeysOK
<1>5. BudgetOK
  <2>1. CallsAreBounded /\ IsFiniteSet(DOMAIN rows)
    BY <1>1, FS_EmptySet, BudgetAssumption DEF CallsAreBounded, PaidCalls
  <2>2. SumFunction(Capped(rows)) = 0
    BY <1>1, SumEmpty DEF SumFunction, Capped
  <2>3. ChargeIsBounded
    BY <2>2, BudgetAssumption DEF ChargeIsBounded, Capped
  <2> QED  BY <1>1, <2>1, <2>3 DEF BudgetOK, WithinBudget
<1> QED  BY <1>2, <1>3, <1>4, <1>5 DEF IInv

\* The calls' knowledge of the row, and that at most one of them works on it.
LEMMA CallsKept ==
  ASSUME IInv, NEW c \in Calls, TeamMove(c), LocalMove(c)
  PROVE  CallsOK' /\ Alone' /\ AnswersAgree'
<1>1. PICK l \in Labels, s \in Snapshot \cup {NoRun}, d \in {"none"} \cup Decision, v \in Answers :
        Landing(c, l, s, d, v)
  BY DEF LocalMove
<1>2. /\ pc \in [Calls -> Labels] /\ snap \in [Calls -> Snapshot \cup {NoRun}]
      /\ reply \in [Calls -> {"none"} \cup Decision] /\ answer \in [Calls -> Answers]
      /\ team \in Snapshot \cup {NoRun} /\ NoRun \notin Snapshot
  BY KeyAssumption DEF IInv, TypeOK, Labels, Answers
<1>3. /\ team' \in Snapshot \cup {NoRun}
      /\ team # NoRun =>
            /\ team' # NoRun /\ team'.version >= team.version
            /\ team'.version = team.version => team' = team
            /\ team.state \in {"completed", "failed"} => team' = team
  BY TeamMoved DEF IInv
<1>4. /\ pc'[c] = l /\ snap'[c] = s /\ reply'[c] = d /\ answer'[c] = v
      /\ \A x \in Calls : x # c =>
            pc'[x] = pc[x] /\ snap'[x] = snap[x] /\ reply'[x] = reply[x] /\ answer'[x] = answer[x]
  BY <1>1, <1>2 DEF Landing
<1>5. \A x \in Calls : CallOK(x)
  BY DEF IInv, CallsOK
<1>6. team # NoRun => team.version \in Nat
  BY <1>2 DEF Snapshot
<1>7. \A x \in Calls : x # c /\ pc[x] \in Working => team' = team
  <2> SUFFICES ASSUME NEW x \in Calls, x # c, pc[x] \in Working PROVE team' = team
    OBVIOUS
  <2>1. team # NoRun /\ team.state = "running" /\ pc[c] \notin Working
    BY <1>5 DEF IInv, Alone, CallOK
  <2> QED  BY <2>1 DEF TeamMove
<1>8. CallOK(c)'
  <2>1. CASE l \in {"lease", "unlink", "claim"} \cup Working
    <3>1. s \in Snapshot /\ s.version \in Nat
      BY <1>1, <2>1 DEF Landing, Snapshot
    <3>2. CASE s = team'
      BY <1>1, <1>2, <1>4, <2>1, <3>1, <3>2 DEF Landing, CallOK
    <3>3. CASE s = snap[c] /\ pc[c] \in {"lease", "unlink", "claim"} \cup Working /\ team' = team
      BY <1>1, <1>4, <1>5, <2>1, <3>1, <3>3 DEF Landing, CallOK
    <3> QED  BY <1>1, <2>1, <3>2, <3>3 DEF Landing
  <2>2. CASE l \notin {"lease", "unlink", "claim"} \cup Working
    BY <1>4, <2>2 DEF CallOK, Working
  <2> QED  BY <2>1, <2>2
<1>9. ASSUME NEW x \in Calls, x # c PROVE CallOK(x)'
  <2>1. CallOK(x)
    BY <1>5
  <2>2. CASE pc[x] \in {"lease", "unlink", "claim"} \cup Working
    <3>1. snap[x] \in Snapshot /\ team # NoRun /\ snap[x].version <= team.version
          /\ (snap[x].version = team.version => snap[x] = team) /\ snap[x].version \in Nat
      BY <2>1, <2>2 DEF CallOK, Snapshot
    <3>2. team' # NoRun /\ team'.version \in Nat
      BY <1>3, <3>1 DEF Snapshot
    <3>3. snap[x].version <= team'.version /\ (snap[x].version = team'.version => snap[x] = team')
      BY <1>3, <1>6, <3>1, <3>2
    <3> QED  BY <1>4, <1>7, <1>9, <2>1, <3>1, <3>2, <3>3 DEF CallOK
  <2>3. CASE pc[x] \notin {"lease", "unlink", "claim"} \cup Working
    BY <1>4, <1>9, <2>3 DEF CallOK, Working
  <2> QED  BY <2>2, <2>3
<1>10. CallsOK'
  BY <1>8, <1>9 DEF CallsOK
<1>11. Alone'
  <2> SUFFICES ASSUME NEW x \in Calls, x # c, pc[x] \in Working, l \in Working PROVE FALSE
    BY <1>4 DEF Alone, IInv
  <2>1. team.state = "running" /\ pc[c] \notin Working
    BY <1>5 DEF IInv, Alone, CallOK
  <2> QED  BY <1>1, <2>1 DEF Landing
<1>12. AnswersAgree'
  <2>1. ASSUME NEW x \in Calls, answer[x] \in {"converged", "exhausted"}
        PROVE  team' # NoRun /\ team'.result = answer[x]
    <3>1. team # NoRun /\ team.result = answer[x]
      BY <2>1 DEF IInv, AnswersAgree
    <3>2. team.state \in {"completed", "failed"}
      BY <2>1, <3>1 DEF IInv, Runs, RunOK
    <3> QED  BY <1>3, <3>1, <3>2
  <2> DEFINE Ended == \/ team'.state = "failed"
                      \/ team'.state = "running" /\ \A y \in Calls : pc'[y] \notin Working
  <2>2. ASSUME NEW x \in Calls, answer[x] = "rejected"
        PROVE  team' # NoRun /\ team'.result = "none" /\ Ended
    <3>1. /\ team # NoRun /\ team.result = "none"
          /\ \/ team.state = "failed"
             \/ team.state = "running" /\ \A y \in Calls : pc[y] \notin Working
      BY <2>2 DEF IInv, AnswersAgree
    <3>2. CASE team.state = "failed"
      BY <1>3, <3>1, <3>2
    <3>3. CASE team.state = "running" /\ \A y \in Calls : pc[y] \notin Working
      <4>1. team' = team
        BY <3>1, <3>3 DEF TeamMove
      <4>2. l \notin Working
        BY <1>1, <3>3 DEF Landing
      <4> QED  BY <1>4, <3>1, <3>3, <4>1, <4>2
    <3> QED  BY <3>1, <3>2, <3>3
  <2>3. ASSUME v = "rejected", v # answer[c]
        PROVE  team' # NoRun /\ team'.result = "none" /\ Ended
    <3>1. /\ team' # NoRun /\ team'.result = "none"
          /\ \/ team'.state = "failed"
             \/ team'.state = "running" /\ pc[c] \in Working /\ l = "done"
      BY <1>1, <2>3 DEF Landing
    <3>2. ASSUME pc[c] \in Working, l = "done", NEW y \in Calls PROVE pc'[y] \notin Working
      BY <1>4, <3>2 DEF IInv, Alone, Working
    <3> QED  BY <3>1, <3>2
  <2>4. v \in {"converged", "exhausted"} => team' # NoRun /\ team'.result = v
    BY <1>1, <2>1 DEF Landing
  <2> QED  BY <1>4, <2>1, <2>2, <2>3, <2>4 DEF AnswersAgree
<1> QED  BY <1>10, <1>11, <1>12

LEMMA WorktreeTyped ==
  ASSUME TypeOK, NEW c \in Calls, CallStep(c)
  PROVE  lease' \in Calls \cup {Free} /\ worktree' \in BOOLEAN /\ handle' \in [Calls -> BOOLEAN]
<1> USE DEF TypeOK
<1>1. Release(c) => lease' \in Calls \cup {Free} /\ handle' \in [Calls -> BOOLEAN]
  BY DEF Release
<1>2. CASE Begin(c) \/ SpawnRole(c) \/ RoleUnpriced(c)
  BY <1>2 DEF Begin, SpawnRole, RoleUnpriced, teamVars
<1>3. CASE TakeLease(c) \/ AddWorktree(c) \/ CreateOrGet(c) \/ RecoverLease(c) \/ RemoveLease(c)
  BY <1>1, <1>3 DEF TakeLease, AddWorktree, CreateOrGet, RecoverLease, RemoveLease, teamVars
<1>4. CASE Claim(c) \/ ReserveStep(c) \/ RoleUnattributable(c) \/ StoreThrows(c)
  BY <1>1, <1>4 DEF Claim, ReserveStep, RoleUnattributable, StoreThrows, Throws
<1>8. CASE RoleUnrecordable(c) \/ FailureUnsaved(c)
  BY <1>1, <1>8 DEF RoleUnrecordable, FailureUnsaved, RejectedUnrecorded
<1>5. CASE Acknowledge(c) \/ FailRole(c)
  BY <1>1, <1>5 DEF Acknowledge, FailRole
<1>6. CASE Crash(c)
  BY <1>6 DEF Crash, teamVars
<1>7. ASSUME NEW cost \in Costs, RoleFails(c, cost) \/ \E d \in Decision : RoleAnswers(c, d, cost)
      PROVE  lease' \in Calls \cup {Free} /\ worktree' \in BOOLEAN /\ handle' \in [Calls -> BOOLEAN]
  BY <1>7 DEF RoleFails, RoleAnswers, teamVars
<1> QED  BY <1>2, <1>3, <1>4, <1>5, <1>6, <1>7, <1>8 DEF CallStep

\* Starting a session under a reserved key that has none.
LEMMA Started ==
  ASSUME NEW k \in DOMAIN rows \ DOMAIN spawned, Start(k),
         DOMAIN spawned \subseteq DOMAIN rows, \A x \in DOMAIN spawned : spawned[x] = 1
  PROVE  /\ DOMAIN spawned' = DOMAIN spawned \cup {k}
         /\ \A x \in DOMAIN spawned' : spawned'[x] = 1
BY DEF Start, Spawned, With

LEMMA StepIdTyped == \A s \in Snapshot : StepId(s) \in Step
BY DEF Snapshot, StepId, Step

\* What the row records of a step, it records for ever; a move of the row
\* records the step that was pending.
LEMMA RecordedKept ==
  ASSUME IInv, NEW c \in Calls, TeamMove(c), NEW k \in Step, team # NoRun,
         Recorded(k) \/ (k = StepId(team) /\ Pending(team))
  PROVE  team' # NoRun /\ (Recorded(k)' \/ (k = StepId(team') /\ Pending(team')))
<1>1. team \in Snapshot /\ RunOK(team) /\ team.outcomes \in Seq(Outcome) /\ team.attempt \in Nat
  BY DEF IInv, TypeOK, Runs, Snapshot
<1>2. team' # NoRun
  BY TeamMoved DEF IInv
<1>3. CASE team' = team
  BY <1>3 DEF Recorded
<1>4. CASE team.state = "ready" /\ team' = Claimed(team)
  BY <1>1, <1>2, <1>4, ClaimedRun DEF Recorded, Pending
<1>5. CASE team.state = "running" /\ team' = RoleFailed(team)
  <2>1. Pending(team')
    BY <1>1, <1>5, FailedRun DEF Pending
  <2> QED  BY <1>1, <1>2, <1>5, <2>1, FailedRun DEF Recorded
<1>6. ASSUME team.state = "running", NEW d \in Decisions[team.role], team' = Acknowledged(team, d)
      PROVE  Recorded(k)'
  <2>1. /\ Len(team'.outcomes) = team.attempt
        /\ team'.outcomes[team.attempt] = <<team.role, d>>
        /\ \A i \in 1 .. Len(team.outcomes) : team'.outcomes[i] = team.outcomes[i]
        /\ team' \in Snapshot
    BY <1>1, <1>6, AcknowledgedRun
  <2>2. team.attempt = Len(team.outcomes) + 1
    BY <1>1, <1>6 DEF RunOK, Pending
  <2>3. DOMAIN team'.outcomes = 1 .. team.attempt /\ DOMAIN team.outcomes = 1 .. Len(team.outcomes)
    BY <1>1, <2>1 DEF Snapshot
  <2>4. CASE Recorded(k)
    BY <1>1, <2>1, <2>2, <2>3, <2>4 DEF Recorded
  <2>5. CASE k = StepId(team)
    <3>1. k[1] = team.role /\ k[2] = team.attempt /\ team.attempt \in 1 .. team.attempt
      BY <1>1, <2>2, <2>5 DEF StepId
    <3> QED  BY <2>1, <2>3, <3>1 DEF Recorded
  <2> QED  BY <2>4, <2>5
<1> QED  BY <1>2, <1>3, <1>4, <1>5, <1>6 DEF TeamMove

LEMMA CallKeysKept ==
  ASSUME IInv, NEW c \in Calls, CallStep(c)
  PROVE  IInv'
<1>1. TeamMove(c) /\ LocalMove(c)
  BY CallMoves DEF IInv
<1>2. CallKeys(c) /\ actor' = actor
  BY CallKeyMoves DEF IInv
<1>3. CallsOK' /\ Alone' /\ AnswersAgree'
  BY <1>1, CallsKept
<1>4. Runs' /\ team' \in Snapshot \cup {NoRun}
  BY <1>1, TeamMoved DEF IInv
<1>5. PICK l \in Labels, s \in Snapshot \cup {NoRun}, d \in {"none"} \cup Decision, v \in Answers :
        Landing(c, l, s, d, v)
  BY <1>1 DEF LocalMove
<1>6. /\ pc \in [Calls -> Labels] /\ snap \in [Calls -> Snapshot \cup {NoRun}]
      /\ reply \in [Calls -> {"none"} \cup Decision] /\ answer \in [Calls -> Answers]
      /\ DOMAIN rows \subseteq Step \cup Actors /\ DOMAIN spawned \subseteq DOMAIN rows
      /\ \A k \in DOMAIN rows : rows[k] \in Row
  BY DEF IInv, TypeOK, Labels, Answers
<1>7. /\ pc' \in [Calls -> Labels] /\ snap' \in [Calls -> Snapshot \cup {NoRun}]
      /\ reply' \in [Calls -> {"none"} \cup Decision] /\ answer' \in [Calls -> Answers]
      /\ \A x \in Calls : x # c => pc'[x] = pc[x] /\ snap'[x] = snap[x]
  BY <1>5, <1>6 DEF Landing
<1>9. RowsMove
  <2>1. CASE pc[c] = "reserve" /\ Reserve(StepId(snap[c]))
    <3>1. StepId(snap[c]) \in Step
      BY <2>1, StepIdTyped DEF IInv, CallsOK, CallOK, Working
    <3> QED  BY <2>1, <3>1 DEF RowsMove
  <2> QED  BY <1>2, <2>1 DEF CallKeys, RowsMove
<1>10. /\ \A k \in DOMAIN rows' : rows'[k] \in Row
       /\ DOMAIN rows' \subseteq Step \cup Actors
       /\ DOMAIN rows \subseteq DOMAIN rows' /\ BudgetOK'
  BY <1>6, <1>9, RowsMoved DEF IInv
<1>11. ASSUME (/\ spawned' = spawned /\ pc'[c] # "spawn"
               /\ \/ rows' = rows
                  \/ \E k \in DOMAIN rows, cost \in Costs : Settle(k, cost))
       PROVE  KeysOK'
  <2>1. DOMAIN rows' = DOMAIN rows
    BY <1>11 DEF Settle, With
  <2>2. \A k \in DOMAIN rows' \cap Step :
           team' # NoRun /\ (Recorded(k)' \/ (k = StepId(team') /\ Pending(team')))
    BY <1>1, <2>1, RecordedKept DEF IInv, KeysOK
  <2> QED  BY <1>2, <1>6, <1>7, <1>11, <2>1, <2>2 DEF IInv, KeysOK
<1>12. ASSUME (/\ pc[c] = "reserve" /\ pc'[c] = "spawn" /\ snap'[c] = snap[c]
               /\ Reserve(StepId(snap[c])) /\ spawned' = spawned /\ team' = team)
       PROVE  KeysOK'
  <2>1. /\ snap[c] = team /\ team # NoRun /\ team.state = "running" /\ Pending(team)
        /\ StepId(team) \in Step
    BY <1>12, StepIdTyped DEF IInv, CallsOK, CallOK, Working, Pending
  <2>2. DOMAIN rows' = DOMAIN rows \cup {StepId(team)} /\ StepId(team) \notin DOMAIN rows
    BY <1>12, <2>1 DEF Reserve, Admits, With
  <2>3. \A k \in DOMAIN rows' \cap Step :
           team' # NoRun /\ (Recorded(k)' \/ (k = StepId(team') /\ Pending(team')))
    BY <1>12, <2>1, <2>2 DEF IInv, KeysOK, Recorded
  <2>4. \A x \in Calls : pc'[x] = "spawn" => StepId(snap'[x]) \in DOMAIN rows' \ DOMAIN spawned'
    BY <1>6, <1>7, <1>12, <2>1, <2>2 DEF IInv, KeysOK
  <2> QED  BY <1>2, <1>6, <1>12, <2>2, <2>3, <2>4 DEF IInv, KeysOK
<1>13. ASSUME (/\ pc[c] = "spawn" /\ pc'[c] # "spawn"
               /\ rows' = rows /\ Start(StepId(snap[c])) /\ team' = team)
       PROVE  KeysOK'
  <2>1. /\ snap[c] = team /\ StepId(team) \in Step /\ StepId(team) \in DOMAIN rows \ DOMAIN spawned
    BY <1>13, StepIdTyped DEF IInv, CallsOK, CallOK, Working, KeysOK
  <2>2. /\ DOMAIN spawned' = DOMAIN spawned \cup {StepId(team)}
        /\ \A x \in DOMAIN spawned' : spawned'[x] = 1
    BY <1>6, <1>13, <2>1, Started DEF IInv, KeysOK
  <2>3. \A x \in Calls : pc'[x] # "spawn"
    BY <1>7, <1>13 DEF IInv, Alone, Working
  <2>4. \A k \in Actors : k # StepId(team)
    BY <2>1, KeyAssumption
  <2>5. \A k \in DOMAIN rows' \cap Step :
           team' # NoRun /\ (Recorded(k)' \/ (k = StepId(team') /\ Pending(team')))
    BY <1>13 DEF IInv, KeysOK, Recorded
  <2> QED  BY <1>2, <1>13, <2>2, <2>3, <2>4, <2>5 DEF IInv, KeysOK
<1>14. KeysOK'
  BY <1>2, <1>11, <1>12, <1>13 DEF CallKeys
<1>15. DOMAIN spawned' \subseteq DOMAIN rows' /\ \A k \in DOMAIN spawned' : spawned'[k] \in Nat
  <2>1. DOMAIN spawned' \subseteq DOMAIN rows'
    <3>1. CASE spawned' = spawned
      BY <1>6, <1>10, <3>1
    <3>2. CASE pc[c] = "spawn" /\ Start(StepId(snap[c])) /\ rows' = rows
      BY <1>6, <3>2 DEF IInv, KeysOK, Start, With
    <3> QED  BY <1>2, <3>1, <3>2 DEF CallKeys
  <2> QED  BY <1>14, <2>1 DEF KeysOK
<1>16. TypeOK'
  BY <1>2, <1>4, <1>7, <1>10, <1>15, WorktreeTyped DEF IInv, TypeOK, Labels, Answers
<1> QED  BY <1>3, <1>4, <1>10, <1>14, <1>16 DEF IInv

LEMMA ActorKeysKept ==
  ASSUME IInv, NEW k \in Actors, ActorStep(k)
  PROVE  IInv'
<1>1. /\ DOMAIN rows \subseteq Step \cup Actors /\ DOMAIN spawned \subseteq DOMAIN rows
      /\ \A x \in DOMAIN rows : rows[x] \in Row
      /\ \A x \in DOMAIN spawned : spawned[x] \in Nat
      /\ actor \in [Actors -> {"idle", "reserved", "running"}] /\ k \notin Step
  BY KeyAssumption DEF IInv, TypeOK
<1>2. /\ UNCHANGED <<teamVars, pc, snap, handle, reply, answer>>
      /\ actor' \in [Actors -> {"idle", "reserved", "running"}]
      /\ \A x \in Actors : x # k => actor'[x] = actor[x]
      /\ RowsMove
      /\ DOMAIN rows' \cap Step = DOMAIN rows \cap Step
      /\ \/ spawned' = spawned /\ actor'[k] # "reserved" /\ DOMAIN rows' = DOMAIN rows
         \/ /\ spawned' = spawned /\ k \notin DOMAIN rows
            /\ DOMAIN rows' = DOMAIN rows \cup {k}
         \/ rows' = rows /\ actor[k] = "reserved" /\ actor'[k] # "reserved" /\ Start(k)
  <2>1. CASE ActorReserve(k)
    <3>1. Reserve(k) /\ k \notin DOMAIN rows /\ DOMAIN rows' = DOMAIN rows \cup {k}
      BY <2>1 DEF ActorReserve, Reserve, Admits, With
    <3> QED  BY <1>1, <2>1, <3>1 DEF ActorReserve, RowsMove
  <2>2. CASE ActorSpawn(k)
    BY <1>1, <2>2 DEF ActorSpawn, RowsMove
  <2>3. CASE ActorEnds(k)
    <3>1. RowsMove /\ DOMAIN rows' = DOMAIN rows
      BY <2>3 DEF ActorEnds, Settle, RowsMove, With
    <3> QED  BY <1>1, <2>3, <3>1 DEF ActorEnds
  <2>4. CASE ActorCrash(k)
    BY <1>1, <2>4 DEF ActorCrash, RowsMove
  <2> QED  BY <2>1, <2>2, <2>3, <2>4 DEF ActorStep
<1>3. /\ \A x \in DOMAIN rows' : rows'[x] \in Row
      /\ DOMAIN rows' \subseteq Step \cup Actors
      /\ DOMAIN rows \subseteq DOMAIN rows' /\ BudgetOK'
  BY <1>1, <1>2, RowsMoved DEF IInv
<1>4. team' = team /\ pc' = pc /\ snap' = snap /\ reply' = reply /\ answer' = answer
  BY <1>2 DEF teamVars
<1>5. Runs' /\ CallsOK' /\ Alone' /\ AnswersAgree'
  BY <1>4 DEF IInv, Runs, CallsOK, CallOK, Alone, AnswersAgree
<1>6. \A x \in DOMAIN rows' \cap Step :
         team' # NoRun /\ (Recorded(x)' \/ (x = StepId(team') /\ Pending(team')))
  BY <1>2, <1>4 DEF IInv, KeysOK, Recorded
<1>7. \A c \in Calls : pc[c] = "spawn" => StepId(snap[c]) \in Step
  BY StepIdTyped DEF IInv, CallsOK, CallOK, Working
<1>8. KeysOK' /\ DOMAIN spawned' \subseteq DOMAIN rows'
  <2>1. CASE spawned' = spawned /\ actor'[k] # "reserved" /\ DOMAIN rows' = DOMAIN rows
    BY <1>1, <1>2, <1>4, <1>6, <2>1 DEF IInv, KeysOK
  <2>2. CASE /\ spawned' = spawned /\ k \notin DOMAIN rows
             /\ DOMAIN rows' = DOMAIN rows \cup {k}
    BY <1>1, <1>2, <1>4, <1>6, <2>2 DEF IInv, KeysOK
  <2>3. CASE rows' = rows /\ actor[k] = "reserved" /\ actor'[k] # "reserved" /\ Start(k)
    <3>1. k \in DOMAIN rows \ DOMAIN spawned
      BY <2>3 DEF IInv, KeysOK
    <3>2. /\ DOMAIN spawned' = DOMAIN spawned \cup {k}
          /\ \A x \in DOMAIN spawned' : spawned'[x] = 1
      BY <1>1, <2>3, <3>1, Started DEF IInv, KeysOK
    <3>3. \A c \in Calls : pc'[c] = "spawn" => StepId(snap'[c]) \in DOMAIN rows' \ DOMAIN spawned'
      BY <1>1, <1>4, <1>7, <2>3, <3>2 DEF IInv, KeysOK
    <3>4. \A x \in Actors : actor'[x] = "reserved" => x \in DOMAIN rows' \ DOMAIN spawned'
      BY <1>2, <2>3, <3>2 DEF IInv, KeysOK
    <3> QED  BY <1>1, <1>6, <2>3, <3>1, <3>2, <3>3, <3>4 DEF KeysOK
  <2> QED  BY <1>2, <2>1, <2>2, <2>3
<1>9. TypeOK'
  <2>1. \A x \in DOMAIN spawned' : spawned'[x] \in Nat
    BY <1>8 DEF KeysOK
  <2> QED  BY <1>2, <1>3, <1>8, <2>1 DEF IInv, TypeOK, teamVars
<1> QED  BY <1>3, <1>5, <1>8, <1>9 DEF IInv

LEMMA NextIInv == IInv /\ [Next]_vars => IInv'
<1> SUFFICES ASSUME IInv, [Next]_vars PROVE IInv'
  OBVIOUS
<1>1. CASE Next
  BY <1>1, CallKeysKept, ActorKeysKept DEF Next
<1>2. CASE UNCHANGED vars
  BY <1>2 DEF IInv, vars, teamVars, TypeOK, Runs, CallsOK, CallOK, Alone, KeysOK, Recorded,
              BudgetOK, WithinBudget, CallsAreBounded, PaidCalls, ChargeIsBounded, AnswersAgree
<1> QED  BY <1>1, <1>2

LEMMA Inductive == Spec => []IInv
BY InitIInv, NextIInv, PTL DEF Spec
-----------------------------------------------------------------------------
(* The reservations, the stored row, every call's place and what it returned *)
(* keep their types, for any costs the providers report.                     *)
THEOREM TypeCorrect == Spec => []TypeOK
<1>1. IInv => TypeOK
  BY DEF IInv
<1> QED  BY <1>1, Inductive, PTL

(* No provider session is started twice under one key and no two calls of a  *)
(* dispatch are at work at once, however owners die, stall and are succeeded.*)
THEOREM SessionsPaidOnce == Spec => []PaidOnce
<1>1. IInv => PaidOnce
  BY DEF IInv, KeysOK, Alone, PaidOnce
<1> QED  BY <1>1, Inductive, PTL

(* Only the newest session of a team can be without a recorded outcome.      *)
THEOREM NeverReplayedBlindly == Spec => []NoBlindReplay
<1>1. IInv => NoBlindReplay
  BY DEF IInv, TypeOK, KeysOK, Recorded, Pending, NoBlindReplay
<1> QED  BY <1>1, Inductive, PTL

(* The budget's ledger never holds more calls than the policy allows.        *)
THEOREM PaidCallsBounded == Spec => []CallsAreBounded
<1>1. IInv => CallsAreBounded
  BY DEF IInv, BudgetOK, WithinBudget
<1> QED  BY <1>1, Inductive, PTL

(* Neither the number of paid calls nor what they are charged passes the     *)
(* policy's limits, but for what single calls overran their own reservation. *)
THEOREM BudgetAlwaysKept == Spec => []WithinBudget
<1>1. IInv => WithinBudget
  BY DEF IInv, BudgetOK
<1> QED  BY <1>1, Inductive, PTL

(* A team converges on its clean cycles, gives up with its repairs exhausted,*)
(* and implements at most once more than it may repair.                      *)
THEOREM EndsAreEarned == Spec => []Earned
<1>1. IInv => Earned
  <2> SUFFICES ASSUME IInv, team # NoRun PROVE Earned
    BY DEF Earned
  <2>1. RunOK(team) /\ team \in Snapshot
    BY DEF IInv, TypeOK, Runs
  <2>2. team.repairs \in Nat /\ MaxRepairCycles \in Nat
    BY <2>1, TeamAssumption DEF Snapshot
  <2>3. Cardinality(Implementations(team.outcomes)) <= MaxRepairCycles + 1
    BY <2>1, <2>2 DEF RunOK
  <2> QED  BY <2>1, <2>3 DEF RunOK, Earned, Implementations
<1> QED  BY <1>1, Inductive, PTL

(* Every ending a call returned is the one the store holds, and a rejection  *)
(* ends the dispatch whether or not it reached the store: nobody is at work  *)
(* on it, or ever will be, and it never gets a result.                       *)
THEOREM OneEnding == Spec => []AnswersAgree
<1>1. IInv => AnswersAgree
  BY DEF IInv
<1> QED  BY <1>1, Inductive, PTL

(* No session is started, or paid for, a second time.                          *)
THEOREM NeverPaidTwice == Spec => []NothingPaidTwice
<1>1. PaidOnce /\ NoBlindReplay => NothingPaidTwice
  BY DEF NothingPaidTwice
<1> QED
  BY <1>1, SessionsPaidOnce, NeverReplayedBlindly, PTL

(* The ending of a team is earned, and every call reports that one.            *)
THEOREM EndingAlwaysStands == Spec => []EndingStands
<1>1. Earned /\ AnswersAgree => EndingStands
  BY DEF EndingStands
<1> QED
  BY <1>1, EndsAreEarned, OneEnding, PTL

===============================================================================
