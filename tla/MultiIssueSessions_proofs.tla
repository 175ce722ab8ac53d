---------------------- MODULE MultiIssueSessions_proofs ----------------------
(***************************************************************************)
(* For any managers and finitely many sessions: the concurrency limit and  *)
(* the budget hold, whoever holds the lease owns what it executes, and     *)
(* what a session shows of its issue is so, for ever once it is settled.   *)
(***************************************************************************)
EXTENDS MultiIssueSessions, DataInduction

\* the part of the type invariant that the proofs need
Typed ==
    /\ DOMAIN sess = Sessions /\ \A s \in Sessions : DOMAIN sess[s] = DOMAIN NotSubmitted
    /\ lease \in [owner : Managers \cup {NoManager}, live : BOOLEAN]
    /\ DOMAIN pc = Managers
    /\ DOMAIN call = Managers /\ \A m \in Managers : DOMAIN call[m] = Sessions

\* no execution is left when a pump begins
Fresh == \A m \in Managers : pc[m] \in {"idle", "acquiring", "recovering"} => Active(m) = {}

\* an execution of the lease's holder holds its session, told to abort or not
Holds(m, s) == sess[s].state = "running" /\ sess[s].owner = m
Held == \A m \in Managers, s \in Sessions : Owned(m) /\ s \in Active(m) => Holds(m, s)

IInv == Typed /\ Fresh /\ Held /\ BoundedConcurrency

Running == InState("running")

-----------------------------------------------------------------------------
(* What a step may do to the rows, the lease and the executions *)

\* every session that executes after the step executed before it
FewerActive == \A m \in Managers : Active(m)' \subseteq Active(m)
\* rows that run keep running under their owner
RunningKept == \A s \in Running : s \in Running' /\ sess'[s].owner = sess[s].owner
FewerRunning == Running' \subseteq Running
\* a pump that begins has no execution
BeginsFresh == \A m \in Managers :
    pc'[m] \in {"idle", "acquiring", "recovering"} =>
        pc[m] \in {"idle", "acquiring", "recovering"} \/ Active(m)' = {}
\* the lease stays, is dropped, or lapses
LeaseShrinks == \A m \in Managers : Owned(m)' => Owned(m)

\* Commands, heartbeats, crashes and the orchestrator's steps only take away.
Quiet == Typed' /\ FewerActive /\ LeaseShrinks /\ RunningKept /\ FewerRunning /\ BeginsFresh

LEMMA QuietKeeps == ASSUME IInv, Quiet PROVE IInv'
<1>1. Fresh'
  BY DEF IInv, Quiet, Fresh, FewerActive, BeginsFresh
<1>2. Held'
  BY DEF IInv, Quiet, Held, FewerActive, LeaseShrinks, RunningKept, Holds, Running, InState
<1>3. BoundedConcurrency'
  <2>1. IsFiniteSet(Running) /\ Cardinality(Running) \in Nat
    BY SessionAssumption, FS_Subset, FS_CardinalityType DEF Running, InState
  <2>2. IsFiniteSet(Running') /\ Cardinality(Running') =< Cardinality(Running) /\ Cardinality(Running') \in Nat
    BY <2>1, FS_Subset, FS_CardinalityType DEF Quiet, FewerRunning
  <2> QED
    BY <2>1, <2>2, LimitAssumption DEF IInv, BoundedConcurrency, Running
<1> QED
  BY <1>1, <1>2, <1>3 DEF IInv, Quiet

LEMMA SameRows == ASSUME UNCHANGED sess PROVE RunningKept /\ FewerRunning
  BY DEF RunningKept, FewerRunning, Running, InState

LEMMA SameCalls == ASSUME UNCHANGED call PROVE FewerActive
  BY DEF FewerActive, Active

LEMMA SameLease == ASSUME UNCHANGED lease PROVE LeaseShrinks
  BY DEF LeaseShrinks, Owned

\* a row that does not run is rewritten, or one that runs keeps owner and state
LEMMA RowRewritten ==
    ASSUME Typed, NEW s \in Sessions, NEW r, sess' = [sess EXCEPT ![s] = r], DOMAIN r = DOMAIN NotSubmitted,
           \/ sess[s].state # "running" /\ r.state # "running"
           \/ r.state = sess[s].state /\ r.owner = sess[s].owner
    PROVE  /\ RunningKept /\ FewerRunning
           /\ DOMAIN sess' = Sessions /\ \A t \in Sessions : DOMAIN sess'[t] = DOMAIN NotSubmitted
  BY DEF RunningKept, FewerRunning, Running, InState, Typed

\* an execution goes on
LEMMA CallGoesOn ==
    ASSUME Typed, NEW m \in Managers, NEW s \in Sessions, NEW c, c.step # "none",
           call[m][s].step # "none", call' = [call EXCEPT ![m][s] = c]
    PROVE  FewerActive /\ DOMAIN call' = Managers /\ \A n \in Managers : DOMAIN call'[n] = Sessions
  BY DEF FewerActive, Active, Typed

\* the pump of m moves on
LEMMA PumpMoves ==
    ASSUME Typed, NEW m \in Managers, NEW where, Goto(m, where),
           \/ where \notin {"idle", "acquiring", "recovering"}
           \/ pc[m] \in {"idle", "acquiring", "recovering"}
    PROVE  BeginsFresh /\ DOMAIN pc' = Managers
  BY DEF BeginsFresh, Goto, Typed

LEMMA SamePump == ASSUME UNCHANGED pc PROVE BeginsFresh
  BY DEF BeginsFresh

LEMMA Asking == ASSUME Typed, NEW m \in Managers, PumpRequested(m)
                PROVE  BeginsFresh /\ DOMAIN pc' = Managers
<1>1. CASE pc[m] = "idle"
  <2>1. Goto(m, "acquiring")
    BY <1>1 DEF PumpRequested
  <2> QED
    BY <1>1, <2>1, PumpMoves
<1>2. CASE pc[m] # "idle"
  BY <1>2, SamePump DEF PumpRequested, Typed
<1> QED
  BY <1>1, <1>2

LEMMA PumpEnds ==
    ASSUME Typed, NEW m \in Managers, Finished(m)
    PROVE  /\ FewerActive /\ BeginsFresh /\ DOMAIN pc' = Managers
           /\ DOMAIN call' = Managers /\ \A n \in Managers : DOMAIN call'[n] = Sessions
<1>1. call' = [call EXCEPT ![m] = [s \in Sessions |-> NotCalled]]
  BY DEF Finished
<1>2. NotCalled.step = "none"
  BY DEF NotCalled, Calling
<1>3. Active(m)' = {} /\ \A n \in Managers \ {m} : Active(n)' = Active(n)
  BY <1>1, <1>2 DEF Active, Typed
<1>4. FewerActive
  BY <1>3 DEF FewerActive
<1>5. pc' = [pc EXCEPT ![m] = IF wanted[m] THEN "acquiring" ELSE "idle"]
  BY DEF Finished, Goto
<1>6. BeginsFresh /\ DOMAIN pc' = Managers
  BY <1>3, <1>5 DEF BeginsFresh, Typed
<1>7. DOMAIN call' = Managers /\ \A n \in Managers : DOMAIN call'[n] = Sessions
  BY <1>1 DEF Typed
<1> QED
  BY <1>4, <1>6, <1>7

-----------------------------------------------------------------------------
(* The commands, the orchestrator's steps and the faults *)

LEMMA SubmitQuiet == ASSUME IInv, NEW m \in Managers, NEW s \in Sessions, Submit(m, s) PROVE Quiet
<1>0. PICK x : sess' = [sess EXCEPT ![s].state = "queued", ![s].reservation = x]
  BY DEF Submit
<1> DEFINE r == [sess[s] EXCEPT !.state = "queued", !.reservation = x]
<1>1. sess' = [sess EXCEPT ![s] = r]
  BY <1>0 DEF IInv, Typed
<1>2. r.state # "running" /\ DOMAIN r = DOMAIN NotSubmitted
  BY DEF IInv, Typed, NotSubmitted
<1>4. sess[s].state # "running"
  BY DEF Submit
<1> HIDE DEF r
<1>5. RunningKept /\ FewerRunning /\ DOMAIN sess' = Sessions
      /\ \A t \in Sessions : DOMAIN sess'[t] = DOMAIN NotSubmitted
  BY <1>1, <1>2, <1>4, RowRewritten DEF IInv
<1>6. BeginsFresh /\ DOMAIN pc' = Managers
  BY Asking DEF Submit, IInv
<1> QED
  BY <1>5, <1>6, SameCalls, SameLease DEF Quiet, IInv, Typed, Submit

LEMMA AnswerQuiet == ASSUME IInv, NEW m \in Managers, NEW s \in Sessions, Answer(m, s) PROVE Quiet
<1> DEFINE r == [sess[s] EXCEPT !.state = "queued", !.recovered = FALSE, !.answer = sess[s].question]
<1>1. sess' = [sess EXCEPT ![s] = r]
  BY DEF Answer, IInv, Typed
<1>2. r.state # "running" /\ DOMAIN r = DOMAIN NotSubmitted
  BY DEF IInv, Typed, NotSubmitted
<1>4. sess[s].state # "running"
  BY DEF Answer
<1> HIDE DEF r
<1>5. RunningKept /\ FewerRunning /\ DOMAIN sess' = Sessions
      /\ \A t \in Sessions : DOMAIN sess'[t] = DOMAIN NotSubmitted
  BY <1>1, <1>2, <1>4, RowRewritten DEF IInv
<1>6. BeginsFresh /\ DOMAIN pc' = Managers
  BY Asking DEF Answer, IInv
<1> QED
  BY <1>5, <1>6, SameCalls, SameLease DEF Quiet, IInv, Typed, Answer

LEMMA CancelQuiet == ASSUME IInv, NEW m \in Managers, NEW s \in Sessions, Cancel(m, s) PROVE Quiet
<1> USE DEF rows
<1>1. RunningKept /\ FewerRunning /\ DOMAIN sess' = Sessions
      /\ \A t \in Sessions : DOMAIN sess'[t] = DOMAIN NotSubmitted
  <2>1. CASE CancelNoOp(s)
    BY <2>1, SameRows DEF Cancel, IInv, Typed
  <2>2. CASE ~CancelNoOp(s) /\ Requeues(s)
    <3> DEFINE r == [sess[s] EXCEPT !.cancel = TRUE, !.state = "queued", !.recovered = FALSE]
    <3>1. sess' = [sess EXCEPT ![s] = r]
      BY <2>2 DEF Cancel, IInv, Typed
    <3>2. r.state # "running" /\ DOMAIN r = DOMAIN NotSubmitted
      BY DEF IInv, Typed, NotSubmitted
    <3>3. sess[s].state # "running"
      BY <2>2 DEF Requeues
    <3> HIDE DEF r
    <3> QED
      BY <3>1, <3>2, <3>3, RowRewritten DEF IInv
  <2>3. CASE ~CancelNoOp(s) /\ ~Requeues(s)
    <3> DEFINE r == [sess[s] EXCEPT !.cancel = TRUE]
    <3>1. sess' = [sess EXCEPT ![s] = r]
      BY <2>3 DEF Cancel, IInv, Typed
    <3>2. r.state = sess[s].state /\ r.owner = sess[s].owner /\ DOMAIN r = DOMAIN NotSubmitted
      BY DEF IInv, Typed, NotSubmitted
    <3> HIDE DEF r
    <3> QED
      BY <3>1, <3>2, RowRewritten DEF IInv
  <2> QED
    BY <2>1, <2>2, <2>3
<1>2. FewerActive /\ DOMAIN call' = Managers /\ \A n \in Managers : DOMAIN call'[n] = Sessions
  <2>1. CASE UNCHANGED call
    BY <2>1, SameCalls DEF IInv, Typed
  <2>2. CASE call[m][s].step = "resume" /\ call' = [call EXCEPT ![m][s] = Calling("cancel", 0)]
    <3>1. Calling("cancel", 0).step # "none" /\ call[m][s].step # "none"
      BY <2>2 DEF Calling
    <3> QED
      BY <2>2, <3>1, CallGoesOn DEF IInv
  <2> QED
    BY <2>1, <2>2 DEF Cancel
<1>3. BeginsFresh /\ DOMAIN pc' = Managers
  BY Asking DEF Cancel, IInv
<1> QED
  BY <1>1, <1>2, <1>3, SameLease DEF Quiet, IInv, Typed, Cancel

\* steps that touch neither rows nor lease nor pump, but carry an execution on
LEMMA CallQuiet ==
    ASSUME IInv, NEW m \in Managers, NEW s \in Sessions, NEW c, c.step # "none",
           call[m][s].step # "none", call' = [call EXCEPT ![m][s] = c], UNCHANGED <<sess, lease, pc>>
    PROVE  Quiet
  BY CallGoesOn, SameRows, SameLease, SamePump DEF Quiet, IInv, Typed

\* steps that touch no execution, row or lease
LEMMA NoCallQuiet ==
    ASSUME IInv, UNCHANGED <<sess, lease, pc, call>>
    PROVE  Quiet
  BY SameCalls, SameRows, SameLease, SamePump DEF Quiet, IInv, Typed

LEMMA PortQuiet ==
    ASSUME IInv, NEW m \in Managers, NEW s \in Sessions,
           TakesAnswer(m, s) \/ Returns(m, s) \/ Throws(m, s)
    PROVE  Quiet
<1> USE DEF rows, issues
<1>1. \A q, st : Calling(st, q).step = st
  BY DEF Calling
<1>2. PortError.step = "reported" /\ \A q, st, c : Reported(st, q, c).step = "reported"
  BY DEF PortError, Reported
<1>3. CASE TakesAnswer(m, s)
  <2> DEFINE c == Calling(IF issue[s].cancel THEN "cancel" ELSE "resume", 0)
  <2>1. c.step # "none"
    BY <1>1
  <2>2. call[m][s].step # "none" /\ call' = [call EXCEPT ![m][s] = c] /\ UNCHANGED <<sess, lease, pc>>
    BY <1>3 DEF TakesAnswer
  <2> HIDE DEF c
  <2> QED
    BY <2>1, <2>2, CallQuiet
<1>4. CASE Returns(m, s)
  <2>1. PICK r \in ReportsOf(m, s) : call' = [call EXCEPT ![m][s] = r]
    BY <1>4 DEF Returns
  <2>2. r.step = "reported"
    BY <1>2, <2>1 DEF ReportsOf
  <2> QED
    BY <1>4, <2>1, <2>2, CallQuiet DEF Returns
<1>5. CASE Throws(m, s)
  BY <1>2, <1>5, CallQuiet DEF Throws
<1> QED
  BY <1>3, <1>4, <1>5

LEMMA StartQuiet == ASSUME IInv, NEW m \in Managers, NEW s \in Sessions, Start(m, s) PROVE Quiet
<1>1. \A q, st : Calling(st, q).step = st
  BY DEF Calling
<1>2. PortError.step = "reported"
  BY DEF PortError, Reported
<1>3. PICK c : c.step # "none" /\ call' = [call EXCEPT ![m][s] = c]
  <2>1. CASE sess[s].cancel
    <3>1. call' = [call EXCEPT ![m][s] =
                     IF issue[s].state = "working" THEN PortError ELSE Calling("cancel", 0)]
      BY <2>1 DEF Start
    <3> QED
      BY <1>1, <1>2, <3>1
  <2>2. CASE ~sess[s].cancel
    <3>1. call' = [call EXCEPT ![m][s] = Asks(s)]
      BY <2>2 DEF Start
    <3>2. Asks(s).step # "none"
      BY <1>1 DEF Asks
    <3> QED
      BY <3>1, <3>2
  <2> QED
    BY <2>1, <2>2
<1>4. call[m][s].step # "none"
  BY DEF Start
<1>5. FewerActive /\ DOMAIN call' = Managers /\ \A n \in Managers : DOMAIN call'[n] = Sessions
  BY <1>3, <1>4, CallGoesOn DEF IInv
<1>6. BeginsFresh /\ DOMAIN pc' = Managers
  BY PumpMoves DEF Start, IInv
<1> QED
  BY <1>5, <1>6, SameRows, SameLease DEF Quiet, IInv, Typed, Start, rows

LEMMA PumpQuiet ==
    ASSUME IInv, NEW m \in Managers, Pump(m) \/ Wake(m) \/ Heartbeat(m)
    PROVE  Quiet
<1> USE DEF rows, issues
<1>1. CASE Pump(m)
  BY <1>1, Asking, SameRows, SameCalls, SameLease DEF Pump, Quiet, IInv, Typed
<1>2. CASE Wake(m)
  <2>1. BeginsFresh /\ DOMAIN pc' = Managers
    BY <1>2, PumpMoves DEF Wake, IInv
  <2> QED
    BY <1>2, <2>1, SameRows, SameCalls, SameLease DEF Wake, Quiet, IInv, Typed
<1>3. CASE Heartbeat(m)
  BY <1>3, NoCallQuiet DEF Heartbeat
<1> QED
  BY <1>1, <1>2, <1>3

LEMMA EnvironmentQuiet ==
    ASSUME IInv, Lapse \/ (\E m \in Managers : Crash(m)) \/ (\E s \in Sessions : IssueAdvances(s))
    PROVE  Quiet
<1> USE DEF rows, issues
<1>1. CASE Lapse
  <2>1. LeaseShrinks /\ lease' \in [owner : Managers \cup {NoManager}, live : BOOLEAN]
    BY <1>1 DEF Lapse, LeaseShrinks, Owned, IInv, Typed
  <2> QED
    BY <1>1, <2>1, SameRows, SameCalls, SamePump DEF Lapse, Quiet, IInv, Typed
<1>2. ASSUME NEW m \in Managers, Crash(m) PROVE Quiet
  <2>1. Active(m)' = {} /\ \A n \in Managers \ {m} : Active(n)' = Active(n)
    BY <1>2 DEF Crash, Active, IInv, Typed, NotCalled, Calling
  <2>2. FewerActive
    BY <2>1 DEF FewerActive
  <2>3. BeginsFresh /\ DOMAIN pc' = Managers
    BY <1>2, PumpMoves DEF Crash, IInv
  <2>4. DOMAIN call' = Managers /\ \A n \in Managers : DOMAIN call'[n] = Sessions
    BY <1>2 DEF Crash, IInv, Typed
  <2> QED
    BY <1>2, <2>2, <2>3, <2>4, SameRows, SameLease DEF Crash, Quiet, IInv, Typed
<1>3. ASSUME NEW s \in Sessions, IssueAdvances(s) PROVE Quiet
  BY <1>3, NoCallQuiet DEF IssueAdvances
<1> QED
  BY <1>1, <1>2, <1>3

-----------------------------------------------------------------------------
(* The pump *)

LEMMA ReleaseQuiet == ASSUME IInv, NEW m \in Managers, Leave(m) \/ Release(m) PROVE Quiet
<1> USE DEF rows, issues
<1>0. [owner |-> NoManager, live |-> FALSE] \in [owner : Managers \cup {NoManager}, live : BOOLEAN]
  OBVIOUS
<1>1. UNCHANGED sess
  BY DEF Leave, Release
<1>2. LeaseShrinks /\ lease' \in [owner : Managers \cup {NoManager}, live : BOOLEAN]
  <2>1. lease' = lease \/ lease' = [owner |-> NoManager, live |-> FALSE]
    BY DEF Leave, Release
  <2> QED
    BY <1>0, <2>1 DEF LeaseShrinks, Owned, IInv, Typed
<1>3. CASE Finished(m)
  BY <1>1, <1>2, <1>3, PumpEnds, SameRows DEF Quiet, IInv, Typed
<1>4. CASE UNCHANGED call /\ (Goto(m, "releasing") \/ Goto(m, "claiming"))
  <2>1. BeginsFresh /\ DOMAIN pc' = Managers
    BY <1>4, PumpMoves DEF IInv
  <2> QED
    BY <1>1, <1>2, <1>4, <2>1, SameRows, SameCalls DEF Quiet, IInv, Typed
<1> QED
  BY <1>3, <1>4 DEF Leave, Release

LEMMA SettleKeeps == ASSUME IInv, NEW m \in Managers, NEW s \in Sessions, Settle(m, s) PROVE IInv'
<1>1. call' = [call EXCEPT ![m][s] = NotCalled] /\ NotCalled.step = "none"
  BY DEF Settle, NotCalled, Calling
<1>2. Active(m)' = Active(m) \ {s} /\ \A n \in Managers \ {m} : Active(n)' = Active(n)
  BY <1>1 DEF Active, IInv, Typed
<1>3. UNCHANGED lease /\ Goto(m, "woken")
  BY DEF Settle
<1>4. DOMAIN call' = Managers /\ \A n \in Managers : DOMAIN call'[n] = Sessions
  BY <1>1 DEF IInv, Typed
<1>5. BeginsFresh /\ DOMAIN pc' = Managers
  BY <1>3, PumpMoves DEF IInv
<1>6. FewerActive
  BY <1>2 DEF FewerActive
<1>7. CASE UNCHANGED sess
  <2>1. Quiet
    BY <1>3, <1>4, <1>5, <1>6, <1>7, SameRows, SameLease DEF Quiet, IInv, Typed
  <2> QED
    BY <2>1, QuietKeeps
<1>8. CASE Owned(m) /\ sess[s].state = "running" /\ sess[s].owner = m /\ ~UNCHANGED sess
  <2> DEFINE r == [sess[s] EXCEPT !.state = call[m][s].state, !.cost = call[m][s].cost,
                      !.question = call[m][s].question, !.answer = 0, !.owner = NoManager]
  <2>1. sess' = [sess EXCEPT ![s] = r]
    BY <1>8 DEF Settle, Settles, IInv, Typed
  <2>2. DOMAIN r = DOMAIN NotSubmitted
    BY DEF IInv, Typed
  <2> HIDE DEF r
  <2>3. DOMAIN sess' = Sessions /\ \A t \in Sessions : DOMAIN sess'[t] = DOMAIN NotSubmitted
    BY <2>1, <2>2 DEF IInv, Typed
  <2>4. \A t \in Sessions \ {s} : sess'[t] = sess[t]
    BY <2>1 DEF IInv, Typed
  <2>5. Typed'
    BY <1>3, <1>4, <1>5, <2>3 DEF IInv, Typed
  <2>6. Fresh'
    BY <1>5, <1>6 DEF IInv, Fresh, FewerActive, BeginsFresh
  <2>7. Held'
    <3> SUFFICES ASSUME NEW n \in Managers, NEW t \in Sessions, Owned(n), t \in Active(n)'
                 PROVE  Holds(n, t)'
      BY <1>3 DEF Held, Owned
    <3>1. n = m
      BY <1>8 DEF Owned
    <3>2. t # s /\ t \in Active(m)
      BY <1>2, <3>1
    <3> QED
      BY <2>4, <3>1, <3>2 DEF IInv, Held, Holds
  <2>8. BoundedConcurrency'
    <3>1. s \in Running /\ Running' \subseteq Running \cup {s}
      BY <1>8, <2>4 DEF Running, InState
    <3>2. IsFiniteSet(Running) /\ Cardinality(Running) \in Nat
      BY SessionAssumption, FS_Subset, FS_CardinalityType DEF Running, InState
    <3>3. Cardinality(Running') =< Cardinality(Running) /\ Cardinality(Running') \in Nat
      BY <3>1, <3>2, FS_Subset, FS_CardinalityType
    <3> QED
      BY <3>2, <3>3, LimitAssumption DEF IInv, BoundedConcurrency, Running
  <2> QED
    BY <2>5, <2>6, <2>7, <2>8 DEF IInv
<1> QED
  BY <1>7, <1>8 DEF Settle, Settles

LEMMA AcquireKeeps == ASSUME IInv, NEW m \in Managers, Acquire(m) PROVE IInv'
<1> USE DEF rows, issues
<1>1. CASE Finished(m) /\ UNCHANGED lease
  <2>1. Quiet
    BY <1>1, PumpEnds, SameRows, SameLease DEF Acquire, Quiet, IInv, Typed
  <2> QED
    BY <2>1, QuietKeeps
<1>2. CASE lease' = [owner |-> m, live |-> TRUE] /\ Goto(m, "recovering") /\ UNCHANGED call
  <2>1. UNCHANGED <<sess, call>> /\ pc[m] = "acquiring"
    BY <1>2 DEF Acquire
  <2>2. Active(m) = {}
    BY <2>1 DEF IInv, Fresh
  <2>3. BeginsFresh /\ DOMAIN pc' = Managers
    BY <1>2, <2>1, PumpMoves DEF IInv
  <2>4. [owner |-> m, live |-> TRUE] \in [owner : Managers \cup {NoManager}, live : BOOLEAN]
    OBVIOUS
  <2>5. Typed'
    BY <1>2, <2>1, <2>3, <2>4 DEF IInv, Typed
  <2>6. \A n \in Managers : Active(n)' = Active(n)
    BY <2>1 DEF Active
  <2>7. Fresh'
    BY <2>3, <2>6 DEF IInv, Fresh, BeginsFresh
  <2>8. Held'
    BY <1>2, <2>2, <2>6 DEF Held, Owned
  <2>9. BoundedConcurrency'
    BY <2>1 DEF IInv, BoundedConcurrency, InState
  <2> QED
    BY <2>5, <2>7, <2>8, <2>9 DEF IInv
<1> QED
  BY <1>1, <1>2 DEF Acquire

LEMMA RecoverKeeps == ASSUME IInv, NEW m \in Managers, Recover(m) PROVE IInv'
<1>1. UNCHANGED <<lease, call>> /\ pc[m] = "recovering"
  BY DEF Recover
<1>2. BeginsFresh /\ DOMAIN pc' = Managers
  <2>1. Goto(m, "claiming") \/ Goto(m, "releasing")
    BY DEF Recover
  <2> QED
    BY <2>1, PumpMoves DEF IInv
<1>3. CASE UNCHANGED sess
  <2>1. Quiet
    BY <1>1, <1>2, <1>3, SameRows, SameCalls, SameLease DEF Quiet, IInv, Typed
  <2> QED
    BY <2>1, QuietKeeps
<1>4. CASE Owned(m) /\ ~UNCHANGED sess
  <2> DEFINE back(s) == [sess[s] EXCEPT !.state = "queued", !.recovered = TRUE, !.owner = NoManager]
  <2>1. sess' = [s \in Sessions |-> IF s \in Orphans(m) THEN back(s) ELSE sess[s]]
    BY <1>4 DEF Recover, rows
  <2>2. \A s \in Sessions : back(s).state = "queued" /\ DOMAIN back(s) = DOMAIN NotSubmitted
    BY DEF IInv, Typed, NotSubmitted
  <2> HIDE DEF back
  <2>3. DOMAIN sess' = Sessions /\ \A s \in Sessions : DOMAIN sess'[s] = DOMAIN NotSubmitted
    BY <2>1, <2>2 DEF IInv, Typed
  <2>4. FewerRunning
    BY <2>1, <2>2 DEF FewerRunning, Running, InState
  <2>5. Active(m) = {} /\ \A n \in Managers : Active(n)' = Active(n)
    BY <1>1 DEF IInv, Fresh, Active
  <2>6. Typed'
    BY <1>1, <1>2, <2>3 DEF IInv, Typed
  <2>7. Fresh'
    BY <1>2, <2>5 DEF IInv, Fresh, BeginsFresh
  <2>8. Held'
    BY <1>1, <1>4, <2>5 DEF Held, Owned
  <2>9. BoundedConcurrency'
    <3>1. IsFiniteSet(Running) /\ Cardinality(Running) \in Nat
      BY SessionAssumption, FS_Subset, FS_CardinalityType DEF Running, InState
    <3>2. Cardinality(Running') =< Cardinality(Running) /\ Cardinality(Running') \in Nat
      BY <2>4, <3>1, FS_Subset, FS_CardinalityType DEF FewerRunning
    <3> QED
      BY <3>1, <3>2, LimitAssumption DEF IInv, BoundedConcurrency, Running
  <2> QED
    BY <2>6, <2>7, <2>8, <2>9 DEF IInv
<1> QED
  BY <1>3, <1>4 DEF Recover, rows

\* what claimReady admits has room next to what runs
LEMMA AdmittedFits ==
    ASSUME BoundedConcurrency
    PROVE  /\ IsFiniteSet(Admitted) /\ Cardinality(Admitted) \in Nat
           /\ Cardinality(Admitted) + Cardinality(Running) =< Limit
<1> DEFINE q == Queue
           I == {k \in 1..Len(q) : \A n \in 1..k : Admits(q, n)}
<1>1. IsFiniteSet(Running) /\ Cardinality(Running) \in Nat
  BY SessionAssumption, FS_Subset, FS_CardinalityType DEF Running, InState
<1>2. Capacity \in Nat /\ Capacity + Cardinality(Running) = Limit
  BY <1>1, LimitAssumption DEF BoundedConcurrency, Capacity, Running
<1>3. I \subseteq 1..Capacity
  <2> SUFFICES ASSUME NEW k \in I PROVE k \in 1..Capacity
    OBVIOUS
  <2>1. k \in Nat /\ k >= 1
    OBVIOUS
  <2>2. k \in 1..k
    BY <2>1
  <2>3. k =< Capacity
    BY <2>2 DEF Admits
  <2> QED
    BY <1>2, <2>1, <2>3
<1>4. IsFiniteSet(1..Capacity) /\ Cardinality(1..Capacity) = Capacity
  BY <1>2, FS_Interval
<1>5. IsFiniteSet(I) /\ Cardinality(I) =< Capacity /\ Cardinality(I) \in Nat
  BY <1>3, <1>4, FS_Subset, FS_CardinalityType
<1>6. Admitted = {q[i] : i \in I}
  BY DEF Admitted
<1> HIDE DEF q, I
<1>7. IsFiniteSet(Admitted) /\ Cardinality(Admitted) =< Cardinality(I) /\ Cardinality(Admitted) \in Nat
  <2>1. [i \in I |-> q[i]] \in Surjection(I, Admitted)
    BY <1>6 DEF Surjection
  <2> QED
    BY <1>5, <2>1, FS_Surjection, FS_CardinalityType
<1> QED
  BY <1>1, <1>2, <1>5, <1>7

LEMMA ClaimKeeps == ASSUME IInv, NEW m \in Managers, Claim(m) PROVE IInv'
<1> DEFINE claimed == IF Owned(m) /\ Readable THEN Admitted ELSE {}
           taken(s) == [sess[s] EXCEPT !.state = "running", !.owner = m]
<1>1. /\ sess' = [s \in Sessions |-> IF s \in claimed THEN taken(s) ELSE sess[s]]
      /\ call' = [call EXCEPT ![m] = [s \in Sessions |->
                    IF s \in claimed THEN Calling("claimed", 0) ELSE call[m][s]]]
      /\ UNCHANGED lease
  BY DEF Claim
<1>2. BeginsFresh /\ DOMAIN pc' = Managers
  <2>1. \E where \in {"releasing", "starting", "racing", "leaving"} : Goto(m, where)
    BY DEF Claim
  <2> QED
    BY <2>1, PumpMoves DEF IInv
<1>3. \A s \in Sessions : /\ taken(s).state = "running" /\ taken(s).owner = m
                          /\ DOMAIN taken(s) = DOMAIN NotSubmitted
  BY DEF IInv, Typed, NotSubmitted
<1>4. Calling("claimed", 0).step # "none"
  BY DEF Calling
<1>5. claimed # {} => Owned(m)
  OBVIOUS
<1>6. IsFiniteSet(claimed) /\ Cardinality(claimed) \in Nat /\ Cardinality(claimed) + Cardinality(Running) =< Limit
  <2>1. IsFiniteSet(Running) /\ Cardinality(Running) \in Nat /\ Cardinality(Running) =< Limit
    BY SessionAssumption, FS_Subset, FS_CardinalityType DEF Running, InState, IInv, BoundedConcurrency
  <2>2. CASE claimed = {}
    BY <2>1, <2>2, FS_EmptySet, LimitAssumption
  <2>3. CASE claimed = Admitted
    BY <2>3, AdmittedFits DEF IInv
  <2> QED
    BY <2>2, <2>3
<1> HIDE DEF claimed, taken
<1>7. Typed'
  BY <1>1, <1>2, <1>3 DEF IInv, Typed
<1>8. Active(m)' \subseteq Active(m) \cup claimed /\ \A n \in Managers \ {m} : Active(n)' = Active(n)
  BY <1>1 DEF Active, IInv, Typed
<1>9. Fresh'
  <2>1. pc'[m] \notin {"idle", "acquiring", "recovering"}
    BY DEF Claim, Goto, IInv, Typed
  <2>2. \A n \in Managers \ {m} : pc'[n] = pc[n]
    BY DEF Claim, Goto, IInv, Typed
  <2> QED
    BY <1>8, <2>1, <2>2 DEF IInv, Fresh
<1>10. Held'
  <2> SUFFICES ASSUME NEW n \in Managers, NEW s \in Sessions, Owned(n), s \in Active(n)'
               PROVE  Holds(n, s)'
    BY <1>1 DEF Held, Owned
  <2>1. CASE claimed = {}
    <3>1. s \in Active(n)
      BY <1>8, <2>1
    <3> QED
      BY <1>1, <2>1, <3>1 DEF IInv, Held, Holds
  <2>2. CASE claimed # {}
    <3>1. n = m
      BY <1>5, <2>2 DEF Owned
    <3>2. CASE s \in claimed
      BY <1>1, <1>3, <3>1, <3>2 DEF Holds
    <3>3. CASE s \notin claimed
      <4>1. s \in Active(m)
        BY <1>8, <3>1, <3>3
      <4> QED
        BY <1>1, <3>1, <3>3, <4>1 DEF IInv, Held, Holds
    <3> QED
      BY <3>2, <3>3
  <2> QED
    BY <2>1, <2>2
<1>11. BoundedConcurrency'
  <2>1. IsFiniteSet(Running) /\ Cardinality(Running) \in Nat
    BY SessionAssumption, FS_Subset, FS_CardinalityType DEF Running, InState
  <2>2. Running' \subseteq Running \cup claimed
    BY <1>1 DEF Running, InState
  <2>3. /\ IsFiniteSet(Running \cup claimed)
        /\ Cardinality(Running \cup claimed) =< Cardinality(Running) + Cardinality(claimed)
        /\ Cardinality(Running \cup claimed) \in Nat
    <3>1. IsFiniteSet(Running \cap claimed) /\ Cardinality(Running \cap claimed) \in Nat
      BY <2>1, FS_Subset, FS_CardinalityType
    <3>2. /\ IsFiniteSet(Running \cup claimed)
          /\ Cardinality(Running \cup claimed)
               = Cardinality(Running) + Cardinality(claimed) - Cardinality(Running \cap claimed)
      BY <1>6, <2>1, FS_Union
    <3>3. Cardinality(Running \cup claimed) \in Nat
      BY <3>2, FS_CardinalityType
    <3> QED
      BY <1>6, <2>1, <3>1, <3>2, <3>3
  <2>4. Cardinality(Running') =< Cardinality(Running \cup claimed) /\ Cardinality(Running') \in Nat
    BY <2>2, <2>3, FS_Subset, FS_CardinalityType
  <2> QED
    BY <1>6, <2>1, <2>3, <2>4, LimitAssumption DEF BoundedConcurrency, Running
<1> QED
  BY <1>7, <1>9, <1>10, <1>11 DEF IInv

-----------------------------------------------------------------------------
(* The inductive invariant *)

LEMMA InitIInv == Init => IInv
<1> SUFFICES ASSUME Init PROVE IInv
  OBVIOUS
<1>1. Typed
  <2>1. [owner |-> NoManager, live |-> FALSE] \in [owner : Managers \cup {NoManager}, live : BOOLEAN]
    OBVIOUS
  <2> QED
    BY <2>1 DEF Init, Typed
<1>2. \A m \in Managers : Active(m) = {}
  BY DEF Init, Active, NotCalled, Calling
<1>3. Running = {}
  BY DEF Init, Running, InState, NotSubmitted
<1>4. BoundedConcurrency
  BY <1>3, FS_EmptySet, LimitAssumption DEF BoundedConcurrency, Running
<1> QED
  BY <1>1, <1>2, <1>4 DEF IInv, Fresh, Held

LEMMA NextIInv == IInv /\ [Next]_vars => IInv'
<1> SUFFICES ASSUME IInv, [Next]_vars PROVE IInv'
  OBVIOUS
<1>1. CASE UNCHANGED vars
  BY <1>1, NoCallQuiet, QuietKeeps DEF vars
<1>2. ASSUME NEW m \in Managers, PumpStep(m) PROVE IInv'
  BY <1>2, AcquireKeeps, RecoverKeeps, ClaimKeeps, PumpQuiet, ReleaseQuiet, StartQuiet, SettleKeeps,
     QuietKeeps DEF PumpStep
<1>3. ASSUME NEW m \in Managers, Pump(m) \/ Heartbeat(m) \/ Crash(m) PROVE IInv'
  BY <1>3, PumpQuiet, EnvironmentQuiet, QuietKeeps
<1>4. ASSUME NEW m \in Managers, NEW s \in Sessions,
             \/ Submit(m, s) \/ Answer(m, s) \/ Cancel(m, s)
             \/ PortStep(m, s) \/ Throws(m, s)
      PROVE  IInv'
  BY <1>4, SubmitQuiet, AnswerQuiet, CancelQuiet, PortQuiet, QuietKeeps DEF PortStep
<1>5. CASE Lapse \/ \E s \in Sessions : IssueAdvances(s)
  BY <1>5, EnvironmentQuiet, QuietKeeps
<1> QED
  BY <1>1, <1>2, <1>3, <1>4, <1>5 DEF Next

LEMMA HeldIsOwned == Held => ExecutionOwnsSession
  BY DEF Held, Holds, ExecutionOwnsSession

\* However many processes share the database, crash, lose the lease and recover
\* one another's sessions, no more sessions run than the limit allows.
THEOREM ConcurrencyAlwaysBounded == Spec => []BoundedConcurrency
<1>1. IInv => BoundedConcurrency
  BY DEF IInv
<1> QED
  BY <1>1, InitIInv, NextIInv, PTL DEF Spec

\* An execution of the lease's holder holds its session, so settle never throws
\* for an ownership it has lost.
THEOREM LeaseHolderOwnsSessions == Spec => []ExecutionOwnsSession
<1>1. IInv => ExecutionOwnsSession
  BY HeldIsOwned DEF IInv
<1> QED
  BY <1>1, InitIInv, NextIInv, PTL DEF Spec

\* The concurrency limit and the ownership of executions, together.
THEOREM SlotsAlwaysOwned == Spec => []SlotsOwned
<1>1. BoundedConcurrency /\ ExecutionOwnsSession => SlotsOwned
  BY DEF SlotsOwned
<1> QED
  BY <1>1, ConcurrencyAlwaysBounded, LeaseHolderOwnsSessions, PTL

-----------------------------------------------------------------------------
(* Selecting from a sequence *)

\* f is the recursion of Only, up to n
IsOnly(f, q, S, n) ==
    f = [k \in 0..n |-> IF k = 0 THEN <<>>
                        ELSE IF q[k] \in S THEN Append(f[k - 1], q[k]) ELSE f[k - 1]]

LEMMA OnlyExists ==
    ASSUME NEW q, NEW S, NEW n \in Nat
    PROVE  \E f : IsOnly(f, q, S, n)
<1> DEFINE T == {k \in Nat : ~\E f : IsOnly(f, q, S, k)}
<1> SUFFICES ASSUME T # {} PROVE FALSE
  OBVIOUS
<1>1. PICK k \in T : \A j \in T : k =< j
  <2> HIDE DEF T
  <2>1. T \in SUBSET Nat
    BY DEF T
  <2> QED
    BY <2>1, SmallestNat
<1>2. k \in Nat /\ ~\E f : IsOnly(f, q, S, k)
  OBVIOUS
<1>3. CASE k = 0
  <2>1. IsOnly([j \in 0..k |-> <<>>], q, S, k)
    BY <1>3 DEF IsOnly
  <2> QED
    BY <1>2, <2>1
<1>4. CASE k # 0
  <2>1. k - 1 \in Nat /\ k - 1 \notin T
    <3>1. k - 1 \in Nat /\ ~(k =< k - 1)
      BY <1>2, <1>4
    <3> QED
      BY <1>1, <3>1
  <2>2. PICK f : IsOnly(f, q, S, k - 1)
    BY <2>1
  <2> DEFINE last == IF q[k] \in S THEN Append(f[k - 1], q[k]) ELSE f[k - 1]
             g == [j \in 0..k |-> IF j = k THEN last ELSE f[j]]
  <2>3. \A j \in 0..(k - 1) : g[j] = f[j] /\ j \in 0..k
    BY <1>2, <2>1
  <2>4. \A j \in 0..k : g[j] = IF j = 0 THEN <<>>
                               ELSE IF q[j] \in S THEN Append(g[j - 1], q[j]) ELSE g[j - 1]
    <3> SUFFICES ASSUME NEW j \in 0..k
                 PROVE  g[j] = IF j = 0 THEN <<>>
                               ELSE IF q[j] \in S THEN Append(g[j - 1], q[j]) ELSE g[j - 1]
      OBVIOUS
    <3>1. CASE j = k
      <4>1. g[k - 1] = f[k - 1] /\ g[k] = last
        BY <1>2, <2>1, <2>3
      <4> QED
        BY <1>4, <3>1, <4>1
    <3>2. CASE j # k
      <4>1. j \in 0..(k - 1) /\ (j # 0 => j - 1 \in 0..(k - 1))
        BY <1>2, <3>2
      <4>2. g[j] = f[j] /\ (j # 0 => g[j - 1] = f[j - 1])
        BY <2>3, <4>1
      <4>3. f[j] = IF j = 0 THEN <<>> ELSE IF q[j] \in S THEN Append(f[j - 1], q[j]) ELSE f[j - 1]
        BY <2>2, <4>1 DEF IsOnly
      <4> HIDE DEF g
      <4> QED
        BY <4>1, <4>2, <4>3
    <3> QED
      BY <3>1, <3>2
  <2>5. g = [j \in 0..k |-> g[j]]
    OBVIOUS
  <2> HIDE DEF g
  <2>6. IsOnly(g, q, S, k)
    BY <2>4, <2>5 DEF IsOnly
  <2> QED
    BY <1>2, <2>6
<1> QED
  BY <1>3, <1>4

LEMMA OnlyIs ==
    ASSUME NEW q, NEW S, Len(q) \in Nat
    PROVE  \E f : IsOnly(f, q, S, Len(q)) /\ Only(q, S) = f[Len(q)]
<1> DEFINE f == CHOOSE g : IsOnly(g, q, S, Len(q))
<1>1. IsOnly(f, q, S, Len(q))
  BY OnlyExists, Zenon
<1>2. Only(q, S) = f[Len(q)]
  BY DEF Only, IsOnly
<1> QED
  BY <1>1, <1>2

\* The first n elements of q.
Upto(q, n) == {q[i] : i \in 1..n}

\* Only keeps the elements of q that are in S, and no element twice that q has once.
LEMMA OnlySelects ==
    ASSUME NEW X, NEW q \in Seq(X), NEW S
    PROVE  /\ Only(q, S) \in Seq(X)
           /\ ToSet(Only(q, S)) = ToSet(q) \cap S
           /\ IsInjective(q) => IsInjective(Only(q, S))
<1>1. PICK f : IsOnly(f, q, S, Len(q)) /\ Only(q, S) = f[Len(q)]
  BY OnlyIs
<1> DEFINE Good(n) == /\ f[n] \in Seq(X)
                      /\ ToSet(f[n]) = Upto(q, n) \cap S
                      /\ IsInjective(q) => IsInjective(f[n])
           T == {n \in 0..Len(q) : ~Good(n)}
<1>2. \A n \in 0..Len(q) : Good(n)
  <2> SUFFICES ASSUME T # {} PROVE FALSE
    OBVIOUS
  <2>1. PICK n \in T : \A j \in T : n =< j
    <3> HIDE DEF T
    <3>1. T \in SUBSET Nat
      BY DEF T
    <3> QED
      BY <3>1, SmallestNat
  <2>2. n \in 0..Len(q) /\ ~Good(n)
    OBVIOUS
  <2>3. CASE n = 0
    <3>1. f[0] = <<>>
      BY <1>1 DEF IsOnly
    <3>2. f[n] = <<>>
      BY <2>3, <3>1
    <3>3. <<>> \in Seq(X) /\ ToSet(<<>>) = {} /\ IsInjective(<<>>)
      BY DEF ToSet, IsInjective
    <3>4. Upto(q, n) = {}
      BY <2>3 DEF Upto
    <3> QED
      BY <2>2, <3>2, <3>3, <3>4
  <2>4. CASE n # 0
    <3> DEFINE p == f[n - 1]
    <3>1. n - 1 \in 0..Len(q) /\ ~(n =< n - 1) /\ n \in 1..Len(q)
      BY <2>2, <2>4
    <3>2. Good(n - 1)
      <4> HIDE DEF Good
      <4> QED
        BY <2>1, <3>1
    <3>3. f[n] = IF q[n] \in S THEN Append(p, q[n]) ELSE p
      BY <1>1, <2>2, <2>4 DEF IsOnly
    <3>4. p \in Seq(X) /\ ToSet(p) = Upto(q, n - 1) \cap S /\ q[n] \in X
      BY <3>1, <3>2
    <3>5. Upto(q, n) = Upto(q, n - 1) \cup {q[n]}
      <4>1. 1..n = (1..(n - 1)) \cup {n}
        BY <3>1
      <4> QED
        BY <4>1 DEF Upto
    <3>6. CASE q[n] \notin S
      <4>1. f[n] = p
        BY <3>3, <3>6
      <4>2. ToSet(f[n]) = Upto(q, n) \cap S
        BY <3>4, <3>5, <3>6, <4>1
      <4> QED
        BY <2>2, <3>2, <3>4, <4>1, <4>2
    <3>7. CASE q[n] \in S
      <4> HIDE DEF p
      <4>1. f[n] = Append(p, q[n])
        BY <3>3, <3>7
      <4>2. /\ Append(p, q[n]) \in Seq(X) /\ Len(Append(p, q[n])) = Len(p) + 1
            /\ \A i \in 1..Len(p) : Append(p, q[n])[i] = p[i]
            /\ Append(p, q[n])[Len(p) + 1] = q[n]
        BY <3>4
      <4> DEFINE r == Append(p, q[n])
      <4> HIDE DEF r
      <4>3. /\ r \in Seq(X) /\ Len(r) = Len(p) + 1 /\ r[Len(p) + 1] = q[n]
            /\ \A i \in 1..Len(p) : r[i] = p[i]
        BY <4>2 DEF r
      <4>4. DOMAIN r = (1..Len(p)) \cup {Len(p) + 1} /\ DOMAIN p = 1..Len(p)
        BY <3>4, <4>3
      <4>5. ToSet(r) = ToSet(p) \cup {q[n]}
        BY <4>3, <4>4 DEF ToSet
      <4>6. ToSet(r) = Upto(q, n) \cap S
        BY <3>4, <3>5, <3>7, <4>5
      <4>7. IsInjective(q) => IsInjective(r)
        <5> SUFFICES ASSUME IsInjective(q) PROVE IsInjective(r)
          OBVIOUS
        <5>1. q[n] \notin Upto(q, n - 1)
          <6>1. \A i \in 1..(n - 1) : i \in DOMAIN q /\ n \in DOMAIN q /\ i # n
            BY <3>1
          <6> QED
            BY <6>1 DEF Upto, IsInjective
        <5>2. \A i \in 1..Len(p) : p[i] # q[n]
          BY <3>4, <4>4, <5>1 DEF ToSet
        <5>3. \A i, j \in 1..Len(p) : p[i] = p[j] => i = j
          BY <3>2, <4>4 DEF IsInjective, p
        <5> QED
          BY <4>3, <4>4, <5>2, <5>3 DEF IsInjective
      <4> QED
        BY <2>2, <4>1, <4>3, <4>6, <4>7 DEF r
    <3> QED
      BY <3>6, <3>7
  <2> QED
    BY <2>3, <2>4
<1>3. Good(Len(q))
  BY <1>2
<1>4. Upto(q, Len(q)) = ToSet(q)
  BY DEF Upto, ToSet
<1> QED
  BY <1>1, <1>3, <1>4

-----------------------------------------------------------------------------
(* The order of the sessions *)

LEMMA Concatenated ==
    ASSUME NEW X, NEW a \in Seq(X), NEW b \in Seq(X)
    PROVE  /\ a \o b \in Seq(X) /\ ToSet(a \o b) = ToSet(a) \cup ToSet(b)
           /\ IsInjective(a) /\ IsInjective(b) /\ ToSet(a) \cap ToSet(b) = {} => IsInjective(a \o b)
<1> DEFINE c == a \o b
<1>1. /\ c \in Seq(X) /\ Len(c) = Len(a) + Len(b) /\ Len(a) \in Nat /\ Len(b) \in Nat
      /\ \A i \in 1..Len(c) : c[i] = IF i =< Len(a) THEN a[i] ELSE b[i - Len(a)]
  OBVIOUS
<1>2. DOMAIN a = 1..Len(a) /\ DOMAIN b = 1..Len(b) /\ DOMAIN c = 1..Len(c)
  BY <1>1
<1> HIDE DEF c
<1>3. \A i \in 1..Len(a) : i \in 1..Len(c) /\ c[i] = a[i]
  BY <1>1
<1>4. \A i \in 1..Len(b) : i + Len(a) \in 1..Len(c) /\ c[i + Len(a)] = b[i]
  <2> SUFFICES ASSUME NEW i \in 1..Len(b)
               PROVE  i + Len(a) \in 1..Len(c) /\ c[i + Len(a)] = b[i]
    OBVIOUS
  <2>1. i + Len(a) \in 1..Len(c) /\ ~(i + Len(a) =< Len(a)) /\ (i + Len(a)) - Len(a) = i
    BY <1>1
  <2> QED
    BY <1>1, <2>1
<1>5. \A i \in 1..Len(c) : \/ i \in 1..Len(a) /\ c[i] = a[i]
                           \/ i - Len(a) \in 1..Len(b) /\ c[i] = b[i - Len(a)]
  BY <1>1
<1>6. ToSet(c) = ToSet(a) \cup ToSet(b)
  <2>1. ToSet(c) \subseteq ToSet(a) \cup ToSet(b)
    BY <1>2, <1>5 DEF ToSet
  <2>2. ToSet(a) \subseteq ToSet(c) /\ ToSet(b) \subseteq ToSet(c)
    BY <1>2, <1>3, <1>4 DEF ToSet
  <2> QED
    BY <2>1, <2>2
<1>7. ASSUME IsInjective(a), IsInjective(b), ToSet(a) \cap ToSet(b) = {} PROVE IsInjective(c)
  <2> SUFFICES ASSUME NEW i \in 1..Len(c), NEW j \in 1..Len(c), c[i] = c[j] PROVE i = j
    BY <1>2 DEF IsInjective
  <2>1. \A k \in 1..Len(a), n \in 1..Len(b) : a[k] # b[n]
    BY <1>2, <1>7 DEF ToSet
  <2>2. CASE i \in 1..Len(a) /\ c[i] = a[i] /\ j \in 1..Len(a) /\ c[j] = a[j]
    BY <1>2, <1>7, <2>2 DEF IsInjective
  <2>3. CASE /\ i - Len(a) \in 1..Len(b) /\ c[i] = b[i - Len(a)]
             /\ j - Len(a) \in 1..Len(b) /\ c[j] = b[j - Len(a)]
    <3>1. i - Len(a) = j - Len(a)
      BY <1>2, <1>7, <2>3 DEF IsInjective
    <3> QED
      BY <1>1, <3>1
  <2> QED
    BY <1>5, <2>1, <2>2, <2>3
<1> QED
  BY <1>1, <1>6, <1>7 DEF c

\* the rows, the order and the work parts of TypeOK
RowsTyped == sess \in [Sessions -> Row]
OrderTyped ==
    /\ order \in Seq(Sessions) /\ IsInjective(order)
    /\ ToSet(order) = {s \in Sessions : sess[s].state # "none"}
WorkTyped ==
    /\ issue \in [Sessions -> Issue] /\ started \subseteq Sessions
    /\ call \in [Managers -> [Sessions -> Call]]
Places == {"idle", "acquiring", "recovering", "claiming", "starting", "racing", "woken",
           "leaving", "releasing", "dead"}
PumpsTyped ==
    /\ lease \in [owner : Managers \cup {NoManager}, live : BOOLEAN]
    /\ pc \in [Managers -> Places]
    /\ wanted \in [Managers -> BOOLEAN] /\ claimLost \in [Managers -> BOOLEAN]
    /\ faults \in 0..MaxFaults

LEMMA TypeParts == TypeOK <=> RowsTyped /\ OrderTyped /\ WorkTyped /\ PumpsTyped
  BY DEF TypeOK, RowsTyped, OrderTyped, WorkTyped, PumpsTyped, Places

\* Moving sessions to the end loses none and repeats none.
LEMMA MovedOrder ==
    ASSUME OrderTyped, NEW S
    PROVE  /\ MoveToEnd(S) \in Seq(Sessions) /\ IsInjective(MoveToEnd(S))
           /\ ToSet(MoveToEnd(S)) = ToSet(order)
<1> DEFINE a == Only(order, Sessions \ S)
           b == Only(order, S)
<1>1. /\ a \in Seq(Sessions) /\ ToSet(a) = ToSet(order) \cap (Sessions \ S) /\ IsInjective(a)
      /\ b \in Seq(Sessions) /\ ToSet(b) = ToSet(order) \cap S /\ IsInjective(b)
  BY OnlySelects DEF OrderTyped
<1>2. ToSet(order) \subseteq Sessions
  BY DEF OrderTyped
<1>3. MoveToEnd(S) = a \o b
  BY DEF MoveToEnd
<1> HIDE DEF a, b
<1>4. ToSet(a) \cap ToSet(b) = {} /\ ToSet(a) \cup ToSet(b) = ToSet(order)
  BY <1>1, <1>2
<1>5. /\ a \o b \in Seq(Sessions) /\ ToSet(a \o b) = ToSet(a) \cup ToSet(b)
      /\ IsInjective(a \o b)
  BY <1>1, <1>4, Concatenated
<1> QED
  BY <1>3, <1>4, <1>5

\* The queue holds the queued sessions, each once.
LEMMA QueueHolds ==
    ASSUME OrderTyped
    PROVE  Queue \in Seq(Sessions) /\ IsInjective(Queue) /\ ToSet(Queue) = InState("queued")
<1> DEFINE a == Only(order, Recovered)
           b == Only(order, InState("queued") \ Recovered)
<1>1. /\ a \in Seq(Sessions) /\ ToSet(a) = ToSet(order) \cap Recovered /\ IsInjective(a)
      /\ b \in Seq(Sessions) /\ ToSet(b) = ToSet(order) \cap (InState("queued") \ Recovered) /\ IsInjective(b)
  BY OnlySelects DEF OrderTyped
<1>2. Recovered \subseteq InState("queued") /\ InState("queued") \subseteq ToSet(order)
  BY DEF OrderTyped, Recovered, InState
<1>3. Queue = a \o b
  BY DEF Queue
<1> HIDE DEF a, b
<1>4. ToSet(a) \cap ToSet(b) = {} /\ ToSet(a) \cup ToSet(b) = InState("queued")
  BY <1>1, <1>2
<1> QED
  BY <1>1, <1>3, <1>4, Concatenated

\* Only queued sessions are admitted.
LEMMA AdmittedQueued == ASSUME OrderTyped PROVE Admitted \subseteq InState("queued")
<1>1. \A i \in 1..Len(Queue) : Queue[i] \in InState("queued")
  BY QueueHolds DEF ToSet
<1> QED
  BY <1>1 DEF Admitted

-----------------------------------------------------------------------------
(* The types *)

\* what a call may report
Reportable == Final \cup {"in_flight", "awaiting_user"}
ReportsTyped ==
    \A m \in Managers, s \in Sessions : call[m][s].step = "reported" => call[m][s].state \in Reportable

TInv == TypeOK /\ ReportsTyped

LEMMA TypesJoined ==
    ASSUME RowsTyped', OrderTyped', WorkTyped', PumpsTyped', ReportsTyped'
    PROVE  TInv'
  BY DEF TInv, TypeOK, RowsTyped, OrderTyped, WorkTyped, PumpsTyped, Places

\* no row is submitted or forgotten
NoneKept == \A s \in Sessions : sess'[s].state = "none" <=> sess[s].state = "none"

LEMMA OrderKept ==
    ASSUME OrderTyped, NoneKept, \/ order' = order
                                 \/ \E S \in SUBSET Sessions : order' = MoveToEnd(S)
    PROVE  OrderTyped'
<1>1. {s \in Sessions : sess'[s].state # "none"} = {s \in Sessions : sess[s].state # "none"}
  BY DEF NoneKept
<1>2. order' \in Seq(Sessions) /\ IsInjective(order') /\ ToSet(order') = ToSet(order)
  BY MovedOrder DEF OrderTyped
<1> QED
  BY <1>1, <1>2 DEF OrderTyped

\* one row is rewritten
LEMMA RowTyped ==
    ASSUME RowsTyped, NEW s \in Sessions, NEW r \in Row, sess' = [sess EXCEPT ![s] = r],
           r.state = "none" <=> sess[s].state = "none"
    PROVE  RowsTyped' /\ NoneKept
  BY DEF RowsTyped, NoneKept

\* one call is rewritten
LEMMA OneCallTyped ==
    ASSUME TInv, NEW m \in Managers, NEW s \in Sessions, NEW c \in Call,
           call' = [call EXCEPT ![m][s] = c], c.step = "reported" => c.state \in Reportable
    PROVE  call' \in [Managers -> [Sessions -> Call]] /\ ReportsTyped'
<1>1. call \in [Managers -> [Sessions -> Call]]
  BY DEF TInv, TypeOK
<1>2. call'[m][s] = c /\ \A n \in Managers, t \in Sessions : n # m \/ t # s => call'[n][t] = call[n][t]
  BY <1>1
<1> QED
  BY <1>1, <1>2 DEF TInv, ReportsTyped

LEMMA CallingTyped ==
    ASSUME NEW step \in {"none", "claimed", "resume", "answer", "cancel"}, NEW q \in Nat
    PROVE  Calling(step, q) \in Call /\ Calling(step, q).step # "reported"
  BY DEF Calling, Call, RowState, Amount

LEMMA ReportTyped ==
    ASSUME NEW state \in Reportable, NEW q \in Nat, NEW cost \in Amount
    PROVE  /\ Reported(state, q, cost) \in Call
           /\ Reported(state, q, cost).step = "reported" /\ Reported(state, q, cost).state = state
  BY DEF Reported, Call, RowState, Reportable

LEMMA PortErrorTyped == PortError \in Call /\ PortError.state \in Reportable /\ PortError.step = "reported"
<1>1. "outcome_unknown" \in Reportable /\ 0 \in Nat /\ NoAmount \in Amount
  BY DEF Reportable, Final, Amount
<1>2. PortError = Reported("outcome_unknown", 0, NoAmount)
  BY DEF PortError
<1> QED
  BY <1>1, <1>2, ReportTyped

LEMMA RequestTyped ==
    ASSUME PumpsTyped, NEW m \in Managers, PumpRequested(m)
    PROVE  pc' \in [Managers -> Places] /\ wanted' \in [Managers -> BOOLEAN]
  BY DEF PumpsTyped, PumpRequested, Goto, Places

\* an execution is over
LEMMA ForgottenTyped ==
    ASSUME TInv, NEW m \in Managers, call' = [call EXCEPT ![m] = [s \in Sessions |-> NotCalled]]
    PROVE  call' \in [Managers -> [Sessions -> Call]] /\ ReportsTyped'
<1>1. NotCalled \in Call /\ NotCalled.step # "reported"
  BY CallingTyped DEF NotCalled
<1>2. call \in [Managers -> [Sessions -> Call]]
  BY DEF TInv, TypeOK
<1> QED
  BY <1>1, <1>2 DEF TInv, ReportsTyped

LEMMA FinishedTyped ==
    ASSUME TInv, NEW m \in Managers, Finished(m)
    PROVE  /\ pc' \in [Managers -> Places] /\ wanted' \in [Managers -> BOOLEAN]
           /\ claimLost' \in [Managers -> BOOLEAN]
           /\ call' \in [Managers -> [Sessions -> Call]] /\ ReportsTyped'
<1>1. PumpsTyped
  BY TypeParts DEF TInv
<1> QED
  BY <1>1, ForgottenTyped DEF Finished, Goto, PumpsTyped, Places

LEMMA IssuesTyped ==
    ASSUME NEW i \in Issue
    PROVE  /\ CancelRequested(i) \in Issue /\ Answered(i) \in Issue
           /\ Advances(i) \subseteq Issue
  BY DEF Issue, CancelRequested, Answered, Advances, In, Ended

LEMMA CancelIssueTyped ==
    ASSUME TypeOK, NEW s \in Sessions, CancelsIssue(s)
    PROVE  issue' \in [Sessions -> Issue]
  BY IssuesTyped DEF TypeOK, CancelsIssue

\* an action changes no more than the parts it is asked about
LEMMA SubmitTyped == ASSUME TInv, NEW m \in Managers, NEW s \in Sessions, Submit(m, s) PROVE TInv'
<1>0. RowsTyped /\ OrderTyped /\ WorkTyped /\ PumpsTyped
  BY TypeParts DEF TInv
<1>1. PICK x \in Reservations[s] : sess' = [sess EXCEPT ![s].state = "queued", ![s].reservation = x]
  BY DEF Submit
<1> DEFINE r == [sess[s] EXCEPT !.state = "queued", !.reservation = x]
<1>2. sess' = [sess EXCEPT ![s] = r]
  BY <1>0, <1>1 DEF RowsTyped
<1>3. x \in Amount
  BY AmountAssumption DEF Amount
<1>4. r \in Row /\ r.state = "queued"
  BY <1>0, <1>3 DEF RowsTyped, Row, RowState
<1> HIDE DEF r
<1>5. RowsTyped'
  BY <1>0, <1>2, <1>4 DEF RowsTyped
<1>6. OrderTyped'
  <2>1. order' = Append(order, s) /\ sess[s].state = "none"
    BY DEF Submit
  <2>2. order \in Seq(Sessions) /\ s \notin ToSet(order)
    BY <1>0, <2>1 DEF OrderTyped
  <2> DEFINE one == <<s>>
  <2>3. Append(order, s) = order \o one /\ one \in Seq(Sessions) /\ ToSet(one) = {s} /\ IsInjective(one)
    BY <2>2 DEF ToSet, IsInjective
  <2> HIDE DEF one
  <2>6. /\ order \o one \in Seq(Sessions) /\ ToSet(order \o one) = ToSet(order) \cup ToSet(one)
        /\ IsInjective(order) /\ IsInjective(one) /\ ToSet(order) \cap ToSet(one) = {} => IsInjective(order \o one)
    BY <2>2, <2>3, Concatenated
  <2>4. order' \in Seq(Sessions) /\ ToSet(order') = ToSet(order) \cup {s} /\ IsInjective(order')
    BY <1>0, <2>1, <2>2, <2>3, <2>6 DEF OrderTyped
  <2>5. {t \in Sessions : sess'[t].state # "none"} = {t \in Sessions : sess[t].state # "none"} \cup {s}
    BY <1>0, <1>2, <1>4 DEF RowsTyped
  <2> QED
    BY <1>0, <2>4, <2>5 DEF OrderTyped
<1>7. PumpsTyped'
  BY <1>0, RequestTyped DEF Submit, PumpsTyped
<1>8. WorkTyped' /\ ReportsTyped'
  BY <1>0 DEF Submit, WorkTyped, ReportsTyped, TInv, issues
<1> QED
  BY <1>5, <1>6, <1>7, <1>8, TypesJoined

LEMMA AnswerTyped == ASSUME TInv, NEW m \in Managers, NEW s \in Sessions, Answer(m, s) PROVE TInv'
<1>0. RowsTyped /\ OrderTyped /\ WorkTyped /\ PumpsTyped
  BY TypeParts DEF TInv
<1> DEFINE r == [sess[s] EXCEPT !.state = "queued", !.recovered = FALSE, !.answer = sess[s].question]
<1>1. sess' = [sess EXCEPT ![s] = r]
  BY <1>0 DEF Answer, RowsTyped
<1>2. r \in Row /\ r.state = "queued"
  BY <1>0 DEF RowsTyped, Row, RowState
<1>3. sess[s].state # "none"
  BY DEF Answer
<1> HIDE DEF r
<1>4. RowsTyped' /\ NoneKept
  BY <1>0, <1>1, <1>2, <1>3, RowTyped
<1>5. OrderTyped'
  BY <1>0, <1>4, OrderKept DEF Answer
<1>6. PumpsTyped'
  BY <1>0, RequestTyped DEF Answer, PumpsTyped
<1>7. WorkTyped' /\ ReportsTyped'
  BY <1>0 DEF Answer, WorkTyped, ReportsTyped, TInv, issues
<1> QED
  BY <1>4, <1>5, <1>6, <1>7, TypesJoined

LEMMA CancelTyped == ASSUME TInv, NEW m \in Managers, NEW s \in Sessions, Cancel(m, s) PROVE TInv'
<1> USE DEF rows
<1>0. RowsTyped /\ OrderTyped /\ WorkTyped /\ PumpsTyped
  BY TypeParts DEF TInv
<1>1. RowsTyped' /\ NoneKept /\ (order' = order \/ \E S \in SUBSET Sessions : order' = MoveToEnd(S))
  <2>1. CASE CancelNoOp(s)
    BY <1>0, <2>1 DEF Cancel, NoneKept, RowsTyped
  <2>2. CASE ~CancelNoOp(s) /\ Requeues(s)
    <3> DEFINE r == [sess[s] EXCEPT !.cancel = TRUE, !.state = "queued", !.recovered = FALSE]
    <3>1. sess' = [sess EXCEPT ![s] = r] /\ order' = MoveToEnd({s})
      BY <1>0, <2>2 DEF Cancel, RowsTyped
    <3>2. r \in Row /\ r.state = "queued" /\ sess[s].state # "none"
      BY <1>0, <2>2 DEF RowsTyped, Row, RowState, Requeues
    <3> HIDE DEF r
    <3> QED
      BY <1>0, <3>1, <3>2, RowTyped
  <2>3. CASE ~CancelNoOp(s) /\ ~Requeues(s)
    <3> DEFINE r == [sess[s] EXCEPT !.cancel = TRUE]
    <3>1. sess' = [sess EXCEPT ![s] = r] /\ order' = order
      BY <1>0, <2>3 DEF Cancel, RowsTyped
    <3>2. r \in Row /\ r.state = sess[s].state
      BY <1>0 DEF RowsTyped, Row
    <3> HIDE DEF r
    <3> QED
      BY <1>0, <3>1, <3>2, RowTyped
  <2> QED
    BY <2>1, <2>2, <2>3
<1>2. OrderTyped'
  BY <1>0, <1>1, OrderKept
<1>3. PumpsTyped'
  BY <1>0, RequestTyped DEF Cancel, PumpsTyped
<1>4. issue' \in [Sessions -> Issue]
  BY <1>0, CancelIssueTyped DEF Cancel, TInv, WorkTyped
<1>5. call' \in [Managers -> [Sessions -> Call]] /\ ReportsTyped'
  <2>1. CASE UNCHANGED call
    BY <1>0, <2>1 DEF WorkTyped, TInv, ReportsTyped
  <2>2. CASE call' = [call EXCEPT ![m][s] = Calling("cancel", 0)]
    BY <2>2, CallingTyped, OneCallTyped
  <2> QED
    BY <2>1, <2>2 DEF Cancel
<1>6. WorkTyped'
  BY <1>0, <1>4, <1>5 DEF Cancel, WorkTyped
<1> QED
  BY <1>1, <1>2, <1>3, <1>5, <1>6, TypesJoined

\* steps that leave the rows alone
LEMMA RowsSame ==
    ASSUME TInv, UNCHANGED rows
    PROVE  RowsTyped' /\ OrderTyped'
<1>0. RowsTyped /\ OrderTyped
  BY TypeParts DEF TInv
<1> QED
  BY <1>0, OrderKept DEF rows, RowsTyped, NoneKept

LEMMA PumpTyped ==
    ASSUME TInv, NEW m \in Managers, Pump(m) \/ Wake(m) \/ Heartbeat(m) \/ Crash(m)
    PROVE  TInv'
<1>0. RowsTyped /\ OrderTyped /\ WorkTyped /\ PumpsTyped
  BY TypeParts DEF TInv
<1>1. UNCHANGED <<rows, issues>>
  BY DEF Pump, Wake, Heartbeat, Crash
<1>2. PumpsTyped'
  <2>1. CASE Pump(m)
    BY <1>0, <2>1, RequestTyped DEF Pump, PumpsTyped
  <2>2. CASE Wake(m)
    BY <1>0, <2>2 DEF Wake, PumpsTyped, Goto, Places
  <2>3. CASE Heartbeat(m)
    BY <1>0, <2>3, FaultAssumption DEF Heartbeat, PumpsTyped, Fault
  <2>4. CASE Crash(m)
    BY <1>0, <2>4, FaultAssumption DEF Crash, PumpsTyped, Fault, Goto, Places
  <2> QED
    BY <2>1, <2>2, <2>3, <2>4
<1>3. call' \in [Managers -> [Sessions -> Call]] /\ ReportsTyped'
  <2>1. CASE UNCHANGED call
    BY <1>0, <2>1 DEF WorkTyped, TInv, ReportsTyped
  <2> QED
    BY <2>1, ForgottenTyped DEF Pump, Wake, Heartbeat, Crash
<1>4. WorkTyped'
  BY <1>0, <1>1, <1>3 DEF WorkTyped, issues
<1> QED
  BY <1>1, <1>2, <1>3, <1>4, RowsSame, TypesJoined

LEMMA LeaseTyped ==
    ASSUME TInv, \/ Lapse
                 \/ \E m \in Managers : Acquire(m) \/ Leave(m) \/ Release(m)
    PROVE  TInv'
<1>0. RowsTyped /\ OrderTyped /\ WorkTyped /\ PumpsTyped
  BY TypeParts DEF TInv
<1>1. UNCHANGED <<rows, issues>>
  BY DEF Acquire, Leave, Release, Lapse
<1>2. \A n \in Managers \cup {NoManager}, b \in BOOLEAN :
         [owner |-> n, live |-> b] \in [owner : Managers \cup {NoManager}, live : BOOLEAN]
  OBVIOUS
<1>3. PumpsTyped' /\ call' \in [Managers -> [Sessions -> Call]] /\ ReportsTyped'
  <2>1. CASE Lapse
    <3>1. UNCHANGED <<pc, wanted, claimLost, call>> /\ faults' \in 0..MaxFaults
      BY <1>0, <2>1, FaultAssumption DEF Lapse, PumpsTyped, Fault
    <3>2. lease' \in [owner : Managers \cup {NoManager}, live : BOOLEAN]
      BY <1>0, <2>1 DEF Lapse, PumpsTyped
    <3> QED
      BY <1>0, <3>1, <3>2 DEF PumpsTyped, WorkTyped, TInv, ReportsTyped
  <2>2. ASSUME NEW m \in Managers, Finished(m), UNCHANGED faults,
               lease' \in {lease, [owner |-> NoManager, live |-> FALSE]}
        PROVE  PumpsTyped' /\ call' \in [Managers -> [Sessions -> Call]] /\ ReportsTyped'
    BY <1>0, <1>2, <2>2, FinishedTyped DEF PumpsTyped
  <2>3. ASSUME NEW m \in Managers, NEW where \in Places, Goto(m, where), UNCHANGED <<wanted, claimLost, call, faults>>,
               lease' \in {lease, [owner |-> m, live |-> TRUE]}
        PROVE  PumpsTyped' /\ call' \in [Managers -> [Sessions -> Call]] /\ ReportsTyped'
    <3>1. pc' \in [Managers -> Places]
      BY <1>0, <2>3 DEF PumpsTyped, Goto
    <3>2. lease' \in [owner : Managers \cup {NoManager}, live : BOOLEAN]
      BY <1>0, <1>2, <2>3 DEF PumpsTyped
    <3> QED
      BY <1>0, <2>3, <3>1, <3>2 DEF PumpsTyped, WorkTyped, TInv, ReportsTyped
  <2>4. ASSUME NEW m \in Managers, Acquire(m)
        PROVE  PumpsTyped' /\ call' \in [Managers -> [Sessions -> Call]] /\ ReportsTyped'
    BY <2>2, <2>3, <2>4 DEF Acquire, Places
  <2>5. ASSUME NEW m \in Managers, Leave(m)
        PROVE  PumpsTyped' /\ call' \in [Managers -> [Sessions -> Call]] /\ ReportsTyped'
    BY <2>2, <2>3, <2>5 DEF Leave, Places
  <2>6. ASSUME NEW m \in Managers, Release(m)
        PROVE  PumpsTyped' /\ call' \in [Managers -> [Sessions -> Call]] /\ ReportsTyped'
    BY <2>2, <2>6 DEF Release
  <2> QED
    BY <2>1, <2>4, <2>5, <2>6
<1>4. WorkTyped'
  BY <1>0, <1>1, <1>3 DEF WorkTyped, issues
<1> QED
  BY <1>1, <1>3, <1>4, RowsSame, TypesJoined

\* the pump moves on, with or without its executions
LEMMA PumpsKept ==
    ASSUME TInv, NEW m \in Managers, NEW where \in Places, Goto(m, where),
           UNCHANGED <<lease, wanted, claimLost, faults>>
    PROVE  PumpsTyped'
<1>0. PumpsTyped
  BY TypeParts DEF TInv
<1> QED
  BY <1>0 DEF PumpsTyped, Goto

LEMMA RecoverTyped == ASSUME TInv, NEW m \in Managers, Recover(m) PROVE TInv'
<1> USE DEF rows
<1>0. RowsTyped /\ OrderTyped /\ WorkTyped /\ PumpsTyped
  BY TypeParts DEF TInv
<1>1. PumpsTyped'
  <2>1. Goto(m, "claiming") \/ Goto(m, "releasing")
    BY DEF Recover
  <2> QED
    BY <2>1, PumpsKept DEF Recover, Places
<1>2. WorkTyped' /\ ReportsTyped'
  BY <1>0 DEF Recover, WorkTyped, TInv, ReportsTyped, issues
<1>3. CASE UNCHANGED rows
  BY <1>1, <1>2, <1>3, RowsSame, TypesJoined
<1>4. CASE ~UNCHANGED rows
  <2> DEFINE back(s) == [sess[s] EXCEPT !.state = "queued", !.recovered = TRUE, !.owner = NoManager]
  <2>1. /\ sess' = [s \in Sessions |-> IF s \in Orphans(m) THEN back(s) ELSE sess[s]]
        /\ order' = MoveToEnd(Orphans(m))
    BY <1>4 DEF Recover
  <2>2. \A s \in Sessions : back(s) \in Row /\ back(s).state = "queued"
    BY <1>0 DEF RowsTyped, Row, RowState
  <2>3. Orphans(m) \subseteq InState("running")
    BY DEF Orphans
  <2> HIDE DEF back
  <2>4. RowsTyped' /\ NoneKept
    BY <1>0, <2>1, <2>2, <2>3 DEF RowsTyped, NoneKept, InState
  <2>5. OrderTyped'
    BY <1>0, <2>1, <2>3, <2>4, OrderKept DEF InState
  <2> QED
    BY <1>1, <1>2, <2>4, <2>5, TypesJoined
<1> QED
  BY <1>3, <1>4

LEMMA ClaimTyped == ASSUME TInv, NEW m \in Managers, Claim(m) PROVE TInv'
<1>0. RowsTyped /\ OrderTyped /\ WorkTyped /\ PumpsTyped
  BY TypeParts DEF TInv
<1> DEFINE claimed == IF Owned(m) /\ Readable THEN Admitted ELSE {}
           taken(s) == [sess[s] EXCEPT !.state = "running", !.owner = m]
<1>1. /\ sess' = [s \in Sessions |-> IF s \in claimed THEN taken(s) ELSE sess[s]]
      /\ call' = [call EXCEPT ![m] = [s \in Sessions |->
                    IF s \in claimed THEN Calling("claimed", 0) ELSE call[m][s]]]
  BY DEF Claim
<1>2. claimed \subseteq InState("queued")
  BY <1>0, AdmittedQueued
<1>3. \A s \in Sessions : taken(s) \in Row /\ taken(s).state = "running"
  BY <1>0 DEF RowsTyped, Row, RowState
<1> HIDE DEF claimed, taken
<1>4. RowsTyped' /\ NoneKept
  BY <1>0, <1>1, <1>2, <1>3 DEF RowsTyped, NoneKept, InState
<1>5. OrderTyped'
  BY <1>0, <1>4, OrderKept DEF Claim
<1>6. PumpsTyped'
  <2>1. \E where \in Places : Goto(m, where)
    BY DEF Claim, Places
  <2> QED
    BY <2>1, PumpsKept DEF Claim
<1>7. Calling("claimed", 0) \in Call /\ Calling("claimed", 0).step # "reported"
  BY CallingTyped
<1>8. call' \in [Managers -> [Sessions -> Call]] /\ ReportsTyped'
  BY <1>0, <1>1, <1>7 DEF WorkTyped, TInv, ReportsTyped
<1>9. WorkTyped'
  BY <1>0, <1>8 DEF Claim, WorkTyped, issues
<1> QED
  BY <1>4, <1>5, <1>6, <1>8, <1>9, TypesJoined

LEMMA StartTyped == ASSUME TInv, NEW m \in Managers, NEW s \in Sessions, Start(m, s) PROVE TInv'
<1>0. RowsTyped /\ OrderTyped /\ WorkTyped /\ PumpsTyped
  BY TypeParts DEF TInv
<1>1. PumpsTyped'
  <2>1. \E where \in Places : Goto(m, where)
    BY DEF Start, Places
  <2> QED
    BY <2>1, PumpsKept DEF Start
<1>2. issue' \in [Sessions -> Issue]
  BY <1>0, CancelIssueTyped DEF Start, TInv, WorkTyped
<1>3. sess[s].answer \in Nat
  BY <1>0 DEF RowsTyped, Row
<1>4. Asks(s) \in Call /\ Asks(s).step # "reported"
  BY <1>3, CallingTyped DEF Asks
<1>5. PICK c \in Call : call' = [call EXCEPT ![m][s] = c] /\ (c.step = "reported" => c.state \in Reportable)
  BY <1>4, CallingTyped, PortErrorTyped DEF Start
<1>6. call' \in [Managers -> [Sessions -> Call]] /\ ReportsTyped'
  BY <1>5, OneCallTyped
<1>7. WorkTyped'
  BY <1>0, <1>2, <1>6 DEF Start, WorkTyped
<1> QED
  BY <1>1, <1>6, <1>7, RowsSame, TypesJoined DEF Start

LEMMA SettleTyped == ASSUME TInv, NEW m \in Managers, NEW s \in Sessions, Settle(m, s) PROVE TInv'
<1> USE DEF rows
<1>0. RowsTyped /\ OrderTyped /\ WorkTyped /\ PumpsTyped
  BY TypeParts DEF TInv
<1>1. PumpsTyped'
  BY PumpsKept DEF Settle, Places
<1>2. call' \in [Managers -> [Sessions -> Call]] /\ ReportsTyped'
  BY CallingTyped, OneCallTyped DEF Settle, NotCalled
<1>3. WorkTyped'
  BY <1>0, <1>2 DEF Settle, WorkTyped, issues
<1>4. CASE UNCHANGED sess
  <2>1. RowsTyped' /\ OrderTyped'
    BY <1>4, RowsSame DEF Settle
  <2> QED
    BY <1>1, <1>2, <1>3, <2>1, TypesJoined
<1>5. CASE ~UNCHANGED sess
  <2> DEFINE r == [sess[s] EXCEPT !.state = call[m][s].state, !.cost = call[m][s].cost,
                      !.question = call[m][s].question, !.answer = 0, !.owner = NoManager]
  <2>1. sess' = [sess EXCEPT ![s] = r] /\ sess[s].state = "running"
    BY <1>0, <1>5 DEF Settle, Settles, RowsTyped
  <2>2. call[m][s] \in Call /\ call[m][s].state \in Reportable
    BY <1>0 DEF Settle, WorkTyped, TInv, ReportsTyped
  <2>3. r \in Row /\ r.state = call[m][s].state
    BY <1>0, <2>2, ZenonT(30) DEF RowsTyped, Row, Call
  <2>4. r.state # "none"
    BY <2>2, <2>3 DEF Reportable, Final
  <2> HIDE DEF r
  <2>5. RowsTyped' /\ NoneKept
    BY <1>0, <2>1, <2>3, <2>4, RowTyped
  <2>6. OrderTyped'
    BY <1>0, <2>5, OrderKept DEF Settle
  <2> QED
    BY <1>1, <1>2, <1>3, <2>5, <2>6, TypesJoined
<1> QED
  BY <1>4, <1>5

LEMMA AdvanceTyped == ASSUME TInv, NEW s \in Sessions, IssueAdvances(s) PROVE TInv'
<1>0. RowsTyped /\ OrderTyped /\ WorkTyped /\ PumpsTyped
  BY TypeParts DEF TInv
<1>1. UNCHANGED rows
  BY DEF IssueAdvances
<1>2. PumpsTyped'
  BY <1>0 DEF IssueAdvances, PumpsTyped
<1>3. issue' \in [Sessions -> Issue]
  BY <1>0, IssuesTyped DEF IssueAdvances, WorkTyped
<1>4. WorkTyped' /\ ReportsTyped'
  BY <1>0, <1>3 DEF IssueAdvances, WorkTyped, TInv, ReportsTyped
<1> QED
  BY <1>1, <1>2, <1>4, RowsSame, TypesJoined

LEMMA IssueTyped ==
    ASSUME TInv, NEW m \in Managers, NEW s \in Sessions,
           TakesAnswer(m, s) \/ Returns(m, s) \/ Throws(m, s)
    PROVE  TInv'
<1>0. RowsTyped /\ OrderTyped /\ WorkTyped /\ PumpsTyped
  BY TypeParts DEF TInv
<1>1. UNCHANGED <<rows, started>>
  BY DEF TakesAnswer, Returns, Throws, issues
<1>2. PumpsTyped'
  BY <1>0, FaultAssumption DEF TakesAnswer, Returns, Throws, PumpsTyped, Fault
<1>3. issue' \in [Sessions -> Issue]
  BY <1>0, IssuesTyped DEF TakesAnswer, Returns, Throws, WorkTyped, issues
<1>4. call' \in [Managers -> [Sessions -> Call]] /\ ReportsTyped'
  <2>2. CASE TakesAnswer(m, s)
    BY <2>2, CallingTyped, OneCallTyped DEF TakesAnswer
  <2>3. CASE Throws(m, s)
    BY <2>3, PortErrorTyped, OneCallTyped DEF Throws
  <2>4. CASE Returns(m, s)
    <3>1. PICK c \in ReportsOf(m, s) : call' = [call EXCEPT ![m][s] = c]
      BY <2>4 DEF Returns
    <3>2. Asked(issue[s]) \in Nat
      BY <1>0 DEF WorkTyped, Issue, Asked
    <3>3. \A cost \in Costs \cup {NoAmount} : cost \in Amount
      BY AmountAssumption DEF Amount
    <3>4. NoAmount \in Amount /\ 0 \in Amount
      BY DEF Amount
    <3>5. Ended \subseteq Reportable /\ "awaiting_user" \in Reportable /\ {"chat", "in_flight"} \subseteq Reportable
      BY DEF Ended, Reportable, Final
    <3>6. \/ \E q \in Nat, cost \in Amount, state \in Reportable : c = Reported(state, q, cost)
          \/ c = PortError
      BY <3>1, <3>2, <3>3, <3>4, <3>5 DEF ReportsOf
    <3>7. c \in Call /\ c.state \in Reportable
      BY <3>6, ReportTyped, PortErrorTyped
    <3> QED
      BY <3>1, <3>7, OneCallTyped
  <2> QED
    BY <2>2, <2>3, <2>4
<1>5. WorkTyped'
  BY <1>0, <1>1, <1>3, <1>4 DEF WorkTyped
<1> QED
  BY <1>1, <1>2, <1>4, <1>5, RowsSame, TypesJoined

LEMMA InitTyped == Init => TInv
<1> SUFFICES ASSUME Init PROVE TInv
  OBVIOUS
<1>1. NotSubmitted \in Row /\ NotSubmitted.state = "none"
  BY DEF NotSubmitted, Row, RowState, Amount
<1>2. NewIssue \in Issue
  BY DEF NewIssue, Issue
<1>3. NotCalled \in Call /\ NotCalled.step # "reported"
  BY CallingTyped DEF NotCalled
<1>4. [owner |-> NoManager, live |-> FALSE] \in [owner : Managers \cup {NoManager}, live : BOOLEAN]
  OBVIOUS
<1>5. RowsTyped /\ WorkTyped /\ PumpsTyped /\ ReportsTyped
  BY <1>1, <1>2, <1>3, <1>4, FaultAssumption
     DEF Init, RowsTyped, WorkTyped, PumpsTyped, ReportsTyped, Places
<1>6. OrderTyped
  <2>1. <<>> \in Seq(Sessions) /\ IsInjective(<<>>) /\ ToSet(<<>>) = {}
    BY DEF IsInjective, ToSet
  <2>2. {s \in Sessions : sess[s].state # "none"} = {} /\ order = <<>>
    BY <1>1 DEF Init
  <2> QED
    BY <2>1, <2>2 DEF OrderTyped
<1> QED
  BY <1>5, <1>6, TypeParts DEF TInv

LEMMA NextTyped == TInv /\ [Next]_vars => TInv'
<1> SUFFICES ASSUME TInv, [Next]_vars PROVE TInv'
  OBVIOUS
<1>1. CASE UNCHANGED vars
  <2>0. RowsTyped /\ OrderTyped /\ WorkTyped /\ PumpsTyped
    BY TypeParts DEF TInv
  <2>1. WorkTyped' /\ PumpsTyped' /\ ReportsTyped'
    BY <1>1, <2>0 DEF vars, WorkTyped, PumpsTyped, ReportsTyped, TInv
  <2> QED
    BY <1>1, <2>1, RowsSame, TypesJoined DEF vars, rows
<1>2. ASSUME NEW m \in Managers, PumpStep(m) PROVE TInv'
  BY <1>2, LeaseTyped, RecoverTyped, ClaimTyped, PumpTyped, StartTyped, SettleTyped DEF PumpStep
<1>3. ASSUME NEW m \in Managers, Pump(m) \/ Heartbeat(m) \/ Crash(m) PROVE TInv'
  BY <1>3, PumpTyped
<1>4. ASSUME NEW m \in Managers, NEW s \in Sessions,
             \/ Submit(m, s) \/ Answer(m, s) \/ Cancel(m, s)
             \/ PortStep(m, s) \/ Throws(m, s)
      PROVE  TInv'
  BY <1>4, SubmitTyped, AnswerTyped, CancelTyped, IssueTyped DEF PortStep
<1>5. CASE Lapse
  BY <1>5, LeaseTyped
<1>6. ASSUME NEW s \in Sessions, IssueAdvances(s) PROVE TInv'
  BY <1>6, AdvanceTyped
<1> QED
  <2>1. ASSUME NEW m \in Managers,
               \/ Pump(m) \/ PumpStep(m) \/ Heartbeat(m) \/ Crash(m)
               \/ \E s \in Sessions : \/ Submit(m, s) \/ Answer(m, s) \/ Cancel(m, s)
                                      \/ PortStep(m, s) \/ Throws(m, s)
        PROVE  TInv'
    BY <1>2, <1>3, <1>4, <2>1
  <2>2. CASE Next
    BY <1>5, <1>6, <2>1, <2>2, Zenon DEF Next
  <2> QED
    BY <1>1, <2>2

-----------------------------------------------------------------------------
(* What a step may do to a session, its issue and its executions *)

SameIssue(s) == issue'[s] = issue[s]
SameRow(s) == sess'[s] = sess[s]
SameCallsOf(s) == \A n \in Managers : call'[n][s] = call[n][s]
OtherCalls(m, s) == \A n \in Managers \ {m} : call'[n][s] = call[n][s]

IssueCancelled(s) ==
    /\ MayCancel(issue[s]) /\ issue'[s].cancel
    /\ issue'[s].state = issue[s].state /\ issue'[s].answers = issue[s].answers
IssueAnswered(s) ==
    /\ MayAnswer(issue[s]) /\ issue'[s].state = "open"
    /\ issue'[s].cancel = issue[s].cancel /\ issue'[s].answers = issue[s].answers + 1
IssueAdvanced(s) ==
    /\ issue'[s].cancel = issue[s].cancel /\ issue'[s].answers = issue[s].answers
    /\ issue[s].state \notin Ended
    /\ issue[s].cancel => issue'[s].state = "cancelled" \/ issue[s].state = "working"
    /\ issue[s].state = "awaiting" => issue[s].cancel

\* submitted, recovered or claimed, or not touched
Pending == {"none", "queued", "running"}
Moved(s) ==
    /\ SameIssue(s)
    /\ \A n \in Managers : call'[n][s] \in {call[n][s], NotCalled, Calling("claimed", 0)}
    /\ sess'[s].answer = sess[s].answer /\ sess'[s].cancel = sess[s].cancel
    /\ sess'[s].question = sess[s].question
    /\ sess'[s] = sess[s] \/ (sess[s].state \in Pending /\ sess'[s].state \in Pending)
WasAnswered(s) ==
    /\ SameIssue(s) /\ SameCallsOf(s)
    /\ sess[s].state = "awaiting_user" /\ sess'[s].state = "queued"
    /\ sess'[s].answer = sess[s].question /\ sess'[s].cancel = sess[s].cancel
WasCancelled(s) ==
    /\ sess'[s] = sess[s] \/ sess[s].state \notin Final
    /\ sess'[s].answer = sess[s].answer /\ sess'[s].question = sess[s].question
    /\ sess[s].cancel => sess'[s].cancel
    /\ sess'[s].state = sess[s].state \/ (sess[s].state = "awaiting_user" /\ sess'[s].state = "queued")
    /\ \/ SameIssue(s) /\ SameCallsOf(s)
       \/ /\ IssueCancelled(s) /\ sess'[s].cancel
          /\ \A n \in Managers : call'[n][s] \in {call[n][s], Calling("cancel", 0)}
WasSettled(m, s) ==
    /\ SameIssue(s) /\ OtherCalls(m, s) /\ call'[m][s] = NotCalled
    /\ Owned(m) /\ sess[s].state = "running" /\ call[m][s].step = "reported"
    /\ sess'[s].state = call[m][s].state /\ sess'[s].question = call[m][s].question
    /\ sess'[s].answer = 0 /\ sess'[s].cancel = sess[s].cancel
WasStarted(m, s) ==
    /\ SameRow(s) /\ OtherCalls(m, s)
    /\ \/ SameIssue(s) /\ call'[m][s] = PortError
       \/ /\ sess[s].cancel /\ call'[m][s] = Calling("cancel", 0)
          /\ \/ SameIssue(s) /\ (issue[s].cancel \/ issue[s].state \in Ended)
             \/ IssueCancelled(s)
       \/ SameIssue(s) /\ call'[m][s] = Asks(s)
HasAdvanced(s) == SameRow(s) /\ SameCallsOf(s) /\ IssueAdvanced(s)
TookAnswer(m, s) ==
    /\ SameRow(s) /\ OtherCalls(m, s)
    /\ call[m][s].step = "answer" /\ call[m][s].question = Asked(issue[s])
    /\ IssueAnswered(s)
    /\ call'[m][s] = Calling(IF issue[s].cancel THEN "cancel" ELSE "resume", 0)
HasReturned(m, s) ==
    /\ SameRow(s) /\ SameIssue(s) /\ OtherCalls(m, s)
    /\ call[m][s].step \in {"resume", "answer", "cancel"}
    /\ call'[m][s] \in ReportsOf(m, s) \cup {PortError}

Effect(s) ==
    \/ Moved(s) \/ WasAnswered(s) \/ WasCancelled(s) \/ HasAdvanced(s)
    \/ \E m \in Managers : \/ WasSettled(m, s) \/ WasStarted(m, s)
                           \/ TookAnswer(m, s) \/ HasReturned(m, s)
Effects == \A s \in Sessions : Effect(s)
\* who gets the lease executes nothing
LeaseTaken == \A n \in Managers : Owned(n)' => Owned(n) \/ \A s \in Sessions : call'[n][s].step = "none"

LEMMA Untouched ==
    ASSUME NEW s \in Sessions, SameRow(s), SameIssue(s),
           \A n \in Managers : call'[n][s] \in {call[n][s], NotCalled, Calling("claimed", 0)}
    PROVE  Effect(s)
  BY DEF Effect, Moved, SameRow, SameIssue

\* one session is touched
LEMMA OneTouched ==
    ASSUME TInv, NEW s \in Sessions, Effect(s),
           NEW r, NEW i, NEW m \in Managers, NEW c,
           sess' = sess \/ sess' = [sess EXCEPT ![s] = r],
           issue' = issue \/ issue' = [issue EXCEPT ![s] = i],
           call' = call \/ call' = [call EXCEPT ![m][s] = c]
    PROVE  Effects
<1> SUFFICES ASSUME NEW t \in Sessions, t # s PROVE Effect(t)
  BY DEF Effects
<1>0. RowsTyped /\ WorkTyped
  BY TypeParts DEF TInv
<1>1. SameRow(t) /\ SameIssue(t)
  BY <1>0 DEF RowsTyped, WorkTyped, SameRow, SameIssue
<1>2. \A n \in Managers : call'[n][t] = call[n][t]
  BY <1>0 DEF WorkTyped
<1> QED
  BY <1>1, <1>2, Untouched

LEMMA SameLeaseTaken == ASSUME UNCHANGED lease PROVE LeaseTaken
  BY DEF LeaseTaken, Owned

LEMMA SubmitEffects == ASSUME TInv, NEW m \in Managers, NEW s \in Sessions, Submit(m, s)
                       PROVE  Effects /\ LeaseTaken
<1>0. RowsTyped /\ WorkTyped
  BY TypeParts DEF TInv
<1>1. PICK x : sess' = [sess EXCEPT ![s].state = "queued", ![s].reservation = x]
  BY DEF Submit
<1> DEFINE r == [sess[s] EXCEPT !.state = "queued", !.reservation = x]
<1>2. sess' = [sess EXCEPT ![s] = r]
  BY <1>0, <1>1 DEF RowsTyped
<1>3. /\ r.state = "queued" /\ r.answer = sess[s].answer /\ r.cancel = sess[s].cancel
      /\ r.question = sess[s].question
  BY <1>0 DEF RowsTyped, Row
<1> HIDE DEF r
<1>4. sess'[s] = r /\ sess[s].state = "none" /\ UNCHANGED <<issue, call, lease>>
  BY <1>0, <1>2 DEF Submit, RowsTyped, issues
<1>5. Effect(s)
  BY <1>3, <1>4 DEF Effect, Moved, Pending, SameIssue
<1> QED
  BY <1>2, <1>4, <1>5, OneTouched, SameLeaseTaken

LEMMA AnswerEffects == ASSUME TInv, NEW m \in Managers, NEW s \in Sessions, Answer(m, s)
                       PROVE  Effects /\ LeaseTaken
<1>0. RowsTyped /\ WorkTyped
  BY TypeParts DEF TInv
<1> DEFINE r == [sess[s] EXCEPT !.state = "queued", !.recovered = FALSE, !.answer = sess[s].question]
<1>1. sess' = [sess EXCEPT ![s] = r]
  BY <1>0 DEF Answer, RowsTyped
<1>2. r.state = "queued" /\ r.answer = sess[s].question /\ r.cancel = sess[s].cancel
  BY <1>0 DEF RowsTyped, Row
<1> HIDE DEF r
<1>3. sess'[s] = r /\ sess[s].state = "awaiting_user" /\ UNCHANGED <<issue, call, lease>>
  BY <1>0, <1>1 DEF Answer, RowsTyped, issues
<1>4. Effect(s)
  BY <1>2, <1>3 DEF Effect, WasAnswered, SameIssue, SameCallsOf
<1> QED
  BY <1>1, <1>3, <1>4, OneTouched, SameLeaseTaken

\* what cancelling an issue leaves of it
LEMMA CancellationEffect ==
    ASSUME TInv, NEW s \in Sessions, CancelsIssue(s)
    PROVE  /\ issue' = issue \/ issue' = [issue EXCEPT ![s] = CancelRequested(issue[s])]
           /\ SameIssue(s) \/ IssueCancelled(s)
           /\ SameIssue(s) => issue[s].cancel \/ ~MayCancel(issue[s])
<1>0. issue \in [Sessions -> Issue]
  BY DEF TInv, TypeOK
<1>1. CASE MayCancel(issue[s]) /\ ~issue[s].cancel
  <2>1. issue' = [issue EXCEPT ![s] = CancelRequested(issue[s])]
    BY <1>1 DEF CancelsIssue
  <2>2. issue'[s] = CancelRequested(issue[s])
    BY <1>0, <2>1
  <2>3. issue'[s].cancel /\ issue'[s].state = issue[s].state /\ issue'[s].answers = issue[s].answers
    BY <2>2 DEF CancelRequested
  <2> QED
    BY <1>1, <2>1, <2>3 DEF IssueCancelled, SameIssue
<1>2. CASE ~(MayCancel(issue[s]) /\ ~issue[s].cancel)
  BY <1>2 DEF CancelsIssue, SameIssue
<1> QED
  BY <1>1, <1>2

LEMMA CancelEffects == ASSUME TInv, NEW m \in Managers, NEW s \in Sessions, Cancel(m, s)
                       PROVE  Effects /\ LeaseTaken
<1> USE DEF rows
<1>0. RowsTyped /\ WorkTyped
  BY TypeParts DEF TInv
<1>1. PICK r : /\ sess' = sess \/ sess' = [sess EXCEPT ![s] = r]
               /\ sess'[s] = sess[s] \/ sess[s].state \notin Final
               /\ sess'[s].answer = sess[s].answer /\ sess'[s].question = sess[s].question
               /\ sess'[s].cancel /\ (sess'[s].state = sess[s].state
                                        \/ (sess[s].state = "awaiting_user" /\ sess'[s].state = "queued"))
               \/ sess' = sess
  <2>1. CASE CancelNoOp(s)
    BY <2>1 DEF Cancel
  <2>2. CASE ~CancelNoOp(s) /\ Requeues(s)
    <3> DEFINE q == [sess[s] EXCEPT !.cancel = TRUE, !.state = "queued", !.recovered = FALSE]
    <3>1. sess' = [sess EXCEPT ![s] = q]
      BY <1>0, <2>2 DEF Cancel, RowsTyped
    <3>2. /\ q.state = "queued" /\ q.cancel /\ q.answer = sess[s].answer /\ q.question = sess[s].question
      BY <1>0 DEF RowsTyped, Row
    <3> HIDE DEF q
    <3>3. sess'[s] = q
      BY <1>0, <3>1 DEF RowsTyped
    <3> QED
      BY <2>2, <3>1, <3>2, <3>3 DEF CancelNoOp, Requeues
  <2>3. CASE ~CancelNoOp(s) /\ ~Requeues(s)
    <3> DEFINE q == [sess[s] EXCEPT !.cancel = TRUE]
    <3>1. sess' = [sess EXCEPT ![s] = q]
      BY <1>0, <2>3 DEF Cancel, RowsTyped
    <3>2. /\ q.state = sess[s].state /\ q.cancel /\ q.answer = sess[s].answer /\ q.question = sess[s].question
      BY <1>0 DEF RowsTyped, Row
    <3> HIDE DEF q
    <3>3. sess'[s] = q
      BY <1>0, <3>1 DEF RowsTyped
    <3> QED
      BY <2>3, <3>1, <3>2, <3>3 DEF CancelNoOp
  <2> QED
    BY <2>1, <2>2, <2>3
<1>2. sess[s].state = "running" => sess'[s].cancel
  <2>1. CASE CancelNoOp(s)
    BY <2>1 DEF Cancel, CancelNoOp, Final
  <2>2. CASE ~CancelNoOp(s)
    <3> DEFINE q == [sess[s] EXCEPT !.cancel = TRUE]
    <3>1. sess[s].state = "running" => sess' = [sess EXCEPT ![s] = q]
      BY <1>0, <2>2 DEF Cancel, RowsTyped, Requeues
    <3>2. q.cancel
      BY <1>0 DEF RowsTyped, Row
    <3> HIDE DEF q
    <3> QED
      BY <1>0, <3>1, <3>2 DEF RowsTyped
  <2> QED
    BY <2>1, <2>2
<1>3. PICK i : /\ issue' = issue \/ issue' = [issue EXCEPT ![s] = i]
               /\ SameIssue(s) \/ (IssueCancelled(s) /\ sess[s].state = "running")
  <2>1. CASE sess[s].state = "running"
    BY <2>1, CancellationEffect DEF Cancel
  <2>2. CASE sess[s].state # "running"
    BY <2>2 DEF Cancel, SameIssue
  <2> QED
    BY <2>1, <2>2
<1>4. call' = call \/ (~SameIssue(s) /\ call' = [call EXCEPT ![m][s] = Calling("cancel", 0)])
  BY DEF Cancel, SameIssue
<1>5. \A n \in Managers : call'[n][s] = call[n][s] \/ (~SameIssue(s) /\ call'[n][s] = Calling("cancel", 0))
  BY <1>0, <1>4 DEF WorkTyped
<1>6. WasCancelled(s)
  <2>1. /\ sess'[s] = sess[s] \/ sess[s].state \notin Final
        /\ sess'[s].answer = sess[s].answer /\ sess'[s].question = sess[s].question
        /\ sess[s].cancel => sess'[s].cancel
        /\ sess'[s].state = sess[s].state \/ (sess[s].state = "awaiting_user" /\ sess'[s].state = "queued")
    BY <1>1
  <2>2. \/ SameIssue(s) /\ SameCallsOf(s)
        \/ /\ IssueCancelled(s) /\ sess'[s].cancel
           /\ \A n \in Managers : call'[n][s] \in {call[n][s], Calling("cancel", 0)}
    BY <1>2, <1>3, <1>5 DEF SameCallsOf
  <2> QED
    BY <2>1, <2>2 DEF WasCancelled
<1>7. Effect(s)
  BY <1>6 DEF Effect
<1>8. call' = call \/ call' = [call EXCEPT ![m][s] = Calling("cancel", 0)]
  BY <1>4
<1>9. sess' = sess \/ sess' = [sess EXCEPT ![s] = r]
  BY <1>1
<1>10. Effects
  BY <1>3, <1>7, <1>8, <1>9, OneTouched
<1> QED
  BY <1>10, SameLeaseTaken DEF Cancel

\* steps that touch neither a row nor an issue, and may forget executions
LEMMA NothingTouched ==
    ASSUME UNCHANGED <<sess, issue>>,
           \A n \in Managers, s \in Sessions : call'[n][s] \in {call[n][s], NotCalled}
    PROVE  Effects
  BY Untouched DEF Effects, SameRow, SameIssue

LEMMA ForgottenCalls ==
    ASSUME TInv, NEW m \in Managers, call' = [call EXCEPT ![m] = [s \in Sessions |-> NotCalled]]
    PROVE  \A n \in Managers, s \in Sessions : call'[n][s] \in {call[n][s], NotCalled}
  BY DEF TInv, TypeOK

LEMMA PumpEffects ==
    ASSUME TInv, \/ UNCHANGED vars
                 \/ Lapse
                 \/ \E m \in Managers : \/ Pump(m) \/ Wake(m) \/ Heartbeat(m) \/ Crash(m)
                                        \/ Leave(m) \/ Release(m)
    PROVE  Effects /\ LeaseTaken
<1> USE DEF rows, issues
<1>1. UNCHANGED <<sess, issue>>
  BY DEF vars, Lapse, Pump, Wake, Heartbeat, Crash, Leave, Release
<1>2. \/ UNCHANGED call
      \/ \E m \in Managers : call' = [call EXCEPT ![m] = [s \in Sessions |-> NotCalled]]
  BY DEF vars, Lapse, Pump, Wake, Heartbeat, Crash, Leave, Release, Finished
<1>3. \A n \in Managers, s \in Sessions : call'[n][s] \in {call[n][s], NotCalled}
  BY <1>2, ForgottenCalls
<1>4. \/ UNCHANGED lease \/ lease' = [lease EXCEPT !.live = FALSE]
      \/ lease' = [owner |-> NoManager, live |-> FALSE]
  BY DEF vars, Lapse, Pump, Wake, Heartbeat, Crash, Leave, Release
<1>5. LeaseTaken
  <2>1. lease \in [owner : Managers \cup {NoManager}, live : BOOLEAN]
    BY DEF TInv, TypeOK
  <2>2. \A n \in Managers : Owned(n)' => Owned(n)
    BY <1>4, <2>1 DEF Owned
  <2> QED
    BY <2>2 DEF LeaseTaken
<1> QED
  BY <1>1, <1>3, <1>5, NothingTouched

LEMMA AcquireEffects == ASSUME TInv, IInv, NEW m \in Managers, Acquire(m)
                        PROVE  Effects /\ LeaseTaken
<1> USE DEF rows, issues
<1>1. UNCHANGED <<sess, issue>> /\ pc[m] = "acquiring"
  BY DEF Acquire
<1>2. CASE UNCHANGED lease /\ Finished(m)
  <2>1. \A n \in Managers, s \in Sessions : call'[n][s] \in {call[n][s], NotCalled}
    BY <1>2, ForgottenCalls DEF Finished
  <2> QED
    BY <1>1, <1>2, <2>1, NothingTouched, SameLeaseTaken
<1>3. CASE lease' = [owner |-> m, live |-> TRUE] /\ UNCHANGED call
  <2>1. Effects
    BY <1>1, <1>3, NothingTouched
  <2>2. \A n \in Managers : Owned(n)' => n = m
    BY <1>3 DEF Owned
  <2>3. \A s \in Sessions : call[m][s].step = "none"
    BY <1>1 DEF IInv, Fresh, Active
  <2> QED
    BY <1>3, <2>1, <2>2, <2>3 DEF LeaseTaken
<1> QED
  BY <1>2, <1>3 DEF Acquire

LEMMA RecoverEffects == ASSUME TInv, NEW m \in Managers, Recover(m) PROVE Effects /\ LeaseTaken
<1> USE DEF rows, issues
<1>0. RowsTyped
  BY TypeParts DEF TInv
<1>1. UNCHANGED <<issue, call, lease>>
  BY DEF Recover
<1>2. CASE UNCHANGED sess
  BY <1>1, <1>2, NothingTouched, SameLeaseTaken
<1>3. CASE ~UNCHANGED sess
  <2> DEFINE back(s) == [sess[s] EXCEPT !.state = "queued", !.recovered = TRUE, !.owner = NoManager]
  <2>1. sess' = [s \in Sessions |-> IF s \in Orphans(m) THEN back(s) ELSE sess[s]]
    BY <1>3 DEF Recover
  <2>2. \A s \in Sessions : /\ back(s).state = "queued" /\ back(s).answer = sess[s].answer
                            /\ back(s).cancel = sess[s].cancel /\ back(s).question = sess[s].question
    BY <1>0 DEF RowsTyped, Row
  <2> HIDE DEF back
  <2> SUFFICES ASSUME NEW s \in Sessions PROVE Effect(s)
    BY <1>1, SameLeaseTaken DEF Effects
  <2>3. CASE s \in Orphans(m)
    <3>1. sess'[s] = back(s) /\ sess[s].state = "running"
      BY <2>1, <2>3 DEF Orphans, InState
    <3> QED
      BY <1>1, <2>2, <3>1 DEF Effect, Moved, Pending, SameIssue
  <2>4. CASE s \notin Orphans(m)
    BY <1>1, <2>1, <2>4, Untouched DEF SameRow, SameIssue
  <2> QED
    BY <2>3, <2>4
<1> QED
  BY <1>2, <1>3

LEMMA ClaimEffects == ASSUME TInv, NEW m \in Managers, Claim(m) PROVE Effects /\ LeaseTaken
<1> USE DEF rows, issues
<1>0. RowsTyped /\ OrderTyped /\ WorkTyped
  BY TypeParts DEF TInv
<1> DEFINE claimed == IF Owned(m) /\ Readable THEN Admitted ELSE {}
           taken(s) == [sess[s] EXCEPT !.state = "running", !.owner = m]
<1>1. /\ sess' = [s \in Sessions |-> IF s \in claimed THEN taken(s) ELSE sess[s]]
      /\ call' = [call EXCEPT ![m] = [s \in Sessions |->
                    IF s \in claimed THEN Calling("claimed", 0) ELSE call[m][s]]]
      /\ UNCHANGED <<issue, lease>>
  BY DEF Claim
<1>2. claimed \subseteq InState("queued")
  BY <1>0, AdmittedQueued
<1>3. \A s \in Sessions : /\ taken(s).state = "running" /\ taken(s).answer = sess[s].answer
                          /\ taken(s).cancel = sess[s].cancel /\ taken(s).question = sess[s].question
  BY <1>0 DEF RowsTyped, Row
<1> HIDE DEF claimed, taken
<1>4. \A n \in Managers, s \in Sessions : call'[n][s] \in {call[n][s], Calling("claimed", 0)}
  BY <1>0, <1>1 DEF WorkTyped
<1> SUFFICES ASSUME NEW s \in Sessions PROVE Effect(s)
  BY <1>1, SameLeaseTaken DEF Effects
<1>5. CASE s \in claimed
  <2>1. sess'[s] = taken(s) /\ sess[s].state = "queued"
    BY <1>1, <1>2, <1>5 DEF InState
  <2> QED
    BY <1>1, <1>3, <1>4, <2>1 DEF Effect, Moved, Pending, SameIssue
<1>6. CASE s \notin claimed
  BY <1>1, <1>4, <1>6, Untouched DEF SameRow, SameIssue
<1> QED
  BY <1>5, <1>6

LEMMA StartEffects == ASSUME TInv, NEW m \in Managers, NEW s \in Sessions, Start(m, s)
                      PROVE  Effects /\ LeaseTaken
<1> USE DEF rows
<1>0. WorkTyped
  BY TypeParts DEF TInv
<1>1. UNCHANGED <<sess, lease>>
  BY DEF Start
<1>2. PICK c : call' = [call EXCEPT ![m][s] = c] /\ call'[m][s] = c /\ OtherCalls(m, s)
  BY <1>0 DEF Start, WorkTyped, OtherCalls
<1>3. PICK i : issue' = issue \/ issue' = [issue EXCEPT ![s] = i]
  BY CancellationEffect DEF Start
<1>4. WasStarted(m, s)
  <2>1. CASE ~sess[s].cancel
    <3>1. c = Asks(s) /\ SameIssue(s)
      BY <1>0, <1>2, <2>1 DEF Start, SameIssue, WorkTyped
    <3> QED
      BY <1>1, <1>2, <3>1 DEF WasStarted, SameRow
  <2>2. CASE sess[s].cancel
    <3>1. CancelsIssue(s) /\ c = IF issue[s].state = "working" THEN PortError ELSE Calling("cancel", 0)
      BY <1>0, <1>2, <2>2 DEF Start, WorkTyped
    <3>2. /\ SameIssue(s) \/ IssueCancelled(s)
          /\ SameIssue(s) => issue[s].cancel \/ ~MayCancel(issue[s])
      BY <3>1, CancellationEffect
    <3>3. CASE issue[s].state = "working"
      <4>1. SameIssue(s)
        BY <3>2, <3>3 DEF IssueCancelled, MayCancel
      <4> QED
        BY <1>1, <1>2, <3>1, <3>3, <4>1 DEF WasStarted, SameRow
    <3>4. CASE issue[s].state # "working"
      <4>1. issue[s] \in Issue
        BY <1>0 DEF WorkTyped
      <4>2. ~MayCancel(issue[s]) => issue[s].state \in Ended
        BY <3>4, <4>1 DEF Issue, MayCancel
      <4> QED
        BY <1>1, <1>2, <2>2, <3>1, <3>2, <3>4, <4>2 DEF WasStarted, SameRow
    <3> QED
      BY <3>3, <3>4
  <2> QED
    BY <2>1, <2>2
<1>5. Effect(s)
  BY <1>4 DEF Effect
<1> QED
  BY <1>1, <1>2, <1>3, <1>5, OneTouched, SameLeaseTaken

LEMMA SettleEffects == ASSUME TInv, NEW m \in Managers, NEW s \in Sessions, Settle(m, s)
                       PROVE  Effects /\ LeaseTaken
<1> USE DEF rows, issues
<1>0. RowsTyped /\ WorkTyped
  BY TypeParts DEF TInv
<1>1. UNCHANGED <<issue, lease>> /\ call[m][s].step = "reported"
      /\ call' = [call EXCEPT ![m][s] = NotCalled]
  BY DEF Settle
<1>2. call'[m][s] = NotCalled /\ OtherCalls(m, s) /\ SameIssue(s)
  BY <1>0, <1>1 DEF WorkTyped, OtherCalls, SameIssue
<1>3. CASE UNCHANGED sess
  <2>1. Effect(s)
    BY <1>2, <1>3, Untouched DEF OtherCalls, SameRow
  <2> QED
    BY <1>1, <1>3, <2>1, OneTouched, SameLeaseTaken
<1>4. CASE ~UNCHANGED sess
  <2> DEFINE r == [sess[s] EXCEPT !.state = call[m][s].state, !.cost = call[m][s].cost,
                      !.question = call[m][s].question, !.answer = 0, !.owner = NoManager]
  <2>1. sess' = [sess EXCEPT ![s] = r] /\ sess[s].state = "running" /\ Owned(m)
    BY <1>0, <1>4 DEF Settle, Settles, RowsTyped
  <2>2. /\ r.state = call[m][s].state /\ r.question = call[m][s].question /\ r.answer = 0
        /\ r.cancel = sess[s].cancel
    BY <1>0 DEF RowsTyped, Row
  <2> HIDE DEF r
  <2>3. sess'[s] = r
    BY <1>0, <2>1 DEF RowsTyped
  <2>4. Effect(s)
    BY <1>1, <1>2, <2>1, <2>2, <2>3 DEF Effect, WasSettled
  <2> QED
    BY <1>1, <2>1, <2>4, OneTouched, SameLeaseTaken
<1> QED
  BY <1>3, <1>4

LEMMA AdvanceEffect ==
    ASSUME TInv, NEW s \in Sessions, issue'[s] \in Advances(issue[s])
    PROVE  IssueAdvanced(s)
<1> DEFINE i == issue[s]
           j == issue'[s]
<1>0. i \in Issue
  BY DEF TInv, TypeOK
<1>1. \A states : j \in In(i, states) => j.cancel = i.cancel /\ j.answers = i.answers /\ j.state \in states
  BY <1>0 DEF In, Issue
<1>2. CASE i.cancel /\ i.state \in {"open", "awaiting"}
  <2>1. j \in In(i, {"cancelled"})
    BY <1>2 DEF Advances
  <2> QED
    <3>1. j.cancel = i.cancel /\ j.answers = i.answers /\ j.state = "cancelled"
      BY <1>1, <2>1
    <3>2. i.state \notin Ended
      BY <1>2 DEF Ended
    <3> QED
      BY <1>2, <3>1, <3>2 DEF IssueAdvanced
<1>3. CASE ~i.cancel /\ i.state = "open"
  <2>1. j \in In(i, {"awaiting", "working", "completed", "failed", "outcome_unknown"})
    BY <1>3 DEF Advances
  <2> QED
    BY <1>1, <1>3, <2>1 DEF IssueAdvanced, Ended
<1>4. CASE i.state = "working"
  BY <1>1, <1>4 DEF Advances, IssueAdvanced, Ended
<1>5. CASE ~(i.cancel /\ i.state \in {"open", "awaiting"}) /\ ~(~i.cancel /\ i.state = "open")
           /\ i.state # "working"
  BY <1>5 DEF Advances
<1> HIDE DEF i, j
<1> QED
  BY <1>2, <1>3, <1>4, <1>5, Zenon

LEMMA AdvanceEffects == ASSUME TInv, NEW s \in Sessions, IssueAdvances(s) PROVE Effects /\ LeaseTaken
<1> USE DEF rows
<1>0. WorkTyped
  BY TypeParts DEF TInv
<1>1. PICK i \in Advances(issue[s]) : issue' = [issue EXCEPT ![s] = i]
  BY DEF IssueAdvances
<1>2. UNCHANGED <<sess, call, lease>>
  BY DEF IssueAdvances
<1>3. issue'[s] = i /\ \A t \in Sessions \ {s} : issue'[t] = issue[t]
  BY <1>0, <1>1 DEF WorkTyped
<1>4. IssueAdvanced(s)
  BY <1>1, <1>3, AdvanceEffect
<1>5. Effect(s)
  BY <1>2, <1>4 DEF Effect, HasAdvanced, SameRow, SameCallsOf
<1>6. \A t \in Sessions \ {s} : Effect(t)
  BY <1>2, <1>3, Untouched DEF SameRow, SameIssue
<1> QED
  BY <1>2, <1>5, <1>6, SameLeaseTaken DEF Effects

LEMMA PortEffects ==
    ASSUME TInv, NEW m \in Managers, NEW s \in Sessions,
           TakesAnswer(m, s) \/ Returns(m, s) \/ Throws(m, s)
    PROVE  Effects /\ LeaseTaken
<1> USE DEF rows, issues
<1>0. WorkTyped
  BY TypeParts DEF TInv
<1>1. UNCHANGED <<sess, lease>>
  BY DEF TakesAnswer, Returns, Throws
<1>2. PICK c : call' = [call EXCEPT ![m][s] = c] /\ call'[m][s] = c /\ OtherCalls(m, s)
  BY <1>0 DEF TakesAnswer, Returns, Throws, WorkTyped, OtherCalls
<1>3. CASE TakesAnswer(m, s)
  <2>1. issue' = [issue EXCEPT ![s] = Answered(issue[s])] /\ issue'[s] = Answered(issue[s])
    BY <1>0, <1>3 DEF TakesAnswer, WorkTyped
  <2>2. IssueAnswered(s)
    BY <1>3, <2>1 DEF TakesAnswer, IssueAnswered, Answered
  <2>3. c = Calling(IF issue[s].cancel THEN "cancel" ELSE "resume", 0)
    BY <1>0, <1>2, <1>3 DEF TakesAnswer, WorkTyped
  <2>4. TookAnswer(m, s)
    BY <1>1, <1>2, <1>3, <2>2, <2>3 DEF TakesAnswer, TookAnswer, SameRow
  <2>5. Effect(s)
    BY <2>4 DEF Effect
  <2> QED
    BY <1>1, <1>2, <2>1, <2>5, OneTouched, SameLeaseTaken
<1>4. CASE Returns(m, s) \/ Throws(m, s)
  <2>1. UNCHANGED issue /\ call[m][s].step \in {"resume", "answer", "cancel"}
    BY <1>4 DEF Returns, Throws
  <2>2. c \in ReportsOf(m, s) \cup {PortError}
    <3>1. PICK d \in ReportsOf(m, s) \cup {PortError} : call' = [call EXCEPT ![m][s] = d]
      BY <1>4 DEF Returns, Throws
    <3>2. c = d
      BY <1>0, <1>2, <3>1 DEF WorkTyped
    <3> QED
      BY <3>1, <3>2
  <2>3. HasReturned(m, s)
    BY <1>1, <1>2, <2>1, <2>2 DEF HasReturned, SameRow, SameIssue
  <2>4. Effect(s)
    BY <2>3 DEF Effect
  <2> QED
    BY <1>1, <1>2, <2>1, <2>4, OneTouched, SameLeaseTaken
<1> QED
  BY <1>3, <1>4

LEMMA NextEffects == ASSUME TInv, IInv, [Next]_vars PROVE Effects /\ LeaseTaken
<1>1. CASE UNCHANGED vars \/ Lapse
  BY <1>1, PumpEffects
<1>2. ASSUME NEW m \in Managers, PumpStep(m) PROVE Effects /\ LeaseTaken
  BY <1>2, AcquireEffects, RecoverEffects, ClaimEffects, PumpEffects, StartEffects, SettleEffects DEF PumpStep
<1>3. ASSUME NEW m \in Managers, Pump(m) \/ Heartbeat(m) \/ Crash(m) PROVE Effects /\ LeaseTaken
  BY <1>3, PumpEffects
<1>4. ASSUME NEW m \in Managers, NEW s \in Sessions,
             \/ Submit(m, s) \/ Answer(m, s) \/ Cancel(m, s)
             \/ PortStep(m, s) \/ Throws(m, s)
      PROVE  Effects /\ LeaseTaken
  BY <1>4, SubmitEffects, AnswerEffects, CancelEffects, PortEffects DEF PortStep
<1>5. ASSUME NEW s \in Sessions, IssueAdvances(s) PROVE Effects /\ LeaseTaken
  BY <1>5, AdvanceEffects
<1>6. ASSUME NEW m \in Managers,
             \/ Pump(m) \/ PumpStep(m) \/ Heartbeat(m) \/ Crash(m)
             \/ \E s \in Sessions : \/ Submit(m, s) \/ Answer(m, s) \/ Cancel(m, s)
                                    \/ PortStep(m, s) \/ Throws(m, s)
      PROVE  Effects /\ LeaseTaken
  BY <1>2, <1>3, <1>4, <1>6
<1>7. CASE Next
  BY <1>1, <1>5, <1>6, <1>7, Zenon DEF Next
<1> QED
  BY <1>1, <1>7

-----------------------------------------------------------------------------
(* What the rows and the executions know of the issues *)

Closed(s) == sess[s].state \in Final \cup {"in_flight"}
\* a question of the issue that is still open, or that a cancellation has overtaken
Waits(s, question) ==
    issue[s].cancel \/ (issue[s].state = "awaiting" /\ question = Asked(issue[s]))

\* a cancellation of the issue is one of the session, and ends the issue or nothing does
CancelKnown(s) ==
    issue[s].cancel => sess[s].cancel /\ issue[s].state \in {"open", "awaiting", "cancelled"}
Grounded(s) ==
    sess[s].state \in {"completed", "failed", "cancelled"} => issue[s].state = sess[s].state
Awaits(s) == sess[s].state = "awaiting_user" => sess[s].answer = 0 /\ Waits(s, sess[s].question)
\* a recorded answer is one the issue has taken, or waits for
Owed(s) == Closed(s) \/ sess[s].answer =< issue[s].answers \/ Waits(s, sess[s].answer)
RowGrounds(s) == CancelKnown(s) /\ Grounded(s) /\ Awaits(s) /\ Owed(s)

\* whoever brings an answer brings the row's, or one the issue takes no more
Answers(m, s) == call[m][s].step = "answer" =>
    Closed(s) \/ call[m][s].question =< issue[s].answers \/ call[m][s].question = sess[s].answer
Reports(m, s) ==
    call[m][s].step = "reported" /\ call[m][s].state \in {"completed", "failed", "cancelled"}
        => issue[s].state = call[m][s].state
Cancels(m, s) == call[m][s].step = "cancel" => issue[s].cancel \/ issue[s].state \in Ended
\* the lease's holder goes on, or reports, only past the answer
Delivers(m, s) == Owned(m) =>
    /\ \/ call[m][s].step = "resume"
       \/ call[m][s].step = "reported" /\ call[m][s].state \in {"awaiting_user", "completed", "failed"}
       => sess[s].answer =< issue[s].answers
    /\ call[m][s].step = "reported" /\ call[m][s].state = "awaiting_user" => Waits(s, call[m][s].question)
CallGrounds(m, s) == Answers(m, s) /\ Reports(m, s) /\ Cancels(m, s) /\ Delivers(m, s)

Grounds == \A s \in Sessions : RowGrounds(s) /\ \A m \in Managers : CallGrounds(m, s)

\* the numbers of a session, its issue and its executions
FieldsTyped(s) ==
    /\ sess[s].answer \in Nat /\ sess[s].question \in Nat /\ issue[s].answers \in Nat
    /\ \A m \in Managers : call[m][s].question \in Nat
LEMMA FieldsAreTyped == ASSUME TInv, NEW s \in Sessions PROVE FieldsTyped(s)
<1>1. RowsTyped /\ WorkTyped
  BY TypeParts DEF TInv
<1> QED
  BY <1>1 DEF RowsTyped, WorkTyped, FieldsTyped, Row, Issue, Call

\* the steps of the calls there are
LEMMA CallSteps ==
    /\ NotCalled.step = "none" /\ PortError.step = "reported" /\ PortError.state = "outcome_unknown"
    /\ \A step, q : Calling(step, q).step = step /\ Calling(step, q).question = q
    /\ \A state, q, cost : /\ Reported(state, q, cost).step = "reported"
                           /\ Reported(state, q, cost).state = state
                           /\ Reported(state, q, cost).question = q
  BY DEF NotCalled, PortError, Calling, Reported

\* what the orchestrator may report
LEMMA ReportsSay ==
    ASSUME NEW m \in Managers, NEW s \in Sessions, NEW c \in ReportsOf(m, s) \cup {PortError}
    PROVE  /\ c.step = "reported"
           /\ \/ issue[s].state \in Ended /\ c.state = issue[s].state
              \/ /\ c.state = "awaiting_user" /\ issue[s].state = "awaiting" /\ ~issue[s].cancel
                 /\ call[m][s].step # "answer" /\ c.question = Asked(issue[s])
              \/ c.state \in {"outcome_unknown", "chat", "in_flight"}
<1>1. CASE c = PortError
  BY <1>1, CallSteps
<1>2. CASE c \in ReportsOf(m, s) /\ issue[s].state \in Ended
  <2>1. \E cost : c = Reported(issue[s].state, 0, cost)
    <3>1. c \in {Reported(issue[s].state, 0, IF issue[s].state = "outcome_unknown" THEN NoAmount ELSE cost) :
                   cost \in Costs \cup {NoAmount}}
      BY <1>2 DEF ReportsOf
    <3> QED
      BY <3>1
  <2> QED
    BY <1>2, <2>1, CallSteps
<1>3. CASE c \in ReportsOf(m, s) /\ issue[s].state \notin Ended
  <2>1. \/ /\ c = Reported("awaiting_user", Asked(issue[s]), 0) /\ issue[s].state = "awaiting"
           /\ ~issue[s].cancel /\ call[m][s].step # "answer"
        \/ c = PortError
        \/ \E state \in {"chat", "in_flight"} : c = Reported(state, 0, NoAmount)
    BY <1>3 DEF ReportsOf
  <2> QED
    BY <2>1, CallSteps
<1> QED
  BY <1>1, <1>2, <1>3

-----------------------------------------------------------------------------
(* Each part survives every step *)

\* the hypotheses of a step
Grounding == TInv /\ Held /\ Grounds /\ Effects /\ LeaseTaken

\* what a step does to an issue
IssueStep(s) == SameIssue(s) \/ IssueCancelled(s) \/ IssueAnswered(s) \/ IssueAdvanced(s)

LEMMA EffectOnIssue == ASSUME NEW s \in Sessions, Effect(s) PROVE IssueStep(s)
  BY DEF Effect, IssueStep, Moved, WasAnswered, WasCancelled, WasSettled, WasStarted, HasAdvanced,
         TookAnswer, HasReturned

LEMMA GroundsOf == ASSUME Grounding, NEW s \in Sessions
                   PROVE  /\ CancelKnown(s) /\ Grounded(s) /\ Awaits(s) /\ Owed(s) /\ FieldsTyped(s)
                          /\ Effect(s) /\ IssueStep(s)
                          /\ \A m \in Managers : /\ Answers(m, s) /\ Reports(m, s)
                                                 /\ Cancels(m, s) /\ Delivers(m, s)
  BY FieldsAreTyped, EffectOnIssue DEF Grounding, Grounds, RowGrounds, CallGrounds, Effects

\* an issue that has ended has ended for ever
LEMMA EndedForEver ==
    ASSUME NEW s \in Sessions, IssueStep(s), issue[s].state \in Ended
    PROVE  issue'[s].state = issue[s].state
  BY DEF IssueStep, SameIssue, IssueCancelled, IssueAnswered, IssueAdvanced, MayAnswer, MayCancel, Ended

\* questions once answered stay answered
LEMMA AnswersGrow ==
    ASSUME NEW s \in Sessions, IssueStep(s), FieldsTyped(s)
    PROVE  /\ issue'[s].answers \in Nat /\ issue[s].answers =< issue'[s].answers
           /\ issue[s].cancel => issue'[s].cancel
  BY DEF IssueStep, SameIssue, IssueCancelled, IssueAnswered, IssueAdvanced, FieldsTyped

\* an answered question is one the issue has taken; otherwise it waits on
LEMMA WaitsOn ==
    ASSUME NEW s \in Sessions, IssueStep(s), FieldsTyped(s), NEW q \in Nat, Waits(s, q)
    PROVE  Waits(s, q)' \/ (IssueAnswered(s) /\ q = Asked(issue[s]) /\ q =< issue'[s].answers)
<1>1. CASE issue[s].cancel
  BY <1>1, AnswersGrow DEF Waits
<1>2. CASE ~issue[s].cancel
  <2>1. issue[s].state = "awaiting" /\ q = Asked(issue[s])
    BY <1>2 DEF Waits
  <2>2. CASE SameIssue(s)
    BY <2>1, <2>2 DEF Waits, SameIssue, Asked
  <2>3. CASE IssueCancelled(s)
    BY <2>3 DEF Waits, IssueCancelled
  <2>4. CASE IssueAnswered(s)
    BY <2>1, <2>4 DEF IssueAnswered, Asked, FieldsTyped
  <2>5. CASE IssueAdvanced(s)
    BY <1>2, <2>1, <2>5 DEF IssueAdvanced
  <2> QED
    BY <2>2, <2>3, <2>4, <2>5 DEF IssueStep
<1> QED
  BY <1>1, <1>2

\* only the row's own answer is taken, while the row is open
LEMMA TakenIsOurs ==
    ASSUME Grounding, NEW m \in Managers, NEW s \in Sessions, TookAnswer(m, s)
    PROVE  Closed(s) \/ sess[s].answer = Asked(issue[s])
<1>1. call[m][s].question = Asked(issue[s]) /\ issue[s].answers \in Nat
  BY GroundsOf DEF TookAnswer, FieldsTyped
<1>2. ~(call[m][s].question =< issue[s].answers)
  BY <1>1 DEF Asked
<1> QED
  BY <1>1, <1>2, GroundsOf DEF TookAnswer, Answers

LEMMA CancelKnownKept == ASSUME Grounding, NEW s \in Sessions PROVE CancelKnown(s)'
<1>1. sess[s].cancel => sess'[s].cancel
  BY GroundsOf DEF Effect, Moved, WasAnswered, WasCancelled, WasSettled, WasStarted, HasAdvanced,
                   TookAnswer, HasReturned, SameRow
<1>2. IssueCancelled(s) \/ SameIssue(s) \/ IssueAnswered(s) \/ IssueAdvanced(s)
  BY GroundsOf DEF IssueStep
<1>3. CASE IssueCancelled(s) /\ ~issue[s].cancel
  <2>1. sess'[s].cancel \/ SameIssue(s)
    BY <1>1, <1>3, GroundsOf DEF Effect, Moved, WasAnswered, WasCancelled, WasSettled, WasStarted, HasAdvanced,
                   TookAnswer, HasReturned, SameRow, IssueAdvanced, IssueAnswered, IssueCancelled
  <2>2. sess'[s].cancel
    BY <1>3, <2>1 DEF IssueCancelled, SameIssue
  <2> QED
    BY <1>3, <2>2 DEF CancelKnown, IssueCancelled, MayCancel
<1>4. CASE issue[s].cancel
  <2>1. sess'[s].cancel /\ issue[s].state \in {"open", "awaiting", "cancelled"}
    BY <1>1, <1>4, GroundsOf DEF CancelKnown
  <2>2. issue'[s].state \in {"open", "awaiting", "cancelled"}
    BY <1>2, <1>4, <2>1 DEF IssueCancelled, SameIssue, IssueAnswered, IssueAdvanced
  <2> QED
    BY <2>1, <2>2 DEF CancelKnown
<1>5. CASE ~issue[s].cancel /\ ~IssueCancelled(s)
  <2>1. ~issue'[s].cancel
    BY <1>2, <1>5 DEF SameIssue, IssueAnswered, IssueAdvanced
  <2> QED
    BY <2>1 DEF CancelKnown
<1> QED
  BY <1>3, <1>4, <1>5

LEMMA GroundedKept == ASSUME Grounding, NEW s \in Sessions PROVE Grounded(s)'
<1> SUFFICES ASSUME sess'[s].state \in {"completed", "failed", "cancelled"}
             PROVE  issue'[s].state = sess'[s].state
  BY DEF Grounded
<1>1. CASE sess'[s].state = sess[s].state
  <2>1. issue[s].state = sess[s].state /\ issue[s].state \in Ended
    BY <1>1, GroundsOf DEF Grounded, Ended
  <2> QED
    BY <1>1, <2>1, GroundsOf, EndedForEver
<1>2. CASE sess'[s].state # sess[s].state
  <2>1. PICK m \in Managers : WasSettled(m, s)
    BY <1>2, GroundsOf DEF Effect, Moved, Pending, WasAnswered, WasCancelled, WasStarted, HasAdvanced,
                           TookAnswer, HasReturned, SameRow
  <2>2. issue[s].state = call[m][s].state
    BY <2>1, GroundsOf DEF WasSettled, Reports
  <2> QED
    BY <2>1, <2>2 DEF WasSettled, SameIssue
<1> QED
  BY <1>1, <1>2

LEMMA AwaitsKept == ASSUME Grounding, NEW s \in Sessions PROVE Awaits(s)'
<1> SUFFICES ASSUME sess'[s].state = "awaiting_user"
             PROVE  sess'[s].answer = 0 /\ Waits(s, sess[s].question)'
  BY DEF Awaits
<1>1. ASSUME NEW m \in Managers, WasSettled(m, s)
      PROVE  sess'[s].answer = 0 /\ Waits(s, sess[s].question)'
  <2>1. Waits(s, call[m][s].question)
    BY <1>1, GroundsOf DEF WasSettled, Delivers
  <2> QED
    BY <1>1, <2>1 DEF WasSettled, SameIssue, Waits, Asked
<1>2. CASE ~\E m \in Managers : WasSettled(m, s)
  <2>1. /\ sess[s].state = "awaiting_user"
        /\ sess'[s].answer = sess[s].answer /\ sess'[s].question = sess[s].question
    BY <1>2, GroundsOf DEF Effect, Moved, Pending, WasAnswered, WasCancelled, WasStarted, HasAdvanced,
                           TookAnswer, HasReturned, SameRow
  <2>2. sess[s].answer = 0 /\ Waits(s, sess[s].question)
    BY <2>1, GroundsOf DEF Awaits
  <2>3. ~\E m \in Managers : TookAnswer(m, s)
    <3> SUFFICES ASSUME NEW m \in Managers, TookAnswer(m, s) PROVE FALSE
      OBVIOUS
    <3>1. sess[s].answer = Asked(issue[s])
      BY <2>1, TakenIsOurs DEF Closed, Final
    <3> QED
      BY <2>2, <3>1, GroundsOf DEF FieldsTyped, Asked
  <2>4. ~IssueAnswered(s) \/ SameIssue(s)
    BY <2>3, GroundsOf DEF Effect, Moved, WasAnswered, WasCancelled, WasSettled, WasStarted, HasAdvanced, HasReturned,
             IssueAnswered, IssueAdvanced, IssueCancelled, MayAnswer, MayCancel
  <2>5. ~IssueAnswered(s)
    BY <2>4 DEF IssueAnswered, SameIssue, MayAnswer
  <2>6. sess[s].question \in Nat
    BY GroundsOf DEF FieldsTyped
  <2>7. Waits(s, sess[s].question)'
    <3> DEFINE q == sess[s].question
    <3>1. q \in Nat /\ Waits(s, q)
      BY <2>2, <2>6
    <3> HIDE DEF q
    <3>2. issue'[s].cancel \/ (issue'[s].state = "awaiting" /\ q = Asked(issue'[s]))
      BY <2>5, <3>1, GroundsOf, WaitsOn DEF Waits
    <3> QED
      BY <2>1, <3>2 DEF Waits, q
  <2> QED
    BY <2>1, <2>2, <2>7
<1> QED
  BY <1>1, <1>2
LEMMA OwedKept == ASSUME Grounding, NEW s \in Sessions PROVE Owed(s)'
<1>0. FieldsTyped(s) /\ IssueStep(s) /\ Effect(s) /\ Owed(s)
  BY GroundsOf
<1>1. CASE sess'[s].answer = sess[s].answer /\ (Closed(s) => sess'[s].state = sess[s].state)
  <2>1. CASE Closed(s)
    BY <1>1, <2>1 DEF Closed, Owed
  <2>2. CASE sess[s].answer =< issue[s].answers
    BY <1>0, <1>1, <2>2, AnswersGrow DEF Owed, FieldsTyped
  <2>3. CASE Waits(s, sess[s].answer)
    <3> DEFINE q == sess[s].answer
    <3>1. q \in Nat /\ Waits(s, q)
      BY <1>0, <2>3 DEF FieldsTyped
    <3> HIDE DEF q
    <3>2. \/ issue'[s].cancel \/ (issue'[s].state = "awaiting" /\ q = Asked(issue'[s]))
          \/ q =< issue'[s].answers
      BY <1>0, <3>1, WaitsOn DEF Waits
    <3>3. q = sess'[s].answer
      BY <1>1 DEF q
    <3> QED
      BY <3>2, <3>3 DEF Owed, Waits
  <2> QED
    BY <1>0, <2>1, <2>2, <2>3 DEF Owed
<1>2. CASE WasAnswered(s)
  <2>1. Waits(s, sess[s].question)
    BY <1>2, GroundsOf DEF WasAnswered, Awaits
  <2> QED
    BY <1>2, <2>1 DEF WasAnswered, SameIssue, Waits, Asked, Owed
<1>3. ASSUME NEW m \in Managers, WasSettled(m, s) PROVE Owed(s)'
  BY <1>0, <1>3, AnswersGrow DEF WasSettled, Owed, FieldsTyped
<1>4. \/ sess'[s].answer = sess[s].answer /\ (Closed(s) => sess'[s].state = sess[s].state)
      \/ WasAnswered(s) \/ \E m \in Managers : WasSettled(m, s)
  BY <1>0 DEF Effect, Moved, Pending, WasCancelled, WasStarted, HasAdvanced, TookAnswer, HasReturned,
              SameRow, Closed, Final
<1> QED
  BY <1>1, <1>2, <1>3, <1>4

\* what becomes of an execution: it stays, or it is one of the calls the step makes
CallKept(m, s) == call'[m][s] = call[m][s]
CallMade(m, s) ==
    \/ call'[m][s].step \in {"none", "claimed"}
    \/ call'[m][s] = Calling("cancel", 0) /\ (issue'[s].cancel \/ issue'[s].state \in Ended)
    \/ WasStarted(m, s) /\ SameIssue(s) /\ call'[m][s] \in {PortError, Asks(s)}
    \/ TookAnswer(m, s) \/ HasReturned(m, s)

LEMMA CallsAfter == ASSUME NEW s \in Sessions, NEW m \in Managers, Effect(s)
                    PROVE  CallKept(m, s) \/ CallMade(m, s)
<1>1. CASE Moved(s)
  BY <1>1, CallSteps DEF Moved, CallKept, CallMade
<1>2. CASE WasAnswered(s) \/ HasAdvanced(s)
  BY <1>2 DEF WasAnswered, HasAdvanced, CallKept, SameCallsOf
<1>3. CASE WasCancelled(s)
  BY <1>3 DEF WasCancelled, CallKept, CallMade, SameCallsOf, IssueCancelled
<1>4. ASSUME NEW n \in Managers, WasSettled(n, s) PROVE CallKept(m, s) \/ CallMade(m, s)
  BY <1>4, CallSteps DEF WasSettled, CallKept, CallMade, OtherCalls
<1>5. ASSUME NEW n \in Managers, WasStarted(n, s) PROVE CallKept(m, s) \/ CallMade(m, s)
  <2>1. CASE n = m
    BY <1>5, <2>1 DEF WasStarted, CallMade, SameIssue, IssueCancelled
  <2>2. CASE n # m
    BY <1>5, <2>2 DEF WasStarted, CallKept, OtherCalls
  <2> QED
    BY <2>1, <2>2
<1>6. ASSUME NEW n \in Managers, TookAnswer(n, s) \/ HasReturned(n, s) PROVE CallKept(m, s) \/ CallMade(m, s)
  BY <1>6 DEF TookAnswer, HasReturned, CallKept, CallMade, OtherCalls
<1> QED
  BY <1>1, <1>2, <1>3, <1>4, <1>5, <1>6 DEF Effect

LEMMA AnswersKept == ASSUME Grounding, NEW s \in Sessions, NEW m \in Managers PROVE Answers(m, s)'
<1> SUFFICES ASSUME call'[m][s].step = "answer"
             PROVE  Closed(s)' \/ call'[m][s].question =< issue'[s].answers
                               \/ call'[m][s].question = sess'[s].answer
  BY DEF Answers
<1>0. FieldsTyped(s) /\ IssueStep(s) /\ Effect(s) /\ Answers(m, s)
  BY GroundsOf
<1>1. CASE CallKept(m, s)
  <2>1. Closed(s) \/ call[m][s].question =< issue[s].answers \/ call[m][s].question = sess[s].answer
    BY <1>0, <1>1 DEF CallKept, Answers
  <2>2. CASE Closed(s)
    BY <1>0, <2>2 DEF Effect, Moved, Pending, WasAnswered, WasCancelled, WasSettled, WasStarted, HasAdvanced,
                      TookAnswer, HasReturned, SameRow, Closed, Final
  <2>3. CASE call[m][s].question =< issue[s].answers
    BY <1>0, <1>1, <2>3, AnswersGrow DEF CallKept, FieldsTyped
  <2>4. CASE ~Closed(s) /\ call[m][s].question = sess[s].answer /\ sess'[s].answer = sess[s].answer
    BY <1>1, <2>4 DEF CallKept
  <2>5. CASE call[m][s].question = sess[s].answer /\ WasAnswered(s)
    <3>1. sess[s].answer = 0
      BY <2>5, GroundsOf DEF WasAnswered, Awaits
    <3> QED
      BY <1>0, <1>1, <2>5, <3>1, AnswersGrow DEF CallKept, FieldsTyped
  <2>6. ASSUME call[m][s].question = sess[s].answer, NEW n \in Managers, WasSettled(n, s)
        PROVE  Closed(s)' \/ call'[m][s].question =< issue'[s].answers
    <3>1. CASE call[n][s].state = "awaiting_user"
      <4>1. sess[s].answer =< issue[s].answers
        BY <2>6, <3>1, GroundsOf DEF WasSettled, Delivers
      <4> QED
        BY <1>0, <1>1, <2>6, <4>1, AnswersGrow DEF CallKept, FieldsTyped
    <3>2. CASE call[n][s].state # "awaiting_user"
      <4>1. call[n][s].state \in Reportable
        BY <2>6 DEF WasSettled, Grounding, TInv, ReportsTyped
      <4> QED
        BY <2>6, <3>2, <4>1 DEF WasSettled, Closed, Reportable
    <3> QED
      BY <3>1, <3>2
  <2>7. sess'[s].answer = sess[s].answer \/ WasAnswered(s) \/ \E n \in Managers : WasSettled(n, s)
    BY <1>0 DEF Effect, Moved, WasCancelled, WasStarted, HasAdvanced, TookAnswer, HasReturned, SameRow
  <2> QED
    BY <2>1, <2>2, <2>3, <2>4, <2>5, <2>6, <2>7
<1>2. CASE CallMade(m, s)
  <2>1. WasStarted(m, s) /\ call'[m][s] = Asks(s)
    <3>1. \A c \in ReportsOf(m, s) \cup {PortError} : c.step = "reported"
      BY ReportsSay
    <3> QED
      BY <1>2, <3>1, CallSteps DEF CallMade, TookAnswer, HasReturned
  <2>2. call'[m][s].question = sess[s].answer
    BY <2>1, CallSteps DEF Asks
  <2> QED
    BY <2>1, <2>2 DEF WasStarted, SameRow
<1> QED
  BY <1>0, <1>1, <1>2, CallsAfter

LEMMA ReportsKept == ASSUME Grounding, NEW s \in Sessions, NEW m \in Managers PROVE Reports(m, s)'
<1> SUFFICES ASSUME call'[m][s].step = "reported", call'[m][s].state \in {"completed", "failed", "cancelled"}
             PROVE  issue'[s].state = call'[m][s].state
  BY DEF Reports
<1>0. FieldsTyped(s) /\ IssueStep(s) /\ Effect(s) /\ Reports(m, s)
  BY GroundsOf
<1>1. CASE CallKept(m, s)
  <2>1. issue[s].state = call[m][s].state /\ issue[s].state \in Ended
    BY <1>0, <1>1 DEF CallKept, Reports, Ended
  <2> QED
    BY <1>0, <1>1, <2>1, EndedForEver DEF CallKept
<1>2. CASE CallMade(m, s)
  <2>1. HasReturned(m, s)
    BY <1>2, CallSteps DEF CallMade, TookAnswer, Asks
  <2>2. call'[m][s] \in ReportsOf(m, s) \cup {PortError}
    BY <2>1 DEF HasReturned
  <2>3. issue[s].state = call'[m][s].state
    BY <2>2, ReportsSay
  <2> QED
    BY <2>1, <2>3 DEF HasReturned, SameIssue
<1> QED
  BY <1>0, <1>1, <1>2, CallsAfter

LEMMA CancelsKept == ASSUME Grounding, NEW s \in Sessions, NEW m \in Managers PROVE Cancels(m, s)'
<1> SUFFICES ASSUME call'[m][s].step = "cancel" PROVE issue'[s].cancel \/ issue'[s].state \in Ended
  BY DEF Cancels
<1>0. FieldsTyped(s) /\ IssueStep(s) /\ Effect(s) /\ Cancels(m, s)
  BY GroundsOf
<1>1. CASE CallKept(m, s)
  BY <1>0, <1>1, AnswersGrow, EndedForEver DEF CallKept, Cancels
<1>2. CASE CallMade(m, s)
  <2>1. \A c \in ReportsOf(m, s) \cup {PortError} : c.step = "reported"
    BY ReportsSay
  <2>2. \/ issue'[s].cancel \/ issue'[s].state \in Ended
        \/ TookAnswer(m, s)
    BY <1>2, <2>1, CallSteps DEF CallMade, HasReturned, Asks
  <2>3. CASE TookAnswer(m, s)
    BY <2>3, CallSteps DEF TookAnswer, IssueAnswered
  <2> QED
    BY <2>2, <2>3
<1> QED
  BY <1>0, <1>1, <1>2, CallsAfter

\* only an accepted answer answers an issue
LEMMA AnsweredByTaking ==
    ASSUME NEW s \in Sessions, Effect(s), IssueAnswered(s)
    PROVE  \E m \in Managers : TookAnswer(m, s)
<1>1. ~SameIssue(s)
  BY DEF IssueAnswered, SameIssue, MayAnswer
<1>2. ~IssueCancelled(s) /\ ~IssueAdvanced(s)
  BY DEF IssueAnswered, IssueCancelled, IssueAdvanced, MayAnswer, MayCancel
<1> QED
  BY <1>1, <1>2 DEF Effect, Moved, WasAnswered, WasCancelled, WasSettled, WasStarted, HasAdvanced, HasReturned

LEMMA DeliversKept == ASSUME Grounding, NEW s \in Sessions, NEW m \in Managers PROVE Delivers(m, s)'
<1> DEFINE Past == /\ \/ call'[m][s].step = "resume"
                      \/ /\ call'[m][s].step = "reported"
                         /\ call'[m][s].state \in {"awaiting_user", "completed", "failed"}
                      => sess'[s].answer =< issue'[s].answers
                   /\ call'[m][s].step = "reported" /\ call'[m][s].state = "awaiting_user"
                      => Waits(s, call[m][s].question)'
<1> SUFFICES ASSUME Owned(m)' PROVE Past
  BY DEF Delivers
<1>0. FieldsTyped(s) /\ IssueStep(s) /\ Effect(s) /\ Delivers(m, s) /\ Owed(s) /\ CancelKnown(s)
  BY GroundsOf
<1>1. CASE call'[m][s].step = "none"
  BY <1>1
<1>2. CASE Owned(m) /\ CallKept(m, s) /\ call[m][s].step \in {"resume", "reported"}
  <2>1. sess[s].state = "running"
    BY <1>2 DEF Grounding, Held, Active, Holds
  <2>2. sess'[s].answer = sess[s].answer
    <3>1. ~WasAnswered(s)
      BY <2>1 DEF WasAnswered
    <3>2. ASSUME NEW n \in Managers, WasSettled(n, s) PROVE FALSE
      BY <1>2, <3>2, CallSteps DEF WasSettled, Owned, CallKept
    <3> QED
      BY <1>0, <3>1, <3>2 DEF Effect, Moved, WasCancelled, WasStarted, HasAdvanced, TookAnswer, HasReturned, SameRow
  <2>3. \/ call[m][s].step = "resume"
        \/ call[m][s].step = "reported" /\ call[m][s].state \in {"awaiting_user", "completed", "failed"}
        => sess[s].answer =< issue[s].answers
    BY <1>0, <1>2 DEF Delivers
  <2>4. \/ call[m][s].step = "resume"
        \/ call[m][s].step = "reported" /\ call[m][s].state \in {"awaiting_user", "completed", "failed"}
        => sess'[s].answer =< issue'[s].answers
    BY <1>0, <2>2, <2>3, AnswersGrow DEF FieldsTyped
  <2>5. ASSUME call[m][s].step = "reported", call[m][s].state = "awaiting_user"
        PROVE  Waits(s, call[m][s].question)'
    <3> DEFINE q == call[m][s].question
    <3>1. q \in Nat /\ Waits(s, q)
      BY <1>0, <1>2, <2>5 DEF FieldsTyped, Delivers
    <3>2. ~IssueAnswered(s)
      <4> SUFFICES ASSUME IssueAnswered(s) PROVE FALSE
        OBVIOUS
      <4>1. PICK n \in Managers : TookAnswer(n, s)
        BY <1>0, AnsweredByTaking
      <4>2. sess[s].answer = Asked(issue[s])
        BY <2>1, <4>1, TakenIsOurs DEF Closed, Final
      <4> QED
        BY <1>0, <2>3, <2>5, <4>2 DEF Asked, FieldsTyped
    <3>3. q = call'[m][s].question
      BY <1>2 DEF CallKept
    <3> HIDE DEF q
    <3>4. issue'[s].cancel \/ (issue'[s].state = "awaiting" /\ q = Asked(issue'[s]))
      BY <1>0, <3>1, <3>2, WaitsOn DEF Waits
    <3> QED
      BY <3>3, <3>4 DEF Waits
  <2> QED
    BY <1>2, <2>4, <2>5 DEF CallKept
<1>3. CASE Owned(m) /\ CallKept(m, s) /\ call[m][s].step \notin {"resume", "reported"}
  BY <1>3 DEF CallKept
<1>4. CASE TookAnswer(m, s) /\ Owned(m)
  <2>1. sess[s].state = "running"
    BY <1>4 DEF Grounding, Held, Active, Holds, TookAnswer
  <2>2. sess[s].answer = Asked(issue[s])
    BY <1>4, <2>1, TakenIsOurs DEF Closed, Final
  <2>3. sess'[s].answer =< issue'[s].answers
    BY <1>0, <1>4, <2>2 DEF TookAnswer, SameRow, IssueAnswered, Asked, FieldsTyped
  <2> QED
    BY <1>4, <2>3, CallSteps DEF TookAnswer
<1>5. CASE HasReturned(m, s) /\ Owned(m)
  <2>1. sess[s].state = "running"
    BY <1>5 DEF Grounding, Held, Active, Holds, HasReturned
  <2>2. sess[s].answer =< issue[s].answers \/ Waits(s, sess[s].answer)
    BY <1>0, <2>1 DEF Owed, Closed, Final
  <2>3. call'[m][s] \in ReportsOf(m, s) \cup {PortError}
    BY <1>5 DEF HasReturned
  <2>4. CASE issue[s].state \in Ended /\ call'[m][s].state = issue[s].state
    <3>1. call'[m][s].state # "awaiting_user"
      BY <2>4 DEF Ended
    <3>2. call'[m][s].state \in {"completed", "failed"} => ~Waits(s, sess[s].answer)
      BY <1>0, <2>4 DEF Waits, CancelKnown
    <3> QED
      BY <1>5, <2>2, <3>1, <3>2, <2>3, ReportsSay DEF HasReturned, SameRow, SameIssue
  <2>5. CASE /\ call'[m][s].state = "awaiting_user" /\ issue[s].state = "awaiting" /\ ~issue[s].cancel
             /\ call[m][s].step # "answer" /\ call'[m][s].question = Asked(issue[s])
    <3>1. call[m][s].step = "resume"
      <4>1. call[m][s].step # "cancel"
        BY <2>5, GroundsOf DEF Cancels, Ended
      <4> QED
        BY <1>5, <2>5, <4>1 DEF HasReturned
    <3>2. sess[s].answer =< issue[s].answers
      BY <1>0, <1>5, <3>1 DEF Delivers
    <3>3. Waits(s, call[m][s].question)'
      BY <1>5, <2>5 DEF Waits, HasReturned, SameIssue, Asked
    <3> QED
      BY <1>5, <3>2, <3>3 DEF HasReturned, SameRow, SameIssue
  <2>6. CASE call'[m][s].state \in {"outcome_unknown", "chat", "in_flight"}
    BY <2>3, <2>6, ReportsSay
  <2> QED
    BY <2>3, <2>4, <2>5, <2>6, ReportsSay
<1>6. CASE WasStarted(m, s) /\ SameIssue(s) /\ call'[m][s] \in {PortError, Asks(s)}
  <2>1. CASE call'[m][s] = PortError
    BY <2>1, CallSteps
  <2>2. CASE call'[m][s] = Asks(s) /\ sess[s].answer # 0
    BY <2>2, CallSteps DEF Asks
  <2>3. CASE call'[m][s] = Asks(s) /\ sess[s].answer = 0
    BY <1>0, <1>6, <2>3, CallSteps DEF Asks, WasStarted, SameRow, SameIssue, FieldsTyped
  <2> QED
    BY <1>6, <2>1, <2>2, <2>3
<1>7. CASE call'[m][s].step \in {"claimed", "cancel"}
  BY <1>7
<1>8. Owned(m) \/ call'[m][s].step = "none"
  BY DEF Grounding, LeaseTaken
<1> HIDE DEF Past
<1> QED
  <2>1. CASE CallKept(m, s)
    BY <1>1, <1>2, <1>3, <1>8, <2>1
  <2>2. CASE CallMade(m, s)
    BY <1>1, <1>4, <1>5, <1>6, <1>7, <1>8, <2>2, CallSteps DEF CallMade
  <2> QED
    BY <1>0, <2>1, <2>2, CallsAfter

LEMMA GroundsKept == Grounding => Grounds'
<1> SUFFICES ASSUME Grounding PROVE Grounds'
  OBVIOUS
<1>1. ASSUME NEW s \in Sessions PROVE RowGrounds(s)'
  BY CancelKnownKept, GroundedKept, AwaitsKept, OwedKept DEF RowGrounds
<1>2. ASSUME NEW s \in Sessions, NEW m \in Managers PROVE CallGrounds(m, s)'
  BY AnswersKept, ReportsKept, CancelsKept, DeliversKept DEF CallGrounds
<1> QED
  BY <1>1, <1>2 DEF Grounds

LEMMA InitGrounds == Init => Grounds
<1> SUFFICES ASSUME Init, NEW s \in Sessions PROVE RowGrounds(s) /\ \A m \in Managers : CallGrounds(m, s)
  BY DEF Grounds
<1>1. /\ sess[s].state = "none" /\ sess[s].answer = 0
      /\ ~issue[s].cancel /\ issue[s].answers = 0
  BY DEF Init, NotSubmitted, NewIssue
<1>2. \A m \in Managers : call[m][s].step = "none"
  BY CallSteps DEF Init
<1>3. RowGrounds(s)
  BY <1>1 DEF RowGrounds, CancelKnown, Grounded, Awaits, Owed
<1>4. \A m \in Managers : CallGrounds(m, s)
  BY <1>2 DEF CallGrounds, Answers, Reports, Cancels, Delivers
<1> QED
  BY <1>3, <1>4

\* the inductive invariant: types, ownership and what is known of the issues
GInv == TInv /\ IInv /\ Grounds

LEMMA InitGInv == Init => GInv
  BY InitTyped, InitIInv, InitGrounds DEF GInv

LEMMA StepGrounding == GInv /\ [Next]_vars => Grounding
  BY NextEffects DEF GInv, Grounding, IInv

LEMMA NextGInv == GInv /\ [Next]_vars => GInv'
  BY NextTyped, NextIInv, StepGrounding, GroundsKept DEF GInv

\* Rows, order, lease, issues, pumps and executions keep their types: the order
\* holds every submitted session exactly once, however often sessions are requeued,
\* recovered or moved to the end.
THEOREM TypesAlwaysKept == Spec => []TypeOK
<1>1. GInv => TypeOK
  BY DEF GInv, TInv
<1> QED
  BY <1>1, InitGInv, NextGInv, PTL DEF Spec

LEMMA GroundsShown == Grounds => OutcomesGrounded
<1> SUFFICES ASSUME Grounds, NEW s \in Sessions
             PROVE  /\ sess[s].state \in {"completed", "failed", "cancelled"} => issue[s].state = sess[s].state
                    /\ sess[s].state = "awaiting_user" /\ ~sess[s].cancel
                         => issue[s].state = "awaiting" /\ sess[s].question = Asked(issue[s])
  BY DEF OutcomesGrounded, GroundedOutcome, AwaitingIsAnswerable
<1>1. CancelKnown(s) /\ Grounded(s) /\ Awaits(s)
  BY DEF Grounds, RowGrounds
<1> QED
  BY <1>1 DEF CancelKnown, Grounded, Awaits, Waits

\* A session that says completed, failed or cancelled says what the orchestrator has
\* persisted, and the question it shows is the one its issue waits for: after any
\* recovery, stale execution, crash, error or cancellation of any manager.
THEOREM OutcomesAlwaysGrounded == Spec => []OutcomesGrounded
<1>1. GInv => OutcomesGrounded
  BY GroundsShown DEF GInv
<1> QED
  BY <1>1, InitGInv, NextGInv, PTL DEF Spec

\* an answer is forgotten by a settlement alone
Delivered ==
    \A s \in Sessions :
        /\ sess[s].answer # 0 /\ sess'[s].answer = 0
        /\ sess'[s].state \in {"awaiting_user", "completed", "failed"}
        => issue[s].answers >= sess[s].answer
Finality == \A s \in Sessions : sess[s].state \in Final => sess'[s] = sess[s]

LEMMA StepDelivers == Grounding => Delivered
<1> SUFFICES ASSUME Grounding, NEW s \in Sessions, sess[s].answer # 0, sess'[s].answer = 0,
                    sess'[s].state \in {"awaiting_user", "completed", "failed"}
             PROVE  issue[s].answers >= sess[s].answer
  BY DEF Delivered
<1>1. PICK m \in Managers : WasSettled(m, s)
  BY GroundsOf DEF Effect, Moved, WasAnswered, WasCancelled, WasStarted, HasAdvanced, TookAnswer, HasReturned, SameRow
<1>2. sess[s].answer =< issue[s].answers
  BY <1>1, GroundsOf DEF WasSettled, Delivers
<1> QED
  BY <1>2, GroundsOf DEF FieldsTyped

LEMMA StepFinal == Grounding => Finality
<1> SUFFICES ASSUME Grounding, NEW s \in Sessions, sess[s].state \in Final PROVE sess'[s] = sess[s]
  BY DEF Finality
<1> QED
  BY GroundsOf DEF Effect, Moved, Pending, WasAnswered, WasCancelled, WasSettled, WasStarted, HasAdvanced,
                   TookAnswer, HasReturned, SameRow, Final

\* No step of any manager drops a queued answer its issue has not taken, and none
\* rewrites the row of a settled session.
THEOREM NothingEverRewritten == Spec => NothingRewritten
<1>1. GInv /\ [Next]_vars => [Delivered]_vars /\ [Finality]_vars
  BY StepGrounding, StepDelivers, StepFinal
<1>2. Spec => [][Delivered]_vars /\ [][Finality]_vars
  BY <1>1, InitGInv, NextGInv, PTL DEF Spec
<1> QED
  BY <1>2 DEF NothingRewritten, AnswerDelivered, SettledIsFinal, Delivered, Finality

-----------------------------------------------------------------------------
(* The budget *)

\* f is the recursion of Summed, up to n
IsSum(f, start, q, n) ==
    f = [k \in 0..n |-> IF k = 0 THEN start ELSE Plus(f[k - 1], Usd(q[k]))]

LEMMA SumExists ==
    ASSUME NEW start, NEW q, NEW n \in Nat
    PROVE  \E f : IsSum(f, start, q, n)
<1> DEFINE T == {k \in Nat : ~\E f : IsSum(f, start, q, k)}
<1> SUFFICES ASSUME T # {} PROVE FALSE
  OBVIOUS
<1>1. PICK k \in T : \A j \in T : k =< j
  <2> HIDE DEF T
  <2>1. T \in SUBSET Nat
    BY DEF T
  <2> QED
    BY <2>1, SmallestNat
<1>2. k \in Nat /\ ~\E f : IsSum(f, start, q, k)
  OBVIOUS
<1>3. CASE k = 0
  <2>1. IsSum([j \in 0..k |-> start], start, q, k)
    BY <1>3 DEF IsSum
  <2> QED
    BY <1>2, <2>1
<1>4. CASE k # 0
  <2>1. k - 1 \in Nat /\ k - 1 \notin T
    <3>1. k - 1 \in Nat /\ ~(k =< k - 1)
      BY <1>2, <1>4
    <3> QED
      BY <1>1, <3>1
  <2>2. PICK f : IsSum(f, start, q, k - 1)
    BY <2>1
  <2> DEFINE last == Plus(f[k - 1], Usd(q[k]))
             g == [j \in 0..k |-> IF j = k THEN last ELSE f[j]]
  <2>3. \A j \in 0..(k - 1) : g[j] = f[j] /\ j \in 0..k
    BY <1>2, <2>1
  <2>4. \A j \in 0..k : g[j] = IF j = 0 THEN start ELSE Plus(g[j - 1], Usd(q[j]))
    <3> SUFFICES ASSUME NEW j \in 0..k
                 PROVE  g[j] = IF j = 0 THEN start ELSE Plus(g[j - 1], Usd(q[j]))
      OBVIOUS
    <3>1. CASE j = k
      <4>1. g[k - 1] = f[k - 1] /\ g[k] = last
        BY <1>2, <2>1, <2>3
      <4> QED
        BY <1>4, <3>1, <4>1
    <3>2. CASE j # k
      <4>1. j \in 0..(k - 1) /\ (j # 0 => j - 1 \in 0..(k - 1))
        BY <1>2, <3>2
      <4>2. g[j] = f[j] /\ (j # 0 => g[j - 1] = f[j - 1])
        BY <2>3, <4>1
      <4>3. f[j] = IF j = 0 THEN start ELSE Plus(f[j - 1], Usd(q[j]))
        BY <2>2, <4>1 DEF IsSum
      <4> HIDE DEF g
      <4> QED
        BY <4>1, <4>2, <4>3
    <3> QED
      BY <3>1, <3>2
  <2>5. g = [j \in 0..k |-> g[j]]
    OBVIOUS
  <2> HIDE DEF g
  <2>6. IsSum(g, start, q, k)
    BY <2>4, <2>5 DEF IsSum
  <2> QED
    BY <1>2, <2>6
<1> QED
  BY <1>3, <1>4

LEMMA SummedIs ==
    ASSUME NEW start, NEW q, Len(q) \in Nat
    PROVE  \E f : IsSum(f, start, q, Len(q)) /\ Summed(start, q) = f[Len(q)]
<1> DEFINE f == CHOOSE g : IsSum(g, start, q, Len(q))
<1>1. IsSum(f, start, q, Len(q))
  BY SumExists, Zenon
<1>2. Summed(start, q) = f[Len(q)]
  BY DEF Summed, IsSum
<1> QED
  BY <1>1, <1>2

\* One addition: a sum within the threshold comes from amounts within it, and has
\* lost no more than Slack.
LEMMA PlusLoses ==
    ASSUME Metered, NEW a \in Nat, NEW b \in Nat
    PROVE  /\ Plus(a, b) \in Nat
           /\ Plus(a, b) =< Threshold => a =< Threshold /\ a + b =< Plus(a, b) + Slack
<1>1. Threshold \in Nat /\ Slack \in Nat
  BY AmountAssumption, RoundingAssumption DEF Metered
<1>2. CASE a > Threshold \/ b > Threshold
  BY <1>1, <1>2 DEF Plus
<1>3. CASE ~(a > Threshold \/ b > Threshold)
  <2>1. a + b \in 0..(2 * Threshold) /\ a =< Threshold
    BY <1>1, <1>3
  <2> DEFINE n == a + b
  <2>3. Plus(a, b) = Rounded(n)
    BY <1>3 DEF Plus
  <2>4. n \in 0..(2 * Threshold)
    BY <2>1
  <2> HIDE DEF n
  <2>5. \A k \in 0..(2 * Threshold) : Rounded(k) \in Nat /\ (Rounded(k) =< Threshold => k =< Rounded(k) + Slack)
    BY RoundingAssumption DEF Metered
  <2>6. Rounded(n) \in Nat /\ (Rounded(n) =< Threshold => n =< Rounded(n) + Slack)
    BY Zenon, <2>4, <2>5
  <2> DEFINE x == Rounded(n)
  <2>7. Plus(a, b) = x /\ x \in Nat /\ (x =< Threshold => n =< x + Slack)
    BY <2>3, <2>6
  <2> HIDE DEF x
  <2>2. Plus(a, b) \in Nat /\ (Plus(a, b) =< Threshold => a + b =< Plus(a, b) + Slack)
    BY <2>7 DEF n
  <2> QED
    BY <2>1, <2>2
<1> QED
  BY <1>2, <1>3

Paid == [s \in Sessions |-> Usd(s)]

\* What was added up within the threshold is within it but for what each addition
\* has lost.
LEMMA RoundedAway ==
    ASSUME Metered, NEW q \in Seq(Sessions), IsInjective(q),
           \A i \in 1..Len(q) : Usd(q[i]) \in Nat, Summed(0, q) =< Threshold
    PROVE  SumFunctionOnSet(Paid, ToSet(q)) =< Threshold + Slack * Len(q)
<1>0. Len(q) \in Nat /\ Threshold \in Nat /\ Slack \in Nat
  BY AmountAssumption, RoundingAssumption DEF Metered
<1>1. PICK f : IsSum(f, 0, q, Len(q)) /\ Summed(0, q) = f[Len(q)]
  BY <1>0, SummedIs
<1> DEFINE exact(n) == SumFunctionOnSet(Paid, Upto(q, n))
           Good(n) == /\ f[n] \in Nat
                      /\ f[n] =< Threshold => exact(n) \in Nat /\ exact(n) =< f[n] + Slack * n
           T == {n \in 0..Len(q) : ~Good(n)}
<1>2. \A n \in 0..Len(q) : Good(n)
  <2> SUFFICES ASSUME T # {} PROVE FALSE
    OBVIOUS
  <2>1. PICK n \in T : \A j \in T : n =< j
    <3> HIDE DEF T
    <3>1. T \in SUBSET Nat
      BY DEF T
    <3> QED
      BY <3>1, SmallestNat
  <2>2. n \in 0..Len(q) /\ ~Good(n)
    OBVIOUS
  <2>3. CASE n = 0
    <3>1. f[0] = 0
      BY <1>0, <1>1 DEF IsSum
    <3>2. Upto(q, 0) = {}
      BY DEF Upto
    <3>3. exact(0) = 0
      BY <3>2, SumEmpty
    <3> HIDE DEF exact
    <3>4. Good(0)
      BY <1>0, <3>1, <3>3
    <3> QED
      BY <2>2, <2>3, <3>4
  <2>4. CASE n # 0
    <3> DEFINE u == Usd(q[n])
               before == f[n - 1]
    <3>1. n - 1 \in 0..Len(q) /\ ~(n =< n - 1) /\ n \in 1..Len(q)
      BY <1>0, <2>2, <2>4
    <3>2. Good(n - 1)
      <4> HIDE DEF Good
      <4> QED
        BY <2>1, <3>1
    <3>3. f[n] = Plus(before, u) /\ u \in Nat
      BY <1>1, <2>2, <2>4, <3>1 DEF IsSum
    <3>4. before \in Nat
      BY <3>2
    <3>5. /\ f[n] \in Nat
          /\ f[n] =< Threshold => before =< Threshold /\ before + u =< f[n] + Slack
      <4> HIDE DEF u, before
      <4>1. /\ Plus(before, u) \in Nat
            /\ Plus(before, u) =< Threshold => before =< Threshold /\ before + u =< Plus(before, u) + Slack
        BY <3>3, <3>4, PlusLoses, Zenon
      <4> QED
        BY <3>3, <4>1, Zenon
    <3>6. ASSUME f[n] =< Threshold PROVE exact(n) = u + exact(n - 1)
      <4> DEFINE U == Upto(q, n - 1)
      <4>1. q[n] \notin U
        <5>1. \A i \in 1..(n - 1) : i \in DOMAIN q /\ n \in DOMAIN q /\ i # n
          BY <1>0, <3>1
        <5> QED
          BY <5>1 DEF Upto, IsInjective
      <4>2. Upto(q, n) = U \cup {q[n]}
        <5>1. 1..n = (1..(n - 1)) \cup {n}
          BY <3>1
        <5> QED
          BY <5>1 DEF Upto
      <4>3. U \subseteq Sessions /\ q[n] \in Sessions
        BY <1>0, <3>1 DEF Upto
      <4>4. \A x \in U \cup {q[n]} : Paid[x] \in Nat
        <5>1. \A i \in 1..n : i \in 1..Len(q) /\ q[i] \in Sessions
          BY <1>0, <3>1
        <5>2. \A i \in 1..n : Paid[q[i]] \in Nat
          BY <5>1 DEF Paid
        <5> QED
          BY <4>2, <5>2 DEF Upto
      <4>5. Paid[q[n]] = u
        BY <4>3 DEF Paid
      <4> HIDE DEF U
      <4>6. IsFiniteSet(U) /\ Natural(Paid, U \cup {q[n]})
        BY <4>3, <4>4, SessionAssumption, FS_Subset DEF Natural
      <4>7. SumFunctionOnSet(Paid, U \cup {q[n]}) = Paid[q[n]] + SumFunctionOnSet(Paid, U)
        BY <4>1, <4>6, SumWith
      <4> QED
        BY <4>2, <4>5, <4>7 DEF U
    <3>7. Slack * n = Slack * (n - 1) + Slack /\ Slack * (n - 1) \in Nat
      BY <1>0, <3>1
    <3>8. ASSUME f[n] =< Threshold PROVE exact(n) \in Nat /\ exact(n) =< f[n] + Slack * n
      <4>1. exact(n - 1) \in Nat /\ exact(n - 1) =< before + Slack * (n - 1)
        BY <3>2, <3>5, <3>8
      <4>2. before + u =< f[n] + Slack /\ exact(n) = u + exact(n - 1)
        BY <3>5, <3>6, <3>8
      <4> HIDE DEF exact, u, before
      <4> DEFINE more == Slack * (n - 1)
      <4>3. Slack * n = more + Slack /\ more \in Nat /\ exact(n - 1) =< before + more
        BY <3>7, <4>1
      <4> HIDE DEF more
      <4> QED
        BY <1>0, <3>3, <3>4, <3>5, <4>1, <4>2, <4>3
    <3> QED
      BY <2>2, <3>5, <3>8
  <2> QED
    BY <2>3, <2>4
<1>3. Good(Len(q))
  BY <1>0, <1>2
<1>4. Upto(q, Len(q)) = ToSet(q)
  BY DEF Upto, ToSet
<1>5. exact(Len(q)) \in Nat /\ exact(Len(q)) =< f[Len(q)] + Slack * Len(q) /\ f[Len(q)] \in Nat
  BY <1>1, <1>3
<1> DEFINE more == Slack * Len(q)
<1>6. more \in Nat
  BY <1>0
<1> HIDE DEF more, exact
<1>7. exact(Len(q)) =< Threshold + more
  BY <1>0, <1>1, <1>5, <1>6 DEF more
<1> QED
  BY <1>4, <1>7 DEF more, exact

\* A sequence that repeats no session is no longer than there are sessions.
LEMMA NoLonger ==
    ASSUME NEW q \in Seq(Sessions), IsInjective(q)
    PROVE  Len(q) \in Nat /\ Cardinality(Sessions) \in Nat /\ Len(q) =< Cardinality(Sessions)
<1>1. q \in Injection(1..Len(q), Sessions) /\ Len(q) \in Nat
  BY DEF IsInjective, Injection
<1>2. Cardinality(1..Len(q)) = Len(q)
  <2> DEFINE n == Len(q)
  <2>1. n \in Nat
    BY <1>1
  <2> HIDE DEF n
  <2>2. Cardinality(1..n) = n
    BY <2>1, FS_Interval
  <2> QED
    BY <2>2 DEF n
<1> QED
  BY <1>1, <1>2, SessionAssumption, FS_Injection, FS_CardinalityType

\* the threshold, and what the additions may have lost
Allowed == Threshold + Slack * Cardinality(Sessions)

LEMMA AllowedTyped ==
    ASSUME Metered
    PROVE  /\ Allowed \in Nat /\ Threshold =< Allowed
           /\ \A n \in Nat : n =< Cardinality(Sessions) => Threshold + Slack * n =< Allowed
<1>1. Threshold \in Nat /\ Slack \in Nat /\ Cardinality(Sessions) \in Nat
  BY AmountAssumption, RoundingAssumption, SessionAssumption, FS_CardinalityType DEF Metered
<1> DEFINE c == Cardinality(Sessions)
<1> HIDE DEF c
<1>2. ASSUME NEW n \in Nat, n =< c PROVE Slack * n =< Slack * c /\ Slack * n \in Nat
  <2>1. c - n \in Nat /\ c = n + (c - n) /\ c \in Nat
    BY <1>1, <1>2 DEF c
  <2> DEFINE d == c - n
  <2>2. d \in Nat /\ c = n + d
    BY <2>1
  <2> HIDE DEF d
  <2>3. Slack * c = Slack * n + Slack * d
    BY <1>1, <2>2
  <2>4. Slack * d \in Nat /\ Slack * n \in Nat
    BY <1>1, <2>2
  <2> QED
    BY <2>3, <2>4
<1>3. Slack * c \in Nat
  BY <1>1 DEF c
<1>4. Allowed = Threshold + Slack * c
  BY DEF Allowed, c
<1> QED
  BY <1>1, <1>2, <1>3, <1>4 DEF c

\* What stops to run and settles for no more than it reserved leaves the sum
\* where it was or lower.
LEMMA BudgetReleased ==
    ASSUME NEW c, NEW d, NEW r, NEW u, NEW S, NEW S2, NEW R, NEW R2, NEW limit \in Nat,
           IsFiniteSet(S), IsFiniteSet(R), S \cap R = {}, R2 \subseteq R, S \subseteq S2,
           S2 \subseteq S \cup (R \ R2),
           Natural(c, S), Natural(r, R), Natural(d, S2),
           \A x \in S : d[x] = c[x], \A x \in R2 : u[x] = r[x], \A x \in S2 \ S : d[x] =< r[x],
           SumFunctionOnSet(c, S) + SumFunctionOnSet(r, R) =< limit
    PROVE  SumFunctionOnSet(d, S2) + SumFunctionOnSet(u, R2) =< limit
<1> DEFINE D == S2 \ S
<1>1. /\ IsFiniteSet(D) /\ IsFiniteSet(R2) /\ S \cup D = S2 /\ S \cap D = {}
      /\ D \subseteq R /\ D \cap R2 = {} /\ D \cup R2 \subseteq R
  <2>1. D \subseteq R
    OBVIOUS
  <2> QED
    BY <2>1, FS_Subset
<1>2. Natural(d, S \cup D) /\ Natural(d, D) /\ Natural(r, D) /\ Natural(r, R2) /\ Natural(r, D \cup R2)
  BY <1>1 DEF Natural
<1>3. \A x \in D : d[x] =< r[x]
  OBVIOUS
<1> HIDE DEF D
<1>4. SumFunctionOnSet(d, S2) = SumFunctionOnSet(d, S) + SumFunctionOnSet(d, D)
  BY <1>1, <1>2, SumUnion
<1>5. SumFunctionOnSet(c, S) = SumFunctionOnSet(d, S)
  <2>1. \A x \in S : c[x] = d[x]
    OBVIOUS
  <2> QED
    BY <2>1, SumSame
<1>6. SumFunctionOnSet(r, R2) = SumFunctionOnSet(u, R2)
  <2>1. \A x \in R2 : r[x] = u[x]
    OBVIOUS
  <2> QED
    BY <1>1, <1>2, <2>1, SumSame
<1>7. SumFunctionOnSet(d, D) =< SumFunctionOnSet(r, D)
  BY <1>1, <1>2, <1>3, SumAtMost
<1>8. SumFunctionOnSet(r, D \cup R2) = SumFunctionOnSet(r, D) + SumFunctionOnSet(r, R2)
  BY <1>1, <1>2, SumUnion
<1>9. SumFunctionOnSet(r, D \cup R2) =< SumFunctionOnSet(r, R)
  <2>1. \A x \in D \cup R2 : r[x] =< r[x]
    BY <1>2 DEF Natural
  <2> QED
    BY <1>1, <1>2, <2>1, SumAtMost
<1>10. /\ SumFunctionOnSet(c, S) \in Nat /\ SumFunctionOnSet(r, R) \in Nat
       /\ SumFunctionOnSet(d, D) \in Nat /\ SumFunctionOnSet(r, D) \in Nat
       /\ SumFunctionOnSet(r, R2) \in Nat
  BY <1>1, <1>2, SumIsNat
<1> QED
  BY <1>4, <1>5, <1>6, <1>7, <1>8, <1>9, <1>10

\* What is admitted adds its reservations, and nothing else changes.
LEMMA BudgetClaimed ==
    ASSUME NEW c, NEW d, NEW r, NEW u, NEW S, NEW R, NEW A, NEW limit \in Nat,
           IsFiniteSet(S), IsFiniteSet(R), IsFiniteSet(A), R \cap A = {},
           Natural(c, S), Natural(r, R), Natural(r, A),
           \A x \in S : d[x] = c[x], \A x \in R \cup A : u[x] = r[x],
           (SumFunctionOnSet(c, S) + SumFunctionOnSet(r, R)) + SumFunctionOnSet(r, A) =< limit
    PROVE  SumFunctionOnSet(d, S) + SumFunctionOnSet(u, R \cup A) =< limit
<1>1. IsFiniteSet(R \cup A) /\ Natural(r, R \cup A)
  BY FS_Union DEF Natural
<1>2. SumFunctionOnSet(c, S) = SumFunctionOnSet(d, S)
  <2>1. \A x \in S : c[x] = d[x]
    OBVIOUS
  <2> QED
    BY <2>1, SumSame
<1>3. SumFunctionOnSet(r, R \cup A) = SumFunctionOnSet(u, R \cup A)
  <2>1. \A x \in R \cup A : r[x] = u[x]
    OBVIOUS
  <2> QED
    BY <1>1, <2>1, SumSame
<1>4. SumFunctionOnSet(r, R \cup A) = SumFunctionOnSet(r, R) + SumFunctionOnSet(r, A)
  BY <1>1, SumUnion
<1>5. SumFunctionOnSet(c, S) \in Nat /\ SumFunctionOnSet(r, R) \in Nat /\ SumFunctionOnSet(r, A) \in Nat
  BY SumIsNat
<1> QED
  BY <1>2, <1>3, <1>4, <1>5

\* every running session has a reservation, where a threshold needs one
Priced == Metered => \A s \in Running : sess[s].reservation # NoAmount
BInv == Priced /\ BudgetKept

\* settled for no more than reserved
Cheap(s) == sess[s].cost \in Nat /\ sess[s].reservation \in Nat /\ sess[s].cost =< sess[s].reservation
\* the price of a submitted session stays
PricesKept == \A s \in Sessions : sess[s].state # "none" => sess'[s].reservation = sess[s].reservation

LEMMA SetsFinite ==
    /\ Settled \subseteq Sessions /\ Running \subseteq Sessions /\ Settled \cap Running = {}
    /\ IsFiniteSet(Settled) /\ IsFiniteSet(Running)
    /\ \A s \in Sessions : /\ s \in Settled <=> sess[s].state \in Final
                           /\ s \in Running <=> sess[s].state = "running"
<1>1. \A s : s \in Settled <=> s \in Sessions /\ sess[s].state \in Final
  BY DEF Settled, InState
<1>2. \A s : s \in Running <=> s \in Sessions /\ sess[s].state = "running"
  BY DEF Running, InState
<1>3. "running" \notin Final
  BY DEF Final
<1>4. Settled \subseteq Sessions /\ Running \subseteq Sessions /\ Settled \cap Running = {}
  BY <1>1, <1>2, <1>3
<1> QED
  BY <1>1, <1>2, <1>4, SessionAssumption, FS_Subset

LEMMA PricesTyped == ASSUME TInv, NEW s \in Sessions PROVE sess[s].cost \in Amount /\ sess[s].reservation \in Amount
<1>1. RowsTyped
  BY TypeParts DEF TInv
<1> QED
  BY <1>1 DEF RowsTyped, Row

\* Metered, with all evidence, the amounts are numbers.
LEMMA PricesNatural ==
    ASSUME TInv, Priced, Metered
    PROVE  Natural(Reserved, Running)
           /\ ((\A s \in Settled : sess[s].cost # NoAmount) => Natural(Cost, Settled))
<1>1. \A s \in Sessions : Reserved[s] = sess[s].reservation /\ Cost[s] = sess[s].cost
  BY DEF Reserved, Cost
<1>2. Settled \subseteq Sessions /\ Running \subseteq Sessions
  BY SetsFinite
<1> QED
  BY <1>1, <1>2, PricesTyped DEF Natural, Priced, Amount

LEMMA ReleasedKeeps ==
    ASSUME Grounding, TInv', BInv, PricesKept, FewerRunning
    PROVE  BInv'
<1>0. TInv /\ Finality
  BY StepFinal DEF Grounding
<1>1. Priced'
  BY SetsFinite DEF BInv, Priced, FewerRunning, PricesKept, Running, InState, Metered
<1> SUFFICES ASSUME Metered, \A s \in Settled' : Cheap(s)'
             PROVE  SumFunctionOnSet(Cost', Settled') + SumFunctionOnSet(Reserved', Running') =< Allowed
  BY <1>1 DEF BInv, BudgetKept, Cheap, Metered, Allowed, Running
<1>2. Settled \subseteq Settled' /\ Settled' \subseteq Settled \cup (Running \ Running')
  <2>1. \A s \in Sessions : sess[s].state \in Final => sess'[s].state \in Final
    BY <1>0 DEF Finality
  <2>2. ASSUME NEW s \in Sessions, sess'[s].state \in Final
        PROVE  sess[s].state \in Final \/ (sess[s].state = "running" /\ sess'[s].state # "running")
    BY <2>2, GroundsOf DEF Effect, Moved, Pending, WasAnswered, WasCancelled, WasSettled, WasStarted, HasAdvanced,
                   TookAnswer, HasReturned, SameRow, Final
  <2> QED
    BY <2>1, <2>2 DEF Settled, Running, InState
<1>3. \A s \in Settled : Cheap(s) /\ sess'[s] = sess[s]
  BY <1>0, <1>2, SetsFinite DEF Finality, Cheap
<1>4. SumFunctionOnSet(Cost, Settled) + SumFunctionOnSet(Reserved, Running) =< Allowed
  BY <1>3 DEF BInv, BudgetKept, Cheap, Allowed, Running
<1>5. /\ Natural(Reserved, Running) /\ Natural(Cost, Settled) /\ Natural(Cost', Settled')
  <2>1. \A s \in Settled : sess[s].cost # NoAmount
    BY <1>3, AmountAssumption DEF Cheap
  <2>2. Natural(Reserved, Running) /\ Natural(Cost, Settled)
    BY <1>0, <2>1, PricesNatural DEF BInv
  <2>3. \A s \in Settled' : s \in Sessions /\ Cost'[s] = sess'[s].cost
    BY <1>2, SetsFinite DEF Cost
  <2> QED
    BY <2>2, <2>3 DEF Natural, Cheap
<1>6. /\ \A s \in Settled : Cost'[s] = Cost[s]
      /\ \A s \in Running' : Reserved'[s] = Reserved[s]
      /\ \A s \in Settled' \ Settled : Cost'[s] =< Reserved[s]
  <2>1. \A s \in Sessions : /\ Cost[s] = sess[s].cost /\ Cost'[s] = sess'[s].cost
                            /\ Reserved[s] = sess[s].reservation /\ Reserved'[s] = sess'[s].reservation
    BY DEF Cost, Reserved
  <2>2. \A s \in Running : sess'[s].reservation = sess[s].reservation
    BY SetsFinite DEF PricesKept
  <2>3. Running' \subseteq Running /\ Settled' \ Settled \subseteq Running
    BY <1>2 DEF FewerRunning
  <2> QED
    BY <1>3, <2>1, <2>2, <2>3, SetsFinite DEF Cheap
<1>7. Allowed \in Nat
  BY AllowedTyped
<1>8. Running' \subseteq Running
  BY DEF FewerRunning
<1> QED
  BY <1>2, <1>4, <1>5, <1>6, <1>7, <1>8, SetsFinite, BudgetReleased

\* The first sessions of a sequence that may be admitted together end at one of them.
LEMMA LargestPrefix ==
    ASSUME NEW len \in Nat, NEW P,
           {k \in 1..len : \A n \in 1..k : n \in P} # {}
    PROVE  \E last \in 1..len : last \in P /\ {k \in 1..len : \A n \in 1..k : n \in P} = 1..last
<1> DEFINE I == {k \in 1..len : \A n \in 1..k : n \in P}
           T == {k \in 1..(len + 1) : k \notin I}
<1>1. len + 1 \in T /\ T \in SUBSET Nat
  OBVIOUS
<1>2. PICK first \in T : \A k \in T : first =< k
  BY <1>1, SmallestNat
<1>3. \A k \in I : \A n \in 1..k : n \in I
  OBVIOUS
<1>4. first # 1
  BY <1>2
<1>5. first - 1 \in 1..len
  BY <1>2, <1>4
<1>6. first - 1 \in I
  BY <1>2, <1>5
<1>7. I = 1..(first - 1)
  <2>1. 1..(first - 1) \subseteq I
    BY <1>3, <1>6
  <2>2. ASSUME NEW k \in I, k > first - 1 PROVE FALSE
    <3>1. first \in 1..k
      BY <1>2, <2>2
    <3> QED
      BY <1>2, <1>3, <3>1
  <2> QED
    BY <2>1, <2>2
<1>8. first - 1 \in P
  BY <1>5, <1>6
<1> QED
  BY <1>5, <1>7, <1>8

\* What is admitted fits next to what is committed, but for what is rounded away.
LEMMA AdmittedPriced ==
    ASSUME TInv, Metered, Admitted # {}
    PROVE  /\ EvidenceAvailable /\ \A s \in Admitted : sess[s].reservation # NoAmount
           /\ (SumFunctionOnSet(Cost, Settled) + SumFunctionOnSet(Reserved, Running))
                + SumFunctionOnSet(Reserved, Admitted) =< Allowed
<1> DEFINE q == Queue
           P == {n \in Nat : Admits(q, n)}
           I == {k \in 1..Len(q) : \A n \in 1..k : n \in P}
<1>a. OrderTyped
  BY TypeParts DEF TInv
<1>0. q \in Seq(Sessions) /\ Len(q) \in Nat /\ IsInjective(q) /\ ToSet(q) = InState("queued")
  BY <1>a, QueueHolds
<1>1. Admitted = {q[i] : i \in I}
  BY <1>0 DEF Admitted
<1>2. I # {}
  BY <1>1
<1>3. PICK last \in 1..Len(q) : last \in P /\ I = 1..last
  <2>1. Len(q) \in Nat
    BY <1>0
  <2> HIDE DEF q, P
  <2> QED
    BY <1>2, <2>1, LargestPrefix
<1>4. WithinBudget(q, last)
  BY <1>3 DEF Admits
<1>5. Admitted = Upto(q, last)
  BY <1>1, <1>3 DEF Upto
<1> DEFINE settled == Only(order, Settled)
           running == Only(order, Running)
           head == SubSeq(q, 1, last)
<1>6. /\ settled \in Seq(Sessions) /\ ToSet(settled) = Settled /\ IsInjective(settled)
      /\ running \in Seq(Sessions) /\ ToSet(running) = Running /\ IsInjective(running)
  <2>1. Settled \subseteq ToSet(order) /\ Running \subseteq ToSet(order)
    <3>1. "none" \notin Final
      BY DEF Final
    <3> QED
      BY <1>a, <3>1, SetsFinite DEF OrderTyped
  <2>2. ToSet(order) \cap Settled = Settled /\ ToSet(order) \cap Running = Running
    BY <2>1
  <2>3. order \in Seq(Sessions) /\ IsInjective(order)
    BY <1>a DEF OrderTyped
  <2>4. ToSet(settled) = ToSet(order) \cap Settled /\ settled \in Seq(Sessions) /\ IsInjective(settled)
    BY <2>3, OnlySelects
  <2>5. ToSet(running) = ToSet(order) \cap Running /\ running \in Seq(Sessions) /\ IsInjective(running)
    BY <2>3, OnlySelects
  <2> HIDE DEF settled, running
  <2> QED
    BY <2>2, <2>4, <2>5
<1>7. head \in Seq(Sessions) /\ ToSet(head) = Admitted /\ IsInjective(head)
  <2>1. last \in Nat /\ 1..last \subseteq 1..Len(q) /\ DOMAIN q = 1..Len(q)
    BY <1>0, <1>3
  <2>2. head \in Seq(Sessions) /\ Len(head) = last /\ \A i \in 1..last : head[i] = q[i]
    <3> HIDE DEF q
    <3> QED
      BY <1>0, <1>3
  <2>3. DOMAIN head = 1..last
    BY <2>1, <2>2
  <2> HIDE DEF head, q
  <2>4. ToSet(head) = Upto(q, last)
    BY <2>2, <2>3 DEF ToSet, Upto
  <2>5. IsInjective(head)
    BY <1>0, <2>1, <2>2, <2>3 DEF IsInjective
  <2> QED
    BY <1>5, <2>2, <2>4, <2>5
<1> DEFINE base == settled \o running
           all == base \o head
<1>8. Summed(0, all) =< Threshold
  BY <1>4 DEF WithinBudget, Committed, Running
<1>9. /\ EvidenceAvailable
      /\ \A s \in Admitted : s \in Sessions /\ s \notin Settled /\ s \notin Running
                             /\ sess[s].state = "queued" /\ sess[s].reservation # NoAmount
  <2>1. EvidenceAvailable /\ \A i \in 1..last : sess[q[i]].reservation # NoAmount
    BY <1>4 DEF WithinBudget
  <2>2. \A s \in Admitted : sess[s].reservation # NoAmount
    BY <1>5, <2>1 DEF Upto
  <2>3. \A s \in Admitted : s \in Sessions /\ sess[s].state = "queued"
    BY <1>a, AdmittedQueued DEF InState
  <2>4. "queued" \notin Final
    BY DEF Final
  <2> QED
    BY <2>1, <2>2, <2>3, <2>4, SetsFinite
<1> HIDE DEF settled, running, head, q, P, I
<1>10. /\ base \in Seq(Sessions) /\ ToSet(base) = Settled \cup Running /\ IsInjective(base)
  <2>1. ToSet(settled) \cap ToSet(running) = {}
    BY <1>6, SetsFinite
  <2> QED
    BY <1>6, <2>1, Concatenated
<1> HIDE DEF base
<1>11. /\ all \in Seq(Sessions) /\ ToSet(all) = (Settled \cup Running) \cup Admitted /\ IsInjective(all)
  <2>1. ToSet(base) \cap ToSet(head) = {}
    BY <1>7, <1>9, <1>10
  <2> QED
    BY <1>7, <1>10, <2>1, Concatenated
<1> HIDE DEF all
<1>12. /\ \A s \in Settled : Paid[s] = Cost[s] /\ Cost[s] \in Nat
       /\ \A s \in Running \cup Admitted : Paid[s] = Reserved[s] /\ Reserved[s] \in Nat
       /\ \A s \in ToSet(all) : s \in Sessions /\ Usd(s) \in Nat /\ Paid[s] = Usd(s)
  <2>1. \A s \in Sessions : Paid[s] = Usd(s) /\ Cost[s] = sess[s].cost /\ Reserved[s] = sess[s].reservation
    BY DEF Paid, Cost, Reserved
  <2>2. \A s \in Settled : sess[s].cost \in Nat /\ s \in Sessions
    BY <1>9, SetsFinite, PricesTyped DEF EvidenceAvailable, Amount
  <2>3. \A s \in Running \cup Admitted : sess[s].reservation \in Nat /\ s \in Sessions /\ s \notin Settled
    <3>1. \A s \in Running : sess[s].reservation # NoAmount
      BY <1>9 DEF EvidenceAvailable, Running
    <3> QED
      BY <1>9, <3>1, SetsFinite, PricesTyped DEF Amount
  <2> QED
    BY <1>11, <2>1, <2>2, <2>3 DEF Usd
<1>13. \A i \in 1..Len(all) : Usd(all[i]) \in Nat
  <2>1. \A i \in 1..Len(all) : all[i] \in ToSet(all)
    BY <1>11 DEF ToSet
  <2> QED
    BY <1>12, <2>1
<1>14. SumFunctionOnSet(Paid, ToSet(all)) =< Threshold + Slack * Len(all)
  BY <1>8, <1>11, <1>13, RoundedAway DEF all
<1>15. Threshold + Slack * Len(all) =< Allowed /\ Allowed \in Nat /\ Threshold + Slack * Len(all) \in Nat
  <2>1. Threshold \in Nat /\ Slack \in Nat
    BY AmountAssumption, RoundingAssumption DEF Metered
  <2> DEFINE n == Len(all)
  <2>2. n \in Nat /\ n =< Cardinality(Sessions)
    BY <1>11, NoLonger
  <2> HIDE DEF n
  <2>3. Threshold + Slack * n =< Allowed /\ Allowed \in Nat
    BY <2>2, AllowedTyped
  <2>4. Threshold + Slack * n \in Nat
    BY <2>1, <2>2
  <2> QED
    BY <2>3, <2>4 DEF n
<1>16. /\ IsFiniteSet(Settled) /\ IsFiniteSet(Running) /\ IsFiniteSet(Admitted)
       /\ IsFiniteSet(Settled \cup Running) /\ Settled \cap Running = {}
       /\ (Settled \cup Running) \cap Admitted = {}
  BY <1>9, SetsFinite, SessionAssumption, FS_Subset, FS_Union
<1>17. /\ Natural(Paid, Settled) /\ Natural(Paid, Running) /\ Natural(Paid, Admitted)
       /\ Natural(Paid, Settled \cup Running) /\ Natural(Paid, (Settled \cup Running) \cup Admitted)
  BY <1>12 DEF Natural
<1>18. SumFunctionOnSet(Paid, (Settled \cup Running) \cup Admitted)
         = SumFunctionOnSet(Paid, Settled \cup Running) + SumFunctionOnSet(Paid, Admitted)
  BY <1>16, <1>17, SumUnion
<1>19. SumFunctionOnSet(Paid, Settled \cup Running)
         = SumFunctionOnSet(Paid, Settled) + SumFunctionOnSet(Paid, Running)
  BY <1>16, <1>17, SumUnion
<1>20. /\ SumFunctionOnSet(Paid, Settled) = SumFunctionOnSet(Cost, Settled)
       /\ SumFunctionOnSet(Paid, Running) = SumFunctionOnSet(Reserved, Running)
       /\ SumFunctionOnSet(Paid, Admitted) = SumFunctionOnSet(Reserved, Admitted)
  BY <1>12, <1>16, <1>17, SumSame
<1>21. /\ SumFunctionOnSet(Paid, Settled) \in Nat /\ SumFunctionOnSet(Paid, Running) \in Nat
       /\ SumFunctionOnSet(Paid, Admitted) \in Nat
  BY <1>16, <1>17, SumIsNat
<1>22. SumFunctionOnSet(Paid, (Settled \cup Running) \cup Admitted) =< Threshold + Slack * Len(all)
  BY <1>11, <1>14
<1> QED
  BY <1>9, <1>15, <1>18, <1>19, <1>20, <1>21, <1>22

LEMMA ClaimPriced == ASSUME TInv, IInv, BInv, NEW m \in Managers, Claim(m) PROVE BInv'
<1>0. RowsTyped /\ OrderTyped
  BY TypeParts DEF TInv
<1> DEFINE claimed == IF Owned(m) /\ Readable THEN Admitted ELSE {}
           taken(s) == [sess[s] EXCEPT !.state = "running", !.owner = m]
<1>1. sess' = [s \in Sessions |-> IF s \in claimed THEN taken(s) ELSE sess[s]]
  BY DEF Claim
<1>2. claimed \subseteq InState("queued")
  BY <1>0, AdmittedQueued
<1>3. \A s \in Sessions : /\ taken(s).state = "running" /\ taken(s).cost = sess[s].cost
                          /\ taken(s).reservation = sess[s].reservation
  BY <1>0 DEF RowsTyped, Row
<1>4. IsFiniteSet(claimed)
  BY AdmittedFits, FS_EmptySet DEF IInv
<1>5. claimed = {} \/ claimed = Admitted
  OBVIOUS
<1> HIDE DEF claimed, taken
<1>6. \A s \in Sessions : sess'[s].cost = sess[s].cost /\ sess'[s].reservation = sess[s].reservation
  BY <1>1, <1>3
<1>7. Running' = Running \cup claimed /\ Settled' = Settled /\ Running \cap claimed = {}
  <2>1. \A s \in Sessions : sess'[s].state = IF s \in claimed THEN "running" ELSE sess[s].state
    BY <1>1, <1>3
  <2>2. \A s \in claimed : s \in Sessions /\ sess[s].state = "queued"
    BY <1>2 DEF InState
  <2>3. "running" \notin Final /\ "queued" \notin Final
    BY DEF Final
  <2>4. \A s \in Sessions : sess'[s].state \in Final <=> sess[s].state \in Final
    BY <2>1, <2>2, <2>3
  <2> QED
    BY <2>1, <2>2, <2>4 DEF Running, Settled, InState
<1>8. CASE claimed = {}
  <2>1. sess' = sess
    BY <1>0, <1>1, <1>8 DEF RowsTyped
  <2> QED
    BY <2>1 DEF BInv, Priced, BudgetKept, Metered, Running, InState, Settled, Cost, Reserved
<1>9. CASE claimed = Admitted /\ claimed # {} /\ Metered
  <2>1. /\ EvidenceAvailable /\ \A s \in claimed : sess[s].reservation # NoAmount
        /\ (SumFunctionOnSet(Cost, Settled) + SumFunctionOnSet(Reserved, Running))
             + SumFunctionOnSet(Reserved, claimed) =< Allowed
    BY <1>9, AdmittedPriced
  <2>2. Priced'
    <3>1. \A s \in Running \cup claimed : sess[s].reservation # NoAmount
      BY <2>1 DEF EvidenceAvailable, Running
    <3>2. Running \cup claimed \subseteq Sessions
      BY <1>2, SetsFinite DEF InState
    <3>3. \A s \in Running' : sess'[s].reservation # NoAmount
      BY <1>6, <1>7, <3>1, <3>2
    <3> QED
      BY <3>3 DEF Priced
  <2>3. Natural(Reserved, Running) /\ Natural(Cost, Settled) /\ Natural(Reserved, claimed)
    <3>1. Natural(Reserved, Running) /\ Natural(Cost, Settled)
      BY <1>9, <2>1, PricesNatural DEF BInv, EvidenceAvailable
    <3>2. \A s \in claimed : s \in Sessions /\ Reserved[s] = sess[s].reservation
      BY <1>2 DEF InState, Reserved
    <3> QED
      BY <2>1, <3>1, <3>2, PricesTyped DEF Natural, Amount
  <2>4. Allowed \in Nat
    BY <1>9, AllowedTyped
  <2>5. /\ \A s \in Settled : Cost'[s] = Cost[s]
        /\ \A s \in Running \cup claimed : Reserved'[s] = Reserved[s]
    <3>1. \A s \in Sessions : Cost'[s] = Cost[s] /\ Reserved'[s] = Reserved[s]
      BY <1>6 DEF Cost, Reserved
    <3>2. Settled \subseteq Sessions /\ Running \cup claimed \subseteq Sessions
      BY <1>2, SetsFinite DEF InState
    <3> QED
      BY <3>1, <3>2
  <2>6. SumFunctionOnSet(Cost', Settled) + SumFunctionOnSet(Reserved', Running \cup claimed) =< Allowed
    BY <1>4, <1>7, <2>1, <2>3, <2>4, <2>5, SetsFinite, BudgetClaimed
  <2>7. SumFunctionOnSet(Cost', Settled') + SumFunctionOnSet(Reserved', Running') =< Allowed
    BY <1>7, <2>6
  <2> QED
    BY <2>2, <2>7 DEF BInv, BudgetKept, Allowed, Running
<1>10. CASE ~Metered
  BY <1>10 DEF BInv, Priced, BudgetKept, Metered
<1> QED
  BY <1>5, <1>8, <1>9, <1>10

LEMMA SamePrices == ASSUME UNCHANGED sess PROVE PricesKept /\ FewerRunning
  BY SameRows DEF PricesKept

\* one row is rewritten, and does not begin to run
LEMMA PriceKept ==
    ASSUME TInv, NEW s \in Sessions, NEW r, sess' = [sess EXCEPT ![s] = r],
           sess[s].state = "none" \/ r.reservation = sess[s].reservation,
           r.state # "running" \/ sess[s].state = "running"
    PROVE  PricesKept /\ FewerRunning
<1>1. RowsTyped
  BY TypeParts DEF TInv
<1> QED
  BY <1>1 DEF RowsTyped, PricesKept, FewerRunning, Running, InState

LEMMA CommandPrices ==
    ASSUME TInv, NEW m \in Managers, NEW s \in Sessions, Submit(m, s) \/ Answer(m, s) \/ Cancel(m, s)
    PROVE  PricesKept /\ FewerRunning
<1> USE DEF rows
<1>0. RowsTyped
  BY TypeParts DEF TInv
<1>1. CASE Submit(m, s)
  <2>1. PICK x : sess' = [sess EXCEPT ![s].state = "queued", ![s].reservation = x]
    BY <1>1 DEF Submit
  <2> DEFINE r == [sess[s] EXCEPT !.state = "queued", !.reservation = x]
  <2>2. sess' = [sess EXCEPT ![s] = r]
    BY <1>0, <2>1 DEF RowsTyped
  <2>3. r.state = "queued"
    BY <1>0 DEF RowsTyped, Row
  <2> HIDE DEF r
  <2> QED
    BY <1>1, <2>2, <2>3, PriceKept DEF Submit
<1>2. CASE Answer(m, s)
  <2> DEFINE r == [sess[s] EXCEPT !.state = "queued", !.recovered = FALSE, !.answer = sess[s].question]
  <2>1. sess' = [sess EXCEPT ![s] = r]
    BY <1>0, <1>2 DEF Answer, RowsTyped
  <2>2. r.state = "queued" /\ r.reservation = sess[s].reservation
    BY <1>0 DEF RowsTyped, Row
  <2> HIDE DEF r
  <2> QED
    BY <2>1, <2>2, PriceKept
<1>3. CASE Cancel(m, s)
  <2>1. CASE CancelNoOp(s)
    BY <1>3, <2>1, SamePrices DEF Cancel
  <2>2. CASE ~CancelNoOp(s) /\ Requeues(s)
    <3> DEFINE q == [sess[s] EXCEPT !.cancel = TRUE, !.state = "queued", !.recovered = FALSE]
    <3>1. sess' = [sess EXCEPT ![s] = q]
      BY <1>0, <1>3, <2>2 DEF Cancel, RowsTyped
    <3>2. q.state = "queued" /\ q.reservation = sess[s].reservation
      BY <1>0 DEF RowsTyped, Row
    <3> HIDE DEF q
    <3> QED
      BY <3>1, <3>2, PriceKept
  <2>3. CASE ~CancelNoOp(s) /\ ~Requeues(s)
    <3> DEFINE q == [sess[s] EXCEPT !.cancel = TRUE]
    <3>1. sess' = [sess EXCEPT ![s] = q]
      BY <1>0, <1>3, <2>3 DEF Cancel, RowsTyped
    <3>2. q.state = sess[s].state /\ q.reservation = sess[s].reservation
      BY <1>0 DEF RowsTyped, Row
    <3> HIDE DEF q
    <3> QED
      BY <3>1, <3>2, PriceKept
  <2> QED
    BY <2>1, <2>2, <2>3
<1> QED
  BY <1>1, <1>2, <1>3

LEMMA RecoverPrices == ASSUME TInv, NEW m \in Managers, Recover(m) PROVE PricesKept /\ FewerRunning
<1> USE DEF rows
<1>0. RowsTyped
  BY TypeParts DEF TInv
<1>1. CASE UNCHANGED sess
  BY <1>1, SamePrices
<1>2. CASE ~UNCHANGED sess
  <2> DEFINE back(s) == [sess[s] EXCEPT !.state = "queued", !.recovered = TRUE, !.owner = NoManager]
  <2>1. sess' = [s \in Sessions |-> IF s \in Orphans(m) THEN back(s) ELSE sess[s]]
    BY <1>2 DEF Recover
  <2>2. \A s \in Sessions : back(s).state = "queued" /\ back(s).reservation = sess[s].reservation
    BY <1>0 DEF RowsTyped, Row
  <2> HIDE DEF back
  <2> QED
    BY <2>1, <2>2 DEF PricesKept, FewerRunning, Running, InState
<1> QED
  BY <1>1, <1>2

LEMMA SettlePrices == ASSUME TInv, NEW m \in Managers, NEW s \in Sessions, Settle(m, s)
                      PROVE  PricesKept /\ FewerRunning
<1>0. RowsTyped
  BY TypeParts DEF TInv
<1>1. CASE UNCHANGED sess
  BY <1>1, SamePrices
<1>2. CASE ~UNCHANGED sess
  <2> DEFINE r == [sess[s] EXCEPT !.state = call[m][s].state, !.cost = call[m][s].cost,
                      !.question = call[m][s].question, !.answer = 0, !.owner = NoManager]
  <2>1. sess' = [sess EXCEPT ![s] = r] /\ sess[s].state = "running"
    BY <1>0, <1>2 DEF Settle, Settles, RowsTyped
  <2>2. r.reservation = sess[s].reservation
    BY <1>0 DEF RowsTyped, Row
  <2> HIDE DEF r
  <2> QED
    BY <2>1, <2>2, PriceKept
<1> QED
  BY <1>1, <1>2

LEMMA NextPrices ==
    ASSUME TInv, [Next]_vars
    PROVE  (PricesKept /\ FewerRunning) \/ \E m \in Managers : Claim(m)
<1> USE DEF rows
<1>1. CASE UNCHANGED vars \/ Lapse
  BY <1>1, SamePrices DEF vars, Lapse
<1>2. ASSUME NEW m \in Managers, PumpStep(m), ~Claim(m) PROVE PricesKept /\ FewerRunning
  <2>1. CASE Acquire(m) \/ Wake(m) \/ Leave(m) \/ Release(m)
    BY <2>1, SamePrices DEF Acquire, Wake, Leave, Release
  <2>2. ASSUME NEW s \in Sessions, Start(m, s) PROVE PricesKept /\ FewerRunning
    BY <2>2, SamePrices DEF Start
  <2> QED
    BY <1>2, <2>1, <2>2, RecoverPrices, SettlePrices DEF PumpStep
<1>3. ASSUME NEW m \in Managers, Pump(m) \/ Heartbeat(m) \/ Crash(m) PROVE PricesKept /\ FewerRunning
  BY <1>3, SamePrices DEF Pump, Heartbeat, Crash
<1>4. ASSUME NEW m \in Managers, NEW s \in Sessions,
             \/ Submit(m, s) \/ Answer(m, s) \/ Cancel(m, s)
             \/ PortStep(m, s) \/ Throws(m, s)
      PROVE  PricesKept /\ FewerRunning
  BY <1>4, CommandPrices, SamePrices DEF PortStep, TakesAnswer, Returns, Throws
<1>5. ASSUME NEW s \in Sessions, IssueAdvances(s) PROVE PricesKept /\ FewerRunning
  BY <1>5, SamePrices DEF IssueAdvances
<1>6. ASSUME NEW m \in Managers,
             \/ Pump(m) \/ PumpStep(m) \/ Heartbeat(m) \/ Crash(m)
             \/ \E s \in Sessions : \/ Submit(m, s) \/ Answer(m, s) \/ Cancel(m, s)
                                    \/ PortStep(m, s) \/ Throws(m, s)
      PROVE  (PricesKept /\ FewerRunning) \/ Claim(m)
  BY <1>2, <1>3, <1>4, <1>6
<1>7. CASE Next
  BY <1>1, <1>5, <1>6, <1>7, Zenon DEF Next
<1> QED
  BY <1>1, <1>7

LEMMA InitPriced == Init => BInv
<1> SUFFICES ASSUME Init PROVE BInv
  OBVIOUS
<1>1. Running = {} /\ Settled = {}
  BY DEF Init, Running, Settled, InState, NotSubmitted, Final
<1>2. SumFunctionOnSet(Cost, Settled) = 0 /\ SumFunctionOnSet(Reserved, InState("running")) = 0
  BY <1>1, SumEmpty DEF Running
<1>3. Metered => Allowed \in Nat
  BY AllowedTyped
<1> QED
  BY <1>1, <1>2, <1>3 DEF BInv, Priced, BudgetKept, Allowed

LEMMA NextPriced == GInv /\ BInv /\ [Next]_vars => BInv'
<1> SUFFICES ASSUME GInv, BInv, [Next]_vars PROVE BInv'
  OBVIOUS
<1>1. TInv /\ IInv /\ TInv' /\ Grounding
  BY NextTyped, StepGrounding DEF GInv
<1>2. CASE PricesKept /\ FewerRunning
  BY <1>1, <1>2, ReleasedKeeps
<1>3. ASSUME NEW m \in Managers, Claim(m) PROVE BInv'
  BY <1>1, <1>3, ClaimPriced
<1> QED
  BY <1>1, <1>2, <1>3, NextPrices

\* While no session costs more than it reserved, settled costs and running
\* reservations together exceed the threshold by no more than their additions have
\* rounded away, whoever admits, recovers and settles, for any rounding that loses
\* no more than Slack at a time.
THEOREM BudgetAlwaysKept == Spec => []BudgetKept
<1>1. GInv /\ BInv => BudgetKept
  BY DEF GInv, BInv
<1> QED
  BY <1>1, InitGInv, NextGInv, InitPriced, NextPriced, PTL DEF Spec

=============================================================================
