---------------------- MODULE IssueOrchestrator_proofs ----------------------
(***************************************************************************)
(* Proofs about IssueOrchestrator, for any calls, processes and bounds; at *)
(* the end, that it implements IssueContract.                              *)
(***************************************************************************)
EXTENDS IssueRefinement, TLAPS

-----------------------------------------------------------------------------
(* Type correctness *)

\* A snapshot keeps its type when a call moves it to another state.
LEMMA MovedSnapshot ==
    ASSUME NEW s \in Snapshot, NEW st \in States
    PROVE  [s EXCEPT !.state = st] \in Snapshot
BY DEF Snapshot

\* The key of the actor of an in-flight snapshot is a key.
LEMMA KeyIsKey ==
    ASSUME NEW s \in Snapshot, s.state \in InFlight
    PROVE  KeyOf(s) \in Keys
<1>1. ActorOf[s.state] \in Actors
  BY DEF InFlight, ActorOf, Actors
<1>2. (IF s.state = "moderator_running" THEN s.answers ELSE 0) \in Nat
  BY DEF Snapshot
<1> QED
  BY <1>1, <1>2 DEF KeyOf, Keys

\* So does one that also collects the receipt of the actor it waited for.
LEMMA ReceiptedSnapshot ==
    ASSUME NEW c \in Calls, snap[c] \in Snapshot, snap[c].state \in InFlight,
           NEW st \in States
    PROVE  Receipted(c, st) \in Snapshot
BY KeyIsKey DEF Receipted, Snapshot

\* What store.save leaves behind has the right types, whether or not it stores.
LEMMA SaveTypes ==
    ASSUME TypeOK, NEW c \in Calls, NEW next \in Snapshot,
           Stored(c, next) \/ Yielded(c, next) \/ Refused(c, next)
    PROVE  /\ row' \in Snapshot
           /\ snap' \in [Calls -> Snapshot]
           /\ writer' \in Calls \cup {NoCall}
<1>1. CASE Stored(c, next)
  <2>1. row.version + 1 \in Nat
    BY DEF TypeOK, Snapshot
  <2>2. row' \in Snapshot
    BY <1>1, <2>1 DEF Stored, Snapshot
  <2> QED
    BY <1>1, <2>2 DEF Stored, TypeOK
<1>2. CASE Yielded(c, next)
  BY <1>2 DEF Yielded, TypeOK
<1>3. CASE Refused(c, next)
  BY <1>3 DEF Refused, TypeOK
<1> QED
  BY <1>1, <1>2, <1>3

\* A report has a printable state.
LEMMA ReportType ==
    ASSUME NEW s \in Snapshot
    PROVE  ReportOf(s) \in Reports
BY DEF ReportOf, Reports, Snapshot

\* The part of TypeOK that the three ways of saving disturb.
SavedTypes ==
    /\ row' \in Snapshot
    /\ snap' \in [Calls -> Snapshot]
    /\ writer' \in Calls \cup {NoCall}
    /\ claim' = claim
    /\ pc' \in [Calls -> Places]
    /\ out' \in [Calls -> Reports]

Handlers == {"throw", "unknown"}

\* A refused save is thrown or handled: the call stays at a known place.
LEMMA FailsTypes ==
    ASSUME TypeOK, NEW c \in Calls, NEW next, NEW handler \in Handlers,
           Fails(c, next, handler)
    PROVE  pc' \in [Calls -> Places] /\ out' \in [Calls -> Reports]
BY DEF Fails, Throw, Goto, TypeOK, Handlers, Places, Sync, Reports

\* A save in mid-run keeps the types.
LEMMA SavesTypes ==
    ASSUME TypeOK, NEW c \in Calls, NEW next \in Snapshot, NEW where \in Places,
           NEW handler \in Handlers, Saves(c, next, where, handler)
    PROVE  SavedTypes
<1>1. row' \in Snapshot /\ snap' \in [Calls -> Snapshot] /\ writer' \in Calls \cup {NoCall}
  BY SaveTypes DEF Saves, Fails
<1>2. pc' \in [Calls -> Places] /\ out' \in [Calls -> Reports]
  BY FailsTypes DEF Saves, Goto, TypeOK
<1> QED
  BY <1>1, <1>2 DEF Saves, SavedTypes

\* So does a save whose result is the report (grounded).
LEMMA SavesAndReportsTypes ==
    ASSUME TypeOK, NEW c \in Calls, NEW next \in Snapshot,
           NEW handler \in Handlers, SavesAndReports(c, next, handler)
    PROVE  SavedTypes
<1>1. row' \in Snapshot /\ snap' \in [Calls -> Snapshot] /\ writer' \in Calls \cup {NoCall}
  BY SaveTypes DEF SavesAndReports, Fails
<1>2. ReportOf(snap'[c]) \in Reports
  BY <1>1, ReportType
<1>3. pc' \in [Calls -> Places] /\ out' \in [Calls -> Reports]
  BY <1>2, FailsTypes DEF SavesAndReports, Goto, TypeOK, Places, Sync
<1> QED
  BY <1>1, <1>3 DEF SavesAndReports, SavedTypes

\* So does a save that returns a report made beforehand.
LEMMA SavesAndReturnsTypes ==
    ASSUME TypeOK, NEW c \in Calls, NEW next \in Snapshot,
           NEW report \in Reports, SavesAndReturns(c, next, report)
    PROVE  SavedTypes
<1>1. row' \in Snapshot /\ snap' \in [Calls -> Snapshot] /\ writer' \in Calls \cup {NoCall}
  BY SaveTypes DEF SavesAndReturns, Fails
<1>2. pc' \in [Calls -> Places] /\ out' \in [Calls -> Reports]
  BY FailsTypes DEF SavesAndReturns, Goto, TypeOK, Places, Sync, Handlers
<1> QED
  BY <1>1, <1>2 DEF SavesAndReturns, SavedTypes

\* store.requestCancellation leaves a well-typed row.
LEMMA CancellationTypes ==
    ASSUME TypeOK, NEW c \in Calls, RequestsCancellation(c)
    PROVE  row' \in Snapshot /\ writer' \in Calls \cup {NoCall}
<1>1. row.version + 1 \in Nat
  BY DEF TypeOK, Snapshot
<1> QED
  BY <1>1, ZenonT(30) DEF RequestsCancellation, TypeOK, Snapshot


\* An issue just accepted, with no call running, is well typed.
THEOREM InitTypes == Init => TypeOK
<1> SUFFICES ASSUME Init PROVE TypeOK
  OBVIOUS
<1>1. \A kind \in Kinds : Accepted(kind) \in Snapshot
  BY IssueAssumption DEF Accepted, Snapshot, States, Terminal, InFlight, NextStage, Verdicts
<1>2. row \in Snapshot /\ snap \in [Calls -> Snapshot]
  BY <1>1 DEF Init
<1>3. ctrlOf \in [Processes -> Calls \cup {NoCall}] /\ ownerOf \in [Processes -> Calls \cup {NoCall}]
  BY DEF Init
<1>4. pc \in [Calls -> Places] /\ res \in [Calls -> Outcomes] /\ out \in [Calls -> Reports]
  BY DEF Init, Places, Rest, Outcomes, Reports
<1> QED
  BY <1>2, <1>3, <1>4, CallAssumption DEF Init, TypeOK

\* The actions that save: their snapshot has the type SavedTypes asks for.
LEMMA SavingTypes ==
    ASSUME TypeOK, NEW c \in Calls,
           \/ Answer(c) \/ Dispatch(c) \/ Terminalize(c) \/ MarkUnknown(c)
           \/ SettleFacing(c) \/ SettleModerator(c) \/ SettleWorker(c)
           \/ SettleVerifier(c) \/ SettleReporter(c)
    PROVE  SavedTypes
<1>s. snap[c] \in Snapshot
  BY DEF TypeOK
<1>p. {"begin", "stages", "closing", "unknown"} \subseteq Places
  BY DEF Places, Sync
<1>h. "throw" \in Handlers /\ "unknown" \in Handlers
  BY DEF Handlers
<1>t. {"completed", "failed", "cancelled", "outcome_unknown", "classified", "dispatch_ready",
       "awaiting_user", "verifying", "reporting", "planning"} \subseteq States
  BY DEF States, Terminal, InFlight, NextStage
<1>f. \A a \in Actors, o \in SUBSET Outcomes : Heard(c, a, o) =>
          \A st \in States : Receipted(c, st) \in Snapshot
  BY <1>s, ReceiptedSnapshot DEF Heard
<1>a. {"facing", "moderator", "worker", "verifier", "reporter"} \subseteq Actors
  BY DEF Actors
<1>1. CASE Answer(c)
  <2>1. snap[c].answers + 1 \in Nat
    BY <1>s DEF Snapshot
  <2>2. [snap[c] EXCEPT !.state = "planning", !.answers = snap[c].answers + 1] \in Snapshot
    BY <1>s, <1>t, <2>1 DEF Snapshot
  <2> QED
    BY <1>1, <1>p, <1>h, <2>2, SavesTypes DEF Answer
<1>2. CASE Dispatch(c)
  <2>1. snap[c].state \in DOMAIN NextStage => NextStage[snap[c].state] \in States
    BY DEF NextStage, States, InFlight
  <2>2. [snap[c] EXCEPT !.state = NextStage[snap[c].state]] \in Snapshot
    BY <1>2, <1>s, <2>1, MovedSnapshot DEF Dispatch, AtStage, DispatchStates
  <2> QED
    BY <1>2, <1>p, <1>h, <2>2, SavesTypes DEF Dispatch
<1>3. CASE Terminalize(c)
  <2>1. [snap[c] EXCEPT !.state = "cancelled"] \in Snapshot
    BY <1>s, <1>t, MovedSnapshot
  <2> QED
    BY <1>3, <1>h, <2>1, SavesAndReportsTypes DEF Terminalize
<1>4. CASE MarkUnknown(c)
  <2>1. [snap[c] EXCEPT !.state = "outcome_unknown"] \in Snapshot
    BY <1>s, <1>t, MovedSnapshot
  <2> QED
    BY <1>4, <1>h, <2>1, SavesAndReportsTypes DEF MarkUnknown
<1>5. CASE SettleFacing(c)
  <2>1. Receipted(c, "completed") \in Snapshot /\ Receipted(c, "classified") \in Snapshot
    BY <1>5, <1>f, <1>a, <1>t DEF SettleFacing, Outcomes
  <2>2. "chat" \in Reports
    BY DEF Reports
  <2> QED
    BY <1>5, <1>p, <1>h, <2>1, <2>2, SavesTypes, SavesAndReturnsTypes DEF SettleFacing
<1>6. CASE SettleModerator(c)
  <2>1. /\ Receipted(c, "dispatch_ready") \in Snapshot /\ Receipted(c, "awaiting_user") \in Snapshot
        /\ Receipted(c, "failed") \in Snapshot
    BY <1>6, <1>f, <1>a, <1>t DEF SettleModerator, Outcomes
  <2> QED
    BY <1>6, <1>p, <1>h, <2>1, SavesTypes, SavesAndReportsTypes DEF SettleModerator
<1>7. CASE SettleWorker(c)
  <2>1. Receipted(c, "verifying") \in Snapshot /\ Receipted(c, "reporting") \in Snapshot
    BY <1>7, <1>f, <1>a, <1>t DEF SettleWorker, Outcomes
  <2>2. /\ [Receipted(c, "verifying") EXCEPT !.worker = "ok"] \in Snapshot
        /\ [Receipted(c, "reporting") EXCEPT !.worker = "failed"] \in Snapshot
    BY <2>1 DEF Snapshot, Verdicts
  <2> QED
    BY <1>7, <1>p, <1>h, <2>2, SavesTypes DEF SettleWorker
<1>8. CASE SettleVerifier(c)
  <2>1. Receipted(c, "reporting") \in Snapshot
    BY <1>8, <1>f, <1>a, <1>t DEF SettleVerifier, Outcomes
  <2>2. [Receipted(c, "reporting") EXCEPT !.verified = IF res[c] = "good" THEN "ok" ELSE "failed"]
            \in Snapshot
    BY <2>1 DEF Snapshot, Verdicts
  <2> QED
    BY <1>8, <1>p, <1>h, <2>2, SavesTypes DEF SettleVerifier
<1>9. CASE SettleReporter(c)
  <2>1. TerminalOf(snap[c]) \in States /\ TerminalOf(snap[c]) \in Reports
    BY DEF TerminalOf, Reports, States, Terminal
  <2>2. Receipted(c, TerminalOf(snap[c])) \in Snapshot
    BY <1>9, <1>f, <1>a, <2>1 DEF SettleReporter, Outcomes
  <2> QED
    BY <1>9, <2>1, <2>2, SavesAndReturnsTypes DEF SettleReporter
<1> QED
  BY <1>1, <1>2, <1>3, <1>4, <1>5, <1>6, <1>7, <1>8, <1>9

\* A failed actor either leaves the issue alone or saves.
LEMMA FailureTypes ==
    ASSUME TypeOK, NEW c \in Calls, ActorFailure(c)
    PROVE  SavedTypes
<1>s. snap[c] \in Snapshot
  BY DEF TypeOK
<1>t. {"failed", "outcome_unknown"} \subseteq States
  BY DEF States, Terminal
<1>1. Receipted(c, "failed") \in Snapshot
  BY <1>s, <1>t, ReceiptedSnapshot DEF ActorFailure, Heard
<1>2. [snap[c] EXCEPT !.state = "outcome_unknown"] \in Snapshot
  BY <1>s, <1>t, MovedSnapshot
<1>3. CASE res[c] = "lost" /\ Goto(c, "unknown") /\ UNCHANGED <<durable, snap, out>>
  BY <1>3 DEF SavedTypes, TypeOK, Goto, Places, Sync, durable
<1>4. CASE SavesAndReports(c, Receipted(c, "failed"), "unknown")
  BY <1>1, <1>4, SavesAndReportsTypes DEF Handlers
<1>5. CASE SavesAndReports(c, [snap[c] EXCEPT !.state = "outcome_unknown"], "unknown")
  BY <1>2, <1>5, SavesAndReportsTypes DEF Handlers
<1> QED
  BY <1>3, <1>4, <1>5 DEF ActorFailure


\* A call that awaits an actor, has just heard from one or gives one up works on
\* an issue in flight that it has not seen cancelled; one that answers, on a pending
\* question; one that ends a cancelled issue, on a cancelled (or settled) one.
Awaiting ==
    \A c \in Calls :
        /\ pc[c] \in {"acting", "heard", "settle", "unknown"} =>
              snap[c].state \in InFlight /\ ~snap[c].cancel
        /\ pc[c] = "answering" => snap[c].state = "awaiting_user"
        /\ pc[c] = "terminalize" => snap[c].cancel \/ snap[c].state \in Terminal

\* Types after a step in which a call does not save.
LEMMA CallTypes ==
    ASSUME TypeOK, Awaiting, NEW c \in Calls,
           \/ Enter(c) \/ Cancel(c) \/ Look(c) \/ Acquire(c) \/ Wake(c) \/ CheckQuestion(c)
           \/ Begin(c) \/ Report(c) \/ SeeCancellation(c) \/ DispatchAborted(c) \/ Invoke(c)
           \/ Hears(c) \/ CancelAfterActor(c) \/ Close(c) \/ Heartbeat(c) \/ CallerAborts(c)
    PROVE  TypeOK'
<1>s. snap[c] \in Snapshot /\ row \in Snapshot /\ ProcOf[c] \in Processes
  BY CallAssumption DEF TypeOK
<1>r. /\ ReportOf(row) \in Reports /\ ReportOf(snap[c]) \in Reports
      /\ {"error", "none"} \subseteq Reports
  BY <1>s, ReportType DEF Reports
<1>p. {"claiming", "done", "acquiring", "waiting", "checking", "begin", "answering", "closing",
       "stages", "terminalize", "unknown", "acting", "heard", "settle"} \subseteq Places
  BY DEF Places, Sync, Rest
<1>1. CASE Enter(c)
  BY <1>1, <1>p DEF Enter, Goto, TypeOK, durable, maps, signals, counts
<1>2. CASE Cancel(c)
  <2>1. row' \in Snapshot /\ writer' \in Calls \cup {NoCall}
    BY <1>2, CancellationTypes DEF Cancel, TypeOK
  <2>2. inner' \in [Calls -> BOOLEAN]
    BY <1>2 DEF Cancel, TypeOK
  <2>3. pc' \in [Calls -> Places] /\ out' \in [Calls -> Reports]
    BY <1>2, <1>p, <1>r DEF Cancel, Goto, TypeOK
  <2>4. method' \in [Calls -> {"resume", "answer", "cancel"}]
    BY <1>2 DEF Cancel, TypeOK
  <2> QED
    BY <1>2, <2>1, <2>2, <2>3, <2>4 DEF Cancel, TypeOK, maps, counts
<1>3. CASE Look(c)
  BY <1>3, <1>p, <1>r DEF Look, Goto, TypeOK, durable, maps, signals, counts
<1>4. CASE Acquire(c)
  <2>0. [owner |-> c, live |-> TRUE] \in [owner : Calls \cup {NoCall}, live : BOOLEAN]
    OBVIOUS
  <2>1. claim' \in [owner : Calls \cup {NoCall}, live : BOOLEAN]
    BY <1>4, <2>0 DEF Acquire, TypeOK
  <2>2. /\ ownerOf' \in [Processes -> Calls \cup {NoCall}]
        /\ ctrlOf' \in [Processes -> Calls \cup {NoCall}]
    BY <1>4, <1>s DEF Acquire, TypeOK, maps
  <2>3. inner' \in [Calls -> BOOLEAN] /\ lost' \in [Calls -> BOOLEAN]
    BY <1>4 DEF Acquire, TypeOK
  <2>4. pc' \in [Calls -> Places]
    BY <1>4, <1>p DEF Acquire, Goto, TypeOK
  <2> QED
    BY <1>4, <2>1, <2>2, <2>3, <2>4 DEF Acquire, TypeOK, counts
<1>5. CASE Wake(c)
  BY <1>5, <1>p, <1>r DEF Wake, Goto, TypeOK, durable, maps, signals, counts
<1>6. CASE CheckQuestion(c)
  BY <1>6, <1>p, <1>r, <1>s DEF CheckQuestion, Throw, Goto, TypeOK, durable, maps, signals, counts
<1>7. CASE Begin(c)
  BY <1>7, <1>p, <1>s DEF Begin, Goto, TypeOK, durable, maps, signals, counts
<1>8. CASE Report(c)
  BY <1>8, <1>p, <1>r DEF Report, Goto, TypeOK, durable, maps, signals, counts
<1>9. CASE SeeCancellation(c)
  <2>1. Unpriced(snap[c].state) \in BOOLEAN
    BY DEF Unpriced
  <2>2. Cancelling(snap[c]) \in Snapshot
    BY <1>s, <2>1 DEF Cancelling, Snapshot
  <2> QED
    BY <1>9, <1>p, <2>2 DEF SeeCancellation, Goto, TypeOK, durable, maps, signals, counts
<1>10. CASE DispatchAborted(c)
  <2>1. CASE CancelRefused
    BY <1>10, <2>1, <1>p, <1>r DEF DispatchAborted, Throw, Goto, TypeOK, maps, signals, counts
  <2>2. CASE ~CancelRefused
    <3>1. row' \in Snapshot /\ writer' \in Calls \cup {NoCall}
      BY <1>10, <2>2, CancellationTypes DEF DispatchAborted
    <3>2. Priced(row') \in Snapshot
      BY <3>1 DEF Priced, Snapshot
    <3> QED
      BY <1>10, <2>2, <3>1, <3>2, <1>p DEF DispatchAborted, Goto, TypeOK, maps, signals, counts
  <2> QED
    BY <2>1, <2>2
<1>11. CASE Invoke(c)
  <2>1. KeyOf(snap[c]) \in Keys
    BY <1>11, <1>s, KeyIsKey DEF Invoke, AtStage
  <2> QED
    BY <1>11, <1>p, <2>1 DEF Invoke, Goto, TypeOK, durable, maps, signals, counts
<1>12. CASE Hears(c)
  <2>1. OutcomesOf(c) \subseteq Outcomes
    <3>1. Actor(c) \in Actors
      BY <1>12 DEF Hears, Awaiting, Actor, ActorOf, InFlight, Actors
    <3> QED
      BY <3>1 DEF OutcomesOf, Outcomes, Actors
  <2> QED
    BY <1>12, <1>p, <2>1 DEF Hears, Goto, TypeOK, durable, maps, signals, counts
<1>13. CASE CancelAfterActor(c)
  <2>1. KeyOf(snap[c]) \in Keys
    BY <1>13, <1>s, KeyIsKey DEF CancelAfterActor, Awaiting
  <2>2. Billed(c) \in Snapshot
    BY <1>s, <2>1 DEF Billed, Snapshot
  <2> QED
    BY <1>13, <1>p, <2>2 DEF CancelAfterActor, Goto, TypeOK, durable, maps, signals, counts
<1>14. CASE Close(c)
  <2>0. [owner |-> NoCall, live |-> FALSE] \in [owner : Calls \cup {NoCall}, live : BOOLEAN]
    OBVIOUS
  <2>1. claim' \in [owner : Calls \cup {NoCall}, live : BOOLEAN]
    BY <1>14, <2>0 DEF Close, TypeOK
  <2>2. /\ ownerOf' \in [Processes -> Calls \cup {NoCall}]
        /\ ctrlOf' \in [Processes -> Calls \cup {NoCall}]
    BY <1>14, <1>s DEF Close, TypeOK
  <2>3. /\ pc' \in [Calls -> Places] /\ out' \in [Calls -> Reports]
        /\ method' \in [Calls -> {"resume", "answer", "cancel"}]
    BY <1>14, <1>p, <1>r DEF Close, Goto, TypeOK
  <2> QED
    BY <1>14, <2>1, <2>2, <2>3 DEF Close, TypeOK, signals, counts
<1>15. CASE Heartbeat(c)
  <2>1. inner' \in [Calls -> BOOLEAN] /\ lost' \in [Calls -> BOOLEAN]
    BY <1>15 DEF Heartbeat, Abandons, TypeOK
  <2>2. ownerOf' \in [Processes -> Calls \cup {NoCall}]
    BY <1>15, <1>s DEF Heartbeat, Abandons, TypeOK
  <2>3. lapses' \in Nat
    BY <1>15, BoundAssumption DEF Heartbeat, TypeOK
  <2> QED
    BY <1>15, <2>1, <2>2, <2>3 DEF Heartbeat, TypeOK, durable
<1>16. CASE CallerAborts(c)
  BY <1>16 DEF CallerAborts, TypeOK, durable, maps, counts
<1> QED
  BY <1>1, <1>2, <1>3, <1>4, <1>5, <1>6, <1>7, <1>8, <1>9, <1>10, <1>11, <1>12, <1>13, <1>14,
     <1>15, <1>16


\* Types after a step of the environment.
LEMMA EnvironmentTypes ==
    ASSUME TypeOK, Lapse \/ \E p \in Processes : Crash(p)
    PROVE  TypeOK'
<1>1. CASE Lapse
  <2>1. lapses' \in Nat
    BY <1>1 DEF Lapse, TypeOK
  <2>2. claim' \in [owner : Calls \cup {NoCall}, live : BOOLEAN]
    BY <1>1 DEF Lapse, TypeOK
  <2> QED
    BY <1>1, <2>1, <2>2 DEF Lapse, TypeOK, maps, signals
<1>2. ASSUME NEW p \in Processes, Crash(p) PROVE TypeOK'
  <2>1. pc' \in [Calls -> Places]
    BY <1>2 DEF Crash, TypeOK, Places, Rest
  <2>2. /\ ownerOf' \in [Processes -> Calls \cup {NoCall}]
        /\ ctrlOf' \in [Processes -> Calls \cup {NoCall}]
        /\ crashes' \in Nat
    BY <1>2 DEF Crash, TypeOK
  <2> QED
    BY <1>2, <2>1, <2>2 DEF Crash, TypeOK, durable, signals
<1> QED
  BY <1>1, <1>2

\* Types after any step.
LEMMA NextTypes ==
    ASSUME TypeOK, Awaiting, [Next]_vars
    PROVE  TypeOK'
<1>1. ASSUME NEW c \in Calls,
             \/ Answer(c) \/ Dispatch(c) \/ Terminalize(c) \/ MarkUnknown(c) \/ ActorFailure(c)
             \/ SettleFacing(c) \/ SettleModerator(c) \/ SettleWorker(c)
             \/ SettleVerifier(c) \/ SettleReporter(c)
      PROVE  TypeOK'
  <2>1. SavedTypes
    BY <1>1, SavingTypes, FailureTypes
  <2>2. UNCHANGED <<maps, method, res, signals, called, counts>>
    BY <1>1 DEF Answer, Dispatch, Terminalize, MarkUnknown, ActorFailure, SettleFacing,
                SettleModerator, SettleWorker, SettleVerifier, SettleReporter
  <2>3. sent' \in [Calls -> SUBSET Actors]
    <3>1. \A st \in InFlight : ActorOf[st] \in Actors
      BY DEF InFlight, ActorOf, Actors
    <3>2. CASE Dispatch(c)
      BY <3>1, <3>2 DEF Dispatch, TypeOK
    <3>3. CASE SettleWorker(c)
      BY <3>3 DEF SettleWorker, TypeOK, Actors
    <3>4. CASE UNCHANGED sent
      BY <3>4 DEF TypeOK
    <3> QED
      BY <1>1, <3>2, <3>3, <3>4 DEF Answer, Terminalize, MarkUnknown, ActorFailure, SettleFacing,
                SettleModerator, SettleVerifier, SettleReporter
  <2> QED
    BY <2>1, <2>2, <2>3 DEF SavedTypes, TypeOK, maps, signals, counts
<1>2. CASE UNCHANGED vars
  BY <1>2 DEF vars, TypeOK, durable, maps, signals, counts
<1> QED
  BY <1>1, <1>2, CallTypes, EnvironmentTypes DEF Next, Proceeds


-----------------------------------------------------------------------------
(* What one step of a call may do to the issue *)

\* two snapshots that differ at most in receipts, verdicts and price
Alike(s, t) ==
    s.version = t.version /\ s.state = t.state /\ s.cancel = t.cancel /\ s.answers = t.answers

\* t is what a call that works on s may save
Continues(s, t) ==
    /\ t.cancel = s.cancel
    /\ \/ s.state \in Terminal                     \* save refuses it
       \/ s.cancel /\ t.state = "cancelled" /\ t.answers = s.answers
       \/ /\ s.state \in InFlight /\ ~s.cancel
          /\ t.state \in Terminal \ {"cancelled"} /\ t.answers = s.answers
       \/ /\ s.state \in DOMAIN NextStage /\ ~s.cancel
          /\ t.state = NextStage[s.state] /\ t.answers = s.answers
       \/ s.state = "awaiting_user" /\ t.state = "planning" /\ t.answers = s.answers + 1
       \/ /\ ~s.cancel /\ t.answers = s.answers
          /\ \/ s.state = "classifying" /\ t.state = "classified"
             \/ s.state = "moderator_running" /\ t.state \in {"dispatch_ready", "awaiting_user"}
             \/ s.state = "worker_running" /\ t.state \in {"verifying", "reporting"}
             \/ s.state = "verifying" /\ t.state = "reporting"

RowStep ==
    \/ row' = row
    \/ /\ row.state \notin AfterDispatch \cup Terminal
       /\ row' = [row EXCEPT !.cancel = TRUE, !.version = row.version + 1]
    \/ /\ row.state \notin Terminal /\ Continues(row, row')
       /\ row'.version = row.version + 1

\* No call works on a snapshot newer than the row, and one that is as new as the
\* row is the row: what the version check of save relies on.
Fresh ==
    \A c \in Calls : /\ snap[c].version <= row.version
                     /\ snap[c].version = row.version => Alike(snap[c], row)

\* The key has been, or may have been, handed to its actor.
Past(s, k) ==
    \/ k[1] = "facing" /\ s.state # "accepted"
    \/ /\ k[1] = "moderator"
       /\ \/ k[2] < s.answers
          \/ /\ k[2] = s.answers
             /\ s.state \in {"moderator_running", "awaiting_user", "dispatch_ready"}
                                \cup AfterDispatch \cup Terminal
    \/ k[1] = "worker" /\ s.state \in AfterDispatch \cup Terminal
    \/ k[1] = "verifier" /\ s.state \in {"verifying", "reporting", "reporter_running"} \cup Terminal
    \/ k[1] = "reporter" /\ s.state \in {"reporter_running"} \cup Terminal

\* The call has dispatched the actor of its stage and has not called it yet.
Token(c) ==
    /\ pc[c] = "stages" /\ ~snap[c].cancel
    /\ snap[c].state \in InFlight /\ ActorOf[snap[c].state] \in sent[c]

Granted(c) ==
    /\ snap'[c] = row' /\ row' # row
    /\ ~Past(row, KeyOf(row')) /\ Past(row', KeyOf(row'))

\* what every step of a call may do
Effect(c) ==
    /\ RowStep
    /\ Alike(snap'[c], snap[c]) \/ Alike(snap'[c], row')
    /\ \A d \in Calls \ {c} : snap'[d] = snap[d] /\ sent'[d] = sent[d] /\ pc'[d] = pc[d]
    /\ pc'[c] \in {"acting", "heard", "settle", "unknown"} =>
          snap'[c].state \in InFlight /\ ~snap'[c].cancel
    /\ pc'[c] = "answering" => snap'[c].state = "awaiting_user"
    /\ pc'[c] = "terminalize" => snap'[c].cancel \/ snap'[c].state \in Terminal
    /\ Token(c)' => Granted(c)
    /\ called' # called => Invoke(c)
    /\ pc[c] = "stages" /\ pc'[c] = "acting" => Invoke(c)

\* A save moves the row as its caller's snapshot may continue, or leaves it alone.
LEMMA SaveStep ==
    ASSUME TypeOK, Fresh, NEW c \in Calls, NEW next \in Snapshot, Continues(snap[c], next),
           Stored(c, next) \/ Yielded(c, next) \/ Refused(c, next)
    PROVE  /\ RowStep
           /\ snap'[c] = snap[c] \/ snap'[c] = row'
           /\ \A d \in Calls \ {c} : snap'[d] = snap[d]
<1>1. CASE Stored(c, next)
  <2>1. Alike(snap[c], row)
    BY <1>1 DEF Stored, Stale, Fresh
  <2>2. Continues(row, next)
    BY <2>1 DEF Continues, Alike
  <2>3. /\ row'.version = row.version + 1
        /\ row'.state = next.state /\ row'.cancel = next.cancel /\ row'.answers = next.answers
    BY <1>1 DEF Stored, Snapshot
  <2>4. Continues(row, row')
    BY <2>2, <2>3 DEF Continues
  <2> QED
    BY <1>1, <2>3, <2>4 DEF Stored, Final, RowStep, TypeOK
<1>2. CASE Yielded(c, next)
  BY <1>2 DEF Yielded, RowStep, TypeOK
<1>3. CASE Refused(c, next)
  BY <1>3 DEF Refused, RowStep, TypeOK
<1> QED
  BY <1>1, <1>2, <1>3

\* store.requestCancellation sets the flag before the worker is dispatched, or
\* changes nothing.
LEMMA CancellationStep ==
    ASSUME TypeOK, NEW c \in Calls, ~CancelRefused, RequestsCancellation(c)
    PROVE  RowStep
BY DEF CancelRefused, RequestsCancellation, CancelNoOp, Final, RowStep

\* The effect of the calls that do not save.
LEMMA CallEffect ==
    ASSUME TypeOK, Fresh, Awaiting, NEW c \in Calls,
           \/ Enter(c) \/ Cancel(c) \/ Look(c) \/ Acquire(c) \/ Wake(c) \/ CheckQuestion(c)
           \/ Begin(c) \/ Report(c) \/ SeeCancellation(c) \/ DispatchAborted(c) \/ Invoke(c)
           \/ Hears(c) \/ CancelAfterActor(c) \/ Close(c) \/ Heartbeat(c) \/ CallerAborts(c)
    PROVE  Effect(c)
<1>f. \A st : Goto(c, st) => pc'[c] = st /\ \A d \in Calls \ {c} : pc'[d] = pc[d]
  BY DEF Goto, TypeOK
<1>1. CASE Enter(c) \/ Look(c) \/ Wake(c) \/ Close(c) \/ Report(c)
  <2>1. row' = row /\ snap' = snap /\ sent' = sent /\ called' = called
    BY <1>1 DEF Enter, Look, Wake, Close, Report, durable
  <2>2. \/ Goto(c, "claiming") \/ Goto(c, "done") \/ Goto(c, "acquiring") \/ Goto(c, "closing")
    BY <1>1 DEF Enter, Look, Wake, Close, Report
  <2>3. pc'[c] \in {"claiming", "done", "acquiring", "closing"}
    BY <2>2, <1>f
  <2>4. \A d \in Calls \ {c} : pc'[d] = pc[d]
    BY <2>2, <1>f
  <2> QED
    BY <2>1, <2>3, <2>4 DEF Effect, RowStep, Alike, Token
<1>2. CASE Heartbeat(c) \/ CallerAborts(c)
  <2>1. row' = row /\ snap' = snap /\ sent' = sent /\ called' = called /\ pc' = pc
    BY <1>2 DEF Heartbeat, CallerAborts, durable
  <2>2. pc[c] # "stages"
    BY <1>2 DEF Heartbeat, CallerAborts, Turn, Quiet, Sync
  <2> QED
    BY <2>1, <2>2 DEF Effect, RowStep, Alike, Token, Awaiting
<1>3. CASE Cancel(c) \/ Acquire(c) \/ CheckQuestion(c)
  <2>1. RowStep
    BY <1>3, CancellationStep DEF Cancel, Acquire, CheckQuestion, RowStep, durable
  <2>2. /\ snap'[c] = snap[c] \/ snap'[c] = row'
        /\ \A d \in Calls \ {c} : snap'[d] = snap[d]
    BY <1>3 DEF Cancel, Acquire, CheckQuestion, TypeOK, durable
  <2>3. /\ pc'[c] \in {"claiming", "done", "waiting", "checking", "begin", "closing", "answering"}
        /\ pc'[c] = "answering" => snap'[c].state = "awaiting_user"
        /\ \A d \in Calls \ {c} : pc'[d] = pc[d]
    BY <1>3, <1>f DEF Cancel, Acquire, CheckQuestion, Throw, TypeOK
  <2>4. sent' = sent /\ called' = called
    BY <1>3 DEF Cancel, Acquire, CheckQuestion
  <2> QED
    BY <2>1, <2>2, <2>3, <2>4 DEF Effect, Alike, Token
<1>4. CASE Begin(c)
  <2>1. /\ row' = row /\ called' = called /\ snap'[c] = row' /\ sent'[c] = {} /\ pc'[c] = "stages"
        /\ pc[c] = "begin"
        /\ \A d \in Calls \ {c} : snap'[d] = snap[d] /\ sent'[d] = sent[d] /\ pc'[d] = pc[d]
    BY <1>4, <1>f DEF Begin, TypeOK, durable
  <2> QED
    BY <2>1 DEF Effect, RowStep, Alike, Token
<1>5. CASE SeeCancellation(c)
  <2>1. /\ row' = row /\ called' = called /\ sent' = sent /\ pc'[c] = "terminalize"
        /\ snap'[c] = Cancelling(snap[c]) /\ snap[c].cancel
        /\ \A d \in Calls \ {c} : snap'[d] = snap[d] /\ pc'[d] = pc[d]
    BY <1>5, <1>f DEF SeeCancellation, TypeOK, durable
  <2>2. \A s \in Snapshot : Alike(Cancelling(s), s)
    BY DEF Cancelling, Alike, Snapshot
  <2>3. Alike(snap'[c], snap[c])
    BY <2>1, <2>2 DEF TypeOK
  <2> QED
    BY <2>1, <2>3 DEF Effect, RowStep, Token, Alike
<1>6. CASE DispatchAborted(c)
  <2>1. RowStep
    BY <1>6, CancellationStep DEF DispatchAborted, RowStep
  <2>2. row' \in Snapshot
    BY <1>6, CancellationTypes DEF DispatchAborted, TypeOK
  <2>3. Alike(snap'[c], snap[c]) \/ Alike(snap'[c], row')
    BY <1>6, <2>2 DEF DispatchAborted, Priced, Alike, TypeOK, Snapshot
  <2>4. /\ called' = called /\ sent' = sent /\ pc'[c] \in {"terminalize", "closing"}
        /\ \A d \in Calls \ {c} : snap'[d] = snap[d] /\ pc'[d] = pc[d]
    BY <1>6, <1>f DEF DispatchAborted, Throw, TypeOK
  <2>5. ASSUME pc'[c] = "terminalize"
        PROVE  snap'[c].cancel \/ snap'[c].state \in Terminal
    <3>1. snap'[c] = Priced(row') /\ RequestsCancellation(c)
      BY <1>6, <1>f, <2>5 DEF DispatchAborted, Throw, TypeOK
    <3>2. row'.cancel \/ row'.state \in Terminal
      BY <3>1 DEF RequestsCancellation, CancelNoOp, Final, TypeOK, Snapshot
    <3> QED
      BY <2>2, <3>1, <3>2 DEF Priced, Snapshot
  <2> QED
    BY <2>1, <2>3, <2>4, <2>5 DEF Effect, Token
<1>7. CASE Invoke(c)
  <2>1. /\ row' = row /\ snap' = snap /\ sent' = sent /\ pc'[c] \in {"acting", "unknown"}
        /\ \A d \in Calls \ {c} : pc'[d] = pc[d]
        /\ snap[c].state \in InFlight /\ ~snap[c].cancel
    BY <1>7, <1>f DEF Invoke, AtStage, durable
  <2> QED
    BY <1>7, <2>1 DEF Effect, RowStep, Alike, Token
<1>8. CASE Hears(c)
  <2>1. /\ row' = row /\ snap' = snap /\ sent' = sent /\ called' = called
        /\ pc'[c] \in {"heard", "settle"} /\ pc[c] = "acting"
        /\ \A d \in Calls \ {c} : pc'[d] = pc[d]
    BY <1>8, <1>f DEF Hears, durable
  <2> QED
    BY <2>1 DEF Effect, RowStep, Alike, Token, Awaiting
<1>9. CASE CancelAfterActor(c)
  <2>1. /\ row' = row /\ sent' = sent /\ called' = called /\ pc[c] = "heard"
        /\ \/ pc'[c] = "settle" /\ snap' = snap
           \/ pc'[c] = "terminalize" /\ snap'[c] = Billed(c) /\ row.cancel
        /\ \A d \in Calls \ {c} : snap'[d] = snap[d] /\ pc'[d] = pc[d]
    BY <1>9, <1>f DEF CancelAfterActor, TypeOK, durable
  <2>2. Alike(Billed(c), row)
    BY DEF Billed, Alike, TypeOK, Snapshot
  <2>3. Alike(snap'[c], snap[c]) \/ Alike(snap'[c], row')
    BY <2>1, <2>2 DEF Alike
  <2>4. pc'[c] = "terminalize" => snap'[c].cancel
    BY <2>1, <2>2 DEF Alike
  <2> QED
    BY <2>1, <2>3, <2>4 DEF Effect, RowStep, Token, Awaiting
<1> QED
  BY <1>1, <1>2, <1>3, <1>4, <1>5, <1>6, <1>7, <1>8, <1>9


\* What saving leaves behind: the row as SaveStep says, and a call that has either
\* left runStages or goes on with the row it stored or the cancelled one it met.
Saved(c, next) ==
    /\ RowStep
    /\ snap'[c] = snap[c] \/ snap'[c] = row'
    /\ \A d \in Calls \ {c} : snap'[d] = snap[d] /\ pc'[d] = pc[d]
    /\ pc'[c] \in {"begin", "stages", "closing", "unknown"}
    /\ pc'[c] = "unknown" => snap' = snap
    /\ pc'[c] = "stages" /\ ~snap'[c].cancel =>
          /\ snap'[c] = row' /\ row'.state = next.state /\ row'.answers = next.answers
          /\ row' # row /\ Alike(snap[c], row)

\* A stored row carries the next state and the answers the call asked for.
LEMMA StoredNext ==
    ASSUME TypeOK, Fresh, NEW c \in Calls, NEW next \in Snapshot,
           Stored(c, next) \/ Yielded(c, next), ~snap'[c].cancel
    PROVE  /\ snap'[c] = row' /\ row'.state = next.state /\ row'.answers = next.answers
           /\ row' # row /\ Alike(snap[c], row)
<1>1. Stored(c, next)
  BY DEF Yielded, Overtaken, TypeOK
<1>2. row'.version = row.version + 1 /\ row'.state = next.state /\ row'.answers = next.answers
  BY <1>1 DEF Stored, Snapshot
<1>3. row' # row
  <2>1. row.version \in Nat
    BY DEF TypeOK, Snapshot
  <2>2. row'.version # row.version
    BY <1>2, <2>1
  <2> QED
    BY <2>2
<1>4. snap'[c] = row'
  BY <1>1 DEF Stored, TypeOK
<1>5. Alike(snap[c], row)
  BY <1>1 DEF Stored, Stale, Fresh
<1> QED
  BY <1>2, <1>3, <1>4, <1>5

\* The three ways of saving are a store.save followed by a move of the call.
LEMMA SavesSaved ==
    ASSUME TypeOK, Fresh, NEW c \in Calls, NEW next \in Snapshot, Continues(snap[c], next),
           NEW where \in {"begin", "stages"}, NEW handler \in Handlers, NEW report,
           \/ Saves(c, next, where, handler) \/ SavesAndReports(c, next, handler)
           \/ SavesAndReturns(c, next, report)
    PROVE  Saved(c, next)
<1>f. \A st : Goto(c, st) => pc'[c] = st /\ \A d \in Calls \ {c} : pc'[d] = pc[d]
  BY DEF Goto, TypeOK
<1>1. CASE \E h \in Handlers : Fails(c, next, h)
  <2>1. PICK h \in Handlers : Fails(c, next, h)
    BY <1>1
  <2>2. \/ Goto(c, "closing") \/ Goto(c, "unknown")
    BY <2>1 DEF Fails, Throw, Handlers
  <2>3. pc'[c] \in {"closing", "unknown"} /\ \A d \in Calls \ {c} : pc'[d] = pc[d]
    BY <2>2, <1>f
  <2> QED
    BY <2>1, <2>3, SaveStep DEF Fails, Refused, Saved
<1>2. CASE Stored(c, next) \/ Yielded(c, next)
  <2>1. \/ Goto(c, "closing") \/ Goto(c, where)
        \/ \E h \in Handlers : Fails(c, next, h)
    BY DEF Saves, SavesAndReports, SavesAndReturns, Handlers
  <2>2. CASE Goto(c, "closing") \/ Goto(c, where)
    <3>1. /\ pc'[c] \in {"begin", "stages", "closing"}
          /\ \A d \in Calls \ {c} : pc'[d] = pc[d]
      BY <2>2, <1>f
    <3> QED
      BY <1>2, <3>1, SaveStep, StoredNext DEF Saved
  <2> QED
    BY <1>1, <2>1, <2>2
<1> QED
  BY <1>1, <1>2 DEF Saves, SavesAndReports, SavesAndReturns, Handlers

\* A save that grants no token has the effect a step may have.
LEMMA SavedEffect ==
    ASSUME NEW c \in Calls, NEW next, Saved(c, next), called' = called,
           \A d \in Calls \ {c} : sent'[d] = sent[d],
           pc'[c] = "unknown" => snap[c].state \in InFlight /\ ~snap[c].cancel,
           Token(c)' => Granted(c)
    PROVE  Effect(c)
BY DEF Saved, Effect, Alike


\* The effect of the calls that save.
LEMMA SavingEffect ==
    ASSUME TypeOK, Fresh, Awaiting, NEW c \in Calls,
           \/ Answer(c) \/ Dispatch(c) \/ Terminalize(c) \/ MarkUnknown(c) \/ ActorFailure(c)
           \/ SettleFacing(c) \/ SettleModerator(c) \/ SettleWorker(c)
           \/ SettleVerifier(c) \/ SettleReporter(c)
    PROVE  Effect(c)
<1>s. snap[c] \in Snapshot
  BY DEF TypeOK
<1>h. "throw" \in Handlers /\ "unknown" \in Handlers
  BY DEF Handlers
<1>t. {"completed", "failed", "cancelled", "outcome_unknown", "classified", "dispatch_ready",
       "awaiting_user", "verifying", "reporting", "planning"} \subseteq States
  BY DEF States, Terminal, InFlight, NextStage
<1>f. \A a \in Actors, o \in SUBSET Outcomes : Heard(c, a, o) =>
          /\ snap[c].state \in InFlight /\ ~snap[c].cancel /\ ActorOf[snap[c].state] = a
          /\ \A st \in States : /\ Receipted(c, st) \in Snapshot
                                /\ Receipted(c, st).state = st
                                /\ Receipted(c, st).answers = snap[c].answers
                                /\ Receipted(c, st).cancel = snap[c].cancel
  <2> TAKE a \in Actors, o \in SUBSET Outcomes
  <2> HAVE Heard(c, a, o)
  <2>1. snap[c].state \in InFlight /\ ~snap[c].cancel /\ ActorOf[snap[c].state] = a
    BY DEF Heard, Awaiting, Actor
  <2>2. \A st \in States : Receipted(c, st) \in Snapshot
    BY <1>s, <2>1, ReceiptedSnapshot
  <2>3. \A st : /\ Receipted(c, st).state = st
                /\ Receipted(c, st).answers = snap[c].answers
                /\ Receipted(c, st).cancel = snap[c].cancel
    BY <1>s DEF Receipted, Snapshot
  <2> QED
    BY <2>1, <2>2, <2>3
<1>a. {"facing", "moderator", "worker", "verifier", "reporter"} \subseteq Actors
  BY DEF Actors
\* a terminal snapshot is reported, never a stage, and grants nothing
<1>r. ASSUME NEW next \in Snapshot, NEW st \in {"failed", "outcome_unknown"},
             snap[c].state \in InFlight, ~snap[c].cancel,
             next.state = st, next.answers = snap[c].answers, next.cancel = snap[c].cancel
      PROVE  Continues(snap[c], next)
  BY <1>r DEF Continues, Terminal
\* only a call that has heard from an actor, or fails to mark one, gives it up
<1>u. pc'[c] = "unknown" => snap[c].state \in InFlight /\ ~snap[c].cancel
  <2>1. \A st : Goto(c, st) => pc'[c] = st
    BY DEF Goto, TypeOK
  <2>2. CASE pc[c] = "settle"
    BY <2>2 DEF Awaiting
  <2>3. CASE Answer(c) \/ Dispatch(c) \/ Terminalize(c) \/ MarkUnknown(c)
    <3>1. \/ Goto(c, "begin") \/ Goto(c, "stages") \/ Goto(c, "closing")
      BY <2>3 DEF Answer, Dispatch, Terminalize, MarkUnknown, Saves, SavesAndReports, Fails, Throw
    <3> QED
      BY <2>1, <3>1
  <2> QED
    BY <2>2, <2>3 DEF ActorFailure, SettleFacing, SettleModerator, SettleWorker, SettleVerifier,
                      SettleReporter, Heard
<1>m. ASSUME NEW st \in States
      PROVE  /\ [snap[c] EXCEPT !.state = st] \in Snapshot
             /\ [snap[c] EXCEPT !.state = st].state = st
             /\ [snap[c] EXCEPT !.state = st].answers = snap[c].answers
             /\ [snap[c] EXCEPT !.state = st].cancel = snap[c].cancel
  BY <1>s DEF Snapshot
<1>n. ASSUME NEW next, Saved(c, next), sent' = sent, called' = called,
             next.state \notin InFlight
      PROVE  Effect(c)
  <2>1. ~Token(c)'
    BY <1>n DEF Saved, Token
  <2> QED
    BY <1>n, <1>u, <2>1, SavedEffect
<1>1. CASE Answer(c)
  <2> DEFINE next == [snap[c] EXCEPT !.state = "planning", !.answers = snap[c].answers + 1]
  <2>1. snap[c].answers + 1 \in Nat
    BY <1>s DEF Snapshot
  <2>2. next \in Snapshot /\ next.state = "planning" /\ next.cancel = snap[c].cancel
        /\ next.answers = snap[c].answers + 1
    BY <1>s, <1>t, <2>1 DEF Snapshot
  <2>3. Continues(snap[c], next)
    BY <1>1, <2>2 DEF Continues, Answer, Awaiting
  <2>4. Saved(c, next)
    BY <1>1, <1>h, <2>2, <2>3, SavesSaved DEF Answer
  <2> QED
    BY <1>1, <2>2, <2>4, <1>n DEF Answer, InFlight
<1>3. CASE Terminalize(c)
  <2> DEFINE next == [snap[c] EXCEPT !.state = "cancelled"]
  <2>0. snap[c].cancel \/ snap[c].state \in Terminal
    BY <1>3 DEF Terminalize, Awaiting
  <2>1. next \in Snapshot /\ next.state = "cancelled" /\ Continues(snap[c], next)
    BY <1>m, <1>t, <2>0 DEF Continues
  <2>2. Saved(c, next)
    BY <1>3, <1>h, <2>1, SavesSaved DEF Terminalize
  <2> QED
    BY <1>3, <2>1, <2>2, <1>n DEF Terminalize, InFlight
<1>4. CASE MarkUnknown(c)
  <2> DEFINE next == [snap[c] EXCEPT !.state = "outcome_unknown"]
  <2>0. snap[c].state \in InFlight /\ ~snap[c].cancel
    BY <1>4 DEF MarkUnknown, Awaiting
  <2>1. next \in Snapshot /\ next.state = "outcome_unknown" /\ Continues(snap[c], next)
    BY <1>m, <1>r, <1>t, <2>0
  <2>2. Saved(c, next)
    BY <1>4, <1>h, <2>1, SavesSaved DEF MarkUnknown
  <2> QED
    BY <1>4, <2>1, <2>2, <1>n DEF MarkUnknown, InFlight
<1>5. CASE ActorFailure(c)
  <2>0. PICK a \in Actors : Heard(c, a, {"rejected", "missing", "lost"})
    BY <1>5 DEF ActorFailure
  <2>i. snap[c].state \in InFlight /\ ~snap[c].cancel
    BY <2>0 DEF Heard, Awaiting
  <2>1. CASE res[c] = "lost" /\ Goto(c, "unknown") /\ UNCHANGED <<durable, snap, out>>
    <3>1. /\ row' = row /\ snap' = snap /\ sent' = sent /\ called' = called /\ pc'[c] = "unknown"
          /\ \A d \in Calls \ {c} : pc'[d] = pc[d]
      BY <1>5, <2>1 DEF ActorFailure, Goto, TypeOK, durable
    <3> QED
      BY <2>i, <3>1 DEF Effect, RowStep, Alike, Token
  <2>2. CASE SavesAndReports(c, Receipted(c, "failed"), "unknown")
    <3>1. Receipted(c, "failed") \in Snapshot /\ Receipted(c, "failed").state = "failed"
          /\ Continues(snap[c], Receipted(c, "failed"))
      BY <2>0, <1>f, <1>r, <1>t DEF Outcomes
    <3>2. Saved(c, Receipted(c, "failed"))
      BY <2>2, <1>h, <3>1, SavesSaved
    <3> QED
      BY <1>5, <3>1, <3>2, <1>n DEF ActorFailure, InFlight
  <2>3. CASE SavesAndReports(c, [snap[c] EXCEPT !.state = "outcome_unknown"], "unknown")
    <3> DEFINE next == [snap[c] EXCEPT !.state = "outcome_unknown"]
    <3>1. next \in Snapshot /\ next.state = "outcome_unknown" /\ Continues(snap[c], next)
      BY <1>m, <1>r, <1>t, <2>i
    <3>2. Saved(c, next)
      BY <2>3, <1>h, <3>1, SavesSaved
    <3> QED
      BY <1>5, <3>1, <3>2, <1>n DEF ActorFailure, InFlight
  <2> QED
    BY <1>5, <2>1, <2>2, <2>3 DEF ActorFailure
<1>6. CASE SettleFacing(c)
  <2>0. Heard(c, "facing", {"good", "chat"})
    BY <1>6 DEF SettleFacing
  <2>1. snap[c].state = "classifying" /\ ~snap[c].cancel
    BY <2>0, <1>f, <1>a DEF Outcomes, InFlight, ActorOf
  <2>2. \A st \in {"completed", "classified"} :
           /\ Receipted(c, st) \in Snapshot /\ Receipted(c, st).state = st
           /\ Continues(snap[c], Receipted(c, st))
    BY <2>0, <2>1, <1>f, <1>a, <1>t DEF Outcomes, Continues, Terminal, InFlight
  <2>3. Saved(c, Receipted(c, "completed")) \/ Saved(c, Receipted(c, "classified"))
    BY <1>6, <1>h, <2>2, SavesSaved DEF SettleFacing
  <2> QED
    BY <1>6, <2>2, <2>3, <1>n DEF SettleFacing, InFlight
<1>7. CASE SettleModerator(c)
  <2>0. Heard(c, "moderator", {"good", "question", "invalid"})
    BY <1>7 DEF SettleModerator
  <2>1. snap[c].state = "moderator_running" /\ ~snap[c].cancel
    BY <2>0, <1>f, <1>a DEF Outcomes, InFlight, ActorOf
  <2>2. \A st \in {"dispatch_ready", "awaiting_user", "failed"} :
           /\ Receipted(c, st) \in Snapshot /\ Receipted(c, st).state = st
           /\ Continues(snap[c], Receipted(c, st))
    BY <2>0, <2>1, <1>f, <1>a, <1>t DEF Outcomes, Continues, Terminal, InFlight
  <2>3. \E st \in {"dispatch_ready", "awaiting_user", "failed"} : Saved(c, Receipted(c, st))
    BY <1>7, <1>h, <2>2, SavesSaved DEF SettleModerator
  <2> QED
    BY <1>7, <2>2, <2>3, <1>n DEF SettleModerator, InFlight
<1>10. CASE SettleVerifier(c)
  <2> DEFINE next == [Receipted(c, "reporting") EXCEPT
                        !.verified = IF res[c] = "good" THEN "ok" ELSE "failed"]
  <2>0. Heard(c, "verifier", {"good", "refused"})
    BY <1>10 DEF SettleVerifier
  <2>1. snap[c].state = "verifying" /\ ~snap[c].cancel
    BY <2>0, <1>f, <1>a DEF Outcomes, InFlight, ActorOf
  <2>2. /\ Receipted(c, "reporting") \in Snapshot /\ Receipted(c, "reporting").state = "reporting"
        /\ Receipted(c, "reporting").answers = snap[c].answers
        /\ Receipted(c, "reporting").cancel = snap[c].cancel
    BY <2>0, <1>f, <1>a, <1>t DEF Outcomes
  <2>3. /\ next \in Snapshot /\ next.state = "reporting"
        /\ next.answers = snap[c].answers /\ next.cancel = snap[c].cancel
    BY <2>2 DEF Snapshot, Verdicts
  <2>4. Continues(snap[c], next)
    BY <2>1, <2>3 DEF Continues
  <2>5. Saved(c, next)
    BY <1>10, <1>h, <2>3, <2>4, SavesSaved DEF SettleVerifier
  <2> QED
    BY <1>10, <2>3, <2>5, <1>n DEF SettleVerifier, InFlight
<1>11. CASE SettleReporter(c)
  <2> DEFINE st == TerminalOf(snap[c])
  <2>0. Heard(c, "reporter", {"good"})
    BY <1>11 DEF SettleReporter
  <2>1. st \in {"completed", "failed"} /\ ~snap[c].cancel /\ snap[c].state \in InFlight
    BY <2>0, <1>f, <1>a DEF Outcomes, TerminalOf
  <2>2. /\ Receipted(c, st) \in Snapshot /\ Receipted(c, st).state = st
        /\ Continues(snap[c], Receipted(c, st))
    BY <2>0, <2>1, <1>f, <1>a, <1>t DEF Outcomes, Continues, Terminal, InFlight
  <2>3. Saved(c, Receipted(c, st))
    BY <1>11, <1>h, <2>2, SavesSaved DEF SettleReporter
  <2> QED
    BY <1>11, <2>1, <2>2, <2>3, <1>n DEF SettleReporter, InFlight
<1>2. CASE Dispatch(c)
  <2> DEFINE st == NextStage[snap[c].state]
  <2> DEFINE next == [snap[c] EXCEPT !.state = st]
  <2>1. /\ snap[c].state \in {"accepted", "classified", "planning", "dispatch_ready", "reporting"}
        /\ ~snap[c].cancel
    BY <1>2 DEF Dispatch, AtStage, DispatchStates, NextStage
  <2>2. st \in States
    BY <2>1 DEF NextStage, States, InFlight
  <2>3. /\ next \in Snapshot /\ next.state = st
        /\ next.answers = snap[c].answers /\ next.cancel = snap[c].cancel
    BY <2>2, <1>m
  <2>4. Continues(snap[c], next)
    BY <2>1, <2>3 DEF Continues, NextStage
  <2>5. Saved(c, next)
    BY <1>2, <1>h, <2>3, <2>4, SavesSaved DEF Dispatch
  <2>6. ASSUME Token(c)' PROVE Granted(c)
    <3>1. /\ snap'[c] = row' /\ row'.state = st /\ row'.answers = row.answers
          /\ row' # row /\ row.state = snap[c].state
      BY <2>3, <2>5, <2>6 DEF Saved, Token, Alike
    <3>2. st \in InFlight
      BY <2>6, <3>1 DEF Token
    <3>3. CASE snap[c].state = "accepted"
      BY <3>1, <3>3 DEF Granted, Past, KeyOf, NextStage, ActorOf
    <3>4. CASE snap[c].state = "planning"
      <4>1. row.answers \in Nat
        BY DEF TypeOK, Snapshot
      <4> QED
        BY <3>1, <3>4, <4>1 DEF Granted, Past, KeyOf, NextStage, ActorOf, AfterDispatch, Terminal
    <3>5. CASE snap[c].state = "dispatch_ready"
      BY <3>1, <3>5 DEF Granted, Past, KeyOf, NextStage, ActorOf, AfterDispatch, Terminal
    <3>6. CASE snap[c].state = "reporting"
      BY <3>1, <3>6 DEF Granted, Past, KeyOf, NextStage, ActorOf, Terminal
    <3> QED
      BY <2>1, <3>2, <3>3, <3>4, <3>5, <3>6 DEF NextStage, InFlight
  <2>7. called' = called /\ \A d \in Calls \ {c} : sent'[d] = sent[d]
    BY <1>2 DEF Dispatch, TypeOK
  <2> QED
    BY <1>u, <2>5, <2>6, <2>7, SavedEffect
<1>8. CASE SettleWorker(c)
  <2>0. Heard(c, "worker", {"good", "refused"})
    BY <1>8 DEF SettleWorker
  <2>1. snap[c].state = "worker_running" /\ ~snap[c].cancel
    BY <2>0, <1>f, <1>a DEF Outcomes, InFlight, ActorOf
  <2>2. \A st \in {"verifying", "reporting"} :
           /\ Receipted(c, st) \in Snapshot /\ Receipted(c, st).state = st
           /\ Receipted(c, st).answers = snap[c].answers
           /\ Receipted(c, st).cancel = snap[c].cancel
    BY <2>0, <1>f, <1>a, <1>t DEF Outcomes
  <2>3. CASE res[c] = "good"
    <3> DEFINE next == [Receipted(c, "verifying") EXCEPT !.worker = "ok"]
    <3>1. /\ next \in Snapshot /\ next.state = "verifying"
          /\ next.answers = snap[c].answers /\ next.cancel = snap[c].cancel
      BY <2>2 DEF Snapshot, Verdicts
    <3>2. Continues(snap[c], next)
      BY <2>1, <3>1 DEF Continues
    <3>3. Saved(c, next)
      BY <1>8, <2>3, <1>h, <3>1, <3>2, SavesSaved DEF SettleWorker
    <3>4. ASSUME Token(c)' PROVE Granted(c)
      <4>1. /\ snap'[c] = row' /\ row'.state = "verifying" /\ row' # row
            /\ row.state = "worker_running"
        BY <2>1, <3>1, <3>3, <3>4 DEF Saved, Token, Alike
      <4> QED
        BY <4>1 DEF Granted, Past, KeyOf, ActorOf, Terminal
    <3>5. called' = called /\ \A d \in Calls \ {c} : sent'[d] = sent[d]
      BY <1>8, <2>3 DEF SettleWorker, TypeOK
    <3> QED
      BY <1>u, <3>3, <3>4, <3>5, SavedEffect
  <2>4. CASE res[c] # "good"
    <3> DEFINE next == [Receipted(c, "reporting") EXCEPT !.worker = "failed"]
    <3>1. /\ next \in Snapshot /\ next.state = "reporting"
          /\ next.answers = snap[c].answers /\ next.cancel = snap[c].cancel
      BY <2>2 DEF Snapshot, Verdicts
    <3>2. Continues(snap[c], next)
      BY <2>1, <3>1 DEF Continues
    <3>3. Saved(c, next)
      BY <1>8, <2>4, <1>h, <3>1, <3>2, SavesSaved DEF SettleWorker
    <3> QED
      BY <1>8, <2>4, <3>1, <3>3, <1>n DEF SettleWorker, InFlight
  <2> QED
    BY <2>3, <2>4
<1> QED
  BY <1>1, <1>2, <1>3, <1>4, <1>5, <1>6, <1>7, <1>8, <1>10, <1>11


-----------------------------------------------------------------------------
(* The inductive invariant *)

\* A cancelled issue was never dispatched to its worker.
CancelledBefore == row.cancel => row.state \notin AfterDispatch \cup {"completed"}

Spent(k) == k \in called \/ \E c \in Calls : Token(c) /\ KeyOf(snap[c]) = k

\* A key that was handed out, or is about to be, belongs to a stage the issue has
\* reached, and to one call only; the worker's only if no cancellation came first.
KeysSpentOnce ==
    /\ \A k \in called : Past(row, k)
    /\ \A c \in Calls : Token(c) => Past(row, KeyOf(snap[c])) /\ KeyOf(snap[c]) \notin called
    /\ \A c, d \in Calls : Token(c) /\ Token(d) /\ c # d => KeyOf(snap[c]) # KeyOf(snap[d])
    /\ Spent(WorkerKey) => ~row.cancel

IInv == TypeOK /\ Awaiting /\ Fresh /\ CancelledBefore /\ KeysSpentOnce

\* The inductive invariant holds when ensure() has accepted the issue.
LEMMA InitIInv == Init => IInv
<1> SUFFICES ASSUME Init PROVE IInv
  OBVIOUS
<1>1. TypeOK
  BY InitTypes
<1>2. Awaiting
  BY DEF Init, Awaiting
<1>3. Fresh
  BY <1>1 DEF Init, Fresh, Alike, TypeOK, Snapshot
<1>4. CancelledBefore
  BY DEF Init, CancelledBefore, Accepted
<1>5. KeysSpentOnce
  BY DEF Init, KeysSpentOnce, Spent, Token
<1> QED
  BY <1>1, <1>2, <1>3, <1>4, <1>5 DEF IInv

\* What a stage has reached stays reached.
LEMMA PastStays ==
    ASSUME TypeOK, TypeOK', RowStep, NEW k \in Keys, Past(row, k)
    PROVE  Past(row', k)
<1>1. row.answers \in Nat /\ row'.answers \in Nat /\ k[2] \in Nat
  BY DEF TypeOK, Snapshot, Keys
<1>2. CASE row' = row
  BY <1>2
<1>3. CASE row' = [row EXCEPT !.cancel = TRUE, !.version = row.version + 1]
  <2>1. row'.state = row.state /\ row'.answers = row.answers
    BY <1>3 DEF TypeOK, Snapshot
  <2> QED
    BY <2>1 DEF Past
<1>4. CASE row.state \notin Terminal /\ Continues(row, row')
  <2>1. CASE row'.state \in Terminal /\ row'.answers = row.answers
    BY <2>1, <1>1 DEF Past, Terminal
  <2>2. CASE /\ row.state \in DOMAIN NextStage
             /\ row'.state = NextStage[row.state] /\ row'.answers = row.answers
    BY <2>2, <1>1, <1>4 DEF Past, Terminal, AfterDispatch, NextStage
  <2>3. CASE /\ row.state = "awaiting_user" /\ row'.state = "planning"
             /\ row'.answers = row.answers + 1
    BY <2>3, <1>1 DEF Past, Terminal, AfterDispatch
  <2>4. CASE /\ row'.answers = row.answers
             /\ \/ row.state = "classifying" /\ row'.state = "classified"
                \/ row.state = "moderator_running" /\ row'.state \in {"dispatch_ready", "awaiting_user"}
                \/ row.state = "worker_running" /\ row'.state \in {"verifying", "reporting"}
                \/ row.state = "verifying" /\ row'.state = "reporting"
    BY <2>4, <1>1 DEF Past, Terminal, AfterDispatch
  <2> QED
    BY <1>4, <2>1, <2>2, <2>3, <2>4 DEF Continues, Terminal
<1> QED
  BY <1>2, <1>3, <1>4 DEF RowStep

\* The version check of save keeps every call's snapshot at most as new as the row.
LEMMA EffectFresh ==
    ASSUME TypeOK, TypeOK', Fresh, NEW c \in Calls, Effect(c)
    PROVE  Fresh'
<1> SUFFICES ASSUME NEW d \in Calls
             PROVE  /\ snap'[d].version <= row'.version
                    /\ snap'[d].version = row'.version => Alike(snap'[d], row')
  BY DEF Fresh
<1>n. /\ row.version \in Nat /\ row'.version \in Nat
      /\ snap[d].version \in Nat /\ snap'[d].version \in Nat
  BY DEF TypeOK, Snapshot
<1>1. row' = row \/ row'.version = row.version + 1
  BY DEF Effect, RowStep, TypeOK, Snapshot
<1>2. Alike(snap'[d], snap[d]) \/ Alike(snap'[d], row')
  BY DEF Effect, Alike
<1> QED
  BY <1>n, <1>1, <1>2 DEF Fresh, Alike

\* A call that awaits an actor works on an issue in flight.
LEMMA EffectAwaiting ==
    ASSUME TypeOK, Awaiting, NEW c \in Calls, Effect(c)
    PROVE  Awaiting'
BY DEF Awaiting, Effect

\* A cancelled issue is not carried past the dispatch of its worker.
LEMMA EffectCancelled ==
    ASSUME TypeOK, TypeOK', CancelledBefore, NEW c \in Calls, Effect(c)
    PROVE  CancelledBefore'
<1>1. CASE row' = row
  BY <1>1 DEF CancelledBefore
<1>2. CASE /\ row.state \notin AfterDispatch \cup Terminal
           /\ row' = [row EXCEPT !.cancel = TRUE, !.version = row.version + 1]
  <2>1. row'.state = row.state
    BY <1>2 DEF TypeOK, Snapshot
  <2> QED
    BY <1>2, <2>1 DEF CancelledBefore, Terminal
<1>3. CASE row.state \notin Terminal /\ Continues(row, row')
  BY <1>3 DEF Continues, CancelledBefore, AfterDispatch, Terminal
<1> QED
  BY <1>1, <1>2, <1>3 DEF Effect, RowStep

\* No step of a call spends an idempotency key that was spent before.
LEMMA EffectKeys ==
    ASSUME TypeOK, TypeOK', KeysSpentOnce, NEW c \in Calls, Effect(c)
    PROVE  KeysSpentOnce'
<1>k. \A d \in Calls : Token(d) => KeyOf(snap[d]) \in Keys
  BY KeyIsKey DEF Token, TypeOK
\* the other calls keep their tokens
<1>1. ASSUME NEW d \in Calls, d # c, Token(d)'
      PROVE  Token(d) /\ snap'[d] = snap[d]
  BY <1>1 DEF Effect, Token
<1>2. ASSUME Token(c)' PROVE Granted(c) /\ called' = called
  BY <1>2 DEF Effect, Token, Invoke, Goto, TypeOK
<1>3. called' = called \/ (Token(c) /\ called' = called \cup {KeyOf(snap[c])})
  BY DEF Effect, Invoke, AtStage, Actor, Token
<1>4. \A k \in called' : Past(row', k)
  <2>1. \A k \in called' : Past(row, k) /\ k \in Keys
    BY <1>3, <1>k DEF KeysSpentOnce, TypeOK
  <2> QED
    BY <2>1, PastStays DEF Effect
<1>5. ASSUME NEW d \in Calls, Token(d)'
      PROVE  Past(row', KeyOf(snap'[d])) /\ KeyOf(snap'[d]) \notin called'
  <2>1. CASE d = c
    BY <1>2, <1>5, <2>1 DEF Granted, KeysSpentOnce
  <2>2. CASE d # c
    <3>1. /\ Token(d) /\ snap'[d] = snap[d] /\ KeyOf(snap[d]) \in Keys
          /\ Past(row, KeyOf(snap[d])) /\ KeyOf(snap[d]) \notin called
          /\ Token(c) => KeyOf(snap[d]) # KeyOf(snap[c])
      BY <1>1, <1>5, <1>k, <2>2 DEF KeysSpentOnce
    <3> QED
      BY <1>3, <3>1, PastStays DEF Effect
  <2> QED
    BY <2>1, <2>2
<1>6. ASSUME NEW d \in Calls, NEW e \in Calls, Token(d)', Token(e)', d # e
      PROVE  KeyOf(snap'[d]) # KeyOf(snap'[e])
  <2>1. ASSUME NEW f \in Calls, f # c, Token(f)', Token(c)'
        PROVE  KeyOf(snap'[f]) # KeyOf(snap'[c])
    BY <1>1, <1>2, <2>1 DEF Granted, KeysSpentOnce
  <2>2. CASE d # c /\ e # c
    BY <1>1, <1>6, <2>2 DEF KeysSpentOnce
  <2> QED
    BY <1>6, <2>1, <2>2
<1>7. Spent(WorkerKey)' => ~row'.cancel
  <2>1. CASE Spent(WorkerKey)
    <3>1. ~row.cancel /\ Past(row, WorkerKey)
      BY <2>1 DEF KeysSpentOnce, Spent
    <3>2. row.state \in AfterDispatch \cup Terminal
      BY <3>1 DEF Past, WorkerKey
    <3> QED
      BY <3>1, <3>2 DEF Effect, RowStep, Continues
  <2>2. CASE Spent(WorkerKey)' /\ ~Spent(WorkerKey)
    <3>1. WorkerKey \notin called'
      BY <1>3, <2>2 DEF Spent
    <3>2. PICK d \in Calls : Token(d)' /\ KeyOf(snap'[d]) = WorkerKey
      BY <2>2, <3>1 DEF Spent
    <3>3. d = c
      BY <1>1, <2>2, <3>2 DEF Spent
    <3> QED
      BY <1>2, <3>2, <3>3 DEF Granted, Token
  <2> QED
    BY <2>1, <2>2
<1> QED
  BY <1>4, <1>5, <1>6, <1>7 DEF KeysSpentOnce

\* Every step of a call has its effect.
LEMMA StepEffect ==
    ASSUME TypeOK, Fresh, Awaiting, NEW c \in Calls,
           \/ Enter(c) \/ Cancel(c) \/ Proceeds(c) \/ Hears(c) \/ Heartbeat(c) \/ CallerAborts(c)
    PROVE  Effect(c)
BY CallEffect, SavingEffect DEF Proceeds

\* The environment only kills calls.
LEMMA EnvironmentEffect ==
    ASSUME TypeOK, \/ Lapse \/ (\E p \in Processes : Crash(p)) \/ UNCHANGED vars
    PROVE  /\ row' = row /\ snap' = snap /\ sent' = sent /\ called' = called
           /\ \A c \in Calls : pc'[c] \in {pc[c], "dead"}
BY DEF Lapse, Crash, TypeOK, vars, durable, maps, signals, counts

\* The invariant is inductive: every step of a call has an Effect, and the
\* environment only kills calls.
LEMMA NextIInv == IInv /\ [Next]_vars => IInv'
<1> SUFFICES ASSUME IInv, [Next]_vars PROVE IInv'
  OBVIOUS
<1>1. TypeOK'
  BY NextTypes DEF IInv
<1>2. ASSUME NEW c \in Calls, Effect(c)
      PROVE  Awaiting' /\ Fresh' /\ CancelledBefore' /\ KeysSpentOnce'
  BY <1>1, <1>2, EffectFresh, EffectAwaiting, EffectCancelled, EffectKeys DEF IInv
<1>3. ASSUME \/ Lapse \/ (\E p \in Processes : Crash(p)) \/ UNCHANGED vars
      PROVE  Awaiting' /\ Fresh' /\ CancelledBefore' /\ KeysSpentOnce'
  <2>1. /\ row' = row /\ snap' = snap /\ sent' = sent /\ called' = called
        /\ \A c \in Calls : pc'[c] \in {pc[c], "dead"}
    BY <1>3, EnvironmentEffect DEF IInv
  <2>2. Awaiting' /\ Fresh' /\ CancelledBefore'
    BY <2>1 DEF IInv, Awaiting, Fresh, CancelledBefore
  <2>3. \A c \in Calls : Token(c)' => Token(c)
    BY <2>1 DEF Token
  <2>4. KeysSpentOnce'
    BY <2>1, <2>3 DEF IInv, KeysSpentOnce, Spent
  <2> QED
    BY <2>2, <2>4
<1>4. \/ \E c \in Calls : Effect(c)
      \/ Lapse \/ (\E p \in Processes : Crash(p)) \/ UNCHANGED vars
  BY StepEffect DEF Next, IInv
<1>5. Awaiting' /\ Fresh' /\ CancelledBefore' /\ KeysSpentOnce'
  BY <1>2, <1>3, <1>4
<1> QED
  BY <1>1, <1>5 DEF IInv

-----------------------------------------------------------------------------
(* Theorems *)

\* Type correctness, for any number of calls, processes, crashes and lapses.
THEOREM TypeCorrect == Spec => []TypeOK
<1>1. IInv => TypeOK
  BY DEF IInv
<1> QED
  BY <1>1, InitIInv, NextIInv, PTL DEF Spec

\* FR-ORCH-010: once a cancellation is recorded the worker is never executed and
\* the issue never completes, whatever stale calls, lost claims and restarts
\* interleave with it.
THEOREM CancelAlwaysPreventsWorker == Spec => []CancelPreventsWorker
<1>1. IInv => CancelPreventsWorker
  BY DEF IInv, CancelledBefore, KeysSpentOnce, Spent, CancelPreventsWorker
<1> QED
  BY <1>1, InitIInv, NextIInv, PTL DEF Spec

\* No actor is called twice under one idempotency key.
THEOREM AlwaysCalledOnce == Spec => CalledOnce
<1>1. IInv /\ [Next]_vars => [\A c \in Calls : CallsAnew(c) => KeyOf(snap[c]) \notin called]_vars
  <2> SUFFICES ASSUME IInv, Next, NEW c \in Calls, CallsAnew(c)
               PROVE  KeyOf(snap[c]) \notin called
    OBVIOUS
  <2>1. \E d \in Calls : Effect(d) /\ pc'[c] = "acting" /\ pc[c] = "stages"
    <3>1. pc'[c] = "acting" /\ pc[c] = "stages"
      BY DEF CallsAnew
    <3>2. CASE Lapse \/ \E p \in Processes : Crash(p)
      BY <3>1, <3>2, EnvironmentEffect DEF IInv
    <3> QED
      BY <3>1, <3>2, StepEffect DEF Next, IInv
  <2>2. Invoke(c)
    BY <2>1 DEF Effect
  <2>3. Token(c)
    BY <2>2 DEF Invoke, AtStage, Goto, TypeOK, IInv, CallsAnew, Token, Actor
  <2> QED
    BY <2>3 DEF IInv, KeysSpentOnce
<1> QED
  BY <1>1, InitIInv, NextIInv, PTL DEF Spec, CalledOnce

\* A terminal snapshot is never rewritten.
THEOREM TerminalStaysFinal == Spec => TerminalIsFinal
<1>1. IInv /\ [Next]_vars => [row.state \in Terminal => row' = row]_vars
  <2> SUFFICES ASSUME IInv, Next, row.state \in Terminal PROVE row' = row
    OBVIOUS
  <2>1. CASE Lapse \/ \E p \in Processes : Crash(p)
    BY <2>1, EnvironmentEffect DEF IInv
  <2>2. ASSUME NEW c \in Calls, Effect(c) PROVE row' = row
    BY <2>2 DEF Effect, RowStep
  <2> QED
    BY <2>1, <2>2, StepEffect DEF Next, IInv
<1> QED
  BY <1>1, InitIInv, NextIInv, PTL DEF Spec, TerminalIsFinal

-----------------------------------------------------------------------------
(* What one step of a call may do, in the detail the reports depend on *)

\* the call waits for an actor's answer, or has it and has not settled it
Awaits(c) == pc[c] \in {"acting", "heard", "settle"}

\* the key of the call's stage is the call's own: recovering the worker is not
Holds(c) == (Token(c) \/ Awaits(c)) /\ Actor(c) # "worker"

\* "next" is what a call may make of its snapshot when it saves: the receipts only
\* grow, and a verdict or a settled issue comes from the actor that gave it
Asks(c, next) ==
    /\ Continues(snap[c], next)
    /\ next.kind = snap[c].kind /\ snap[c].receipts \subseteq next.receipts
    /\ \/ /\ snap[c].state \notin InFlight /\ next.state \notin Terminal
          /\ next.worker = snap[c].worker /\ next.verified = snap[c].verified
       \/ /\ pc[c] = "terminalize" /\ next.state = "cancelled"
          /\ next.receipts = snap[c].receipts /\ next.unpriced = snap[c].unpriced
          /\ next.verified = snap[c].verified
       \/ next.state = "outcome_unknown" /\ next.verified = snap[c].verified
       \/ /\ pc[c] = "settle" /\ snap[c].state \in InFlight
          /\ KeyOf(snap[c]) \in next.receipts
          /\ next.verified # snap[c].verified => Actor(c) = "verifier"
          /\ next.state = "completed" /\ next.kind = "work" =>
                next.worker = "ok" /\ next.verified = "ok"

\* two snapshots of which the second carries at least the receipts of the first
AsVerified(s, t) ==
    s.worker = t.worker /\ s.verified = t.verified /\ t.receipts \subseteq s.receipts

\* the call stored what it asked for, over a row as it had last seen it
Stores(c) ==
    /\ row.state \notin Terminal /\ row'.version = row.version + 1
    /\ Alike(snap[c], row) /\ AsVerified(snap[c], row)
    /\ Asks(c, row')
    /\ Admitted(c) /\ writer' = c
    /\ snap'[c] = row' /\ called' = called
    /\ pc'[c] \in {"begin", "stages", "closing"}
    /\ pc'[c] = "closing" /\ out'[c] \in Terminal => out'[c] = row'.state

\* the call left the row alone, and its snapshot
Stays(c) ==
    /\ row' = row /\ snap'[c] = snap[c] /\ called' = called
    /\ \/ pc'[c] = pc[c] /\ sent'[c] = sent[c] /\ out'[c] = out[c] /\ res'[c] = res[c]
       \/ /\ pc'[c] \notin {"stages", "acting", "heard", "settle", "terminalize"}
          /\ pc'[c] \in {"closing", "done"} /\ out'[c] \in Terminal =>
                \/ out'[c] = row.state
                \/ snap[c].state = out'[c]
                \/ pc[c] = "closing" /\ out'[c] = out[c]

\* the call recorded a cancellation
RowFlagged ==
    /\ row.state \notin AfterDispatch \cup Terminal
    /\ row' = [row EXCEPT !.cancel = TRUE, !.version = row.version + 1]
Flags(c) ==
    /\ RowFlagged /\ snap'[c] = snap[c] /\ called' = called
    /\ pc'[c] = "claiming"

\* the call read the row
Reads(c) ==
    /\ row' = row /\ snap'[c] = row /\ called' = called
    /\ pc'[c] \in {"begin", "stages", "answering", "closing"}
    /\ ~Token(c)'
    /\ pc'[c] = "closing" /\ out'[c] \in Terminal => out'[c] = row.state

\* the call is about to end a cancelled issue
Ends(c) ==
    /\ called' = called /\ pc'[c] = "terminalize"
    /\ \/ row' = row /\ pc[c] = "stages" /\ snap[c].cancel /\ snap'[c] = Cancelling(snap[c])
       \/ row' = row /\ pc[c] = "heard" /\ row.cancel /\ snap'[c] = Billed(c)
       \/ /\ row' = row \/ RowFlagged
          /\ snap[c].state = "dispatch_ready" /\ snap'[c] = Priced(row')
          /\ row'.cancel \/ row'.state \in Terminal

\* the call handed its stage to an actor, or heard from one
Calling(c) ==
    /\ row' = row /\ snap'[c] = snap[c] /\ sent'[c] = sent[c]
    /\ \/ Invoke(c) /\ (pc'[c] = "acting" => Token(c) \/ Actor(c) = "worker")
       \/ /\ pc[c] = "acting" /\ called' = called
          /\ \/ pc'[c] = "heard" /\ Actor(c) \in {"facing", "moderator"}
             \/ pc'[c] = "settle"
          /\ res'[c] = "chat" => snap[c].kind = "chat"
       \/ pc[c] = "heard" /\ pc'[c] = "settle" /\ res'[c] = res[c] /\ called' = called

Others(c) ==
    \A d \in Calls \ {c} : /\ snap'[d] = snap[d] /\ sent'[d] = sent[d] /\ pc'[d] = pc[d]
                           /\ out'[d] = out[d] /\ res'[d] = res[d]

Detail(c) ==
    /\ Others(c)
    /\ Stores(c) \/ Stays(c) \/ Flags(c) \/ Reads(c) \/ Ends(c) \/ Calling(c)

-----------------------------------------------------------------------------
(* The invariant behind ReportIsGrounded *)

\* a snapshot as new as the row has its verdicts and at least its receipts
SnapshotsAgree ==
    \A c \in Calls : /\ snap[c].kind = row.kind
                     /\ snap[c].version = row.version => AsVerified(snap[c], row)

\* a snapshot past the dispatch of the worker, or settled, is not overtaken by a
\* cancellation
AtOrPast == {"dispatch_ready"} \cup AfterDispatch
StagesAdvance ==
    \A c \in Calls :
        /\ snap[c].state \in AtOrPast => row.state \in AtOrPast \cup Terminal
        /\ snap[c].state \in AfterDispatch => row.state \in AfterDispatch \cup Terminal /\ ~row.cancel
        /\ snap[c].state \in Terminal => row.state = snap[c].state

\* the re-read after an actor follows the facing and the moderator only, and only a
\* chat issue is answered by a chat reply
HeardFrom ==
    \A c \in Calls : /\ pc[c] = "heard" => Actor(c) \in {"facing", "moderator"}
                     /\ pc[c] \in {"heard", "settle"} /\ res[c] = "chat" => snap[c].kind = "chat"

\* while a call holds the key of its stage, the issue stays at that stage or settles
HeldStands ==
    \A c \in Calls :
        /\ Holds(c) => row.state \in Terminal \/ (row.state = snap[c].state /\ row.answers = snap[c].answers)
        /\ Awaits(c) /\ Actor(c) # "worker" => KeyOf(snap[c]) \in called

\* a key is held by one call
HeldOnce ==
    \A c, d \in Calls : c # d /\ Holds(c) /\ Holds(d) => KeyOf(snap[c]) # KeyOf(snap[d])

\* a call about to end a stage in flight has its receipt, or knows it has no price
EndsPriced ==
    \A c \in Calls : pc[c] = "terminalize" /\ snap[c].version = row.version /\ row.state \in InFlight =>
        snap[c].unpriced \/ KeyOf(row) \in snap[c].receipts

\* the receipt of the key is on record, or the key is that of the stage in flight, or
\* the row says that its cost is not known
Covered(k) ==
    \/ k \in row.receipts
    \/ row.state \in InFlight /\ k = KeyOf(row)
    \/ row.state = "outcome_unknown"
    \/ row.state \in Terminal /\ row.unpriced
CallsCovered ==
    /\ \A k \in called : Covered(k)
    /\ \A c \in Calls : Token(c) => Covered(KeyOf(snap[c]))

\* a verdict was given by the verifier, and work is completed only by two good ones
VerdictsGiven ==
    /\ row.verified = "ok" => <<"verifier", 0>> \in called
    /\ row.state = "completed" /\ row.kind = "work" => row.worker = "ok" /\ row.verified = "ok"

\* a call that returns, or is about to, with a settled state returns the row's
ReportsStand ==
    \A c \in Calls : pc[c] \in {"closing", "done"} /\ out[c] \in Terminal => row.state = out[c]

Grounded ==
    /\ SnapshotsAgree /\ StagesAdvance /\ HeardFrom /\ HeldStands /\ HeldOnce
    /\ EndsPriced /\ CallsCovered /\ VerdictsGiven /\ ReportsStand

\* The stages of a stored row: it moved on from a state that was not terminal.
LEMMA StoredRow ==
    ASSUME TypeOK, TypeOK', NEW c \in Calls, Effect(c), Stores(c)
    PROVE  /\ Continues(row, row') /\ row'.cancel = row.cancel
           /\ row'.version # row.version /\ row' # row
           /\ row'.kind = snap[c].kind /\ row.receipts \subseteq row'.receipts
<1>1. row.version \in Nat
  BY DEF TypeOK, Snapshot
<1>2. row'.version # row.version /\ row'.version = row.version + 1
  BY <1>1 DEF Stores
<1>3. Continues(row, row')
  BY DEF Stores, Asks, Continues, Alike
<1> QED
  BY <1>2, <1>3 DEF Continues, Stores, Asks, AsVerified

\* What a step of a call does to the row.
LEMMA RowFates ==
    ASSUME TypeOK, NEW c \in Calls, Detail(c)
    PROVE  row' = row \/ RowFlagged \/ Stores(c)
BY DEF Detail, Stays, Flags, Reads, Ends, Calling

\* A recorded cancellation changes the flag and the version, nothing else.
LEMMA FlaggedRow ==
    ASSUME TypeOK, RowFlagged
    PROVE  /\ row'.state = row.state /\ row'.answers = row.answers /\ row'.kind = row.kind
           /\ row'.worker = row.worker /\ row'.verified = row.verified
           /\ row'.receipts = row.receipts /\ row'.unpriced = row.unpriced /\ row'.cancel
           /\ row'.version = row.version + 1 /\ row'.version # row.version
<1>1. row.version \in Nat /\ row.version + 1 # row.version
  BY DEF TypeOK, Snapshot
<1>2. row' = [row EXCEPT !.cancel = TRUE, !.version = row.version + 1] /\ row \in Snapshot
  BY DEF RowFlagged, TypeOK
<1>3. /\ row'.state = row.state /\ row'.answers = row.answers /\ row'.kind = row.kind
      /\ row'.worker = row.worker /\ row'.verified = row.verified
      /\ row'.receipts = row.receipts /\ row'.unpriced = row.unpriced
  BY <1>2 DEF Snapshot
<1>4. row'.cancel /\ row'.version = row.version + 1
  BY <1>2 DEF Snapshot
<1> QED
  BY <1>1, <1>3, <1>4

\* The snapshot of another call is the row only if the row did not move.
LEMMA OthersOlder ==
    ASSUME TypeOK, Fresh, NEW c \in Calls, Detail(c), NEW d \in Calls \ {c},
           snap'[d].version = row'.version
    PROVE  row' = row /\ snap'[d] = snap[d] /\ snap[d].version = row.version
<1>1. snap'[d] = snap[d]
  BY DEF Detail, Others
<1>2. snap[d].version <= row.version /\ row.version \in Nat /\ snap[d].version \in Nat
  BY DEF Fresh, TypeOK, Snapshot
<1>3. RowFlagged \/ Stores(c) => row'.version = row.version + 1
  BY FlaggedRow DEF Stores
<1>4. ~(RowFlagged \/ Stores(c))
  BY <1>1, <1>2, <1>3
<1>5. row' = row
  BY <1>4, RowFates
<1> QED
  BY <1>1, <1>5

\* The three ways of taking the issue to its cancelled end keep verdicts and kind.
LEMMA EndsAgree ==
    ASSUME TypeOK, TypeOK', NEW c \in Calls, Ends(c), snap[c].kind = row.kind, row'.kind = row.kind,
           snap[c].version = row.version => AsVerified(snap[c], row)
    PROVE  /\ snap'[c].kind = row'.kind
           /\ snap'[c].version = row'.version => AsVerified(snap'[c], row')
<1>s. snap[c] \in Snapshot /\ row \in Snapshot /\ row' \in Snapshot
  BY DEF TypeOK
<1>1. CASE row' = row /\ snap'[c] = Cancelling(snap[c])
  <2>1. /\ snap'[c].kind = snap[c].kind /\ snap'[c].version = snap[c].version
        /\ snap'[c].worker = snap[c].worker /\ snap'[c].verified = snap[c].verified
        /\ snap'[c].receipts = snap[c].receipts
    BY <1>s, <1>1 DEF Cancelling, Snapshot
  <2> QED
    BY <1>1, <2>1 DEF AsVerified
<1>2. CASE row' = row /\ snap'[c] = Billed(c)
  <2>1. /\ snap'[c].kind = row.kind /\ snap'[c].worker = row.worker
        /\ snap'[c].verified = row.verified /\ row.receipts \subseteq snap'[c].receipts
    BY <1>s, <1>2 DEF Billed, Snapshot
  <2> QED
    BY <1>2, <2>1 DEF AsVerified
<1>3. CASE snap'[c] = Priced(row')
  <2>1. /\ snap'[c].kind = row'.kind /\ snap'[c].worker = row'.worker
        /\ snap'[c].verified = row'.verified /\ snap'[c].receipts = row'.receipts
    BY <1>s, <1>3 DEF Priced, Snapshot
  <2> QED
    BY <2>1 DEF AsVerified
<1> QED
  BY <1>1, <1>2, <1>3 DEF Ends

\* A snapshot as new as the row keeps its verdicts and receipts.
LEMMA AgreeNext ==
    ASSUME TypeOK, TypeOK', Fresh, SnapshotsAgree, NEW c \in Calls, Effect(c), Detail(c)
    PROVE  SnapshotsAgree'
<1>k. row'.kind = row.kind /\ \A d \in Calls : snap[d].kind = row.kind
  BY RowFates, FlaggedRow, StoredRow DEF SnapshotsAgree
<1> SUFFICES ASSUME NEW d \in Calls
             PROVE  /\ snap'[d].kind = row'.kind
                    /\ snap'[d].version = row'.version => AsVerified(snap'[d], row')
  BY DEF SnapshotsAgree, AsVerified
<1>1. CASE d # c
  <2>1. snap'[d] = snap[d]
    BY <1>1 DEF Detail, Others
  <2> QED
    BY <1>k, <1>1, <2>1, OthersOlder DEF SnapshotsAgree
<1>2. CASE d = c /\ snap'[c] = row'
  BY <1>2 DEF AsVerified
<1>3. CASE d = c /\ row' = row /\ snap'[c] = snap[c]
  BY <1>3 DEF SnapshotsAgree
<1>4. CASE d = c /\ Flags(c)
  <2>1. snap'[c] = snap[c] /\ row'.version = row.version + 1
    BY <1>4, FlaggedRow DEF Flags
  <2>2. snap'[c].version # row'.version
    BY <2>1 DEF Fresh, TypeOK, Snapshot
  <2> QED
    BY <1>k, <1>4, <2>1, <2>2
<1>5. CASE d = c /\ Ends(c)
  BY <1>k, <1>5, EndsAgree DEF SnapshotsAgree
<1> QED
  BY <1>1, <1>2, <1>3, <1>4, <1>5 DEF Detail, Stores, Stays, Reads, Calling

\* The row never leaves the part of the course that follows the dispatch.
LEMMA RowAdvances ==
    ASSUME TypeOK, TypeOK', CancelledBefore, NEW c \in Calls, Effect(c)
    PROVE  /\ row.state \in AtOrPast \cup Terminal => row'.state \in AtOrPast \cup Terminal
           /\ row.state \in AfterDispatch \cup Terminal => row'.state \in AfterDispatch \cup Terminal
           /\ row.state \in AfterDispatch \cup Terminal /\ ~row.cancel => ~row'.cancel
           /\ row.state \in Terminal => row' = row
<1>1. CASE row' = row
  BY <1>1
<1>2. CASE /\ row.state \notin AfterDispatch \cup Terminal
           /\ row' = [row EXCEPT !.cancel = TRUE, !.version = row.version + 1]
  <2>1. row'.state = row.state
    BY <1>2 DEF TypeOK, Snapshot
  <2> QED
    BY <1>2, <2>1
<1>3. CASE row.state \notin Terminal /\ Continues(row, row')
  BY <1>3 DEF Continues, AtOrPast, AfterDispatch, Terminal, InFlight, NextStage
<1> QED
  BY <1>1, <1>2, <1>3 DEF Effect, RowStep

\* A snapshot past the dispatch is not overtaken by a cancellation.
LEMMA StagesNext ==
    ASSUME TypeOK, TypeOK', CancelledBefore, CancelledBefore', StagesAdvance,
           NEW c \in Calls, Effect(c)
    PROVE  StagesAdvance'
<1> SUFFICES ASSUME NEW d \in Calls
             PROVE  /\ snap'[d].state \in AtOrPast => row'.state \in AtOrPast \cup Terminal
                    /\ snap'[d].state \in AfterDispatch =>
                          row'.state \in AfterDispatch \cup Terminal /\ ~row'.cancel
                    /\ snap'[d].state \in Terminal => row'.state = snap'[d].state
  BY DEF StagesAdvance
<1>1. CASE snap'[d].state = row'.state
  BY <1>1 DEF CancelledBefore
<1>2. CASE snap'[d].state = snap[d].state
  BY <1>2, RowAdvances DEF StagesAdvance
<1> QED
  BY <1>1, <1>2 DEF Effect, Alike

\* Keys depend on the state and the answers only.
LEMMA SameKey ==
    ASSUME NEW s, NEW t, s.state = t.state, s.answers = t.answers
    PROVE  KeyOf(s) = KeyOf(t)
BY DEF KeyOf

\* Who heard from whom.
LEMMA HeardNext ==
    ASSUME TypeOK, HeardFrom, SnapshotsAgree, SnapshotsAgree', NEW c \in Calls, Detail(c)
    PROVE  HeardFrom'
<1> SUFFICES ASSUME NEW d \in Calls
             PROVE  /\ pc'[d] = "heard" => Actor(d)' \in {"facing", "moderator"}
                    /\ pc'[d] \in {"heard", "settle"} /\ res'[d] = "chat" => snap'[d].kind = "chat"
  BY DEF HeardFrom
<1>1. CASE d # c
  BY <1>1 DEF Detail, Others, HeardFrom, Actor
<1>2. CASE d = c /\ Stays(c)
  BY <1>2 DEF Stays, HeardFrom, Actor
<1>3. CASE d = c /\ Calling(c)
  <2>1. snap'[c] = snap[c] /\ Actor(c)' = Actor(c)
    BY <1>3 DEF Calling, Actor
  <2>2. CASE Invoke(c)
    <3>1. pc'[c] \in {"acting", "unknown"}
      BY <2>2 DEF Invoke, Goto, TypeOK
    <3> QED
      BY <1>3, <3>1
  <2> QED
    BY <1>3, <2>1, <2>2 DEF Calling, HeardFrom
<1> QED
  BY <1>1, <1>2, <1>3 DEF Detail, Stores, Flags, Reads, Ends

\* A step of a call that keeps or gains the key of a stage.
LEMMA HoldsNext ==
    ASSUME TypeOK, NEW c \in Calls, Effect(c), Detail(c), NEW d \in Calls, Holds(d)'
    PROVE  \/ Holds(d) /\ snap'[d] = snap[d] /\ (d = c => row' = row)
           \/ d = c /\ Token(c)' /\ snap'[c] = row' /\ Granted(c)
<1>1. CASE d # c
  <2>1. snap'[d] = snap[d] /\ sent'[d] = sent[d] /\ pc'[d] = pc[d]
    BY <1>1 DEF Detail, Others
  <2> QED
    BY <1>1, <2>1 DEF Holds, Token, Awaits, Actor
<1>2. CASE d = c /\ Token(c)'
  BY <1>2 DEF Effect, Granted
<1>3. CASE d = c /\ Awaits(c)'
  <2>1. Stays(c) \/ Calling(c)
    BY <1>3 DEF Awaits, Detail, Stores, Flags, Reads, Ends
  <2>2. CASE Stays(c)
    <3>1. pc'[c] = pc[c] /\ sent'[c] = sent[c] /\ snap'[c] = snap[c] /\ row' = row
      BY <1>3, <2>2 DEF Awaits, Stays
    <3> QED
      BY <1>3, <3>1 DEF Holds, Awaits, Actor
  <2>3. CASE Calling(c)
    <3>1. snap'[c] = snap[c] /\ row' = row /\ Actor(c)' = Actor(c)
      BY <2>3 DEF Calling, Actor
    <3>2. CASE Invoke(c)
      <4>1. pc'[c] \in {"acting", "unknown"}
        BY <3>2 DEF Invoke, Goto, TypeOK
      <4>2. pc'[c] = "acting"
        BY <1>3, <4>1 DEF Awaits
      <4>3. pc[c] = "stages"
        BY <3>2 DEF Invoke, AtStage
      <4> QED
        BY <1>3, <2>3, <3>1, <3>2, <4>2, <4>3 DEF Calling, Holds
    <3>3. CASE ~Invoke(c)
      BY <1>3, <2>3, <3>1, <3>3 DEF Calling, Holds, Awaits
    <3> QED
      BY <3>2, <3>3
  <2> QED
    BY <2>1, <2>2, <2>3
<1> QED
  BY <1>1, <1>2, <1>3 DEF Holds

\* The stage whose key a call holds is left by that call only, or for good.
LEMMA HeldStage ==
    ASSUME TypeOK, TypeOK', Fresh, HeldStands, HeldOnce, CancelledBefore, Awaiting,
           NEW c \in Calls, Effect(c), Detail(c),
           NEW d \in Calls, Holds(d), d = c => row' = row
    PROVE  row'.state \in Terminal \/ (row'.state = snap[d].state /\ row'.answers = snap[d].answers)
<1>1. CASE row' = row
  BY <1>1 DEF HeldStands
<1>2. CASE RowFlagged
  BY <1>2, FlaggedRow DEF HeldStands
<1>3. CASE Stores(c) /\ d # c
  <2>1. row.state = snap[d].state /\ row.answers = snap[d].answers
    BY <1>3 DEF HeldStands, Stores
  <2>2. row.state \in InFlight /\ Actor(d) # "worker" /\ row.state # "worker_running"
    BY <2>1 DEF Holds, Token, Awaits, Awaiting, Actor, ActorOf
  <2>3. snap[c].state = row.state /\ snap[c].answers = row.answers /\ Asks(c, row')
    BY <1>3 DEF Stores, Alike
  <2>4. KeyOf(snap[c]) = KeyOf(snap[d]) /\ Actor(c) = Actor(d)
    BY <2>1, <2>3, SameKey DEF Actor
  <2>5. ~(pc[c] = "settle" /\ snap[c].state \in InFlight)
    BY <1>3, <2>2, <2>4 DEF HeldOnce, Holds, Awaits
  <2>6. row'.state \in {"cancelled", "outcome_unknown"}
    BY <2>2, <2>3, <2>5 DEF Asks
  <2> QED
    BY <2>6 DEF Terminal
<1> QED
  BY <1>1, <1>2, <1>3, RowFates, StoredRow

\* The keys that calls hold stay valid.
LEMMA HeldNext ==
    ASSUME TypeOK, TypeOK', Fresh, Awaiting, CancelledBefore, HeldStands, HeldOnce,
           NEW c \in Calls, Effect(c), Detail(c)
    PROVE  HeldStands'
<1>c. called \subseteq called'
  BY DEF Detail, Stores, Stays, Flags, Reads, Ends, Calling, Invoke
<1>1. ASSUME NEW d \in Calls, Holds(d)'
      PROVE  row'.state \in Terminal \/ (row'.state = snap'[d].state /\ row'.answers = snap'[d].answers)
  BY <1>1, HoldsNext, HeldStage
<1>2. ASSUME NEW d \in Calls, Awaits(d)', Actor(d)' # "worker"
      PROVE  KeyOf(snap'[d]) \in called'
  <2>1. Holds(d)' /\ ~Token(d)'
    BY <1>2 DEF Holds, Awaits, Token
  <2>2. Holds(d) /\ snap'[d] = snap[d]
    BY <2>1, HoldsNext
  <2>3. CASE Awaits(d)
    BY <1>c, <1>2, <2>2, <2>3 DEF HeldStands, Holds
  <2>4. CASE ~Awaits(d)
    <3>1. Token(d) /\ pc[d] = "stages" /\ pc'[d] # "stages"
      BY <1>2, <2>2, <2>4 DEF Holds, Token, Awaits
    <3>2. d = c /\ Calling(c)
      BY <1>2, <3>1 DEF Detail, Others, Awaits, Stores, Stays, Flags, Reads, Ends
    <3>3. Invoke(c)
      BY <3>1, <3>2 DEF Calling
    <3>4. Actor(c) \in sent[c]
      BY <3>1, <3>2 DEF Token, Actor
    <3> QED
      BY <2>2, <3>2, <3>3, <3>4 DEF Invoke
  <2> QED
    BY <2>3, <2>4
<1> QED
  BY <1>1, <1>2 DEF HeldStands

\* No step gives a call a key another call holds.
LEMMA HeldOnceNext ==
    ASSUME TypeOK, KeysSpentOnce, HeldStands, HeldOnce, NEW c \in Calls, Effect(c), Detail(c)
    PROVE  HeldOnce'
<1>1. ASSUME NEW d \in Calls, Holds(d) PROVE Past(row, KeyOf(snap[d]))
  <2>1. CASE Token(d)
    BY <2>1 DEF KeysSpentOnce
  <2>2. CASE Awaits(d) /\ Actor(d) # "worker"
    BY <2>2 DEF KeysSpentOnce, HeldStands
  <2> QED
    BY <1>1, <2>1, <2>2 DEF Holds
<1>2. ASSUME NEW d \in Calls, Holds(d)', d # c, Holds(c)'
      PROVE  KeyOf(snap'[d]) # KeyOf(snap'[c])
  <2>1. Holds(d) /\ snap'[d] = snap[d]
    BY <1>2, HoldsNext
  <2>2. CASE Holds(c) /\ snap'[c] = snap[c]
    BY <1>2, <2>1, <2>2 DEF HeldOnce
  <2>3. CASE snap'[c] = row' /\ Granted(c)
    BY <1>1, <2>1, <2>3 DEF Granted
  <2> QED
    BY <1>2, <2>2, <2>3, HoldsNext
<1>3. ASSUME NEW d \in Calls, NEW e \in Calls, Holds(d)', Holds(e)', d # e, d # c, e # c
      PROVE  KeyOf(snap'[d]) # KeyOf(snap'[e])
  <2>1. Holds(d) /\ snap'[d] = snap[d] /\ Holds(e) /\ snap'[e] = snap[e]
    BY <1>3, HoldsNext
  <2> QED
    BY <1>3, <2>1 DEF HeldOnce
<1>4. ASSUME NEW d \in Calls, NEW e \in Calls, Holds(d)', Holds(e)', d # e
      PROVE  KeyOf(snap'[d]) # KeyOf(snap'[e])
  <2>1. CASE d = c
    <3>1. KeyOf(snap'[e]) # KeyOf(snap'[c])
      BY <1>2, <1>4, <2>1
    <3> QED
      BY <2>1, <3>1
  <2>2. CASE e = c
    <3>1. KeyOf(snap'[d]) # KeyOf(snap'[c])
      BY <1>2, <1>4, <2>2
    <3> QED
      BY <2>2, <3>1
  <2> QED
    BY <1>3, <1>4, <2>1, <2>2
<1> QED
  BY <1>4 DEF HeldOnce

\* A call about to end a stage in flight knows what the stage cost.
LEMMA PricedNext ==
    ASSUME TypeOK, TypeOK', Fresh, Awaiting, CancelledBefore, StagesAdvance, HeardFrom, HeldStands,
           EndsPriced, NEW c \in Calls, Effect(c), Detail(c)
    PROVE  EndsPriced'
<1> SUFFICES ASSUME NEW d \in Calls, pc'[d] = "terminalize", snap'[d].version = row'.version,
                    row'.state \in InFlight
             PROVE  snap'[d].unpriced \/ KeyOf(row') \in snap'[d].receipts
  BY DEF EndsPriced, KeyOf
<1>s. snap[c] \in Snapshot /\ row \in Snapshot /\ row' \in Snapshot
  BY DEF TypeOK
<1>1. CASE d # c
  <2>1. row' = row /\ snap'[d] = snap[d] /\ pc'[d] = pc[d]
    BY <1>1, OthersOlder DEF Detail, Others
  <2> QED
    BY <2>1 DEF EndsPriced
<1>2. CASE d = c /\ Stays(c)
  <2>1. row' = row /\ snap'[c] = snap[c] /\ pc'[c] = pc[c]
    BY <1>2 DEF Stays
  <2> QED
    BY <1>2, <2>1 DEF EndsPriced
<1>3. CASE d = c /\ row' = row /\ snap[c].cancel /\ snap'[c] = Cancelling(snap[c])
  <2>1. snap'[c].version = snap[c].version /\ snap'[c].unpriced = Unpriced(snap[c].state)
    BY <1>s, <1>3 DEF Cancelling, Snapshot
  <2>2. snap[c].state = row.state /\ row.cancel
    BY <1>3, <2>1 DEF Fresh, Alike
  <2>3. row.state \in InFlight \ AfterDispatch
    BY <1>3, <2>2 DEF CancelledBefore
  <2> QED
    BY <1>3, <2>1, <2>2, <2>3 DEF Unpriced, InFlight, AfterDispatch
<1>4. CASE d = c /\ row' = row /\ pc[c] = "heard" /\ snap'[c] = Billed(c)
  <2>1. Actor(c) # "worker" /\ Holds(c)
    BY <1>4 DEF HeardFrom, Holds, Awaits
  <2>2. row.state = snap[c].state /\ row.answers = snap[c].answers
    BY <1>4, <2>1 DEF HeldStands, InFlight, Terminal
  <2>3. KeyOf(row) = KeyOf(snap[c])
    BY <2>2, SameKey
  <2>4. snap'[c].unpriced \/ KeyOf(snap[c]) \in snap'[c].receipts
    BY <1>s, <1>4 DEF Billed, Snapshot
  <2> QED
    BY <1>4, <2>3, <2>4
<1>5. CASE /\ d = c /\ (row' = row \/ RowFlagged)
           /\ snap[c].state = "dispatch_ready" /\ snap'[c] = Priced(row')
           /\ row'.cancel \/ row'.state \in Terminal
  <2>1. row'.state = row.state
    BY <1>5, FlaggedRow
  <2>2. row.state \in AtOrPast \cup Terminal
    BY <1>5 DEF StagesAdvance, AtOrPast
  <2>3. row.state \in AfterDispatch
    BY <2>1, <2>2 DEF AtOrPast, InFlight, Terminal, AfterDispatch
  <2>4. row' = row /\ row.cancel
    BY <1>5, <2>3 DEF RowFlagged, AfterDispatch, Terminal
  <2> QED
    BY <2>3, <2>4 DEF CancelledBefore
<1>6. ~(Stores(c) \/ Flags(c) \/ Reads(c) \/ Calling(c)) \/ d # c
  <2>1. Invoke(c) => pc'[c] \in {"acting", "unknown"}
    BY DEF Invoke, Goto, TypeOK
  <2> QED
    BY <2>1 DEF Stores, Flags, Reads, Calling
<1> QED
  BY <1>1, <1>2, <1>3, <1>4, <1>5, <1>6 DEF Detail, Ends

\* A key on record, or of a stage that gives it up, stays accounted for.
LEMMA CoveredStays ==
    ASSUME TypeOK, TypeOK', Fresh, EndsPriced, NEW c \in Calls, Effect(c), Detail(c), NEW k, Covered(k)
    PROVE  Covered(k)'
<1>1. CASE row' = row
  BY <1>1 DEF Covered
<1>2. CASE RowFlagged
  <2>1. KeyOf(row') = KeyOf(row)
    BY <1>2, FlaggedRow, SameKey
  <2> QED
    BY <1>2, <2>1, FlaggedRow DEF Covered, RowFlagged
<1>3. CASE Stores(c)
  <2>1. /\ row.receipts \subseteq row'.receipts /\ row.state \notin Terminal
        /\ Asks(c, row') /\ snap[c].state = row.state /\ snap[c].answers = row.answers
        /\ snap[c].version = row.version
    BY <1>3, StoredRow DEF Stores, Alike
  <2>2. KeyOf(snap[c]) = KeyOf(row)
    BY <2>1, SameKey
  <2>3. k \in row.receipts \/ (row.state \in InFlight /\ k = KeyOf(row))
    BY <2>1 DEF Covered, Terminal
  <2>4. CASE k \in row.receipts
    BY <2>1, <2>4 DEF Covered
  <2>5. CASE row.state \in InFlight /\ k = KeyOf(row)
    <3>1. CASE pc[c] = "terminalize" /\ row'.state = "cancelled"
               /\ row'.receipts = snap[c].receipts /\ row'.unpriced = snap[c].unpriced
      BY <2>1, <2>5, <3>1 DEF EndsPriced, Covered, Terminal
    <3>2. CASE row'.state = "outcome_unknown"
      BY <3>2 DEF Covered
    <3>3. CASE KeyOf(snap[c]) \in row'.receipts
      BY <2>2, <2>5, <3>3 DEF Covered
    <3> QED
      BY <2>1, <2>5, <3>1, <3>2, <3>3 DEF Asks
  <2> QED
    BY <2>3, <2>4, <2>5
<1> QED
  BY <1>1, <1>2, <1>3, RowFates

\* Every key ever handed to an actor, or about to be, is accounted for.
LEMMA CoveredNext ==
    ASSUME TypeOK, TypeOK', Fresh, EndsPriced, CallsCovered, NEW c \in Calls, Effect(c), Detail(c)
    PROVE  CallsCovered'
<1>1. ASSUME NEW k \in called' PROVE Covered(k)'
  <2>1. called' = called \/ (Invoke(c) /\ called' = called \cup {KeyOf(snap[c])} /\ Token(c))
    BY DEF Effect, Invoke, AtStage, Actor, Token
  <2>2. Covered(k)
    BY <1>1, <2>1 DEF CallsCovered
  <2> QED
    BY <2>2, CoveredStays
<1>2. ASSUME NEW d \in Calls, Token(d)' PROVE Covered(KeyOf(snap[d]))'
  <2>1. CASE d = c
    <3>1. snap'[c] = row' /\ row'.state \in InFlight
      BY <1>2, <2>1 DEF Effect, Granted, Token
    <3> QED
      BY <2>1, <3>1 DEF Covered, KeyOf
  <2>2. CASE d # c
    <3>1. Token(d) /\ snap'[d] = snap[d]
      BY <1>2, <2>2 DEF Detail, Others, Token
    <3>2. Covered(KeyOf(snap[d]))
      BY <3>1 DEF CallsCovered
    <3> DEFINE k == KeyOf(snap[d])
    <3>3. KeyOf(snap'[d]) = k
      BY <3>1
    <3>4. \A x : Covered(x) => Covered(x)'
      BY CoveredStays
    <3> QED
      BY <3>2, <3>3, <3>4 DEF Covered, KeyOf
  <2> QED
    BY <2>1, <2>2
<1> QED
  BY <1>1, <1>2 DEF CallsCovered

\* Verdicts come from the verifier, and completed work from two good verdicts.
LEMMA VerdictsNext ==
    ASSUME TypeOK, TypeOK', Fresh, SnapshotsAgree, HeldStands, VerdictsGiven,
           NEW c \in Calls, Effect(c), Detail(c)
    PROVE  VerdictsGiven'
<1>c. called \subseteq called'
  BY DEF Detail, Stores, Stays, Flags, Reads, Ends, Calling, Invoke
<1>1. CASE row' = row
  BY <1>1, <1>c DEF VerdictsGiven
<1>2. CASE RowFlagged
  BY <1>2, <1>c, FlaggedRow DEF VerdictsGiven
<1>3. CASE Stores(c)
  <2>1. /\ Asks(c, row') /\ snap[c].verified = row.verified /\ snap[c].worker = row.worker
        /\ row.state \notin Terminal
    BY <1>3 DEF Stores, AsVerified
  <2>2. row'.verified # row.verified => <<"verifier", 0>> \in called'
    <3> SUFFICES ASSUME row'.verified # row.verified PROVE <<"verifier", 0>> \in called'
      OBVIOUS
    <3>1. pc[c] = "settle" /\ snap[c].state \in InFlight /\ Actor(c) = "verifier"
      BY <2>1 DEF Asks
    <3>2. KeyOf(snap[c]) \in called
      BY <3>1 DEF HeldStands, Awaits
    <3>3. KeyOf(snap[c]) = <<"verifier", 0>>
      BY <3>1 DEF KeyOf, Actor, ActorOf, InFlight
    <3> QED
      BY <1>c, <3>2, <3>3
  <2>3. row'.state = "completed" /\ row'.kind = "work" => row'.worker = "ok" /\ row'.verified = "ok"
    BY <2>1 DEF Asks, Terminal
  <2> QED
    BY <1>c, <2>2, <2>3 DEF VerdictsGiven
<1> QED
  BY <1>1, <1>2, <1>3, RowFates

\* What a call returns as a settled state is the row's, and stays the row's.
LEMMA ReportsNext ==
    ASSUME TypeOK, StagesAdvance, ReportsStand, NEW c \in Calls, Effect(c), Detail(c)
    PROVE  ReportsStand'
<1> SUFFICES ASSUME NEW d \in Calls, pc'[d] \in {"closing", "done"}, out'[d] \in Terminal
             PROVE  row'.state = out'[d]
  BY DEF ReportsStand
<1>t. row.state \in Terminal => row' = row
  BY DEF Effect, RowStep
<1>1. CASE d # c
  BY <1>1, <1>t DEF Detail, Others, ReportsStand
<1>2. CASE d = c /\ Stores(c)
  BY <1>2 DEF Stores
<1>3. CASE d = c /\ Stays(c)
  BY <1>3 DEF Stays, ReportsStand, StagesAdvance
<1>4. CASE d = c /\ Reads(c)
  BY <1>4 DEF Reads
<1>5. ~(Flags(c) \/ Ends(c) \/ Calling(c)) \/ d # c
  <2>1. Invoke(c) => pc'[c] \in {"acting", "unknown"}
    BY DEF Invoke, Goto, TypeOK
  <2> QED
    BY <2>1 DEF Flags, Ends, Calling
<1> QED
  BY <1>1, <1>2, <1>3, <1>4, <1>5 DEF Detail

\* What a call asks for does not depend on the version it writes.
LEMMA AskedRow ==
    ASSUME NEW c \in Calls, NEW next \in Snapshot, Asks(c, next), NEW v \in Nat
    PROVE  Asks(c, [next EXCEPT !.version = v])
<1> DEFINE t == [next EXCEPT !.version = v]
<1>1. /\ t.state = next.state /\ t.cancel = next.cancel /\ t.kind = next.kind
      /\ t.answers = next.answers /\ t.worker = next.worker /\ t.verified = next.verified
      /\ t.receipts = next.receipts /\ t.unpriced = next.unpriced
  BY DEF Snapshot
<1>2. Continues(snap[c], t)
  BY <1>1 DEF Asks, Continues
<1> HIDE DEF t
<1>3. Asks(c, t)
  BY <1>1, <1>2 DEF Asks
<1> QED
  BY <1>3 DEF t

\* A save that is stored stores what its call asked for, over the row it last saw.
LEMMA StoredStores ==
    ASSUME TypeOK, Fresh, SnapshotsAgree, NEW c \in Calls, NEW next \in Snapshot, Asks(c, next),
           Stored(c, next), called' = called, pc'[c] \in {"begin", "stages", "closing"},
           pc'[c] = "closing" /\ out'[c] \in Terminal => out'[c] = row'.state
    PROVE  Stores(c)
<1>1. Alike(snap[c], row) /\ AsVerified(snap[c], row)
  BY DEF Stored, Stale, Fresh, SnapshotsAgree
<1>2. row.version + 1 \in Nat
  BY DEF TypeOK, Snapshot
<1>3. row' = [next EXCEPT !.version = row.version + 1] /\ row'.version = row.version + 1
  BY DEF Stored, Snapshot
<1>4. Asks(c, row')
  <2> DEFINE v == row.version + 1
  <2> HIDE DEF v
  <2>1. v \in Nat
    BY <1>2 DEF v
  <2>2. Asks(c, [next EXCEPT !.version = v])
    BY <2>1, AskedRow
  <2>3. row' = [next EXCEPT !.version = v]
    BY <1>3 DEF v
  <2> DEFINE t == [next EXCEPT !.version = v]
  <2> HIDE DEF t
  <2>4. Asks(c, t) /\ row' = t
    BY <2>2, <2>3 DEF t
  <2> QED
    BY <2>4 DEF Asks, Continues
<1>5. snap'[c] = row' /\ writer' = c /\ Admitted(c) /\ row.state \notin Terminal
  BY DEF Stored, Final, TypeOK
<1> QED
  BY <1>1, <1>3, <1>4, <1>5 DEF Stores

\* The report of a snapshot is a settled state only if it is the snapshot's.
LEMMA ReportOfState ==
    ASSUME NEW s, ReportOf(s) \in Terminal
    PROVE  ReportOf(s) = s.state
BY DEF ReportOf, Terminal

ReturnsTrue(next, report) == report \in Terminal => report = next.state /\ ~row.cancel
SavesSomehow(c, next) ==
    \/ \E where \in {"begin", "stages"}, h \in Handlers : Saves(c, next, where, h)
    \/ \E h \in Handlers : SavesAndReports(c, next, h)
    \/ \E report \in Reports : SavesAndReturns(c, next, report) /\ ReturnsTrue(next, report)

\* The detail of a step that saves.
LEMMA SaveDetail ==
    ASSUME TypeOK, TypeOK', Fresh, SnapshotsAgree, NEW c \in Calls, NEW next \in Snapshot, Asks(c, next),
           SavesSomehow(c, next), called' = called, res' = res,
           \A d \in Calls \ {c} : sent'[d] = sent[d]
    PROVE  Detail(c)
<1>g. \A st : Goto(c, st) => pc'[c] = st /\ \A d \in Calls \ {c} : pc'[d] = pc[d]
  BY DEF Goto, TypeOK
<1>1. CASE \E h \in Handlers : Fails(c, next, h)
  <2>1. PICK h \in Handlers : Fails(c, next, h)
    BY <1>1
  <2>2. row' = row /\ snap' = snap
    BY <2>1 DEF Fails, Refused
  <2>3. \/ pc'[c] = "closing" /\ out'[c] = "error"
        \/ pc'[c] = "unknown"
    BY <2>1, <1>g DEF Fails, Throw, Handlers, TypeOK
  <2>4. \A d \in Calls \ {c} : pc'[d] = pc[d] /\ out'[d] = out[d]
    BY <2>1, <1>g DEF Fails, Throw, Handlers, TypeOK
  <2>5. Stays(c)
    BY <2>2, <2>3 DEF Stays, Terminal
  <2> QED
    BY <2>2, <2>4, <2>5 DEF Detail, Others
<1>2. CASE Stored(c, next) \/ Yielded(c, next)
  <2>1. \/ \E where \in {"begin", "stages"} : Goto(c, where) /\ out' = out
        \/ Goto(c, "closing") /\ out' = [out EXCEPT ![c] = ReportOf(snap'[c])]
        \/ \E report \in Reports : /\ Goto(c, "closing") /\ out' = [out EXCEPT ![c] = report]
                                   /\ ReturnsTrue(next, report)
        \/ \E h \in Handlers : Fails(c, next, h)
    BY DEF SavesSomehow, Saves, SavesAndReports, SavesAndReturns, Handlers
  <2>2. CASE ~ \E h \in Handlers : Fails(c, next, h)
    <3>1. /\ pc'[c] \in {"begin", "stages", "closing"}
          /\ \A d \in Calls \ {c} : pc'[d] = pc[d] /\ out'[d] = out[d]
      BY <2>1, <2>2, <1>g DEF TypeOK
    <3>2. pc'[c] = "closing" => out'[c] = ReportOf(snap'[c]) \/ ReturnsTrue(next, out'[c])
      BY <2>1, <2>2, <1>g DEF TypeOK
    <3>3. \A d \in Calls \ {c} : snap'[d] = snap[d]
      BY <1>2 DEF Stored, Yielded, TypeOK
    <3>4. CASE Stored(c, next)
      <4>1. row'.state = next.state /\ snap'[c] = row'
        BY <3>4 DEF Stored, Snapshot, TypeOK
      <4>2. pc'[c] = "closing" /\ out'[c] \in Terminal => out'[c] = row'.state
        BY <3>2, <4>1, ReportOfState DEF ReturnsTrue
      <4>3. Stores(c)
        BY <3>1, <3>4, <4>2, StoredStores
      <4> QED
        BY <3>1, <3>3, <4>3 DEF Detail, Others
    <3>5. CASE Yielded(c, next)
      <4>1. row' = row /\ snap'[c] = row /\ row.cancel
        BY <3>5 DEF Yielded, Overtaken, TypeOK
      <4>2. pc'[c] = "closing" /\ out'[c] \in Terminal => out'[c] = row.state
        BY <3>2, <4>1, ReportOfState DEF ReturnsTrue
      <4>3. ~Token(c)'
        BY <4>1 DEF Token
      <4>4. Reads(c)
        BY <3>1, <4>1, <4>2, <4>3 DEF Reads
      <4> QED
        BY <3>1, <3>3, <4>4 DEF Detail, Others
    <3> QED
      BY <1>2, <3>4, <3>5
  <2> QED
    BY <1>1, <2>2
<1> QED
  BY <1>1, <1>2 DEF SavesSomehow, Saves, SavesAndReports, SavesAndReturns, Handlers

\* A step that saves, or gives up an actor whose receipt is lost, leaves the other
\* calls, the history of calls and what was heard alone.
LEMMA SavingFrame ==
    ASSUME TypeOK, NEW c \in Calls,
           \/ Answer(c) \/ Dispatch(c) \/ Terminalize(c) \/ MarkUnknown(c) \/ ActorFailure(c)
           \/ SettleFacing(c) \/ SettleModerator(c) \/ SettleWorker(c)
           \/ SettleVerifier(c) \/ SettleReporter(c)
    PROVE  called' = called /\ res' = res /\ \A d \in Calls \ {c} : sent'[d] = sent[d]
BY DEF Answer, Dispatch, Terminalize, MarkUnknown, ActorFailure, SettleFacing, SettleModerator,
       SettleWorker, SettleVerifier, SettleReporter, TypeOK

\* the verdicts a call adds to a snapshot
Verdicted(s, w, v) == [s EXCEPT !.worker = w, !.verified = v]

\* What a call that has heard from its actor may save: its receipt, and the
\* verdict only if the actor is the verifier.
LEMMA SettledAsks ==
    ASSUME TypeOK, Awaiting, NEW c \in Calls, NEW a \in Actors, NEW o \in SUBSET Outcomes,
           Heard(c, a, o), NEW st \in States, NEW w \in Verdicts, NEW v \in Verdicts,
           v # snap[c].verified => a = "verifier",
           st = "completed" /\ snap[c].kind = "work" => w = "ok" /\ v = "ok",
           \/ st \in {"completed", "failed"}
           \/ a = "facing" /\ st = "classified"
           \/ a = "moderator" /\ st \in {"dispatch_ready", "awaiting_user"}
           \/ a = "worker" /\ st \in {"verifying", "reporting"}
           \/ a = "verifier" /\ st = "reporting"
    PROVE  LET next == Verdicted(Receipted(c, st), w, v) IN
           next \in Snapshot /\ Asks(c, next) /\ next.state = st
<1> DEFINE next == Verdicted(Receipted(c, st), w, v)
<1>s. snap[c] \in Snapshot
  BY DEF TypeOK
<1>1. snap[c].state \in InFlight /\ ~snap[c].cancel /\ Actor(c) = a /\ pc[c] = "settle"
  BY DEF Heard, Awaiting
<1>2. Receipted(c, st) \in Snapshot
  BY <1>s, <1>1, ReceiptedSnapshot
<1>3. /\ Receipted(c, st).state = st /\ Receipted(c, st).answers = snap[c].answers
      /\ Receipted(c, st).cancel = snap[c].cancel /\ Receipted(c, st).kind = snap[c].kind
      /\ Receipted(c, st).receipts = snap[c].receipts \cup {KeyOf(snap[c])}
  BY <1>s DEF Receipted, Snapshot
<1> DEFINE r == Receipted(c, st)
<1> HIDE DEF r
<1>4. /\ next \in Snapshot /\ next.worker = w /\ next.verified = v
      /\ next.state = r.state /\ next.answers = r.answers /\ next.cancel = r.cancel
      /\ next.kind = r.kind /\ next.receipts = r.receipts
  <2>1. r \in Snapshot /\ next = [r EXCEPT !.worker = w, !.verified = v]
    BY <1>2 DEF r, Verdicted
  <2> QED
    BY <2>1 DEF Snapshot
<1> HIDE DEF next
<1>5. /\ next.state = st /\ next.answers = snap[c].answers /\ next.cancel = snap[c].cancel
      /\ next.kind = snap[c].kind /\ next.receipts = snap[c].receipts \cup {KeyOf(snap[c])}
  BY <1>3, <1>4 DEF r
<1>6. Continues(snap[c], next)
  BY <1>1, <1>5 DEF Continues, Terminal, Actor, ActorOf, InFlight
<1>7. next \in Snapshot /\ Asks(c, next) /\ next.state = st
  BY <1>1, <1>4, <1>5, <1>6 DEF Asks
<1> QED
  BY <1>7 DEF next

\* A receipt changes no verdict.
LEMMA ReceiptedKeeps ==
    ASSUME TypeOK, NEW c \in Calls, snap[c].state \in InFlight, NEW st \in States
    PROVE  /\ Receipted(c, st) = Verdicted(Receipted(c, st), snap[c].worker, snap[c].verified)
           /\ \A w \in Verdicts : [Receipted(c, st) EXCEPT !.worker = w] =
                                    Verdicted(Receipted(c, st), w, snap[c].verified)
           /\ \A v \in Verdicts : [Receipted(c, st) EXCEPT !.verified = v] =
                                    Verdicted(Receipted(c, st), snap[c].worker, v)
<1> DEFINE r == Receipted(c, st)
<1>1. snap[c] \in Snapshot /\ r \in Snapshot
  BY ReceiptedSnapshot DEF TypeOK
<1>2. r.worker = snap[c].worker /\ r.verified = snap[c].verified
  BY <1>1 DEF Receipted, Snapshot
<1> HIDE DEF r
<1>3. /\ r = [r EXCEPT !.worker = snap[c].worker, !.verified = snap[c].verified]
      /\ \A w \in Verdicts : [r EXCEPT !.worker = w] = [r EXCEPT !.worker = w, !.verified = snap[c].verified]
      /\ \A v \in Verdicts : [r EXCEPT !.verified = v] = [r EXCEPT !.worker = snap[c].worker, !.verified = v]
  BY <1>1, <1>2 DEF Snapshot
<1> QED
  BY <1>3 DEF r, Verdicted

Asked(c) == \E next \in Snapshot : Asks(c, next) /\ SavesSomehow(c, next)

\* The actions that save before or after an actor ask for what their stage allows.
LEMMA StagesAsk ==
    ASSUME TypeOK, Awaiting, NEW c \in Calls,
           Answer(c) \/ Dispatch(c) \/ Terminalize(c) \/ MarkUnknown(c)
    PROVE  Asked(c)
<1>s. snap[c] \in Snapshot
  BY DEF TypeOK
<1>h. "throw" \in Handlers /\ "unknown" \in Handlers
  BY DEF Handlers
<1>m. ASSUME NEW st \in States, NEW next, next = [snap[c] EXCEPT !.state = st]
      PROVE  /\ next \in Snapshot /\ next.state = st /\ next.kind = snap[c].kind
             /\ next.answers = snap[c].answers /\ next.cancel = snap[c].cancel
             /\ next.worker = snap[c].worker /\ next.verified = snap[c].verified
             /\ next.receipts = snap[c].receipts /\ next.unpriced = snap[c].unpriced
  BY <1>s, <1>m DEF Snapshot
<1>1. CASE Answer(c)
  <2> DEFINE next == [snap[c] EXCEPT !.state = "planning", !.answers = snap[c].answers + 1]
  <2>1. snap[c].answers + 1 \in Nat /\ "planning" \in States
    BY <1>s DEF Snapshot, States, NextStage
  <2>2. /\ next \in Snapshot /\ next.state = "planning" /\ next.kind = snap[c].kind
        /\ next.answers = snap[c].answers + 1 /\ next.cancel = snap[c].cancel
        /\ next.worker = snap[c].worker /\ next.verified = snap[c].verified
        /\ next.receipts = snap[c].receipts
    BY <1>s, <2>1 DEF Snapshot
  <2>3. snap[c].state = "awaiting_user"
    BY <1>1 DEF Answer, Awaiting
  <2>4. Saves(c, next, "begin", "throw")
    BY <1>1 DEF Answer
  <2> HIDE DEF next
  <2>5. Asks(c, next)
    BY <2>2, <2>3 DEF Asks, Continues, InFlight, Terminal
  <2> QED
    BY <1>h, <2>2, <2>4, <2>5 DEF Asked, SavesSomehow
<1>2. CASE Dispatch(c)
  <2> DEFINE st == NextStage[snap[c].state]
  <2> DEFINE next == [snap[c] EXCEPT !.state = st]
  <2>1. snap[c].state \in DOMAIN NextStage /\ ~snap[c].cancel
    BY <1>2 DEF Dispatch, AtStage, DispatchStates
  <2>2. st \in States /\ st \notin Terminal /\ snap[c].state \notin InFlight
    BY <2>1 DEF NextStage, States, InFlight, Terminal
  <2>3. Saves(c, next, "stages", "throw")
    BY <1>2 DEF Dispatch
  <2> HIDE DEF st
  <2>4. /\ next \in Snapshot /\ next.state = st /\ next.kind = snap[c].kind
        /\ next.answers = snap[c].answers /\ next.cancel = snap[c].cancel
        /\ next.worker = snap[c].worker /\ next.verified = snap[c].verified
        /\ next.receipts = snap[c].receipts
    BY <1>m, <2>2
  <2> HIDE DEF next
  <2>5. Asks(c, next)
    BY <2>1, <2>2, <2>4 DEF Asks, Continues, st
  <2> QED
    BY <1>h, <2>3, <2>4, <2>5 DEF Asked, SavesSomehow
<1>3. CASE Terminalize(c)
  <2> DEFINE next == [snap[c] EXCEPT !.state = "cancelled"]
  <2>1. pc[c] = "terminalize" /\ (snap[c].cancel \/ snap[c].state \in Terminal)
    BY <1>3 DEF Terminalize, Awaiting
  <2>2. SavesAndReports(c, next, "throw")
    BY <1>3 DEF Terminalize
  <2>3. "cancelled" \in States
    BY DEF States, Terminal
  <2>4. /\ next \in Snapshot /\ next.state = "cancelled" /\ next.kind = snap[c].kind
        /\ next.answers = snap[c].answers /\ next.cancel = snap[c].cancel
        /\ next.worker = snap[c].worker /\ next.verified = snap[c].verified
        /\ next.receipts = snap[c].receipts /\ next.unpriced = snap[c].unpriced
    BY <1>m, <2>3
  <2> HIDE DEF next
  <2>5. Asks(c, next)
    BY <2>1, <2>4 DEF Asks, Continues
  <2> QED
    BY <1>h, <2>2, <2>4, <2>5 DEF Asked, SavesSomehow
<1>4. CASE MarkUnknown(c)
  <2> DEFINE next == [snap[c] EXCEPT !.state = "outcome_unknown"]
  <2>1. snap[c].state \in InFlight /\ ~snap[c].cancel
    BY <1>4 DEF MarkUnknown, Awaiting
  <2>2. SavesAndReports(c, next, "throw")
    BY <1>4 DEF MarkUnknown
  <2>3. "outcome_unknown" \in States
    BY DEF States, Terminal
  <2>4. /\ next \in Snapshot /\ next.state = "outcome_unknown" /\ next.kind = snap[c].kind
        /\ next.answers = snap[c].answers /\ next.cancel = snap[c].cancel
        /\ next.worker = snap[c].worker /\ next.verified = snap[c].verified
        /\ next.receipts = snap[c].receipts
    BY <1>m, <2>3
  <2> HIDE DEF next
  <2>5. Asks(c, next)
    BY <2>1, <2>4 DEF Asks, Continues, Terminal
  <2> QED
    BY <1>h, <2>2, <2>4, <2>5 DEF Asked, SavesSomehow
<1> QED
  BY <1>1, <1>2, <1>3, <1>4

\* So does the settling of an actor, unless its receipt is lost.
LEMMA SettlesAsk ==
    ASSUME TypeOK, Awaiting, HeardFrom, StagesAdvance, NEW c \in Calls,
           \/ ActorFailure(c) /\ res[c] # "lost"
           \/ SettleFacing(c) \/ SettleModerator(c) \/ SettleWorker(c)
           \/ SettleVerifier(c) \/ SettleReporter(c)
    PROVE  Asked(c)
<1>s. snap[c] \in Snapshot /\ snap[c].worker \in Verdicts /\ snap[c].verified \in Verdicts
      /\ snap[c].kind \in {"chat", "work"}
  BY DEF TypeOK, Snapshot
<1>h. "throw" \in Handlers /\ "unknown" \in Handlers
  BY DEF Handlers
<1>t. {"completed", "failed", "outcome_unknown", "classified", "dispatch_ready",
       "awaiting_user", "verifying", "reporting"} \subseteq States
  BY DEF States, Terminal, InFlight, NextStage
<1>a. Actors = {"facing", "moderator", "worker", "verifier", "reporter"} /\ {"ok", "failed"} \subseteq Verdicts
  BY DEF Actors, Verdicts
\* a save with the verdicts unchanged
<1>k. ASSUME NEW a \in Actors, NEW o \in SUBSET Outcomes, Heard(c, a, o), NEW st \in States,
             st = "completed" /\ snap[c].kind = "work" => snap[c].worker = "ok" /\ snap[c].verified = "ok",
             \/ st \in {"completed", "failed"}
             \/ a = "facing" /\ st = "classified"
             \/ a = "moderator" /\ st \in {"dispatch_ready", "awaiting_user"}
      PROVE  Receipted(c, st) \in Snapshot /\ Asks(c, Receipted(c, st)) /\ Receipted(c, st).state = st
  <2>1. snap[c].state \in InFlight
    BY <1>k DEF Heard
  <2>2. Receipted(c, st) = Verdicted(Receipted(c, st), snap[c].worker, snap[c].verified)
    BY <2>1, ReceiptedKeeps
  <2>3. LET next == Verdicted(Receipted(c, st), snap[c].worker, snap[c].verified) IN
        next \in Snapshot /\ Asks(c, next) /\ next.state = st
    BY <1>k, <1>s, SettledAsks
  <2> QED
    BY <2>2, <2>3
<1>1. CASE ActorFailure(c) /\ res[c] # "lost"
  <2>0. PICK a \in Actors : Heard(c, a, {"rejected", "missing", "lost"})
    BY <1>1 DEF ActorFailure
  <2>1. Receipted(c, "failed") \in Snapshot /\ Asks(c, Receipted(c, "failed"))
    BY <2>0, <1>k, <1>t DEF Outcomes
  <2> DEFINE u == [snap[c] EXCEPT !.state = "outcome_unknown"]
  <2>2. /\ u \in Snapshot /\ u.state = "outcome_unknown" /\ u.kind = snap[c].kind
        /\ u.answers = snap[c].answers /\ u.cancel = snap[c].cancel
        /\ u.worker = snap[c].worker /\ u.verified = snap[c].verified
        /\ u.receipts = snap[c].receipts
    BY <1>s, <1>t DEF Snapshot
  <2>3. snap[c].state \in InFlight /\ ~snap[c].cancel
    BY <2>0 DEF Heard, Awaiting
  <2>4. SavesAndReports(c, Receipted(c, "failed"), "unknown") \/ SavesAndReports(c, u, "unknown")
    BY <1>1 DEF ActorFailure
  <2> HIDE DEF u
  <2>5. Asks(c, u)
    BY <2>2, <2>3 DEF Asks, Continues, Terminal
  <2> QED
    BY <1>h, <2>1, <2>2, <2>4, <2>5 DEF Asked, SavesSomehow
<1>2. CASE SettleFacing(c)
  <2>0. Heard(c, "facing", {"good", "chat"}) /\ "facing" \in Actors
    BY <1>2, <1>a DEF SettleFacing
  <2>1. CASE res[c] = "chat"
    <3>1. snap[c].kind = "chat"
      BY <2>0, <2>1 DEF Heard, HeardFrom
    <3>2. Receipted(c, "completed") \in Snapshot /\ Asks(c, Receipted(c, "completed"))
      BY <2>0, <3>1, <1>k, <1>t DEF Outcomes
    <3>3. SavesAndReturns(c, Receipted(c, "completed"), "chat")
      BY <1>2, <2>1 DEF SettleFacing
    <3>4. "chat" \in Reports /\ ReturnsTrue(Receipted(c, "completed"), "chat")
      BY DEF Reports, ReturnsTrue, Terminal
    <3> QED
      BY <3>2, <3>3, <3>4 DEF Asked, SavesSomehow
  <2>2. CASE res[c] # "chat"
    <3>1. Receipted(c, "classified") \in Snapshot /\ Asks(c, Receipted(c, "classified"))
      BY <2>0, <1>k, <1>t DEF Outcomes
    <3>2. Saves(c, Receipted(c, "classified"), "stages", "throw")
      BY <1>2, <2>2 DEF SettleFacing
    <3> QED
      BY <1>h, <3>1, <3>2 DEF Asked, SavesSomehow
  <2> QED
    BY <2>1, <2>2
<1>3. CASE SettleModerator(c)
  <2>0. Heard(c, "moderator", {"good", "question", "invalid"}) /\ "moderator" \in Actors
    BY <1>3, <1>a DEF SettleModerator
  <2>1. ASSUME NEW st \in {"dispatch_ready", "awaiting_user", "failed"}
        PROVE  Receipted(c, st) \in Snapshot /\ Asks(c, Receipted(c, st))
    BY <2>0, <1>k, <1>t DEF Outcomes
  <2>2. \/ Saves(c, Receipted(c, "dispatch_ready"), "stages", "throw")
        \/ Saves(c, Receipted(c, "awaiting_user"), "stages", "throw")
        \/ SavesAndReports(c, Receipted(c, "failed"), "throw")
    BY <1>3 DEF SettleModerator
  <2> QED
    BY <1>h, <2>1, <2>2 DEF Asked, SavesSomehow
<1>4. CASE SettleWorker(c)
  <2>0. Heard(c, "worker", {"good", "refused"}) /\ "worker" \in Actors /\ snap[c].state \in InFlight
    BY <1>4, <1>a DEF SettleWorker, Heard
  <2>1. ASSUME NEW st \in {"verifying", "reporting"}, NEW w \in {"ok", "failed"}
        PROVE  [Receipted(c, st) EXCEPT !.worker = w] \in Snapshot
               /\ Asks(c, [Receipted(c, st) EXCEPT !.worker = w])
    <3>1. st \in States /\ w \in Verdicts
      BY <1>t, <1>a
    <3>2. [Receipted(c, st) EXCEPT !.worker = w] = Verdicted(Receipted(c, st), w, snap[c].verified)
      BY <2>0, <3>1, ReceiptedKeeps
    <3>3. LET next == Verdicted(Receipted(c, st), w, snap[c].verified) IN
          next \in Snapshot /\ Asks(c, next)
      BY <2>0, <1>s, <3>1, SettledAsks DEF Outcomes
    <3> QED
      BY <3>2, <3>3
  <2>2. \/ Saves(c, [Receipted(c, "verifying") EXCEPT !.worker = "ok"], "stages", "unknown")
        \/ Saves(c, [Receipted(c, "reporting") EXCEPT !.worker = "failed"], "stages", "unknown")
    BY <1>4 DEF SettleWorker
  <2> QED
    BY <1>h, <2>1, <2>2 DEF Asked, SavesSomehow
<1>5. CASE SettleVerifier(c)
  <2> DEFINE v == IF res[c] = "good" THEN "ok" ELSE "failed"
  <2>0. Heard(c, "verifier", {"good", "refused"}) /\ "verifier" \in Actors /\ snap[c].state \in InFlight
    BY <1>5, <1>a DEF SettleVerifier, Heard
  <2>1. v \in Verdicts /\ "reporting" \in States
    BY <1>t, <1>a
  <2>2. Saves(c, [Receipted(c, "reporting") EXCEPT !.verified = v], "stages", "unknown")
    BY <1>5 DEF SettleVerifier
  <2> HIDE DEF v
  <2>3. [Receipted(c, "reporting") EXCEPT !.verified = v]
          = Verdicted(Receipted(c, "reporting"), snap[c].worker, v)
    BY <2>0, <2>1, ReceiptedKeeps
  <2>5. LET next == Verdicted(Receipted(c, "reporting"), snap[c].worker, v) IN
        next \in Snapshot /\ Asks(c, next)
    BY <2>0, <1>s, <2>1, SettledAsks DEF Outcomes
  <2>4. [Receipted(c, "reporting") EXCEPT !.verified = v] \in Snapshot
        /\ Asks(c, [Receipted(c, "reporting") EXCEPT !.verified = v])
    BY <2>3, <2>5
  <2> QED
    BY <1>h, <2>2, <2>4 DEF Asked, SavesSomehow
<1>6. CASE SettleReporter(c)
  <2> DEFINE st == TerminalOf(snap[c])
  <2>0. Heard(c, "reporter", {"good"}) /\ "reporter" \in Actors
    BY <1>6, <1>a DEF SettleReporter
  <2>1. st \in {"completed", "failed"} /\ st \in States /\ st \in Reports
        /\ (st = "completed" => snap[c].worker = "ok" /\ snap[c].verified = "ok")
    BY <1>t DEF TerminalOf, Reports
  <2>2. SavesAndReturns(c, Receipted(c, st), st)
    BY <1>6 DEF SettleReporter
  <2> HIDE DEF st
  <2>3. /\ Receipted(c, st) \in Snapshot /\ Asks(c, Receipted(c, st))
        /\ Receipted(c, st).state = st
    BY <2>0, <2>1, <1>k DEF Outcomes
  <2>4. snap[c].state = "reporter_running"
    BY <2>0 DEF Heard, Actor, ActorOf, InFlight
  <2>5. ~row.cancel
    BY <2>4 DEF StagesAdvance, AfterDispatch
  <2>6. ReturnsTrue(Receipted(c, st), st)
    BY <2>3, <2>5 DEF ReturnsTrue
  <2> QED
    BY <2>1, <2>2, <2>3, <2>6 DEF Asked, SavesSomehow
<1> QED
  BY <1>1, <1>2, <1>3, <1>4, <1>5, <1>6

\* The detail of every action that saves.
LEMMA SavingDetail ==
    ASSUME TypeOK, TypeOK', Fresh, Awaiting, SnapshotsAgree, HeardFrom, StagesAdvance, NEW c \in Calls,
           \/ Answer(c) \/ Dispatch(c) \/ Terminalize(c) \/ MarkUnknown(c) \/ ActorFailure(c)
           \/ SettleFacing(c) \/ SettleModerator(c) \/ SettleWorker(c)
           \/ SettleVerifier(c) \/ SettleReporter(c)
    PROVE  Detail(c)
<1>1. called' = called /\ res' = res /\ \A d \in Calls \ {c} : sent'[d] = sent[d]
  BY SavingFrame
<1>2. CASE ActorFailure(c) /\ res[c] = "lost"
  <2>1. /\ row' = row /\ snap' = snap /\ out' = out /\ pc'[c] = "unknown"
        /\ \A d \in Calls \ {c} : pc'[d] = pc[d]
    BY <1>2 DEF ActorFailure, Goto, TypeOK, durable
  <2> QED
    BY <1>1, <2>1 DEF Detail, Others, Stays
<1>3. CASE Asked(c)
  <2>1. PICK next \in Snapshot : Asks(c, next) /\ SavesSomehow(c, next)
    BY <1>3 DEF Asked
  <2> QED
    BY <1>1, <2>1, SaveDetail
<1> QED
  BY <1>2, <1>3, StagesAsk, SettlesAsk

\* The detail of the actions that do not save.
LEMMA CallDetail ==
    ASSUME TypeOK, Awaiting, HeardFrom, NEW c \in Calls,
           \/ Enter(c) \/ Cancel(c) \/ Look(c) \/ Acquire(c) \/ Wake(c) \/ CheckQuestion(c)
           \/ Begin(c) \/ Report(c) \/ SeeCancellation(c) \/ DispatchAborted(c) \/ Invoke(c)
           \/ Hears(c) \/ CancelAfterActor(c) \/ Close(c) \/ Heartbeat(c) \/ CallerAborts(c)
    PROVE  Detail(c)
<1>g. \A st : Goto(c, st) => pc'[c] = st /\ \A d \in Calls \ {c} : pc'[d] = pc[d]
  BY DEF Goto, TypeOK
<1>r. ASSUME NEW s, ReportOf(s) \in Terminal PROVE ReportOf(s) = s.state
  BY <1>r, ReportOfState
<1>e. {"error", "none"} \cap Terminal = {}
  BY DEF Terminal
<1>1. CASE Enter(c) \/ Look(c) \/ Wake(c) \/ Close(c) \/ Report(c) \/ Acquire(c)
  <2>1. row' = row /\ snap' = snap /\ sent' = sent /\ called' = called /\ res' = res
    BY <1>1 DEF Enter, Look, Wake, Close, Report, Acquire, durable
  <2>2. /\ pc'[c] \in {"claiming", "done", "acquiring", "closing", "waiting", "checking", "begin"}
        /\ \A d \in Calls \ {c} : pc'[d] = pc[d]
    BY <1>1, <1>g DEF Enter, Look, Wake, Close, Report, Acquire
  <2>3. \A d \in Calls \ {c} : out'[d] = out[d]
    BY <1>1 DEF Enter, Look, Wake, Close, Report, Acquire, TypeOK
  <2>4. pc'[c] \in {"closing", "done"} /\ out'[c] \in Terminal =>
                \/ out'[c] = row.state
                \/ snap[c].state = out'[c]
                \/ pc[c] = "closing" /\ out'[c] = out[c]
    <3>1. CASE Look(c)
      BY <3>1, <1>g, <1>r DEF Look, TypeOK
    <3>2. CASE Wake(c)
      BY <3>2, <1>g, <1>e DEF Wake, TypeOK
    <3>3. CASE Close(c)
      BY <3>3, <1>g, <1>e DEF Close, TypeOK
    <3>4. CASE Report(c)
      BY <3>4, <1>r DEF Report, TypeOK
    <3>5. CASE Enter(c) \/ Acquire(c)
      BY <3>5, <1>g DEF Enter, Acquire
    <3> QED
      BY <1>1, <3>1, <3>2, <3>3, <3>4, <3>5
  <2> QED
    BY <2>1, <2>2, <2>3, <2>4 DEF Detail, Others, Stays
<1>2. CASE Heartbeat(c) \/ CallerAborts(c)
  <2>1. /\ row' = row /\ snap' = snap /\ sent' = sent /\ called' = called /\ pc' = pc
        /\ res' = res /\ out' = out
    BY <1>2 DEF Heartbeat, CallerAborts, durable
  <2> QED
    BY <2>1 DEF Detail, Others, Stays
<1>3. CASE Cancel(c)
  <2>1. /\ snap' = snap /\ sent' = sent /\ called' = called /\ res' = res
        /\ pc'[c] \in {"claiming", "done"}
        /\ \A d \in Calls \ {c} : pc'[d] = pc[d] /\ out'[d] = out[d]
    BY <1>3, <1>g DEF Cancel, TypeOK
  <2>2. pc'[c] = "done" => row' = row /\ (out'[c] = "error" \/ out'[c] = ReportOf(row))
    BY <1>3, <1>g DEF Cancel, TypeOK, RequestsCancellation, CancelNoOp
  <2>3. row' = row \/ RowFlagged
    BY <1>3 DEF Cancel, RequestsCancellation, CancelRefused, CancelNoOp, Final, RowFlagged
  <2>4. CASE row' = row
    BY <1>e, <1>r, <2>1, <2>2, <2>4 DEF Detail, Others, Stays
  <2>5. CASE RowFlagged /\ row' # row
    BY <2>1, <2>2, <2>5 DEF Detail, Others, Flags
  <2> QED
    BY <2>3, <2>4, <2>5
<1>4. CASE CheckQuestion(c) \/ Begin(c)
  <2>1. /\ row' = row /\ snap'[c] = row /\ called' = called /\ res' = res
        /\ \A d \in Calls \ {c} : snap'[d] = snap[d] /\ sent'[d] = sent[d]
    BY <1>4 DEF CheckQuestion, Begin, TypeOK, durable
  <2>2. /\ pc'[c] \in {"answering", "closing", "stages"}
        /\ \A d \in Calls \ {c} : pc'[d] = pc[d] /\ out'[d] = out[d]
        /\ pc'[c] = "closing" => out'[c] = "error"
        /\ pc'[c] = "stages" => sent'[c] = {}
    BY <1>4, <1>g DEF CheckQuestion, Begin, Throw, TypeOK
  <2> QED
    BY <1>e, <2>1, <2>2 DEF Detail, Others, Reads, Token
<1>5. CASE SeeCancellation(c) \/ CancelAfterActor(c)
  <2>1. /\ row' = row /\ called' = called /\ res' = res /\ sent' = sent /\ out' = out
        /\ \A d \in Calls \ {c} : snap'[d] = snap[d] /\ pc'[d] = pc[d]
    BY <1>5, <1>g DEF SeeCancellation, CancelAfterActor, TypeOK, durable
  <2>2. \/ /\ pc[c] = "stages" /\ snap[c].cancel /\ snap'[c] = Cancelling(snap[c])
           /\ pc'[c] = "terminalize"
        \/ /\ pc[c] = "heard" /\ row.cancel /\ snap'[c] = Billed(c) /\ pc'[c] = "terminalize"
        \/ pc[c] = "heard" /\ pc'[c] = "settle" /\ snap'[c] = snap[c]
    BY <1>5, <1>g DEF SeeCancellation, CancelAfterActor, TypeOK
  <2> QED
    BY <2>1, <2>2 DEF Detail, Others, Ends, Calling
<1>6. CASE DispatchAborted(c)
  <2>1. /\ called' = called /\ res' = res /\ sent' = sent
        /\ \A d \in Calls \ {c} : snap'[d] = snap[d] /\ pc'[d] = pc[d] /\ out'[d] = out[d]
    BY <1>6, <1>g DEF DispatchAborted, Throw, TypeOK
  <2>2. CASE CancelRefused
    <3>1. row' = row /\ snap' = snap /\ pc'[c] = "closing" /\ out'[c] = "error"
      BY <1>6, <2>2, <1>g DEF DispatchAborted, Throw, TypeOK
    <3> QED
      BY <1>e, <2>1, <3>1 DEF Detail, Others, Stays
  <2>3. CASE ~CancelRefused
    <3>1. /\ pc'[c] = "terminalize" /\ snap'[c] = Priced(row') /\ RequestsCancellation(c)
          /\ snap[c].state = "dispatch_ready"
      BY <1>6, <2>3, <1>g DEF DispatchAborted, AtStage, TypeOK
    <3>2. row' = row \/ RowFlagged
      BY <2>3, <3>1 DEF RequestsCancellation, CancelRefused, CancelNoOp, Final, RowFlagged
    <3>3. row'.cancel \/ row'.state \in Terminal
      BY <3>1 DEF RequestsCancellation, CancelNoOp, Final, TypeOK, Snapshot
    <3> QED
      BY <2>1, <3>1, <3>2, <3>3 DEF Detail, Others, Ends
  <2> QED
    BY <2>2, <2>3
<1>7. CASE Invoke(c)
  <2>1. /\ row' = row /\ snap' = snap /\ sent' = sent /\ res' = res /\ out' = out
        /\ \A d \in Calls \ {c} : pc'[d] = pc[d]
    BY <1>7, <1>g DEF Invoke, durable
  <2>2. pc'[c] = "acting" => Token(c) \/ Actor(c) = "worker"
    BY <1>7, <1>g DEF Invoke, AtStage, Token, Actor
  <2> QED
    BY <1>7, <2>1, <2>2 DEF Detail, Others, Calling
<1>8. CASE Hears(c)
  <2>1. /\ row' = row /\ snap' = snap /\ sent' = sent /\ called' = called /\ out' = out
        /\ pc[c] = "acting"
        /\ \A d \in Calls \ {c} : pc'[d] = pc[d] /\ res'[d] = res[d]
    BY <1>8, <1>g DEF Hears, TypeOK, durable
  <2>2. \/ pc'[c] = "heard" /\ Actor(c) \in {"facing", "moderator"}
        \/ pc'[c] = "settle"
    BY <1>8, <1>g DEF Hears
  <2>3. res'[c] \in OutcomesOf(c)
    BY <1>8 DEF Hears, TypeOK
  <2>4. Actor(c) \in Actors
    BY <2>1 DEF Awaiting, Actor, ActorOf, InFlight, Actors
  <2>5. res'[c] = "chat" => snap[c].kind = "chat"
    BY <2>3, <2>4 DEF OutcomesOf, Actors
  <2> QED
    BY <2>1, <2>2, <2>5 DEF Detail, Others, Calling
<1> QED
  BY <1>1, <1>2, <1>3, <1>4, <1>5, <1>6, <1>7, <1>8

GInv == IInv /\ Grounded

\* No call has run: nothing is owed.
LEMMA InitGInv == Init => GInv
<1> SUFFICES ASSUME Init PROVE Grounded
  BY InitIInv DEF GInv
<1>1. /\ row.state = "accepted" /\ row.verified = "none" /\ called = {}
      /\ \A c \in Calls : pc[c] = "idle" /\ snap[c] = row
  BY DEF Init, Accepted
<1> QED
  BY <1>1 DEF Grounded, SnapshotsAgree, AsVerified, StagesAdvance, AtOrPast, AfterDispatch, Terminal,
     HeardFrom, HeldStands, HeldOnce, Holds, Token, Awaits, EndsPriced, CallsCovered, VerdictsGiven,
     ReportsStand

\* Grounded is inductive over IInv.
LEMMA NextGInv == GInv /\ [Next]_vars => GInv'
<1> SUFFICES ASSUME GInv, [Next]_vars PROVE GInv'
  OBVIOUS
<1>i. IInv'
  BY NextIInv DEF GInv
<1>1. ASSUME NEW c \in Calls, Effect(c), Detail(c)
      PROVE  Grounded'
  <2>1. SnapshotsAgree'
    BY <1>i, <1>1, AgreeNext DEF GInv, IInv, Grounded
  <2>2. StagesAdvance'
    BY <1>i, <1>1, StagesNext DEF GInv, IInv, Grounded
  <2>3. HeardFrom'
    BY <1>1, <2>1, HeardNext DEF GInv, IInv, Grounded
  <2>4. HeldStands' /\ HeldOnce'
    BY <1>i, <1>1, HeldNext, HeldOnceNext DEF GInv, IInv, Grounded
  <2>5. EndsPriced'
    BY <1>i, <1>1, PricedNext DEF GInv, IInv, Grounded
  <2>6. CallsCovered' /\ VerdictsGiven' /\ ReportsStand'
    BY <1>i, <1>1, CoveredNext, VerdictsNext, ReportsNext DEF GInv, IInv, Grounded
  <2> QED
    BY <2>1, <2>2, <2>3, <2>4, <2>5, <2>6 DEF Grounded
<1>2. ASSUME \/ Lapse \/ (\E p \in Processes : Crash(p)) \/ UNCHANGED vars
      PROVE  Grounded'
  <2>1. /\ row' = row /\ snap' = snap /\ sent' = sent /\ called' = called
        /\ \A c \in Calls : pc'[c] \in {pc[c], "dead"}
    BY <1>2, EnvironmentEffect DEF GInv, IInv
  <2>2. out' = out /\ res' = res
    BY <1>2 DEF Lapse, Crash, vars
  <2>3. \A c \in Calls : /\ Token(c)' => Token(c)
                         /\ Holds(c)' => Holds(c)
                         /\ Awaits(c)' => Awaits(c)
                         /\ Actor(c)' = Actor(c)
    BY <2>1 DEF Token, Holds, Awaits, Actor
  <2>4. SnapshotsAgree' /\ StagesAdvance' /\ VerdictsGiven'
    BY <2>1 DEF GInv, Grounded, SnapshotsAgree, AsVerified, StagesAdvance, VerdictsGiven
  <2>5. HeardFrom' /\ HeldStands' /\ HeldOnce'
    BY <2>1, <2>2, <2>3 DEF GInv, Grounded, HeardFrom, HeldStands, HeldOnce, KeyOf
  <2>6. EndsPriced' /\ ReportsStand'
    BY <2>1, <2>2 DEF GInv, Grounded, EndsPriced, ReportsStand, KeyOf
  <2>7. CallsCovered'
    BY <2>1, <2>3 DEF GInv, Grounded, CallsCovered, Covered, KeyOf
  <2> QED
    BY <2>4, <2>5, <2>6, <2>7 DEF Grounded
<1>3. ASSUME NEW c \in Calls,
             \/ Enter(c) \/ Cancel(c) \/ Proceeds(c) \/ Hears(c) \/ Heartbeat(c) \/ CallerAborts(c)
      PROVE  Effect(c) /\ Detail(c)
  <2>1. Effect(c)
    BY <1>3, StepEffect DEF GInv, IInv
  <2>2. Detail(c)
    BY <1>i, <1>3, CallDetail, SavingDetail DEF Proceeds, GInv, IInv, Grounded
  <2> QED
    BY <2>1, <2>2
<1>4. Grounded'
  BY <1>1, <1>2, <1>3 DEF Next
<1> QED
  BY <1>i, <1>4 DEF GInv

\* A completed issue is verified, a stated cost covers every call and a settled
\* report is the persisted one, in every interleaving of calls, crashes and lapses.
THEOREM AlwaysGrounded == Spec => []ReportIsGrounded
<1>1. GInv => ReportIsGrounded
  <2> SUFFICES ASSUME GInv PROVE ReportIsGrounded
    OBVIOUS
  <2>1. CompletedIsVerified
    BY DEF GInv, Grounded, VerdictsGiven, CompletedIsVerified
  <2>2. CostCoversCalls
    BY DEF GInv, Grounded, CallsCovered, Covered, CostCoversCalls, InFlight, Terminal
  <2>3. ReportIsPersisted
    BY DEF GInv, Grounded, ReportsStand, ReportIsPersisted
  <2> QED
    BY <2>1, <2>2, <2>3 DEF ReportIsGrounded
<1> QED
  BY <1>1, InitGInv, NextGInv, PTL DEF Spec

\* The entry a process keeps is one of its own calls, and a live claim has an owner.
Owners ==
    /\ \A p \in Processes : ownerOf[p] # NoCall => ProcOf[ownerOf[p]] = p
    /\ claim.live => claim.owner \in Calls

\* Only acquiring the claim enters a call, into the entry of its own process.
LEMMA OwnersNext ==
    ASSUME TypeOK, Owners, [Next]_vars
    PROVE  Owners'
<1>1. ASSUME NEW c \in Calls, Acquire(c) PROVE Owners'
  <2>1. ProcOf[c] \in Processes
    BY CallAssumption
  <2>2. CASE Free(c)
    <3>1. claim'.owner = c /\ ownerOf' = [ownerOf EXCEPT ![ProcOf[c]] = c]
      BY <1>1, <2>2 DEF Acquire
    <3> QED
      BY <2>1, <3>1 DEF Owners, TypeOK
  <2>3. CASE ~Free(c)
    BY <1>1, <2>3 DEF Acquire, Owners, maps
  <2> QED
    BY <2>2, <2>3
<1>2. ASSUME NEW c \in Calls, Close(c) \/ Heartbeat(c) PROVE Owners'
  <2>1. \A p \in Processes : ownerOf'[p] \in {ownerOf[p], NoCall}
    BY <1>2 DEF Close, Heartbeat, Abandons, TypeOK
  <2>2. claim' = claim \/ claim' = [owner |-> NoCall, live |-> FALSE]
    BY <1>2 DEF Close, Heartbeat, durable
  <2>3. claim'.live => claim'.owner \in Calls
    BY <2>2 DEF Owners
  <2> QED
    BY <2>1, <2>3 DEF Owners
<1>3. ASSUME NEW p \in Processes, Crash(p) PROVE Owners'
  BY <1>3 DEF Crash, Owners, TypeOK, durable
<1>4. CASE Lapse
  <2>1. ~claim'.live /\ ownerOf' = ownerOf
    BY <1>4 DEF Lapse, maps, TypeOK
  <2> QED
    BY <2>1 DEF Owners
<1>5. CASE UNCHANGED <<claim, ownerOf>>
  BY <1>5 DEF Owners
<1>6. ASSUME NEW c \in Calls,
             \/ Enter(c) \/ Cancel(c) \/ Look(c) \/ Wake(c) \/ CheckQuestion(c) \/ Begin(c)
             \/ Report(c) \/ SeeCancellation(c) \/ DispatchAborted(c) \/ Invoke(c)
             \/ Hears(c) \/ CancelAfterActor(c) \/ CallerAborts(c)
      PROVE  UNCHANGED <<claim, ownerOf>>
  BY <1>6 DEF Enter, Cancel, Look, Wake, CheckQuestion, Begin, Report, SeeCancellation,
     DispatchAborted, Invoke, Hears, CancelAfterActor, CallerAborts, durable, maps
<1>7. ASSUME NEW c \in Calls,
             \/ Answer(c) \/ Dispatch(c) \/ Terminalize(c) \/ MarkUnknown(c) \/ ActorFailure(c)
             \/ SettleFacing(c) \/ SettleModerator(c) \/ SettleWorker(c)
             \/ SettleVerifier(c) \/ SettleReporter(c)
      PROVE  UNCHANGED <<claim, ownerOf>>
  BY <1>7 DEF Answer, Dispatch, Terminalize, MarkUnknown, ActorFailure, SettleFacing, SettleModerator,
     SettleWorker, SettleVerifier, SettleReporter, Saves, SavesAndReports, SavesAndReturns, durable, maps
<1> QED
  BY <1>1, <1>2, <1>3, <1>4, <1>5, <1>6, <1>7 DEF Next, Proceeds, vars, durable, maps

\* Only calls of the process whose call holds a live claim advance the issue.
THEOREM AlwaysFenced == Spec => Fenced
<1> DEFINE FInv == GInv /\ Owners
<1>1. Init => FInv
  BY InitGInv DEF Init, Owners
<1>2. FInv /\ [Next]_vars => FInv'
  BY NextGInv, OwnersNext DEF GInv, IInv
<1>3. FInv /\ [Next]_vars => [Advances /\ claim.live => ProcOf[writer'] = ProcOf[claim.owner]]_vars
  <2> SUFFICES ASSUME FInv, Next, Advances, claim.live
               PROVE  ProcOf[writer'] = ProcOf[claim.owner]
    OBVIOUS
  <2>1. CASE Lapse \/ (\E p \in Processes : Crash(p))
    BY <2>1, EnvironmentEffect DEF Advances, GInv, IInv
  <2>2. ASSUME NEW c \in Calls, Detail(c) PROVE ProcOf[writer'] = ProcOf[claim.owner]
    <3>1. Stores(c)
      BY <2>2, RowFates, FlaggedRow DEF Advances, GInv, IInv
    <3>2. writer' = c /\ ownerOf[ProcOf[c]] = claim.owner /\ claim.owner \in Calls
      BY <3>1 DEF Stores, Admitted, Owner, Owners
    <3>3. ProcOf[c] \in Processes /\ claim.owner # NoCall
      BY <3>2, CallAssumption
    <3> QED
      BY <3>2, <3>3 DEF Owners
  <2>3. TypeOK'
    BY NextIInv DEF GInv, IInv
  <2>4. ASSUME NEW c \in Calls,
               \/ Enter(c) \/ Cancel(c) \/ Proceeds(c) \/ Hears(c) \/ Heartbeat(c) \/ CallerAborts(c)
        PROVE  Detail(c)
    BY <2>3, <2>4, CallDetail, SavingDetail DEF Proceeds, GInv, IInv, Grounded
  <2> QED
    BY <2>1, <2>2, <2>4 DEF Next
<1> QED
  BY <1>1, <1>2, <1>3, PTL DEF Spec, Fenced

-----------------------------------------------------------------------------
(* The refinement of IssueContract *)

\* A change of the row that RowStep allows is a step of the contract.
LEMMA RowStepIsContractStep ==
    ASSUME TypeOK, CancelledBefore, RowStep
    PROVE  Contract!Next \/ Seen' = Seen
<1>s. /\ row.state \in States /\ row.cancel \in BOOLEAN /\ row.answers \in Nat
  BY DEF TypeOK, Snapshot
<1>p. /\ \A st \in Terminal : Phase(st) = st
      /\ \A st \in AfterDispatch : Phase(st) = "working"
      /\ Phase("awaiting_user") = "awaiting"
      /\ \A st \in {"accepted", "classifying", "classified", "planning", "moderator_running",
                    "dispatch_ready"} : Phase(st) = "open"
  BY DEF Phase, Terminal, AfterDispatch
<1>i. Seen = [state |-> Phase(row.state), cancel |-> row.cancel, answers |-> row.answers]
  BY DEF Seen
<1>j. Seen' = [state |-> Phase(row'.state), cancel |-> row'.cancel, answers |-> row'.answers]
  BY DEF Seen
<1>1. CASE row' = row
  BY <1>1, <1>i, <1>j
<1>2. CASE /\ row.state \notin AfterDispatch \cup Terminal
           /\ row' = [row EXCEPT !.cancel = TRUE, !.version = row.version + 1]
  <2>1. row'.state = row.state /\ row'.cancel = TRUE /\ row'.answers = row.answers
    BY <1>2 DEF TypeOK, Snapshot
  <2>2. Phase(row.state) \in {"open", "awaiting"}
    BY <1>s, <1>p, <1>2 DEF States, InFlight, NextStage, AfterDispatch
  <2>3. Contract!MayCancel(Seen)
    BY <1>i, <2>2 DEF Contract!MayCancel
  <2>4. Seen' = [state |-> Phase(row.state), cancel |-> TRUE, answers |-> row.answers]
    BY <1>j, <2>1
  <2>5. Seen.state = Phase(row.state) /\ Seen.answers = row.answers
    BY <1>i
  <2>6. Seen' = Contract!CancelRequested(Seen)
    BY <2>4, <2>5 DEF Contract!CancelRequested
  <2> QED
    BY <2>3, <2>6 DEF Contract!Next, Contract!Cancel
<1>3. CASE row.state \notin Terminal /\ Continues(row, row')
  <2>c. row'.cancel = row.cancel
    BY <1>3 DEF Continues
  \* a step that keeps the answers and leads to a phase the contract lists
  <2>a. ASSUME row'.answers = row.answers, NEW ph, Phase(row'.state) = ph,
               [Seen EXCEPT !.state = ph] \in Contract!Advances(Seen)
        PROVE  Contract!Next
    <3>1. Seen' = [Seen EXCEPT !.state = ph]
      BY <1>i, <1>j, <2>a, <2>c
    <3> QED
      BY <2>a, <3>1 DEF Contract!Next, Contract!Advance
  <2>1. CASE row.cancel /\ row'.state = "cancelled" /\ row'.answers = row.answers
    <3>1. Phase(row.state) \in {"open", "awaiting"}
      BY <1>s, <1>p, <1>3, <2>1 DEF States, InFlight, NextStage, AfterDispatch, CancelledBefore
    <3>2. Phase(row'.state) = "cancelled"
      BY <1>p, <2>1 DEF Terminal
    <3>3. [Seen EXCEPT !.state = "cancelled"] \in Contract!Advances(Seen)
      BY <1>i, <2>1, <3>1 DEF Contract!Advances, Contract!In
    <3> QED
      BY <2>1, <2>a, <3>2, <3>3
  <2>2. CASE /\ row.state \in InFlight /\ ~row.cancel
             /\ row'.state \in Terminal \ {"cancelled"} /\ row'.answers = row.answers
    <3>1. Phase(row.state) \in {"open", "working"}
      BY <1>p, <2>2 DEF InFlight, AfterDispatch
    <3>2. /\ Phase(row'.state) = row'.state
          /\ row'.state \in {"completed", "failed", "outcome_unknown"}
      BY <1>p, <2>2 DEF Terminal
    <3>3. [Seen EXCEPT !.state = row'.state] \in Contract!Advances(Seen)
      BY <1>i, <2>2, <3>1, <3>2 DEF Contract!Advances, Contract!In
    <3> QED
      BY <2>2, <2>a, <3>2, <3>3
  <2>3. CASE /\ row.state = "awaiting_user" /\ row'.state = "planning"
             /\ row'.answers = row.answers + 1
    <3>1. Phase(row.state) = "awaiting" /\ Phase(row'.state) = "open"
      BY <1>p, <2>3
    <3>2. Contract!MayAnswer(Seen)
      BY <1>i, <3>1 DEF Contract!MayAnswer
    <3>3. Seen' = [state |-> "open", cancel |-> row.cancel, answers |-> row.answers + 1]
      BY <1>j, <2>3, <2>c, <3>1
    <3>4. Seen.cancel = row.cancel /\ Seen.answers = row.answers
      BY <1>i
    <3>5. Seen' = Contract!Answered(Seen)
      BY <3>3, <3>4 DEF Contract!Answered
    <3> QED
      BY <3>2, <3>5 DEF Contract!Next, Contract!Answer
  <2>4. CASE /\ ~row.cancel /\ row'.answers = row.answers
             /\ \/ /\ row.state = "dispatch_ready" /\ row'.state = "worker_running"
                \/ /\ row.state = "moderator_running" /\ row'.state = "awaiting_user"
    <3>1. Phase(row.state) = "open" /\ Phase(row'.state) \in {"working", "awaiting"}
      BY <1>p, <2>4 DEF AfterDispatch
    <3>2. [Seen EXCEPT !.state = Phase(row'.state)] \in Contract!Advances(Seen)
      BY <1>i, <2>4, <3>1 DEF Contract!Advances, Contract!In
    <3> QED
      BY <2>4, <2>a, <3>2
  \* the other moves stay within a phase
  <2>5. CASE /\ row'.answers = row.answers
             /\ \/ row.state = "accepted" /\ row'.state = "classifying"
                \/ row.state = "classified" /\ row'.state = "planning"
                \/ row.state = "planning" /\ row'.state = "moderator_running"
                \/ row.state = "classifying" /\ row'.state = "classified"
                \/ row.state = "moderator_running" /\ row'.state = "dispatch_ready"
                \/ row.state = "reporting" /\ row'.state = "reporter_running"
                \/ row.state = "worker_running" /\ row'.state \in {"verifying", "reporting"}
                \/ row.state = "verifying" /\ row'.state = "reporting"
    <3>1. Phase(row'.state) = Phase(row.state)
      BY <1>p, <2>5 DEF AfterDispatch
    <3> QED
      BY <1>i, <1>j, <2>5, <2>c, <3>1
  <2>6. ASSUME row.state \in DOMAIN NextStage, row'.state = NextStage[row.state]
        PROVE  \/ row.state = "accepted" /\ row'.state = "classifying"
               \/ row.state = "classified" /\ row'.state = "planning"
               \/ row.state = "planning" /\ row'.state = "moderator_running"
               \/ row.state = "dispatch_ready" /\ row'.state = "worker_running"
               \/ row.state = "reporting" /\ row'.state = "reporter_running"
    BY <2>6 DEF NextStage
  <2> QED
    BY <1>3, <2>1, <2>2, <2>3, <2>4, <2>5, <2>6 DEF Continues
<1> QED
  BY <1>1, <1>2, <1>3 DEF RowStep

\* The orchestrator implements the lifecycle its users rely on: FR-ORCH-010's
\* cancellation window, answers that reopen only a pending question, and final
\* outcomes, for any number of calls and processes, crashes and lost claims.
THEOREM OrchestratorImplementsContract == Spec => ImplementsContract
<1>1. Init => Contract!Init
  <2> SUFFICES ASSUME Init PROVE Seen = Contract!NewIssue
    BY DEF Contract!Init
  <2>1. row.state = "accepted" /\ row.cancel = FALSE /\ row.answers = 0
    BY DEF Init, Accepted
  <2>2. \A st \in {"accepted", "classifying", "classified", "planning", "moderator_running",
                    "dispatch_ready"} : Phase(st) = "open"
    BY DEF Phase, Terminal, AfterDispatch
  <2>3. Phase(row.state) = "open"
    BY <2>1, <2>2
  <2> QED
    BY <2>1, <2>3 DEF Seen, Contract!NewIssue
<1>2. IInv /\ [Next]_vars => [Contract!Next]_Seen
  <2> SUFFICES ASSUME IInv, [Next]_vars PROVE Contract!Next \/ Seen' = Seen
    OBVIOUS
  <2>1. \/ \E c \in Calls : Effect(c)
        \/ Lapse \/ (\E p \in Processes : Crash(p)) \/ UNCHANGED vars
    BY StepEffect DEF Next, IInv
  <2>2. RowStep
    BY <2>1, EnvironmentEffect DEF IInv, Effect, RowStep
  <2> QED
    BY <2>2, RowStepIsContractStep DEF IInv
<1> QED
  BY <1>1, <1>2, InitIInv, NextIInv, PTL DEF Spec, ImplementsContract, Contract!Spec
=============================================================================
