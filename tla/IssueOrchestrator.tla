------------------------- MODULE IssueOrchestrator -------------------------
(***************************************************************************)
(* One issue of the single-issue orchestrator                              *)
(* (app/single-issue-orchestrator.ts) over its SQLite store                *)
(* (adapters/sqlite-issue-orchestration-store.ts), driven by several calls *)
(* of resume, answer and cancel in several Agent processes.                *)
(*                                                                         *)
(* Every store call is one transaction and one step here. JavaScript runs  *)
(* to completion: between two awaits no other call of the same process may *)
(* move (Turn), while calls of other processes may. The actors (facing,    *)
(* moderator, worker, verifier, reporter) are external: a call to one ends *)
(* with any of the outcomes its port allows, or with its process.          *)
(*                                                                         *)
(* The lease of a claim is not a clock but a flag: it is live until it     *)
(* lapses, which happens when the owner's event loop stalls longer than    *)
(* the lease or its process is gone.                                       *)
(***************************************************************************)
EXTENDS Naturals, FiniteSets

CONSTANTS
    Calls,          \* calls of the orchestrator's methods
    NoCall,         \* "no owner"
    Processes,      \* Agent processes sharing the database
    ProcOf,         \* the process of each call
    MethodOf,       \* "resume", "answer" or "cancel"
    Aborters,       \* calls whose caller may abort its signal
    Kinds,          \* kinds of issue: "chat" (no obligations), "work"
    MaxQuestions,   \* bound: moderator questions
    MaxLapses,      \* bound: leases lapsing, or renewals throwing, under a live owner
    MaxCrashes      \* bound: process crashes

ASSUME CallAssumption ==
    /\ NoCall \notin Calls
    /\ ProcOf \in [Calls -> Processes]
    /\ MethodOf \in [Calls -> {"resume", "answer", "cancel"}]
    /\ Aborters \subseteq Calls
ASSUME IssueAssumption == Kinds \subseteq {"chat", "work"} /\ Kinds # {}
ASSUME BoundAssumption == MaxQuestions \in Nat /\ MaxLapses \in Nat /\ MaxCrashes \in Nat

VARIABLES
    row,        \* the persisted snapshot
    claim,      \* the execution claim: owner and whether its lease is live
    ownerOf,    \* #executionOwners of each process
    ctrlOf,     \* #executionControllers of each process
    pc,         \* where each call stands
    method,     \* what each call runs as: a call that lost its claim resumes
    snap,       \* the snapshot each call works on
    sent,       \* actors dispatched in this run of runStages
    res,        \* outcome of the actor a call has just heard from
    inner,      \* the call's own abort controller has fired
    outer,      \* the caller's signal has fired
    lost,       \* claimLost
    out,        \* what the call returned or threw
    writer,     \* the call of the last row update (history)
    called,     \* idempotency keys ever handed to an actor (history)
    lapses, crashes

durable == <<row, writer, claim>>
maps == <<ownerOf, ctrlOf>>
signals == <<inner, outer, lost>>
counts == <<lapses, crashes>>
vars == <<durable, maps, pc, method, snap, sent, res, signals, out, called, counts>>

Terminal == {"completed", "failed", "cancelled", "outcome_unknown"}
InFlight == {"classifying", "moderator_running", "worker_running", "verifying", "reporter_running"}
\* the states whose handler only saves the next one
NextStage ==
    [accepted |-> "classifying", classified |-> "planning", planning |-> "moderator_running",
     dispatch_ready |-> "worker_running", reporting |-> "reporter_running"]
States == Terminal \cup InFlight \cup DOMAIN NextStage \cup {"awaiting_user"}
\* requestCancellation refuses these
AfterDispatch == {"worker_running", "verifying", "reporting", "reporter_running"}

ActorOf ==
    [classifying |-> "facing", moderator_running |-> "moderator", worker_running |-> "worker",
     verifying |-> "verifier", reporter_running |-> "reporter"]
Actors == {"facing", "moderator", "worker", "verifier", "reporter"}
Keys == Actors \X Nat
WorkerKey == <<"worker", 0>>

\* a call between two awaits, a call awaiting an actor, and the rest
Sync == {"acquiring", "checking", "answering", "begin", "stages", "heard", "settle",
         "terminalize", "unknown", "closing"}
Rest == {"idle", "claiming", "waiting", "done", "dead"}
Places == Sync \cup Rest \cup {"acting"}

Outcomes == {"good", "chat", "question", "invalid", "refused", "rejected", "missing", "lost"}
Reports == States \cup {"none", "chat", "error"}
Verdicts == {"none", "ok", "failed"}

Snapshot ==
    [state : States, version : Nat, cancel : BOOLEAN, kind : {"chat", "work"},
     answers : Nat, worker : Verdicts, verified : Verdicts,
     receipts : SUBSET Keys, unpriced : BOOLEAN]

TypeOK ==
    /\ row \in Snapshot
    /\ claim \in [owner : Calls \cup {NoCall}, live : BOOLEAN]
    /\ ownerOf \in [Processes -> Calls \cup {NoCall}]
    /\ ctrlOf \in [Processes -> Calls \cup {NoCall}]
    /\ pc \in [Calls -> Places]
    /\ method \in [Calls -> {"resume", "answer", "cancel"}]
    /\ snap \in [Calls -> Snapshot]
    /\ sent \in [Calls -> SUBSET Actors]
    /\ res \in [Calls -> Outcomes]
    /\ inner \in [Calls -> BOOLEAN] /\ outer \in [Calls -> BOOLEAN] /\ lost \in [Calls -> BOOLEAN]
    /\ out \in [Calls -> Reports]
    /\ writer \in Calls \cup {NoCall}
    /\ called \subseteq Keys
    /\ lapses \in Nat /\ crashes \in Nat

Accepted(kind) ==
    [state |-> "accepted", version |-> 1, cancel |-> FALSE, kind |-> kind, answers |-> 0,
     worker |-> "none", verified |-> "none", receipts |-> {}, unpriced |-> FALSE]

\* ensure() has established the issue; no call has run
Init ==
    /\ \E kind \in Kinds : row = Accepted(kind) /\ snap = [c \in Calls |-> Accepted(kind)]
    /\ claim = [owner |-> NoCall, live |-> FALSE]
    /\ ownerOf = [p \in Processes |-> NoCall] /\ ctrlOf = [p \in Processes |-> NoCall]
    /\ pc = [c \in Calls |-> "idle"]
    /\ method = MethodOf
    /\ sent = [c \in Calls |-> {}]
    /\ res = [c \in Calls |-> "good"]
    /\ inner = [c \in Calls |-> FALSE] /\ outer = [c \in Calls |-> FALSE]
    /\ lost = [c \in Calls |-> FALSE]
    /\ out = [c \in Calls |-> "none"]
    /\ writer = NoCall
    /\ called = {} /\ lapses = 0 /\ crashes = 0

\* no call of the process is between two awaits
Quiet(p) == \A d \in Calls : ProcOf[d] = p => pc[d] \notin Sync
Turn(c) == Quiet(ProcOf[c])
Goto(c, where) == pc' = [pc EXCEPT ![c] = where]
Aborted(c) == inner[c] \/ outer[c]

\* the state of the report a snapshot yields (grounded)
ReportOf(s) == IF s.state = "completed" /\ s.kind = "chat" THEN "chat" ELSE s.state

-----------------------------------------------------------------------------
(* store.save and store.requestCancellation *)

Owner(c) == ownerOf[ProcOf[c]]

AdmittedAlways(c) == TRUE               \* mutant: no fence
\* the fence: a claim admits only its live owner, no claim only an unclaimed save
Admitted(c) == Owner(c) = claim.owner /\ (claim.owner # NoCall => claim.live)

StaleNever(c) == FALSE                  \* mutant: no version check
Stale(c) == row.version # snap[c].version

Final == row.state \in Terminal

Stored(c, next) ==
    /\ ~Stale(c) /\ Admitted(c) /\ ~Final
    /\ row' = [next EXCEPT !.version = row.version + 1]
    /\ snap' = [snap EXCEPT ![c] = row']
    /\ writer' = c
\* a stale save that meets a cancellation returns the current row unchanged
Overtaken(c, next) == Stale(c) /\ row.cancel /\ ~next.cancel
Yielded(c, next) ==
    /\ Overtaken(c, next)
    /\ snap' = [snap EXCEPT ![c] = row]
    /\ UNCHANGED <<row, writer>>
Refused(c, next) ==
    /\ ~Overtaken(c, next)
    /\ Stale(c) \/ ~Admitted(c) \/ Final
    /\ UNCHANGED <<row, writer, snap>>

Throw(c) == out' = [out EXCEPT ![c] = "error"] /\ Goto(c, "closing")

\* save, then go on at "where"; a refused save is caught at "handler" or thrown
Fails(c, next, handler) ==
    /\ Refused(c, next)
    /\ IF handler = "throw" THEN Throw(c) ELSE Goto(c, handler) /\ UNCHANGED out
Saves(c, next, where, handler) ==
    /\ UNCHANGED claim
    /\ \/ (Stored(c, next) \/ Yielded(c, next)) /\ Goto(c, where) /\ UNCHANGED out
       \/ Fails(c, next, handler)
\* save, then return the report of what save returned
SavesAndReports(c, next, handler) ==
    /\ UNCHANGED claim
    /\ \/ /\ Stored(c, next) \/ Yielded(c, next)
          /\ out' = [out EXCEPT ![c] = ReportOf(snap'[c])]
          /\ Goto(c, "closing")
       \/ Fails(c, next, handler)
\* save, then return a report made before the save
SavesAndReturns(c, next, report) ==
    /\ UNCHANGED claim
    /\ \/ /\ Stored(c, next) \/ Yielded(c, next)
          /\ out' = [out EXCEPT ![c] = report]
          /\ Goto(c, "closing")
       \/ Fails(c, next, "throw")

CancelNoOp == Final \/ row.cancel
CancelAllowedLate == FALSE              \* mutant: the cancellation window never closes
CancelRefused == ~CancelNoOp /\ row.state \in AfterDispatch
\* needs neither a claim nor an expected version
RequestsCancellation(c) ==
    IF CancelNoOp THEN UNCHANGED <<row, writer>>
                  ELSE /\ row' = [row EXCEPT !.cancel = TRUE, !.version = @ + 1]
                       /\ writer' = c

-----------------------------------------------------------------------------
(* cancel and withExecutionClaim *)

Enter(c) ==
    /\ pc[c] = "idle" /\ method[c] # "cancel"
    /\ Goto(c, "claiming")
    /\ UNCHANGED <<durable, maps, method, snap, sent, res, signals, out, called, counts>>

\* cancel: record the request, abort this process's execution, then resume
Cancel(c) ==
    /\ pc[c] = "idle" /\ method[c] = "cancel" /\ Turn(c)
    /\ IF CancelRefused
       THEN /\ out' = [out EXCEPT ![c] = "error"] /\ Goto(c, "done")
            /\ UNCHANGED <<row, writer, inner>>
       ELSE /\ RequestsCancellation(c)
            /\ inner' = [d \in Calls |-> inner[d] \/ (~Final /\ d = ctrlOf[ProcOf[c]])]
            /\ IF Final THEN out' = [out EXCEPT ![c] = ReportOf(row)] /\ Goto(c, "done")
                        ELSE Goto(c, "claiming") /\ UNCHANGED out
    /\ method' = [method EXCEPT ![c] = "resume"]
    /\ UNCHANGED <<claim, maps, snap, sent, res, outer, lost, called, counts>>

\* answer() joins an issue that awaits the user; the others return its question
StopsAtAwaiting(c) == method[c] # "answer"
Settled(c) == Final \/ (StopsAtAwaiting(c) /\ row.state = "awaiting_user" /\ ~row.cancel)

Look(c) ==
    /\ pc[c] = "claiming" /\ Turn(c)
    /\ IF Settled(c) THEN out' = [out EXCEPT ![c] = ReportOf(row)] /\ Goto(c, "done")
                     ELSE Goto(c, "acquiring") /\ UNCHANGED out
    /\ UNCHANGED <<durable, maps, method, snap, sent, res, signals, called, counts>>

Free(c) == claim.owner \in {NoCall, c} \/ ~claim.live

\* tryAcquireExecution, and when it fails sleep one poll interval
Acquire(c) ==
    /\ pc[c] = "acquiring"
    /\ IF Free(c)
       THEN /\ claim' = [owner |-> c, live |-> TRUE]
            /\ ownerOf' = [ownerOf EXCEPT ![ProcOf[c]] = c]
            /\ ctrlOf' = [ctrlOf EXCEPT ![ProcOf[c]] = c]
            /\ inner' = [inner EXCEPT ![c] = FALSE]
            /\ lost' = [lost EXCEPT ![c] = FALSE]
            /\ Goto(c, IF method[c] = "answer" THEN "checking" ELSE "begin")
       ELSE Goto(c, "waiting") /\ UNCHANGED <<claim, maps, inner, lost>>
    /\ UNCHANGED <<row, writer, method, snap, sent, res, outer, out, called, counts>>

Wake(c) ==
    /\ pc[c] = "waiting" /\ Turn(c)
    /\ IF outer[c] THEN out' = [out EXCEPT ![c] = "error"] /\ Goto(c, "done")
                   ELSE Goto(c, "claiming") /\ UNCHANGED out
    /\ UNCHANGED <<durable, maps, method, snap, sent, res, signals, called, counts>>

\* answer: read the issue and match the answer with the pending question
CheckQuestion(c) ==
    /\ pc[c] = "checking"
    /\ snap' = [snap EXCEPT ![c] = row]
    /\ \/ row.state = "awaiting_user" /\ Goto(c, "answering") /\ UNCHANGED out
       \/ Throw(c)
    /\ UNCHANGED <<durable, maps, method, sent, res, signals, called, counts>>

Answer(c) ==
    /\ pc[c] = "answering"
    /\ Saves(c, [snap[c] EXCEPT !.state = "planning", !.answers = @ + 1], "begin", "throw")
    /\ UNCHANGED <<maps, method, sent, res, signals, called, counts>>

\* Mutant: the claim is kept until its lease lapses
CloseKeeping(c) ==
    /\ pc[c] = "closing"
    /\ ownerOf' = [ownerOf EXCEPT ![ProcOf[c]] = IF @ = c THEN NoCall ELSE @]
    /\ ctrlOf' = [ctrlOf EXCEPT ![ProcOf[c]] = IF @ = c THEN NoCall ELSE @]
    /\ Goto(c, "done")
    /\ UNCHANGED <<durable, method, snap, sent, res, signals, out, called, counts>>

\* finally: drop the maps and the claim; a lost claim resumes
Close(c) ==
    /\ pc[c] = "closing"
    /\ ownerOf' = [ownerOf EXCEPT ![ProcOf[c]] = IF @ = c THEN NoCall ELSE @]
    /\ ctrlOf' = [ctrlOf EXCEPT ![ProcOf[c]] = IF @ = c THEN NoCall ELSE @]
    /\ claim' = IF claim.owner = c THEN [owner |-> NoCall, live |-> FALSE] ELSE claim
    /\ IF lost[c] THEN /\ Goto(c, "claiming")
                       /\ out' = [out EXCEPT ![c] = "none"]
                       /\ method' = [method EXCEPT ![c] = "resume"]
                  ELSE Goto(c, "done") /\ UNCHANGED <<out, method>>
    /\ UNCHANGED <<row, writer, snap, sent, res, signals, called, counts>>

\* the claim is gone: forget the owner id and abort the actors
Abandons(c) ==
    /\ lost' = [lost EXCEPT ![c] = TRUE]
    /\ inner' = [inner EXCEPT ![c] = TRUE]
    /\ ownerOf' = [ownerOf EXCEPT ![ProcOf[c]] = IF @ = c THEN NoCall ELSE @]

\* one heartbeat of a call that awaits its actor, when it changes something
Heartbeat(c) ==
    /\ pc[c] = "acting" /\ Turn(c)
    /\ \/ /\ claim = [owner |-> c, live |-> TRUE] /\ row.cancel /\ ~inner[c]
          /\ inner' = [inner EXCEPT ![c] = TRUE]
          /\ UNCHANGED <<lost, ownerOf, lapses>>
       \/ /\ claim # [owner |-> c, live |-> TRUE] /\ ~lost[c]
          /\ Abandons(c)
          /\ UNCHANGED lapses
       \/ /\ ~lost[c] /\ lapses < MaxLapses     \* the renewal throws
          /\ Abandons(c)
          /\ lapses' = lapses + 1
    /\ UNCHANGED <<durable, ctrlOf, pc, method, snap, sent, res, outer, out, called, crashes>>

-----------------------------------------------------------------------------
(* runStages: one action per branch of its loop *)

Begin(c) ==
    /\ pc[c] = "begin"
    /\ snap' = [snap EXCEPT ![c] = row]
    /\ sent' = [sent EXCEPT ![c] = {}]
    /\ Goto(c, "stages")
    /\ UNCHANGED <<durable, maps, method, res, signals, out, called, counts>>

AtStage(c, states) == pc[c] = "stages" /\ ~snap[c].cancel /\ snap[c].state \in states

\* a terminal issue, or a question for the user, is the report
Report(c) ==
    /\ pc[c] = "stages"
    /\ snap[c].state \in Terminal \/ (snap[c].state = "awaiting_user" /\ ~snap[c].cancel)
    /\ out' = [out EXCEPT ![c] = ReportOf(snap[c])]
    /\ Goto(c, "closing")
    /\ UNCHANGED <<durable, maps, method, snap, sent, res, signals, called, counts>>

Unpriced(state) == state \in {"classifying", "moderator_running"}

Cancelling(s) == [s EXCEPT !.unpriced = Unpriced(s.state)]
SeeCancellation(c) ==
    /\ pc[c] = "stages" /\ snap[c].cancel /\ snap[c].state \notin Terminal
    /\ snap' = [snap EXCEPT ![c] = Cancelling(snap[c])]
    /\ Goto(c, "terminalize")
    /\ UNCHANGED <<durable, maps, method, sent, res, signals, out, called, counts>>

DispatchStates == DOMAIN NextStage
\* save the next stage and remember that this run dispatched its actor
Dispatch(c) ==
    /\ AtStage(c, DispatchStates)
    /\ ~ (snap[c].state = "dispatch_ready" /\ Aborted(c))
    /\ LET next == NextStage[snap[c].state] IN
       /\ Saves(c, [snap[c] EXCEPT !.state = next], "stages", "throw")
       /\ sent' = [sent EXCEPT ![c] = @ \cup (IF next \in InFlight THEN {ActorOf[next]} ELSE {})]
    /\ UNCHANGED <<maps, method, res, signals, called, counts>>

Priced(s) == [s EXCEPT !.unpriced = FALSE]
\* an aborted signal before the worker is dispatched cancels the issue
DispatchAborted(c) ==
    /\ AtStage(c, {"dispatch_ready"}) /\ Aborted(c)
    /\ IF CancelRefused THEN Throw(c) /\ UNCHANGED <<row, writer, snap>>
                        ELSE /\ RequestsCancellation(c)
                             /\ snap' = [snap EXCEPT ![c] = Priced(row')]
                             /\ Goto(c, "terminalize") /\ UNCHANGED out
    /\ UNCHANGED <<claim, maps, method, sent, res, signals, called, counts>>

Actor(c) == ActorOf[snap[c].state]
KeyOf(s) == <<ActorOf[s.state], IF s.state = "moderator_running" THEN s.answers ELSE 0>>

\* Mutant: an interrupted actor is simply called again
InvokeAgain(c) ==
    /\ AtStage(c, InFlight)
    /\ Goto(c, "acting")
    /\ called' = called \cup {KeyOf(snap[c])}
    /\ UNCHANGED <<durable, maps, method, snap, sent, res, signals, out, counts>>

\* only the run that dispatched an actor calls it; a restart recovers the worker
\* (external) and declares the outcome of any other actor unknown
Invoke(c) ==
    /\ AtStage(c, InFlight)
    /\ Goto(c, IF Actor(c) \in sent[c] \cup {"worker"} THEN "acting" ELSE "unknown")
    /\ called' = IF Actor(c) \in sent[c] THEN called \cup {KeyOf(snap[c])} ELSE called
    /\ UNCHANGED <<durable, maps, method, snap, sent, res, signals, out, counts>>

\* What an actor may end with. "rejected": an error or a drifted result with a
\* usable receipt; "lost": no usable receipt; "refused": ok = false.
OutcomesOf(c) ==
    CASE Actor(c) = "facing" ->
            {"rejected", "lost"} \cup (IF snap[c].kind = "chat" THEN {"chat"} ELSE {"good"})
      [] Actor(c) = "moderator" ->
            {"rejected", "lost", "invalid", "good"}
              \cup (IF snap[c].answers < MaxQuestions THEN {"question"} ELSE {})
      [] Actor(c) = "worker" ->
            {"rejected", "lost", "good", "refused"}
              \cup (IF "worker" \in sent[c] THEN {} ELSE {"missing"})
      [] Actor(c) = "verifier" -> {"lost", "good", "refused"}
      [] Actor(c) = "reporter" -> {"rejected", "lost", "good"}

Hears(c) ==
    /\ pc[c] = "acting" /\ Turn(c)
    /\ \E o \in OutcomesOf(c) : res' = [res EXCEPT ![c] = o]
    /\ Goto(c, IF Actor(c) \in {"facing", "moderator"} THEN "heard" ELSE "settle")
    /\ UNCHANGED <<durable, maps, method, snap, sent, signals, out, called, counts>>

\* Mutant: a cancellation during an actor call forgets the actor's receipt
CancelAfterActorUnbilled(c) ==
    /\ pc[c] = "heard"
    /\ IF row.cancel THEN snap' = [snap EXCEPT ![c] = row] /\ Goto(c, "terminalize")
                     ELSE Goto(c, "settle") /\ UNCHANGED snap
    /\ UNCHANGED <<durable, maps, method, sent, res, signals, out, called, counts>>

Billed(c) ==
    IF res[c] = "lost" THEN [row EXCEPT !.unpriced = TRUE]
    ELSE [row EXCEPT !.receipts = @ \cup {KeyOf(snap[c])}, !.unpriced = FALSE]

\* after facing and moderator: re-read the issue, and keep the receipt if cancelled
CancelAfterActor(c) ==
    /\ pc[c] = "heard"
    /\ IF row.cancel
       THEN snap' = [snap EXCEPT ![c] = Billed(c)] /\ Goto(c, "terminalize")
       ELSE Goto(c, "settle") /\ UNCHANGED snap
    /\ UNCHANGED <<durable, maps, method, sent, res, signals, out, called, counts>>

Terminalize(c) ==
    /\ pc[c] = "terminalize"
    /\ SavesAndReports(c, [snap[c] EXCEPT !.state = "cancelled"], "throw")
    /\ UNCHANGED <<maps, method, sent, res, signals, called, counts>>

MarkUnknown(c) ==
    /\ pc[c] = "unknown"
    /\ SavesAndReports(c, [snap[c] EXCEPT !.state = "outcome_unknown"], "throw")
    /\ UNCHANGED <<maps, method, sent, res, signals, called, counts>>

Heard(c, actor, outcomes) ==
    /\ pc[c] = "settle" /\ snap[c].state \in InFlight
    /\ Actor(c) = actor /\ res[c] \in outcomes
Receipted(c, state) ==
    [snap[c] EXCEPT !.state = state, !.receipts = @ \cup {KeyOf(snap[c])}]

\* actorFailure, and the worker's own handling of a rejected or missing result
ActorFailure(c) ==
    /\ \E a \in Actors : Heard(c, a, {"rejected", "missing", "lost"})
    /\ \/ res[c] = "lost" /\ Goto(c, "unknown") /\ UNCHANGED <<durable, snap, out>>
       \/ res[c] = "rejected" /\ SavesAndReports(c, Receipted(c, "failed"), "unknown")
       \/ /\ res[c] = "missing"
          /\ SavesAndReports(c, [snap[c] EXCEPT !.state = "outcome_unknown"], "unknown")
    /\ UNCHANGED <<maps, method, sent, res, signals, called, counts>>

SettleFacing(c) ==
    /\ Heard(c, "facing", {"good", "chat"})
    /\ IF res[c] = "chat" THEN SavesAndReturns(c, Receipted(c, "completed"), "chat")
                          ELSE Saves(c, Receipted(c, "classified"), "stages", "throw")
    /\ UNCHANGED <<maps, method, sent, res, signals, called, counts>>

SettleModerator(c) ==
    /\ Heard(c, "moderator", {"good", "question", "invalid"})
    /\ \/ res[c] = "good" /\ Saves(c, Receipted(c, "dispatch_ready"), "stages", "throw")
       \/ res[c] = "question" /\ Saves(c, Receipted(c, "awaiting_user"), "stages", "throw")
       \/ res[c] = "invalid" /\ SavesAndReports(c, Receipted(c, "failed"), "throw")
    /\ UNCHANGED <<maps, method, sent, res, signals, called, counts>>

SettleWorker(c) ==
    /\ Heard(c, "worker", {"good", "refused"})
    /\ IF res[c] = "good"
       THEN /\ Saves(c, [Receipted(c, "verifying") EXCEPT !.worker = "ok"], "stages", "unknown")
            /\ sent' = [sent EXCEPT ![c] = @ \cup {"verifier"}]
       ELSE /\ Saves(c, [Receipted(c, "reporting") EXCEPT !.worker = "failed"], "stages", "unknown")
            /\ UNCHANGED sent
    /\ UNCHANGED <<maps, method, res, signals, called, counts>>

SettleVerifier(c) ==
    /\ Heard(c, "verifier", {"good", "refused"})
    /\ Saves(c, [Receipted(c, "reporting") EXCEPT !.verified = IF res[c] = "good" THEN "ok" ELSE "failed"],
             "stages", "unknown")
    /\ UNCHANGED <<maps, method, sent, res, signals, called, counts>>

TerminalVerdict(s) == s.verified       \* mutant: the verdict becomes the state
TerminalOf(s) == IF s.worker = "ok" /\ s.verified = "ok" THEN "completed" ELSE "failed"

SettleReporter(c) ==
    /\ Heard(c, "reporter", {"good"})
    /\ SavesAndReturns(c, Receipted(c, TerminalOf(snap[c])), TerminalOf(snap[c]))
    /\ UNCHANGED <<maps, method, sent, res, signals, called, counts>>

-----------------------------------------------------------------------------
(* The environment *)

CallerAborts(c) ==
    /\ c \in Aborters /\ ~outer[c] /\ Turn(c)
    /\ pc[c] \notin {"idle", "done", "dead"}
    /\ outer' = [outer EXCEPT ![c] = TRUE]
    /\ UNCHANGED <<durable, maps, pc, method, snap, sent, res, inner, lost, out, called, counts>>

\* the owner stalls longer than its lease, or is gone
Lapse ==
    /\ claim.live
    /\ \/ pc[claim.owner] = "dead" /\ UNCHANGED lapses
       \/ pc[claim.owner] # "dead" /\ lapses < MaxLapses /\ lapses' = lapses + 1
    /\ claim' = [claim EXCEPT !.live = FALSE]
    /\ UNCHANGED <<row, writer, maps, pc, method, snap, sent, res, signals, out, called, crashes>>

Crash(p) ==
    /\ crashes < MaxCrashes
    /\ crashes' = crashes + 1
    /\ pc' = [c \in Calls |-> IF ProcOf[c] = p /\ pc[c] \notin {"idle", "done"} THEN "dead" ELSE pc[c]]
    /\ ownerOf' = [ownerOf EXCEPT ![p] = NoCall] /\ ctrlOf' = [ctrlOf EXCEPT ![p] = NoCall]
    /\ UNCHANGED <<durable, method, snap, sent, res, signals, out, called, lapses>>

-----------------------------------------------------------------------------
\* what the event loop does by itself once the call is made
Proceeds(c) ==
    \/ Look(c) \/ Acquire(c) \/ Wake(c) \/ CheckQuestion(c) \/ Answer(c) \/ Begin(c)
    \/ Report(c) \/ SeeCancellation(c) \/ Dispatch(c) \/ DispatchAborted(c) \/ Invoke(c)
    \/ CancelAfterActor(c) \/ Terminalize(c) \/ MarkUnknown(c) \/ ActorFailure(c)
    \/ SettleFacing(c) \/ SettleModerator(c) \/ SettleWorker(c) \/ SettleVerifier(c)
    \/ SettleReporter(c) \/ Close(c)

Next ==
    \/ \E c \in Calls : \/ Enter(c) \/ Cancel(c) \/ Proceeds(c) \/ Hears(c)
                        \/ Heartbeat(c) \/ CallerAborts(c)
    \/ Lapse
    \/ \E p \in Processes : Crash(p)

Spec == Init /\ [][Next]_vars

\* JavaScript continues what it resumed, timers fire, an actor call settles (its
\* port takes the abort signal), and the lease of a dead owner runs out.
Fairness ==
    /\ \A c \in Calls : /\ WF_vars(Proceeds(c)) /\ SF_vars(Hears(c))
                        /\ WF_vars(Enter(c)) /\ WF_vars(Cancel(c))
    /\ WF_vars(Lapse /\ pc[claim.owner] = "dead")

LiveSpec == Spec /\ Fairness

-----------------------------------------------------------------------------
(* Properties *)

\* Once a cancellation is on record the worker has not been and will never be
\* executed, and the issue can only end cancelled, failed or with an unknown
\* outcome, never completed (FR-ORCH-010).
CancelPreventsWorker ==
    row.cancel => /\ WorkerKey \notin called
                  /\ row.state \notin AfterDispatch \cup {"completed"}

\* A completed work issue had its worker succeed and a separate verification of
\* that result accepted, whichever calls and processes carried it there
\* (FR-ORCH-006).
CompletedIsVerified ==
    row.kind = "work" /\ row.state = "completed" =>
        row.worker = "ok" /\ row.verified = "ok" /\ <<"verifier", 0>> \in called

\* A report whose cost is stated as measured covers every actor that was ever
\* called: a lost receipt forces "outcome_unknown" or an unavailable cost
\* (FR-ORCH-009).
CostCoversCalls ==
    row.state \in {"completed", "failed", "cancelled"} /\ ~row.unpriced => called \subseteq row.receipts

\* A call that reports a terminal outcome reports the persisted one.
ReportIsPersisted ==
    \A c \in Calls : pc[c] = "done" /\ out[c] \in Terminal => row.state = out[c]

\* The three together: what a finished call says of its issue is verified, paid
\* for and on record.
ReportIsGrounded == CompletedIsVerified /\ CostCoversCalls /\ ReportIsPersisted

\* A chat reply is handed out only for an issue that is completed.
ChatIsPersisted ==
    \A c \in Calls : pc[c] = "done" /\ out[c] = "chat" => row.state = "completed"

\* A report has one of the states of IssueReport: a settled issue, a question
\* for the user, or a chat reply.
ReportIsSettled ==
    \A c \in Calls : pc[c] = "done" => out[c] \in Terminal \cup {"awaiting_user", "chat", "error"}

\* A terminal snapshot never changes again.
TerminalIsFinal == [][row.state \in Terminal => row' = row]_vars

\* No actor is called twice under one idempotency key, however often the issue is
\* resumed after crashes and lost claims; recovering the worker is not a call.
CallsAnew(c) ==
    pc[c] = "stages" /\ pc'[c] = "acting" /\ (Actor(c) = "worker" => "worker" \in sent[c])
CalledOnce == [][\A c \in Calls : CallsAnew(c) => KeyOf(snap[c]) \notin called]_vars

\* While a live claim exists, only calls of its owner's process advance the issue
\* (#executionOwners, which save reads, is keyed by the issue alone); anybody may
\* record a cancellation.
Advances == row'.state # row.state \/ row'.receipts # row.receipts
Fenced == [][Advances /\ claim.live => ProcOf[writer'] = ProcOf[claim.owner]]_vars

\* While a live claim exists, only the very call that holds it advances the issue.
OwnerFenced == [][Advances /\ claim.live => writer' = claim.owner]_vars

\* A call that knows its claim is lost does not advance the issue any more.
LostNeverSaves == [][Advances => ~lost[writer']]_vars

\* Every call returns or dies with its process.
EveryCallReturns == <>(\A c \in Calls : pc[c] \in {"done", "dead"})

\* Without lapses, a cancellation settles the issue unless its caller's process dies.
CancellationSettles ==
    \A c \in {d \in Calls : MethodOf[d] = "cancel"} :
        (row.cancel /\ pc[c] = "claiming") ~> (Final \/ pc[c] = "dead" \/ lapses > 0)

\* The two together.
CallsSettle == EveryCallReturns /\ CancellationSettles
=============================================================================
