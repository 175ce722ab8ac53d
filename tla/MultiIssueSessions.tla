-------------------------- MODULE MultiIssueSessions --------------------------
(***************************************************************************)
(* Several issues, each managed as a session: the database of sessions,    *)
(* its scheduler lease, and the manager of each Agent process, whose pump  *)
(* admits queued sessions and executes them through the single-issue       *)
(* orchestrator.  The orchestrator is its contract (IssueLifecycle).       *)
(* A restarted process is another manager: owner ids are fresh.            *)
(***************************************************************************)
EXTENDS IssueLifecycle, Sequences, FiniteSets, SequencesExt

CONSTANTS
    Sessions, Managers,
    NoManager, NoAmount,
    Limit,           \* MultiIssueSessionManagerDeps.concurrency
    Threshold,       \* aggregateThresholdUsd, or NoAmount
    Reservations,    \* per session: what reservationUsd it may be submitted with
    Costs,           \* what a settled issue may have cost
    Rounded(_), Slack,   \* the double nearest to a number; what is lost by it
    Faults,          \* "lapse": the lease expires under a live owner; "renewal":
                     \* renewScheduler throws; "crash"; "error": a port call throws
    MaxFaults,       \* for reasons of its own
    Cancellable,     \* the sessions some user cancels
    MaxQuestions     \* questions asked per issue

ASSUME LimitAssumption == Limit \in Nat \ {0}
ASSUME SessionAssumption == IsFiniteSet(Sessions)
ASSUME AmountAssumption ==
    /\ NoAmount \notin Nat /\ Threshold \in Nat \cup {NoAmount} /\ Costs \subseteq Nat
    /\ Reservations \in [Sessions -> SUBSET (Nat \cup {NoAmount})]
\* amounts are counted in units so small that every double is a number of them;
\* a sum that is rounded to no more than the threshold was at most Slack above
ASSUME RoundingAssumption ==
    Threshold # NoAmount =>
        /\ Slack \in Nat
        /\ \A n \in 0..(2 * Threshold) :
              /\ Rounded(n) \in Nat
              /\ Rounded(n) =< Threshold => n =< Rounded(n) + Slack
ASSUME FaultAssumption == MaxFaults \in Nat
ASSUME ManagerAssumption == NoManager \notin Managers

VARIABLES
    sess,       \* the session rows
    order,      \* the submitted sessions by ready_sequence
    lease,      \* the scheduler lease
    issue,      \* each session's issue, as the orchestrator has persisted it
    started,    \* sessions whose issue some call has begun to work on
    pc, wanted, \* each manager's pump, and #pumpRequested
    claimLost,  \* ... its executions are aborted
    call,       \* the executions of the pump's "active" set
    faults

vars == <<sess, order, lease, issue, started, pc, wanted, claimLost, call,
          faults>>
rows == <<sess, order>>
issues == <<issue, started>>

-----------------------------------------------------------------------------
(* Rows and calls *)

Final == {"chat", "completed", "failed", "cancelled", "outcome_unknown"}

RowState == {"none", "queued", "running", "awaiting_user", "in_flight"} \cup Final
Amount == Nat \cup {NoAmount}

Row == [state : RowState,
        recovered : BOOLEAN,                   \* readyPriority = "recovery"
        reservation : Amount, cancel : BOOLEAN,
        answer : Nat,                          \* the question pendingAnswer answers, or 0
        question : Nat,                        \* the question of the last report
        owner : Managers \cup {NoManager},
        cost : Amount]          \* totalCost of the report

NotSubmitted == [state |-> "none", recovered |-> FALSE, reservation |-> NoAmount,
                 cancel |-> FALSE, answer |-> 0, question |-> 0, owner |-> NoManager, cost |-> 0]

\* an execution: what it asks of the orchestrator, then what was reported to it;
\* "resume" becomes "cancel" once the call knows of a cancellation
Call == [step : {"none", "claimed", "resume", "answer", "cancel", "reported"},
         state : RowState, question : Nat, cost : Amount]
Calling(step, question) == [step |-> step, state |-> "none", question |-> question, cost |-> 0]
NotCalled == Calling("none", 0)
Reported(state, question, cost) ==
    [step |-> "reported", state |-> state, question |-> question, cost |-> cost]
PortErrorCancels == Reported("cancelled", 0, NoAmount)     \* mutant
\* the report executeSession makes of a call that throws
PortError == Reported("outcome_unknown", 0, NoAmount)

TypeOK ==
    /\ sess \in [Sessions -> Row]
    /\ order \in Seq(Sessions) /\ IsInjective(order)
    /\ ToSet(order) = {s \in Sessions : sess[s].state # "none"}
    /\ lease \in [owner : Managers \cup {NoManager}, live : BOOLEAN]
    /\ issue \in [Sessions -> Issue]
    /\ started \subseteq Sessions
    /\ pc \in [Managers -> {"idle", "acquiring", "recovering", "claiming", "starting",
                            "racing", "woken", "leaving", "releasing", "dead"}]
    /\ wanted \in [Managers -> BOOLEAN] /\ claimLost \in [Managers -> BOOLEAN]
    /\ call \in [Managers -> [Sessions -> Call]]
    /\ faults \in 0..MaxFaults

Init ==
    /\ sess = [s \in Sessions |-> NotSubmitted] /\ order = <<>>
    /\ lease = [owner |-> NoManager, live |-> FALSE]
    /\ issue = [s \in Sessions |-> NewIssue] /\ started = {}
    /\ pc = [m \in Managers |-> "idle"] /\ wanted = [m \in Managers |-> FALSE]
    /\ claimLost = [m \in Managers |-> FALSE]
    /\ call = [m \in Managers |-> [s \in Sessions |-> NotCalled]]
    /\ faults = 0

InState(state) == {s \in Sessions : sess[s].state = state}
Active(m) == {s \in Sessions : call[m][s].step # "none"}
Owned(m) == lease.owner = m /\ lease.live
\* parseSession rejects a row whose state is no session state, and so does list()
Readable == InState("in_flight") = {}

\* the elements of q that are in S, in their order (SelectSeq, written as a
\* recursive function so that its facts can be proved)
Only(q, S) ==
    LET only[n \in 0..Len(q)] ==
          IF n = 0 THEN <<>>
          ELSE IF q[n] \in S THEN Append(only[n - 1], q[n]) ELSE only[n - 1]
    IN only[Len(q)]

\* the queue: recoveries first, each class by ready_sequence
Recovered == {s \in InState("queued") : sess[s].recovered}
Queue == Only(order, Recovered) \o Only(order, InState("queued") \ Recovered)

MoveKeeping(S) == order \o Only(order, S)     \* mutant: queued twice
\* the sessions of S get the next ready_sequences, in list() order
MoveToEnd(S) == Only(order, Sessions \ S) \o Only(order, S)

\* m runs no synchronous code of a pump, so its event loop takes other work
Serving(m) == pc[m] \in {"idle", "racing", "woken"}
Fault(kind) == kind \in Faults /\ faults < MaxFaults /\ faults' = faults + 1
Goto(m, where) == pc' = [pc EXCEPT ![m] = where]

-----------------------------------------------------------------------------
(* Budget: sums of doubles, each code's in its own order *)

Metered == Threshold # NoAmount
Settled == UNION {InState(st) : st \in Final}

EvidenceAvailable ==
    /\ \A s \in Settled : sess[s].cost # NoAmount
    /\ \A s \in InState("running") : sess[s].reservation # NoAmount

\* an addition; past the threshold it only matters that the sum stays there
Plus(a, b) == IF a > Threshold \/ b > Threshold THEN a + b ELSE Rounded(a + b)

\* what a session counts for: its cost once it is settled, before that its reservation
Usd(s) == IF s \in Settled THEN sess[s].cost ELSE sess[s].reservation
\* the amounts of the sessions of q, added to what there is one after the other
Summed(start, q) ==
    LET sum[n \in 0..Len(q)] == IF n = 0 THEN start ELSE Plus(sum[n - 1], Usd(q[n]))
    IN sum[Len(q)]

CommittedRunning == Only(order, InState("running"))   \* mutant: settled costs forgotten
\* what claimReady adds up before it looks at the queue, in the order of list()
Committed == Only(order, Settled) \o Only(order, InState("running"))

\* claimReady: the first n sessions of the queue may be admitted together
WithinBudget(q, n) ==
    Metered => /\ EvidenceAvailable
               /\ \A i \in 1..n : sess[q[i]].reservation # NoAmount
               /\ Summed(0, Committed \o SubSeq(q, 1, n)) =< Threshold

CapacityIgnored == Limit                   \* mutant: running sessions are not counted
Capacity == Limit - Cardinality(InState("running"))

Admits(q, n) == n =< Capacity /\ WithinBudget(q, n)
\* claimReady stops at the first session that does not fit
Admitted == LET q == Queue IN {q[i] : i \in {k \in 1..Len(q) : \A n \in 1..k : Admits(q, n)}}

\* canAdmit of the head of the queue: from its reservation on, all others as they are
\* listed; the capacity is not considered
HeadFits ==
    /\ Queue # <<>>
    /\ Metered => /\ EvidenceAvailable /\ Usd(Head(Queue)) # NoAmount
                  /\ Summed(Usd(Head(Queue)), Only(order, Settled \cup InState("running"))) =< Threshold

-----------------------------------------------------------------------------
(* Commands.  autoPump, or the control loop of the composition, asks for a pump. *)

PumpRequested(m) ==
    IF pc[m] = "idle" THEN Goto(m, "acquiring") /\ UNCHANGED wanted
                      ELSE wanted' = [wanted EXCEPT ![m] = TRUE] /\ UNCHANGED pc

Pump(m) ==
    /\ Serving(m)
    /\ PumpRequested(m)
    /\ UNCHANGED <<rows, lease, issues, claimLost, call, faults>>

\* a replayed submission returns the row there is, and asks for a pump (Pump)
Submit(m, s) ==
    /\ Serving(m) /\ sess[s].state = "none"
    /\ \E r \in Reservations[s] :
          sess' = [sess EXCEPT ![s].state = "queued", ![s].reservation = r]
    /\ order' = Append(order, s)
    /\ PumpRequested(m)
    /\ UNCHANGED <<lease, issues, claimLost, call, faults>>

Answer(m, s) ==
    /\ Serving(m) /\ sess[s].state = "awaiting_user"
    /\ sess' = [sess EXCEPT ![s].state = "queued", ![s].recovered = FALSE,
                            ![s].answer = sess[s].question]
    /\ order' = MoveToEnd({s})
    /\ PumpRequested(m)
    /\ UNCHANGED <<lease, issues, claimLost, call, faults>>

\* what issues.cancel records, or refuses, before its first await
CancelsIssue(s) ==
    IF MayCancel(issue[s]) /\ ~issue[s].cancel
    THEN issue' = [issue EXCEPT ![s] = CancelRequested(issue[s])]
    ELSE UNCHANGED issue

CancelNeverNoOp(s) == sess[s].cancel        \* mutant: a settled session is cancelled too
CancelNoOp(s) == sess[s].state \in Final \/ sess[s].cancel
Requeues(s) == sess[s].state = "awaiting_user"

Cancel(m, s) ==
    /\ Serving(m) /\ s \in Cancellable /\ sess[s].state \notin {"none", "in_flight"}
    /\ IF CancelNoOp(s) THEN UNCHANGED rows
       ELSE IF Requeues(s)
            THEN /\ sess' = [sess EXCEPT ![s].cancel = TRUE, ![s].state = "queued",
                                         ![s].recovered = FALSE]
                 /\ order' = MoveToEnd({s})
            ELSE sess' = [sess EXCEPT ![s].cancel = TRUE] /\ UNCHANGED order
    /\ IF sess[s].state = "running" THEN CancelsIssue(s) ELSE UNCHANGED issue
    /\ call' = IF issue'[s] # issue[s] /\ call[m][s].step = "resume"
               THEN [call EXCEPT ![m][s] = Calling("cancel", 0)] ELSE call
    /\ PumpRequested(m)
    /\ UNCHANGED <<lease, started, claimLost, faults>>

-----------------------------------------------------------------------------
(* runPump *)

\* the pump's promise settles: finishPump
Finished(m) ==
    /\ Goto(m, IF wanted[m] THEN "acquiring" ELSE "idle")
    /\ wanted' = [wanted EXCEPT ![m] = FALSE]
    /\ claimLost' = [claimLost EXCEPT ![m] = FALSE]
    /\ call' = [call EXCEPT ![m] = [s \in Sessions |-> NotCalled]]

Takeable(m) == lease.owner \in {NoManager, m} \/ ~lease.live
Acquire(m) ==
    /\ pc[m] = "acquiring"
    /\ IF Takeable(m)
       THEN /\ lease' = [owner |-> m, live |-> TRUE] /\ Goto(m, "recovering")
            /\ UNCHANGED <<wanted, claimLost, call>>
       ELSE Finished(m) /\ UNCHANGED lease
    /\ UNCHANGED <<rows, issues, faults>>

\* the running sessions of other managers
Orphans(m) == {s \in InState("running") : sess[s].owner # m}
Recover(m) ==
    /\ pc[m] = "recovering"
    /\ IF Owned(m) /\ Readable
       THEN /\ sess' = [s \in Sessions |->
                          IF s \in Orphans(m)
                          THEN [sess[s] EXCEPT !.state = "queued", !.recovered = TRUE,
                                               !.owner = NoManager]
                          ELSE sess[s]]
            /\ order' = MoveToEnd(Orphans(m))
            /\ Goto(m, "claiming")
       ELSE Goto(m, "releasing") /\ UNCHANGED rows
    /\ UNCHANGED <<lease, issues, wanted, claimLost, call, faults>>

Claim(m) ==
    /\ pc[m] = "claiming"
    /\ LET claimed == IF Owned(m) /\ Readable THEN Admitted ELSE {}
       IN /\ sess' = [s \in Sessions |->
                        IF s \in claimed
                        THEN [sess[s] EXCEPT !.state = "running", !.owner = m] ELSE sess[s]]
          /\ call' = [call EXCEPT ![m] = [s \in Sessions |->
                        IF s \in claimed THEN Calling("claimed", 0) ELSE call[m][s]]]
          /\ Goto(m, CASE Owned(m) /\ ~Readable -> "releasing"
                       [] claimed # {} -> "starting"
                       [] claimed = {} /\ Active(m) # {} -> "racing"
                       [] OTHER -> "leaving")
    /\ UNCHANGED <<order, lease, issues, wanted, claimLost, faults>>

Asks(s) == IF sess[s].answer # 0 THEN Calling("answer", sess[s].answer) ELSE Calling("resume", 0)
\* executeSession up to its await: the latest row decides what is asked
Start(m, s) ==
    /\ pc[m] = "starting" /\ call[m][s].step = "claimed"
    /\ \/ /\ sess[s].cancel
          /\ CancelsIssue(s)
          /\ call' = [call EXCEPT ![m][s] =
                        IF issue[s].state = "working" THEN PortError ELSE Calling("cancel", 0)]
       \/ /\ ~sess[s].cancel
          /\ call' = [call EXCEPT ![m][s] = Asks(s)]
          /\ UNCHANGED issue
    /\ started' = started \cup {s}
    /\ Goto(m, IF \E t \in Sessions \ {s} : call[m][t].step = "claimed" THEN "starting"
                                                                          ELSE "racing")
    /\ UNCHANGED <<rows, lease, wanted, claimLost, faults>>

Race(m) == pc[m] \in {"racing", "woken"}

\* Mutant: aborted and stale executions settle too
\* the report reaches executeSession; an aborted or fenced execution drops it
Settles(m, s) ==
    IF /\ ~claimLost[m] /\ Owned(m)
       /\ sess[s].state = "running" /\ sess[s].owner = m   \* always so (ExecutionOwnsSession)
    THEN sess' = [sess EXCEPT ![s].state = call[m][s].state, ![s].cost = call[m][s].cost,
                              ![s].question = call[m][s].question, ![s].answer = 0,
                              ![s].owner = NoManager]
    ELSE UNCHANGED sess

Settle(m, s) ==
    /\ Race(m) /\ call[m][s].step = "reported"
    /\ Settles(m, s)
    /\ call' = [call EXCEPT ![m][s] = NotCalled]
    /\ Goto(m, "woken")
    /\ UNCHANGED <<order, lease, issues, wanted, claimLost, faults>>

\* the race is over
Wake(m) ==
    /\ pc[m] = "woken"
    /\ Goto(m, IF claimLost[m] THEN "releasing" ELSE "claiming")
    /\ UNCHANGED <<rows, lease, issues, wanted, claimLost, call, faults>>

\* releaseSchedulerIfIdle
StaysNever == FALSE                         \* mutant: released without a look at the queue
StaysBusy == HeadFits
Leave(m) ==
    /\ pc[m] = "leaving"
    /\ \/ /\ ~Owned(m)
          /\ Finished(m) /\ UNCHANGED lease
       \/ /\ Owned(m) /\ ~Readable
          /\ Goto(m, "releasing") /\ UNCHANGED <<lease, wanted, claimLost, call>>
       \/ /\ Owned(m) /\ Readable /\ StaysBusy
          /\ Goto(m, "claiming") /\ UNCHANGED <<lease, wanted, claimLost, call>>
       \/ /\ Owned(m) /\ Readable /\ ~StaysBusy
          /\ Finished(m) /\ lease' = [owner |-> NoManager, live |-> FALSE]
    /\ UNCHANGED <<rows, issues, faults>>

\* runPump's finally
Release(m) ==
    /\ pc[m] = "releasing"
    /\ lease' = IF lease.owner = m THEN [owner |-> NoManager, live |-> FALSE] ELSE lease
    /\ Finished(m)
    /\ UNCHANGED <<rows, issues, faults>>

\* the heartbeat of a pump that has lost the lease, or whose renewal throws
Heartbeat(m) ==
    /\ pc[m] = "racing" /\ ~claimLost[m]
    /\ \/ ~Owned(m) /\ UNCHANGED faults
       \/ Owned(m) /\ Fault("renewal")
    /\ claimLost' = [claimLost EXCEPT ![m] = TRUE]
    /\ UNCHANGED <<rows, lease, issues, pc, wanted, call>>

-----------------------------------------------------------------------------
(* The single-issue orchestrator *)

\* any call that has begun to work on an issue, an aborted one too
IssueAdvances(s) ==
    /\ s \in started
    /\ \E i \in Advances(issue[s]) :
          /\ i.state = "awaiting" => i.answers < MaxQuestions
          /\ issue' = [issue EXCEPT ![s] = i]
    /\ UNCHANGED <<rows, lease, started, pc, wanted, claimLost, call, faults>>

Asked(i) == i.answers + 1    \* the question an awaiting issue asks

\* answer() is accepted: what follows is what follows a resume
TakesAnswer(m, s) ==
    /\ Race(m) /\ call[m][s].step = "answer"
    /\ MayAnswer(issue[s]) /\ call[m][s].question = Asked(issue[s])
    /\ issue' = [issue EXCEPT ![s] = Answered(issue[s])]
    /\ call' = [call EXCEPT ![m][s] = Calling(IF issue[s].cancel THEN "cancel" ELSE "resume", 0)]
    /\ UNCHANGED <<rows, lease, started, pc, wanted, claimLost, faults>>

\* the reports the orchestrator may return from a call
ReportsOf(m, s) ==
    LET i == issue[s]
        c == call[m][s] IN
    IF i.state \in Ended
    THEN {Reported(i.state, 0, IF i.state = "outcome_unknown" THEN NoAmount ELSE cost) :
             cost \in Costs \cup {NoAmount}}
    ELSE CASE i.state = "awaiting" /\ c.step # "answer" /\ ~i.cancel ->
                {Reported("awaiting_user", Asked(i), 0)}
           [] c.step = "answer" /\ ~(MayAnswer(i) /\ c.question = Asked(i)) -> {PortError}
           \* a save overtaken by another process's cancellation: its caller gets a chat reply,
           \* or a row in flight
           [] c.step = "resume" /\ i.cancel /\ i.state = "open" ->
                {Reported(state, 0, NoAmount) : state \in {"chat", "in_flight"}}
           [] OTHER -> {}

Returns(m, s) ==
    /\ Race(m) /\ call[m][s].step \in {"resume", "answer", "cancel"}
    /\ \E r \in ReportsOf(m, s) : call' = [call EXCEPT ![m][s] = r]
    /\ UNCHANGED <<rows, lease, issues, pc, wanted, claimLost, faults>>

\* the call throws: because it is aborted, or for reasons of its own
Throws(m, s) ==
    /\ Race(m) /\ call[m][s].step \in {"resume", "answer", "cancel"}
    /\ \/ claimLost[m] /\ UNCHANGED faults
       \/ ~claimLost[m] /\ Fault("error")
    /\ call' = [call EXCEPT ![m][s] = PortError]
    /\ UNCHANGED <<rows, lease, issues, pc, wanted, claimLost>>

-----------------------------------------------------------------------------
(* The environment *)

\* the lease of a dead manager always expires; a live one may stall past its own
Lapse ==
    /\ lease.owner # NoManager /\ lease.live
    /\ \/ pc[lease.owner] = "dead" /\ UNCHANGED faults
       \/ pc[lease.owner] # "dead" /\ Fault("lapse")
    /\ lease' = [lease EXCEPT !.live = FALSE]
    /\ UNCHANGED <<rows, issues, pc, wanted, claimLost, call>>

Crash(m) ==
    /\ pc[m] # "dead" /\ Fault("crash")
    /\ Goto(m, "dead")
    /\ wanted' = [wanted EXCEPT ![m] = FALSE] /\ claimLost' = [claimLost EXCEPT ![m] = FALSE]
    /\ call' = [call EXCEPT ![m] = [s \in Sessions |-> NotCalled]]
    /\ UNCHANGED <<rows, lease, issues>>

PumpStep(m) ==
    \/ Acquire(m) \/ Recover(m) \/ Claim(m) \/ Wake(m) \/ Leave(m) \/ Release(m)
    \/ \E s \in Sessions : Start(m, s) \/ Settle(m, s)
PortStep(m, s) == TakesAnswer(m, s) \/ Returns(m, s)

Next ==
    \/ \E m \in Managers :
          \/ Pump(m) \/ PumpStep(m) \/ Heartbeat(m) \/ Crash(m)
          \/ \E s \in Sessions : \/ Submit(m, s) \/ Answer(m, s) \/ Cancel(m, s)
                                 \/ PortStep(m, s) \/ Throws(m, s)
    \/ \E s \in Sessions : IssueAdvances(s)
    \/ Lapse

Spec == Init /\ [][Next]_vars

(* Node always goes on with settled promises and synchronous code; the        *)
(* orchestrator's calls work on their issue, and return once they can.        *)
Fairness ==
    /\ \A m \in Managers : WF_vars(PumpStep(m))
    /\ \A m \in Managers, s \in Sessions : WF_vars(PortStep(m, s))
    /\ \A s \in Sessions : WF_vars(IssueAdvances(s))

FairSpec == Spec /\ Fairness

-----------------------------------------------------------------------------
(* Properties *)

\* The database never has more running sessions than the concurrency limit,
\* across managers, recoveries of dead owners and leaked slots (FR-MULTI-002).
BoundedConcurrency == Cardinality(InState("running")) =< Limit

\* Whoever holds a live lease and has not been told to abort owns every session
\* it executes, so that settle never throws for an ownership it has lost.
ExecutionOwnsSession ==
    \A m \in Managers, s \in Sessions :
        Owned(m) /\ ~claimLost[m] /\ s \in Active(m)
            => sess[s].state = "running" /\ sess[s].owner = m

\* The two together: a running row has a slot, and its executor owns it.
SlotsOwned == BoundedConcurrency /\ ExecutionOwnsSession

\* A session that says its issue completed, failed or was cancelled says what the
\* orchestrator has persisted for ever, also after recoveries and stale executions.
GroundedOutcome ==
    \A s \in Sessions : sess[s].state \in {"completed", "failed", "cancelled"}
                            => issue[s].state = sess[s].state

\* The question a session shows the user is the one its issue waits for, so an
\* answer to it is accepted; whoever else has worked on the issue meanwhile.
AwaitingIsAnswerable ==
    \A s \in Sessions : sess[s].state = "awaiting_user" /\ ~sess[s].cancel
        => issue[s].state = "awaiting" /\ sess[s].question = Asked(issue[s])

\* The two together: what a session shows is so.
OutcomesGrounded == GroundedOutcome /\ AwaitingIsAnswerable

\* A queued answer is not dropped: the row forgets it only when the issue has
\* taken it, unless the session ends cancelled, unknown or overtaken.
AnswerDelivered ==
    [][\A s \in Sessions :
          /\ sess[s].answer # 0 /\ sess'[s].answer = 0
          /\ sess'[s].state \in {"awaiting_user", "completed", "failed"}
          => issue[s].answers >= sess[s].answer]_vars

\* A settled session's row never changes again: no later command, recovery or
\* execution of another manager rewrites its outcome or its cost.
SettledIsFinal ==
    [][\A s \in Sessions : sess[s].state \in Final => sess'[s] = sess[s]]_vars

\* The two together: neither an answer nor an outcome is lost to a later command.
NothingRewritten == AnswerDelivered /\ SettledIsFinal

\* the exact amounts
Cost == [s \in Sessions |-> sess[s].cost]
Reserved == [s \in Sessions |-> sess[s].reservation]

\* While no session costs more than it reserved, settled costs and running
\* reservations together exceed the threshold by no more than the additions have
\* rounded away (FR-MULTI-008): whoever admits, recovers and settles in between,
\* and although a settled cost replaces its reservation in the sum.
BudgetKept ==
    Metered /\ (\A s \in Settled : sess[s].cost \in Nat /\ sess[s].reservation \in Nat
                                     /\ sess[s].cost =< sess[s].reservation)
        => SumFunctionOnSet(Cost, Settled) + SumFunctionOnSet(Reserved, InState("running"))
             =< Threshold + Slack * Cardinality(Sessions)

\* A queued session is admitted in the end: the atomic release leaves no queued
\* session behind a pump that found the lease taken.
QueuedIsServed == \A s \in Sessions : sess[s].state = "queued" ~> sess[s].state # "queued"

-----------------------------------------------------------------------------
(* What documents and tests say, and the code does otherwise *)

\* "A settled execution always releases its scheduler slot ... including ...
\* process-local abort" (FR-MULTI-007): past recovery, the scheduler executes
\* every session that takes a slot.
SlotsAreExecuted ==
    \A s \in InState("running") : LET m == sess[s].owner IN
        Owned(m) /\ pc[m] \in {"claiming", "racing"} => s \in Active(m)

\* "terminal retains the exact issue outcome": a session ends unknown only with
\* an issue that has ended.
OutcomeIsRetained ==
    \A s \in Sessions : sess[s].state = "outcome_unknown" => issue[s].state \in Ended

\* "requeues an awaiting session for isolated cancellation": a session with a
\* cancellation on record does not wait for its user.
CancelledIsRequeued == \A s \in Sessions : sess[s].cancel => sess[s].state # "awaiting_user"

\* a row's state is a ManagedSessionState, so that list() can read it
RowsReadable == Readable

\* "work-conserving bounded FIFO": a pump does not wait while a slot is free and
\* the head of the queue fits.
WorkConserving ==
    \A m \in Managers : pc[m] = "racing" /\ Owned(m) /\ Readable /\ Capacity > 0 => ~HeadFits

\* portfolio()'s verdict on the head of the queue, a third sum of the same amounts
BudgetBlocked ==
    /\ Metered /\ Queue # <<>>
    /\ \/ ~EvidenceAvailable \/ Usd(Head(Queue)) = NoAmount
       \/ Plus(Plus(Summed(0, Only(order, Settled)), Summed(0, Only(order, InState("running")))),
               Usd(Head(Queue))) > Threshold

\* "budgetBlocked" of a portfolio tells what the scheduler does, and a pump that
\* keeps its lease for the head of the queue can admit it: not so when a sum comes
\* out above the threshold in one order and not in another.
SumsAgree ==
    Queue # <<>> => LET fits == WithinBudget(Queue, 1) IN (fits <=> ~BudgetBlocked) /\ (fits <=> HeadFits)
=============================================================================
