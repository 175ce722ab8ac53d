------------------------------ MODULE CodingJobs ------------------------------
(* Coding jobs: CodingJobService over its durable records, the runner that    *)
(* drives one sub-agent session per job, the leases on worktrees and on the   *)
(* selected workspace, and the course service that shows a job's lifecycle in *)
(* the channel of the command that asked for it.                              *)
(*                                                                            *)
(* The Agent is one process.  A handler runs to its end before another one    *)
(* begins; only a crash may come between two saves of start().  A result of   *)
(* the runner and the microtask that delivers it are one step: nothing but    *)
(* other microtasks runs between them.  The session, the student at the       *)
(* repository and the Discord runtime are external.                           *)
EXTENDS Naturals, Sequences, SequencesExt

CONSTANTS
    Jobs,
    NoJob,
    MaxFaults    \* bound: status messages not delivered, interventions of the
                 \* student, and crashes

ASSUME JobAssumption == NoJob \notin Jobs
ASSUME BoundAssumption == MaxFaults \in Nat

VARIABLES
    isolated,    \* the jobs asked for with a worktree of their own; the others are
                 \* course jobs on the selected workspace
    record,      \* the durable job records
    asked,       \* the ids start() has used up
    starting,    \* the job whose start() is on the stack
    lease,       \* jobs that hold their lease: a file, or an entry of the leases map
    before,      \* the HEAD a course job's lease has seen
    active,      \* CodingJobService.#active
    session, deadline, finished, cancelling,  \* each runner, and the job's user cancel()
    tree,        \* the selected repository: its HEAD, and whether it has changes
    phase,       \* of the process: "up", or "down" until every record is recovered
    chains, tail, pending, timers, reconciliation,   \* JeonjuDiscordCourseService
    shown,       \* the messages in the channel; one of a kind (durable dedupe)
    applied, retained, reported,     \* history, see TypeOK
    faults

vars == <<isolated, record, asked, starting, lease, before, active, session, deadline,
          finished, cancelling, tree, phase, chains, tail, pending, timers,
          reconciliation, shown, applied, retained, reported, faults>>
job == <<isolated, record, lease, active, tree, applied, retained>>
runner == <<session, deadline, finished, cancelling>>
status == <<tail, pending, timers, reconciliation, shown>>

-----------------------------------------------------------------------------
(* Records *)

Course == Jobs \ isolated

Terminal == {"cancelled", "completed", "failed"}
Live == {"queued", "running", "cancelling"}
JobState == {"none"} \cup Live \cup Terminal

\* codingJobCourseLifecycleState
CourseState == {"received", "running", "completed", "failed"}
LifecycleOf(state) ==
    CASE state = "queued" -> "received"
      [] state = "running" -> "running"
      [] state = "completed" -> "completed"
      [] OTHER -> "failed"

Slots == 0 .. MaxFaults

TypeOK ==
    /\ isolated \subseteq Jobs /\ record \in [Jobs -> JobState]
    /\ asked \subseteq Jobs /\ lease \subseteq Jobs /\ active \subseteq Jobs
    /\ starting \in Jobs \cup {NoJob}
    /\ before \in [Jobs -> Nat]
    /\ session \in [Jobs -> {"none", "open", "over"}]
    /\ deadline \in [Jobs -> {"off", "armed", "confirming"}]
    /\ finished \in [Jobs -> BOOLEAN] /\ cancelling \in [Jobs -> BOOLEAN]
    /\ tree \in [head : Nat, dirty : BOOLEAN]
    /\ phase \in {"up", "down"}
    /\ chains \in [Jobs -> [Slots -> Seq(CourseState)]] /\ tail \in [Jobs -> Slots]
    /\ pending \in [Jobs -> CourseState \cup {"none"}] /\ timers \in [Jobs -> Slots]
    /\ reconciliation \in [Jobs -> SUBSET CourseState] /\ shown \in [Jobs -> Seq(CourseState)]
    /\ applied \in [Jobs -> {"no", "written", "verified"}]   \* its proposal
    /\ retained \subseteq Jobs     \* settled without a confirmed cancellation
    /\ reported \in [Jobs -> Seq(CourseState)]               \* by the service
    /\ faults \in 0 .. MaxFaults

Init ==
    /\ isolated \in SUBSET Jobs
    /\ record = [j \in Jobs |-> "none"] /\ asked = {} /\ starting = NoJob
    /\ lease = {} /\ active = {} /\ before = [j \in Jobs |-> 0]
    /\ session = [j \in Jobs |-> "none"] /\ deadline = [j \in Jobs |-> "off"]
    /\ finished = [j \in Jobs |-> FALSE] /\ cancelling = [j \in Jobs |-> FALSE]
    /\ tree = [head |-> 0, dirty |-> FALSE] /\ phase = "up"
    /\ chains = [j \in Jobs |-> [n \in Slots |-> <<>>]] /\ tail = [j \in Jobs |-> 0]
    /\ pending = [j \in Jobs |-> "none"] /\ timers = [j \in Jobs |-> 0]
    /\ reconciliation = [j \in Jobs |-> {}] /\ shown = [j \in Jobs |-> <<>>]
    /\ applied = [j \in Jobs |-> "no"] /\ retained = {}
    /\ reported = [j \in Jobs |-> <<>>]
    /\ faults = 0

\* No handler is running.
Idle == phase = "up" /\ starting = NoJob

-----------------------------------------------------------------------------
(* The lifecycle messages of a course job *)

\* #enqueue: behind what the job's last chain still has to send
Enqueued(j, state) == [chains EXCEPT ![j][tail[j]] = Append(@, state)]

\* #reportCourseLifecycle
Reports(j, state) ==
    IF j \in isolated THEN UNCHANGED <<chains, reported>>
    ELSE /\ chains' = Enqueued(j, LifecycleOf(state))
         /\ reported' = [reported EXCEPT ![j] = Append(@, LifecycleOf(state))]

\* The head of a chain has been sent: shown, given up for good, or to be tried again.
Sent(j, n) ==
    /\ Idle /\ chains[j][n] # <<>>
    /\ chains' = [chains EXCEPT ![j][n] = Tail(@)]
    /\ LET state == Head(chains[j][n]) IN
       \/ /\ pending' = [pending EXCEPT ![j] = "none"]
          /\ reconciliation' = [reconciliation EXCEPT ![j] = @ \ {state}]
          /\ shown' = [shown EXCEPT ![j] = IF Contains(@, state) THEN @ ELSE Append(@, state)]
          /\ UNCHANGED <<timers, faults>>
       \/ /\ faults < MaxFaults /\ faults' = faults + 1
          /\ UNCHANGED shown
          /\ \/ /\ pending' = [pending EXCEPT ![j] = "none"]
                /\ reconciliation' = [reconciliation EXCEPT ![j] = @ \cup {state}]
                /\ UNCHANGED timers
             \/ /\ pending' = [pending EXCEPT ![j] = state]
                /\ timers' = [timers EXCEPT ![j] = @ + 1]
                /\ UNCHANGED reconciliation
    /\ UNCHANGED <<job, asked, starting, before, runner, phase, tail, reported>>

\* #scheduleRetry's timer: what is pending starts a chain of its own.
RetryFires(j) ==
    /\ Idle /\ timers[j] > 0
    /\ timers' = [timers EXCEPT ![j] = @ - 1]
    /\ tail' = [tail EXCEPT ![j] = @ + 1]
    /\ chains' = IF pending[j] = "none" THEN chains
                 ELSE [chains EXCEPT ![j][tail[j] + 1] = Append(@, pending[j])]
    /\ UNCHANGED <<job, asked, starting, before, runner, phase, pending, reconciliation, shown, reported, faults>>

-----------------------------------------------------------------------------
(* The leases, the proposal and the end of a job *)

\* checkJeonjuWorkspaceStart
Clean == ~tree.dirty

\* prepare(): a course job wants the clean repository for itself.
CanPrepare == Clean /\ lease \cap Course = {}

\* apply() needs the repository as the lease has seen it, and clean.
CanApply(j) == j \in lease /\ Clean /\ tree.head = before[j]

\* verify(): the history, the remote, the files and their contract, looked at
\* after the writing, which may itself have failed half way.
Verdicts == {[ok |-> FALSE, applied |-> "written"], [ok |-> TRUE, applied |-> "verified"]}

\* Whether the result stands, and what became of the proposal
ApplyOutcomes(j) ==
    {[ok |-> FALSE, applied |-> "no"]} \cup (IF CanApply(j) THEN Verdicts ELSE {})

\* The proposal is applied before #terminal looks at a cancellation.
Outcomes(j, ok) ==
    IF ok /\ j \in Course THEN ApplyOutcomes(j) ELSE {[ok |-> ok, applied |-> "no"]}

\* Mutant: a late success overtakes the cancellation
EndingIgnoringCancel(state, ok) == IF ok THEN "completed" ELSE "failed"

Ending(state, ok) ==
    IF state = "cancelling" THEN "cancelled" ELSE IF ok THEN "completed" ELSE "failed"

\* Mutant: #terminal settles a job again
SettleAgain(j, ok, keep) ==
    /\ record' = [record EXCEPT ![j] = Ending(@, ok)]
    /\ Reports(j, record'[j])
    /\ active' = active \ {j} /\ lease' = IF keep THEN lease ELSE lease \ {j}
    /\ UNCHANGED <<isolated, applied, tree, retained>>

\* #terminal
Settle(j, ok, keep) ==
    IF record[j] \in Terminal THEN UNCHANGED <<job, chains, reported>>
    ELSE \E o \in Outcomes(j, ok) :
        /\ record' = [record EXCEPT ![j] = Ending(@, o.ok)] /\ UNCHANGED isolated
        /\ applied' = [applied EXCEPT ![j] = o.applied]
        /\ tree' = IF o.applied = "no" THEN tree ELSE [tree EXCEPT !.dirty = TRUE]
        /\ Reports(j, record'[j])
        /\ active' = active \ {j}
        /\ lease' = IF keep THEN lease ELSE lease \ {j}
        /\ retained' = IF keep THEN retained \cup {j} ELSE retained

-----------------------------------------------------------------------------
(* start() *)

\* A lease, then the queued record.
Start(j) ==
    /\ Idle /\ j \notin asked
    /\ asked' = asked \cup {j}
    /\ j \in Course => CanPrepare
    /\ starting' = j
    /\ lease' = lease \cup {j}
    /\ before' = IF j \in Course THEN [before EXCEPT ![j] = tree.head] ELSE before
    /\ record' = [record EXCEPT ![j] = "queued"]
    /\ Reports(j, "queued")
    /\ UNCHANGED <<isolated, active, tree, applied, retained, runner, phase, status, faults>>

\* No lease, no job: the command's failure is all there is to show.
Refuse(j) ==
    /\ Idle /\ j \in Course \ asked /\ ~CanPrepare
    /\ asked' = asked \cup {j}
    /\ chains' = Enqueued(j, "failed")
    /\ UNCHANGED <<job, starting, before, runner, phase, status, reported, faults>>

\* The record says running before the runner has the job.
SaveRunning(j) ==
    /\ phase = "up" /\ starting = j /\ record[j] = "queued"
    /\ active' = active \cup {j}
    /\ record' = [record EXCEPT ![j] = "running"]
    /\ Reports(j, "running")
    /\ UNCHANGED <<isolated, asked, starting, lease, before, runner, tree, phase, status,
                   applied, retained, faults>>

\* The runner spawns its session and arms the deadline.
RunnerStarts(j) ==
    /\ phase = "up" /\ starting = j /\ record[j] = "running"
    /\ starting' = NoJob
    /\ session' = [session EXCEPT ![j] = "open"]
    /\ deadline' = [deadline EXCEPT ![j] = "armed"]
    /\ UNCHANGED <<job, asked, before, finished, cancelling, phase, chains, status,
                   reported, faults>>

\* ... or throws: the catch of start() fails the job.
RunnerThrows(j) ==
    /\ phase = "up" /\ starting = j /\ record[j] = "running"
    /\ starting' = NoJob
    /\ record' = [record EXCEPT ![j] = "failed"]
    /\ Reports(j, "failed")
    /\ active' = active \ {j} /\ lease' = lease \ {j}
    /\ UNCHANGED <<isolated, asked, before, runner, tree, phase, status, applied, retained, faults>>

-----------------------------------------------------------------------------
(* The runner *)

\* finish(): only its first result reaches the service.
Finish(j, ok, keep) ==
    /\ finished' = [finished EXCEPT ![j] = TRUE]
    /\ IF finished[j] THEN UNCHANGED <<job, chains, reported>> ELSE Settle(j, ok, keep)

Disarmed(j) == [deadline EXCEPT ![j] = IF @ = "armed" THEN "off" ELSE @]

\* The session ends, or its event stream breaks; a course job's end counts as a
\* success only with a proposal that parses.
SessionEnds(j) ==
    /\ Idle /\ session[j] = "open"
    /\ session' = [session EXCEPT ![j] = "over"]
    /\ deadline' = Disarmed(j)
    /\ \E ok \in BOOLEAN : Finish(j, ok, FALSE)
    /\ UNCHANGED <<asked, starting, before, cancelling, phase, status, faults>>

Deadline(j) ==
    /\ Idle /\ deadline[j] = "armed"
    /\ deadline' = [deadline EXCEPT ![j] = "confirming"]
    /\ UNCHANGED <<job, asked, starting, before, session, finished, cancelling, phase,
                   chains, status, reported, faults>>

\* The cancellation after the deadline is confirmed, or rejected or late: then
\* the lease is kept, for something may still run.
DeadlineSettles(j) ==
    /\ Idle /\ deadline[j] = "confirming"
    /\ deadline' = [deadline EXCEPT ![j] = "off"]
    /\ \E confirmed \in BOOLEAN : Finish(j, FALSE, ~confirmed)
    /\ UNCHANGED <<asked, starting, before, session, cancelling, phase, status, faults>>

-----------------------------------------------------------------------------
(* cancel() *)

\* Mutant: the user's cancellation stops the clock
CancelDisarming(j) ==
    /\ Idle /\ record[j] \in Live
    /\ record' = [record EXCEPT ![j] = "cancelling"]
    /\ cancelling' = [cancelling EXCEPT ![j] = TRUE]
    /\ deadline' = Disarmed(j)
    /\ UNCHANGED <<isolated, asked, starting, lease, before, active, session, finished,
                   tree, phase, chains, status, applied, retained, reported, faults>>

Cancel(j) ==
    /\ Idle /\ record[j] \in Live
    /\ record' = [record EXCEPT ![j] = "cancelling"]
    /\ cancelling' = [cancelling EXCEPT ![j] = TRUE]
    /\ UNCHANGED <<isolated, asked, starting, lease, before, active, session, deadline, finished,
                   tree, phase, chains, status, applied, retained, reported, faults>>

\* The session's cancel() resolves: the runner finishes, and cancel() settles the
\* job if that did not.
CancelConfirmed(j) ==
    /\ Idle /\ cancelling[j]
    /\ cancelling' = [cancelling EXCEPT ![j] = FALSE]
    /\ deadline' = Disarmed(j)
    /\ finished' = [finished EXCEPT ![j] = TRUE]
    /\ Settle(j, FALSE, FALSE)
    /\ UNCHANGED <<asked, starting, before, session, phase, status, faults>>

\* It rejects: the caller is told, the job stays as it is.
CancelRejected(j) ==
    /\ Idle /\ cancelling[j]
    /\ cancelling' = [cancelling EXCEPT ![j] = FALSE]
    /\ UNCHANGED <<job, asked, starting, before, session, deadline, finished, phase,
                   chains, status, reported, faults>>

-----------------------------------------------------------------------------
(* Crash and restart *)

\* What was in memory is gone: also the leases of course jobs.
Crash ==
    /\ faults < MaxFaults /\ faults' = faults + 1
    /\ phase' = "down" /\ starting' = NoJob /\ active' = {}
    /\ lease' = lease \cap isolated
    /\ session' = [j \in Jobs |-> "none"] /\ deadline' = [j \in Jobs |-> "off"]
    /\ finished' = [j \in Jobs |-> FALSE] /\ cancelling' = [j \in Jobs |-> FALSE]
    /\ chains' = [j \in Jobs |-> [n \in Slots |-> <<>>]] /\ tail' = [j \in Jobs |-> 0]
    /\ pending' = [j \in Jobs |-> "none"] /\ timers' = [j \in Jobs |-> 0]
    /\ reconciliation' = [j \in Jobs |-> {}]
    /\ UNCHANGED <<isolated, record, asked, before, tree, shown, applied, retained, reported>>

\* #recoverInterruptedJobs: a lease file that is not the job's, or cannot be
\* removed, is left.  No course service listens yet.
Recover(j) ==
    /\ phase = "down" /\ record[j] \in Live
    /\ record' = [record EXCEPT ![j] = "failed"]
    /\ \E recovered \in BOOLEAN :
        /\ j \in Course => recovered
        /\ lease' = IF recovered THEN lease \ {j} ELSE lease
        /\ retained' = IF recovered THEN retained ELSE retained \cup {j}
    /\ UNCHANGED <<isolated, asked, starting, before, active, runner, tree, phase, chains, status,
                   applied, reported, faults>>

\* The process is up when all records are terminal; restore() sends the state of
\* every course job again.
Boot ==
    /\ phase = "down" /\ \A j \in Jobs : record[j] \notin Live
    /\ phase' = "up"
    /\ chains' = [j \in Jobs |-> IF j \in isolated \/ record[j] = "none" THEN chains[j]
                                 ELSE [chains[j] EXCEPT ![0] = <<LifecycleOf(record[j])>>]]
    /\ UNCHANGED <<job, asked, starting, before, runner, status, reported, faults>>

\* The student edits, discards or commits, at any time.
Touch ==
    /\ faults < MaxFaults /\ faults' = faults + 1
    /\ tree' \in {[tree EXCEPT !.dirty = ~@], [head |-> tree.head + 1, dirty |-> FALSE]}
    /\ UNCHANGED <<isolated, record, asked, starting, lease, before, active, runner, phase, chains,
                   status, applied, retained, reported>>

-----------------------------------------------------------------------------
Next ==
    \/ \E j \in Jobs :
        \/ Start(j) \/ Refuse(j) \/ SaveRunning(j) \/ RunnerStarts(j) \/ RunnerThrows(j)
        \/ SessionEnds(j) \/ Deadline(j) \/ DeadlineSettles(j) \/ Recover(j)
        \/ Cancel(j) \/ CancelConfirmed(j) \/ CancelRejected(j)
        \/ RetryFires(j) \/ \E n \in Slots : Sent(j, n)
    \/ Crash \/ Boot \/ Touch

Spec == Init /\ [][Next]_vars

-----------------------------------------------------------------------------
(* Properties *)

\* While the process is up, every live job has its controller and its lease, and
\* its runner has not finished and still watches the clock: nothing can leave it
\* running for ever.  A job that has ended has no controller, and keeps its lease
\* only when nobody knows that its session has stopped.
LeasesFollowJobs ==
    /\ TypeOK
    /\ \A j \in Jobs :
        /\ phase = "up" /\ record[j] \in Live =>
            /\ j \in lease
            /\ j \in active <=> record[j] # "queued"
            /\ starting # j => ~finished[j] /\ deadline[j] # "off"
        /\ record[j] \in Terminal => j \notin active /\ (j \in lease => j \in retained)
    /\ \A j, k \in lease \cap Course : j = k

\* A record that has ended never changes again, and a cancelled job never ends
\* completed, whoever settles it first: the user, the session, the deadline or
\* the next process (FR-CW-4, FR-JEONJU-5).
JobEndsOnce ==
    [][\A j \in Jobs :
        /\ record[j] \in Terminal => record'[j] = record[j]
        /\ record[j] = "cancelling" => record'[j] \in {"cancelling", "cancelled", "failed"}]_vars

\* What the channel was told, is being told or will be told of a job is true: it
\* is completed only when its proposal stands verified in the record's favour, and
\* failed only when it ended so or never was; the service reported every durable
\* transition at most once, in order (FR-JEONJU-5, NFR-JEONJU-1).
Told(j) ==
    (UNION {Range(chains[j][n]) : n \in Slots}) \cup Range(shown[j])
        \cup reconciliation[j] \cup {pending[j]}

ChannelIsHonest ==
    \A j \in Course :
        /\ "completed" \in Told(j) => record[j] = "completed"
        /\ record[j] = "completed" => applied[j] = "verified"
        /\ "failed" \in Told(j) => record[j] \in {"failed", "cancelled"} \/ (record[j] = "none" /\ j \in asked)
        /\ IsPrefix(reported[j], <<"received", "running", LifecycleOf(record[j])>>)

\* Refuted: two retry timers make two chains, and an older state is shown after a
\* newer one.
Rank(state) == CASE state = "received" -> 1 [] state = "running" -> 2 [] OTHER -> 3
ShownInOrder ==
    \A j \in Jobs : \A a, b \in DOMAIN shown[j] :
        a < b => Rank(shown[j][a]) < Rank(shown[j][b])

\* Refuted: a late success of an older message forgets that the last one waits for
\* its retry, and the channel never hears how the job ended.
EndIsTold ==
    phase = "up" => \A j \in Course : record[j] \in Terminal => LifecycleOf(record[j]) \in Told(j)

\* Refuted: a cancelled job may have changed the repository.
CancelledLeavesNoTrace == \A j \in Jobs : record[j] = "cancelled" => applied[j] = "no"
=============================================================================
