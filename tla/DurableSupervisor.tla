------------------------- MODULE DurableSupervisor -------------------------
(***************************************************************************)
(* The durable issue supervisor: the SQLite store of runs, attempts,       *)
(* leases and outbox commands (sqlite-durable-supervisor-store.ts), the    *)
(* pump that drains the outbox and the runtime that starts, ticks and      *)
(* stops the pump (app/durable-supervisor.ts).                             *)
(*                                                                         *)
(* Each store method is one BEGIN IMMEDIATE ... COMMIT and so one atomic   *)
(* step. Everything between two store calls (the awaited dispatch, the     *)
(* worker, the clock, a crash of the Agent, another pump) may interleave.  *)
(* The worker is external: it receives an execute command at least once    *)
(* and may report with that attempt's lease token at any time, or never.   *)
(***************************************************************************)
EXTENDS Integers, Sequences, FiniteSets

CONSTANTS
    Runs,               \* run ids the Agent may accept
    Starters,           \* concurrent calls of runtime.start()
    Ticker,             \* the periodic pump (safePump)
    LeaseMs,            \* worker lease, in clock ticks
    BaseRetryMs,        \* unit of the exponential backoff
    ReportIntervalMs,   \* distance of two progress reports
    MaxTime,            \* bound: the clock stops here
    MaxRestarts,        \* bound: restarts and calls of runtime.stop()
    MaxStoreFailures    \* bound: store calls that throw (busy, disk)

ASSUME TimingAssumption ==
    /\ LeaseMs \in Nat \ {0}
    /\ BaseRetryMs \in Nat \ {0}
    /\ ReportIntervalMs \in Nat \ {0}
    /\ MaxTime \in Nat
    /\ MaxRestarts \in Nat
    /\ MaxStoreFailures \in Nat

ASSUME PumpAssumption == Ticker \notin Starters

VARIABLES
    now,            \* the supervisor-owned clock
    runState,       \* supervisor_runs.state, "none" before the insert
    createdAt,      \* supervisor_runs.created_at
    nextReport,     \* supervisor_runs.next_report_at, 0 for NULL
    attempts,       \* supervisor_attempts of a run, in attempt_no order
    outbox,         \* supervisor_outbox: command -> row
    pc,             \* where each pump loop stands
    held,           \* the command whose dispatch a pump awaits, as a set
    timer,          \* the runtime owns a periodic timer
    wanted,         \* the host's last call was start() (history)
    delivered,      \* execute commands that reached the worker
    restarts, failures

stored == <<runState, createdAt, nextReport, attempts, outbox>>
process == <<pc, held, timer, wanted>>
vars == <<now, stored, process, delivered, restarts, failures>>

Pumps == Starters \cup {Ticker}

Command == [kind : {"execute", "progress_report"}, run : Runs, no : Nat]
Execute(r, n) == [kind |-> "execute", run |-> r, no |-> n]
Report(r, dueAt) == [kind |-> "progress_report", run |-> r, no |-> dueAt]

AttemptRow ==
    [state : {"queued", "running", "completed", "timed_out"},
     token : BOOLEAN,   \* lease_token is still set
     lease : Nat,       \* lease_expires_at, 0 for NULL
     retry : Nat]       \* next_retry_at, 0 for NULL

CommandRow == [state : {"pending", "dispatching", "acked"}, avail : Nat, tries : Nat]

TypeOK ==
    /\ now \in Nat
    /\ runState \in [Runs -> {"none", "running", "completed", "failed"}]
    /\ createdAt \in [Runs -> Nat]
    /\ nextReport \in [Runs -> Nat]
    /\ attempts \in [Runs -> Seq(AttemptRow)]
    /\ DOMAIN outbox \subseteq Command
    /\ outbox \in [DOMAIN outbox -> CommandRow]
    /\ pc \in [Pumps -> {"idle", "advance", "claim", "dispatch"}]
    /\ held \in [Pumps -> SUBSET Command]
    /\ timer \in BOOLEAN /\ wanted \in BOOLEAN
    /\ delivered \subseteq Command
    /\ restarts \in Nat /\ failures \in Nat

Init ==
    /\ now = 0
    /\ runState = [r \in Runs |-> "none"]
    /\ createdAt = [r \in Runs |-> 0]
    /\ nextReport = [r \in Runs |-> 0]
    /\ attempts = [r \in Runs |-> <<>>]
    /\ outbox = [c \in {} |-> [state |-> "pending", avail |-> 0, tries |-> 0]]
    /\ pc = [p \in Pumps |-> "idle"]
    /\ held = [p \in Pumps |-> {}]
    /\ timer = FALSE /\ wanted = FALSE
    /\ delivered = {}
    /\ restarts = 0 /\ failures = 0

-----------------------------------------------------------------------------
(* Rows and their updates *)

Doubling == <<1, 2, 4, 8, 16, 32, 64>>
\* baseRetryMs * 2 ** min(max(0, attempt - 1), 6)
RetryDelay(n) == BaseRetryMs * Doubling[IF n < 1 THEN 1 ELSE IF n > 7 THEN 7 ELSE n]

PendingAt(t) == [state |-> "pending", avail |-> t, tries |-> 0]
QueuedAttempt(t) ==
    [state |-> "queued", token |-> TRUE, lease |-> 0, retry |-> IF t > now THEN t ELSE 0]

\* INSERT (OR IGNORE) of new commands, each available at its own time
Inserted(ob, cmds, At(_)) ==
    [c \in DOMAIN ob \cup cmds |-> IF c \in DOMAIN ob THEN ob[c] ELSE PendingAt(At(c))]

\* Mutant: a state the table's CHECK does not know
TimedOutAsFailed(seq, ns) ==
    LET retryAt == now + RetryDelay(Len(seq))
    IN  Append([n \in 1..Len(seq) |->
                  IF n \in ns
                  THEN [state |-> "failed", token |-> FALSE, lease |-> 0, retry |-> retryAt]
                  ELSE seq[n]],
               QueuedAttempt(retryAt))

\* timeoutAttempt of the run's attempts numbered in ns, of which the newest is
\* one, and the queued attempt that replaces it
TimedOut(seq, ns) ==
    LET retryAt == now + RetryDelay(Len(seq))
    IN  Append([n \in 1..Len(seq) |->
                  IF n \in ns
                  THEN [state |-> "timed_out", token |-> FALSE, lease |-> 0, retry |-> retryAt]
                  ELSE seq[n]],
               QueuedAttempt(retryAt))

\* Mutant: the retry reuses the old command id
RetryCommandReused(r) == Execute(r, Len(attempts[r]))
RetryCommand(r) == Execute(r, Len(attempts[r]) + 1)
RetryAt(r) == now + RetryDelay(Len(attempts[r]))

Lapsed(r) == {n \in DOMAIN attempts[r] : /\ attempts[r][n].state = "running"
                                         /\ attempts[r][n].lease # 0
                                         /\ attempts[r][n].lease <= now}

-----------------------------------------------------------------------------
(* Time *)

ReportDue(r) == runState[r] = "running" /\ nextReport[r] # 0 /\ nextReport[r] <= now
DueTimesNoCatchUp(r) == {nextReport[r]}   \* mutant: one report per advanceTime
DueTimes(r) == {t \in nextReport[r]..now : (t - nextReport[r]) % ReportIntervalMs = 0}
NextBoundary(r) ==
    nextReport[r] + ReportIntervalMs * (((now - nextReport[r]) \div ReportIntervalMs) + 1)

LapsedRuns == {r \in Runs : runState[r] = "running" /\ Lapsed(r) # {}}
ReportRuns == {r \in Runs : ReportDue(r)}

\* available_at of a command the clock brings up
AvailableAt(c) == IF c.kind = "execute" THEN RetryAt(c.run) ELSE c.no
Raised == {RetryCommand(r) : r \in LapsedRuns}
            \cup UNION {{Report(r, t) : t \in DueTimes(r)} : r \in ReportRuns}

\* store.advanceTime(), over an outbox the caller may just have changed
AdvanceTime(ob) ==
    /\ attempts' = [r \in Runs |-> IF r \in LapsedRuns THEN TimedOut(attempts[r], Lapsed(r))
                                                       ELSE attempts[r]]
    /\ outbox' = Inserted(ob, Raised, AvailableAt)
    /\ nextReport' = [r \in Runs |-> IF r \in ReportRuns THEN NextBoundary(r) ELSE nextReport[r]]
    /\ UNCHANGED <<runState, createdAt>>

Tick ==
    /\ now < MaxTime
    /\ now' = now + 1
    /\ UNCHANGED <<stored, process, delivered, restarts, failures>>

-----------------------------------------------------------------------------
(* The runtime and its pumps *)

\* runtime.startRun: one transaction, then safePump unless one is pumping
StartRun(r) ==
    /\ runState[r] = "none"
    /\ runState' = [runState EXCEPT ![r] = "running"]
    /\ createdAt' = [createdAt EXCEPT ![r] = now]
    /\ nextReport' = [nextReport EXCEPT ![r] = now + ReportIntervalMs]
    /\ attempts' = [attempts EXCEPT ![r] = <<QueuedAttempt(now)>>]
    /\ outbox' = Inserted(outbox, {Execute(r, 1)}, LAMBDA c : now)
    /\ pc' = [pc EXCEPT ![Ticker] = IF @ = "idle" THEN "advance" ELSE @]
    /\ UNCHANGED <<now, held, timer, wanted, delivered, restarts, failures>>

\* store.recover() before its advanceTime(): interrupted commands are due again
Requeued ==
    [c \in DOMAIN outbox |-> IF outbox[c].state = "dispatching"
                             THEN [outbox[c] EXCEPT !.state = "pending", !.avail = now]
                             ELSE outbox[c]]

\* runtime.start: returns at once when a timer exists, otherwise recovers
Start(p) ==
    /\ ~timer /\ pc[p] = "idle"
    /\ AdvanceTime(Requeued)
    /\ pc' = [pc EXCEPT ![p] = "advance"]
    /\ wanted' = TRUE
    /\ UNCHANGED <<now, held, timer, delivered, restarts, failures>>

Stop ==
    /\ wanted /\ restarts < MaxRestarts
    /\ restarts' = restarts + 1
    /\ timer' = FALSE /\ wanted' = FALSE
    /\ UNCHANGED <<now, stored, pc, held, delivered, failures>>

\* a tick of the timer; skipped while the previous safePump still runs
TimerFires ==
    /\ timer /\ pc[Ticker] = "idle"
    /\ pc' = [pc EXCEPT ![Ticker] = "advance"]
    /\ UNCHANGED <<now, stored, held, timer, wanted, delivered, restarts, failures>>

Advance(p) ==
    /\ pc[p] = "advance"
    /\ AdvanceTime(outbox)
    /\ pc' = [pc EXCEPT ![p] = "claim"]
    /\ UNCHANGED <<now, held, timer, wanted, delivered, restarts, failures>>

Due == {c \in DOMAIN outbox : outbox[c].state = "pending" /\ outbox[c].avail <= now}

Dispatching(row) == [row EXCEPT !.state = "dispatching", !.tries = row.tries + 1]
\* Mutant: a deferral only takes the claim back, so the command keeps its place in the queue
ClaimUndone(row) == [row EXCEPT !.state = "pending", !.tries = row.tries - 1]
Deferred(row) == [row EXCEPT !.state = "pending", !.avail = now + RetryDelay(row.tries)]

\* ORDER BY available_at; the order of two equal times is left open
Claim(p) ==
    /\ pc[p] = "claim"
    /\ \E c \in Due :
          /\ \A d \in Due : outbox[c].avail <= outbox[d].avail
          /\ outbox' = [outbox EXCEPT ![c] = Dispatching(@)]
          /\ held' = [held EXCEPT ![p] = {c}]
    /\ pc' = [pc EXCEPT ![p] = "dispatch"]
    /\ UNCHANGED <<now, runState, createdAt, nextReport, attempts, timer, wanted,
                   delivered, restarts, failures>>

\* claimCommand returns null: pump() ends, and start() installs its timer
PumpEnds(p) ==
    /\ pc[p] = "claim" /\ Due = {}
    /\ pc' = [pc EXCEPT ![p] = "idle"]
    /\ timer' = (timer \/ p \in Starters)
    /\ UNCHANGED <<now, stored, held, wanted, delivered, restarts, failures>>

Executes(cmds) == {c \in cmds : c.kind = "execute"}

\* the worker gets the command; the dispatch promise is still open
Deliver(p) ==
    /\ pc[p] = "dispatch"
    /\ ~ (Executes(held[p]) \subseteq delivered)
    /\ delivered' = delivered \cup Executes(held[p])
    /\ UNCHANGED <<now, stored, process, restarts, failures>>

Leased(a) == [a EXCEPT !.state = "running", !.lease = now + LeaseMs, !.retry = 0]

\* dispatch resolved: acknowledgeCommand, a no-op unless still dispatching
Acknowledge(p) ==
    /\ pc[p] = "dispatch" /\ Executes(held[p]) \subseteq delivered
    /\ \E c \in held[p] :
          IF outbox[c].state # "dispatching"
          THEN UNCHANGED <<outbox, attempts>>
          ELSE /\ outbox' = [outbox EXCEPT ![c].state = "acked"]
               /\ attempts' =
                    IF c.kind = "execute" /\ attempts[c.run][c.no].state = "queued"
                    THEN [attempts EXCEPT ![c.run][c.no] = Leased(@)]
                    ELSE attempts
    /\ pc' = [pc EXCEPT ![p] = "claim"]
    /\ held' = [held EXCEPT ![p] = {}]
    /\ UNCHANGED <<now, runState, createdAt, nextReport, timer, wanted, delivered,
                   restarts, failures>>

\* dispatch rejected (whether or not the worker got the command): deferCommand
Defer(p) ==
    /\ pc[p] = "dispatch"
    /\ \E c \in held[p] :
          IF outbox[c].state # "dispatching"
          THEN UNCHANGED outbox
          ELSE outbox' = [outbox EXCEPT ![c] = Deferred(@)]
    /\ pc' = [pc EXCEPT ![p] = "claim"]
    /\ held' = [held EXCEPT ![p] = {}]
    /\ UNCHANGED <<now, runState, createdAt, nextReport, attempts, timer, wanted, delivered,
                   restarts, failures>>

\* deferCommand itself throws: pump() rejects, safePump (or start's caller) drops it
DeferFails(p) ==
    /\ pc[p] = "dispatch"
    /\ failures < MaxStoreFailures
    /\ failures' = failures + 1
    /\ pc' = [pc EXCEPT ![p] = "idle"]
    /\ held' = [held EXCEPT ![p] = {}]
    /\ UNCHANGED <<now, stored, timer, wanted, delivered, restarts>>

Crash ==
    /\ restarts < MaxRestarts
    /\ restarts' = restarts + 1
    /\ pc' = [p \in Pumps |-> "idle"]
    /\ held' = [p \in Pumps |-> {}]
    /\ timer' = FALSE /\ wanted' = FALSE
    /\ UNCHANGED <<now, stored, delivered, failures>>

-----------------------------------------------------------------------------
(* Worker events. Identity, state and token must match; an expired lease    *)
(* times the attempt out inside the same transaction and the event is lost. *)

\* Mutant: an event after the lease is accepted
AcceptsLate(r, n) == attempts[r][n].state = "running" /\ attempts[r][n].token
Accepts(r, n) ==
    attempts[r][n].state = "running" /\ attempts[r][n].token /\ attempts[r][n].lease > now

Heartbeat(r, n) ==
    /\ Execute(r, n) \in delivered
    /\ Accepts(r, n)
    /\ attempts' = [attempts EXCEPT ![r][n] = [@ EXCEPT !.lease = now + LeaseMs]]
    /\ UNCHANGED <<now, runState, createdAt, nextReport, outbox, process, delivered,
                   restarts, failures>>

Complete(r, n, ok) ==
    /\ Execute(r, n) \in delivered
    /\ Accepts(r, n)
    /\ attempts' = [attempts EXCEPT ![r][n] = [@ EXCEPT !.state = "completed",
                                                          !.token = FALSE, !.lease = 0]]
    /\ runState' = [runState EXCEPT ![r] = IF ok THEN "completed" ELSE "failed"]
    /\ nextReport' = [nextReport EXCEPT ![r] = 0]
    /\ UNCHANGED <<now, createdAt, outbox, process, delivered, restarts, failures>>

LateWorkerEvent(r, n) ==
    /\ Execute(r, n) \in delivered
    /\ n \in Lapsed(r) /\ attempts[r][n].token
    /\ attempts' = [attempts EXCEPT ![r] = TimedOut(@, {n})]
    /\ outbox' = Inserted(outbox, {RetryCommand(r)}, LAMBDA c : RetryAt(r))
    /\ UNCHANGED <<now, runState, createdAt, nextReport, process, delivered,
                   restarts, failures>>

-----------------------------------------------------------------------------
PumpStep(p) == \/ Advance(p) \/ Claim(p) \/ PumpEnds(p)
               \/ Deliver(p) \/ Acknowledge(p) \/ Defer(p) \/ DeferFails(p)

WorkerStep(r, n) == \/ Heartbeat(r, n)
                    \/ \E ok \in BOOLEAN : Complete(r, n, ok)
                    \/ LateWorkerEvent(r, n)

Next ==
    \/ Tick
    \/ \E r \in Runs : StartRun(r)
    \/ \E p \in Starters : Start(p)
    \/ Stop
    \/ TimerFires
    \/ \E p \in Pumps : PumpStep(p)
    \/ Crash
    \/ \E r \in Runs : \E n \in DOMAIN attempts[r] : WorkerStep(r, n)

Spec == Init /\ [][Next]_vars

\* The clock runs, setInterval fires, promises settle and JavaScript continues
\* what it resumed. Nothing obliges a worker to answer or a host to restart.
Fairness ==
    /\ WF_vars(Tick)
    /\ WF_vars(TimerFires)
    /\ \A p \in Pumps : /\ WF_vars(Advance(p) \/ Claim(p) \/ PumpEnds(p))
                        /\ WF_vars(Acknowledge(p) \/ Defer(p))

LiveSpec == Spec /\ Fairness
-----------------------------------------------------------------------------
(* Properties *)

Open(a) == a.state \in {"queued", "running"}

SettledByNewest(state, seq) ==
    /\ state = "none" <=> seq = <<>>
    /\ \A n \in 1..(Len(seq) - 1) : seq[n].state = "timed_out"
    /\ state = "running" => Open(seq[Len(seq)])
    /\ state \in {"completed", "failed"} => seq[Len(seq)].state = "completed"
    /\ \A n \in 1..Len(seq) : /\ seq[n].token <=> Open(seq[n])
                              /\ seq[n].lease # 0 <=> seq[n].state = "running"

\* A running run has exactly one open attempt, the newest; every older one has
\* timed out. A settled run was settled by its newest attempt. A lease and a
\* token exist exactly while the attempt can still use them. (Two workers never
\* own one run at a time, whatever the order of ticks, late events and restarts.)
OneOpenAttempt == \A r \in Runs : SettledByNewest(runState[r], attempts[r])

\* Every attempt has its execute command, and the command is acknowledged exactly
\* when the attempt has left "queued": no attempt waits for a command that was
\* lost, and none runs whose command could be dispatched again.
\* (FR-SUPERVISOR-1: the attempt and its command are one transaction.)
OutboxMatchesAttempts ==
    /\ \A r \in Runs : \A n \in 1..Len(attempts[r]) :
          /\ Execute(r, n) \in DOMAIN outbox
          /\ attempts[r][n].state = "queued" <=> outbox[Execute(r, n)].state # "acked"
    /\ \A c \in DOMAIN outbox : c.kind = "execute" => c.no \in 1..Len(attempts[c.run])

\* The two together: one open attempt per run, and one command per attempt.
AttemptsMatchOutbox == OneOpenAttempt /\ OutboxMatchesAttempts

\* A retry is never dispatched before the backoff of the attempt it replaces has
\* passed, not even when recover() makes interrupted commands available at once.
BackoffRespected ==
    \A r \in Runs : \A n \in DOMAIN attempts[r] :
        n > 1 /\ outbox[Execute(r, n)].tries > 0 => now >= attempts[r][n - 1].retry

\* A run has one progress report per boundary since it was created, up to the
\* next boundary while it is running: none missed by a restart, none doubled by
\* two pumps that advance the time.
ReportsAtEveryBoundary ==
    \A r \in Runs :
        LET dues == {c.no : c \in {d \in DOMAIN outbox : d.kind = "progress_report" /\ d.run = r}}
            boundaries == {t \in 0..(2 * MaxTime) :
                             t > createdAt[r] /\ (t - createdAt[r]) % ReportIntervalMs = 0}
        IN  IF runState[r] = "running"
            THEN dues = {t \in boundaries : t < nextReport[r]}
            ELSE dues = {t \in boundaries : \E u \in dues : t <= u}

\* The two together: what is due in time is done in time, and once.
TimedAsPromised == BackoffRespected /\ ReportsAtEveryBoundary

\* While the periodic pump is installed, every command marked "dispatching" is
\* one whose dispatch some pump of this process still awaits.
NoStrandedCommand ==
    timer => \A c \in DOMAIN outbox :
                outbox[c].state = "dispatching" => \E p \in Pumps : c \in held[p]

\* A stopped runtime has no timer.
StopIsFinal == ~wanted => ~timer

\* A run settles once, and only because its newest attempt reported under a lease
\* that had not expired; an attempt is timed out only after its lease.
LeaseStep ==
    \A r \in Runs :
        /\ runState[r] \in {"completed", "failed"} => runState'[r] = runState[r]
        /\ runState[r] = "running" /\ runState'[r] # "running" =>
              LET last == attempts[r][Len(attempts[r])]
              IN  last.state = "running" /\ last.lease > now
        /\ \A n \in DOMAIN attempts[r] :
              attempts[r][n].state = "running" /\ attempts'[r][n].state = "timed_out"
                  => attempts[r][n].lease <= now
LeaseHonoured == [][LeaseStep]_vars

\* An acknowledged command stays acknowledged, so recovery and overlapping pumps
\* replay only unacknowledged ones (FR-SUPERVISOR-2).
AckStep ==
    \A c \in DOMAIN outbox :
        c \in DOMAIN outbox' /\ (outbox[c].state = "acked" => outbox'[c] = outbox[c])
AckIsFinal == [][AckStep]_vars

\* The two together: neither a settled run nor an acknowledged command is undone.
SettlementHolds == LeaseHonoured /\ AckIsFinal

\* The attempts and the commands that can become due by MaxTime: an attempt takes
\* a lease and a backoff, so at least two ticks, before the next one is due.
AttemptNumbers == 1..(MaxTime \div 2 + 1)
Awaited == {Execute(r, n) : r \in Runs, n \in AttemptNumbers}
             \cup {Report(r, t) : r \in Runs, t \in ReportIntervalMs..MaxTime}

\* With the runtime started, an attempt whose lease has lapsed is replaced, even
\* when its worker never speaks again.
LapsedIsReplaced ==
    \A r \in Runs : \A n \in AttemptNumbers :
        (timer /\ n \in Lapsed(r)) ~> (~timer \/ n \notin Lapsed(r))

\* With the runtime started, no due command waits for ever behind others, however
\* often those are deferred and however many more are raised meanwhile: neither
\* the execute command of an attempt nor a progress report.
DueIsClaimed ==
    \A c \in Awaited : (timer /\ c \in Due) ~> (~timer \/ c \notin Due)

\* All three: a started runtime leaves no command and no lapsed attempt behind.
WorkIsTakenUp == []NoStrandedCommand /\ LapsedIsReplaced /\ DueIsClaimed
=============================================================================
