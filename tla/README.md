# naia-agent: specifications, model checking and proofs

TLA+ modules for the parts of naia-agent whose correctness depends on the order in which
things happen: several calls, several Agent processes, crashes, lapsing leases, external
workers that answer late, twice or never. TLC checks them on small instances; TLAPS proves
the central invariants for every value of the constants.

Paths below are relative to the repository. `S:` stands for `src/main`.

## The system

naia-agent is a TypeScript agent process. A request becomes a *chat turn*; around it the agent
keeps *durable workflows* in SQLite (a workflow's rows outlive the process, several processes may
open the same database, and the work itself is done by external actors behind ports), spawns
*sub-agents* as child processes, answers on *Discord* from a durable record of what it has
answered, and runs a *radio DJ* whose player lives in another program. Node runs JavaScript to
completion, so inside one process interleaving happens only at an `await`; a SQLite transaction
(`BEGIN IMMEDIATE`) is atomic against every process.

| component | state | operations | interacts with |
|---|---|---|---|
| durable supervisor (`S:app/durable-supervisor.ts`, `S:adapters/sqlite-durable-supervisor-store.ts`) | runs, attempts with leases and tokens, an outbox of commands; a timer and a `pumping` flag in memory | startRun, recover, advanceTime, claim / acknowledge / defer a command, heartbeat, complete, start, stop | worker (via dispatcher), clock |
| single-issue orchestrator (`S:app/single-issue-orchestrator.ts`, `S:adapters/sqlite-issue-orchestration-store.ts`) | one versioned snapshot per issue, an execution claim with a lease; owner and controller maps in memory | ensure, start, resume, answer, cancel, heartbeat | facing, moderator, worker, verifier, reporter ports |
| multi-issue sessions (`S:app/multi-issue-session-manager.ts` and its store) | sessions with a ready queue, one scheduler lease; an active pump in memory | submit, answer, cancel, pump, settle, recoverRunning | single-issue orchestrator |
| issue team (`S:app/issue-team-worker.ts`, `S:domain/issue-team.ts`, its store and worktree) | one run row per dispatch, a worktree with a lease file | execute, recover, the role transitions | role executors, paid-call budget |
| paid-call budget (`S:adapters/sqlite-paid-call-budget.ts`) | reservations and settlements under keys | reserve, settle | every paid actor |
| chat turns, processing guard, approval (`S:app/chat-turn-handler.ts`, `S:adapters/processing-guard.ts`, `S:adapters/approval.ts`, `S:adapters/discord-consent-store.ts`) | the turns map, one-time consents, pending approvals | request, cancel, disclosure, tool calls, save | client, provider, memory model, tools |
| one-shot supervisor, subprocess sessions (`S:app/supervisor.ts`, `S:adapters/subprocess-session.ts` and the parsers) | one session per attempt: queue, timers, child process; snapshots of the workspace | run, retry, spawn, cancel, kill, end | child processes, git, verifier |
| Discord channel (`S:adapters/discord-channel.ts`, `S:adapters/discord-dedupe-store.ts`) | the deduplication record in a file; active turns, epochs and the connection in memory | a delivery, its turn and reply, course notices, configure, stop, hand-over | gateway, Discord, chat turn |
| personal radio DJ (`S:app/personal-radio-dj-controller.ts`, BGM and speech adapters) | generation, epoch, flow state, timers, a chain of transitions | profile, controls, user turns, selection, player events | player, selector, comment model |
| coding jobs (`S:app/coding-job-service.ts`, `S:adapters/coding-job-*.ts`, `S:adapters/selected-workspace-coding.ts`) | job records and worktree leases in files; controllers, the lease of the selected workspace and the runners in memory | start, cancel, settle, recover | worktrees, Codex sessions, the course service |
| course lifecycle (`S:app/jeonju-discord-course.ts`) | chains of messages, the last state that waits, retry timers | report, restore, retry | coding jobs, the Discord channel |
| Discord gateway (but for its queue of POSTs, which the Discord channel has), exhibition intro, speech profiles, memory, gRPC and stdio | connections, scripts, caches | - | - |
| providers, settings, tools, CLI, benchmarks | mostly none | translation and I/O | outside world |

`PROJECT.json` lists every component with its files and what becomes of it, and every hazard
at its line.

### What is hard, and what makes each component correct

* **Durable supervisor.** Overlapping pumps (start() pumps outside the `pumping` flag), a crash
  between the dispatch and its acknowledgement, late worker events, missed report boundaries.
  Correct when a run has one open attempt, no attempt's command is lost or replayed after its
  acknowledgement, and a started runtime makes progress.
* **Single-issue orchestrator.** Stale saves, lost claims, restarts in the middle of an actor
  call, cancellation racing dispatch. Correct when no actor is called twice, a cancelled issue
  never executes its worker, a terminal snapshot is final, and the stated cost covers every call.
* **Multi-issue sessions.** A lease lost during executions, sessions of a dead owner, the budget
  threshold against running reservations. Correct when at most `concurrency` sessions run, a
  session is settled only by its owner, and the threshold bounds what is admitted.
* **Issue team and paid calls.** A role in flight when the process dies, a stalled `execute` beside
  its recovery, a receipt that exceeds its reservation. Correct when no session is started twice,
  no role is replayed blindly, a team's ending is earned and the same for every caller, and the
  budget bounds the calls.
* **Coding jobs.** A session's end, a deadline, the user's cancellation and a restart race for the same
  job; messages about it fail and are sent again. Correct when every live job keeps its lease, its
  controller and its clock, a job ends once, and what the channel is told of it is true.
* **Chat turns.** A cancellation while a disclosure is on its way, a memory model denied behind the
  turn's back, a provider that hangs. Correct when a turn ends once, does nothing it has not
  disclosed, spends a consent once, and a cancelled turn starts nothing and ends.
* **Supervised runs.** An end on a line and an end by the process, cancellation racing both,
  children that ignore signals. Correct when the transcript is whole, the report true, and nothing
  is left running.
* **Discord.** Redelivery, reconnection, a hand-over of generations, a POST that arrives late, twice or after its sender has ended.
  Correct when a message is answered at most once, its chunks appear in order and once, and the
  record says what the channel shows.
* **Radio DJ.** Searches, comments and player events that outlive what they were made for. Correct
  when stale work is silent, titles are spoken only of what plays, the user keeps the floor and no
  selection lasts for ever.

## Modules

| module | what it is |
|---|---|
| `DurableSupervisor`, `MCDurableSupervisor`, `DurableSupervisor_proofs` | store, pump and runtime of the durable supervisor; TLC instance; TLAPS proofs |
| `IssueOrchestrator`, `MCIssueOrchestrator`, `IssueOrchestrator_proofs` | one issue, its store and several calls in several processes |
| `IssueLifecycle`, `IssueContract` | what one issue may become, as constant operators and as a specification: the orchestrator's promise |
| `IssueRefinement` | the refinement mapping from `IssueOrchestrator` to `IssueContract` |
| `MultiIssueSessions`, `MCMultiIssueSessions`, `MultiIssueSessions_proofs` | several issues as sessions: their database, scheduler lease and managers |
| `PaidCallBudget` | the reservations of paid calls, extended by `IssueTeam` |
| `DataInduction` | lemmas: induction over numbers and finite sets, and what sums over finite sets are |
| `IssueTeam`, `MCIssueTeam`, `IssueTeam_proofs` | one dispatch of a team: run row, worktree lease, calls, actors sharing the budget |
| `CodingJobs`, `MCCodingJobs`, `CodingJobs_proofs` | coding jobs, their leases and runners, and the course service that tells of them |
| `ChatTurn`, `MCChatTurn` | one chat turn with its guard, consents, approvals and tools |
| `SupervisedRun`, `MCSupervisedRun` | one task given to a sub-agent, with its child processes |
| `DiscordDedupe` | the deduplication record, as operators on one entry |
| `DiscordChannel`, `MCDiscordChannel` | the channel runtime of several processes over that record |
| `RadioDj`, `MCRadioDj` | the DJ's controller, the adapters it talks through and the player |
| `ChannelAndRun_proofs` | TLAPS proofs of the two components at the edge, `DiscordChannel` and `SupervisedRun` |
| `ChatAndRadio_proofs` | TLAPS proofs of the two components a user speaks with, `ChatTurn` and `RadioDj` |

The session modules use the orchestrator through its contract: `MultiIssueSessions` moves each
issue by `IssueLifecycle`, and `IssueRefinement` shows that `IssueOrchestrator` keeps to it.
`IssueTeam` composes with `PaidCallBudget`, `DiscordChannel` with `DiscordDedupe`, each by EXTENDS:
every step of the client names the step of the store it makes. `SupervisedRun` and `RadioDj` prefix the names
of their specification (`RunInit`, `DjNext`), so that one module can extend and prove about two components.

### DurableSupervisor

`runState`, `createdAt` and `nextReport` are the columns of `supervisor_runs`; `attempts[r]` the
rows of `supervisor_attempts` in attempt order; `outbox` the rows of `supervisor_outbox` keyed by
command. `now` is the supervisor's clock. `pc` and `held` say where each pump loop stands and
which dispatch it awaits: the periodic pump is one process (`pumping` keeps it single), each
`start()` another. One store method is one action; `Acknowledge` and `Defer` are what the pump
does when its awaited dispatch settles. Data left out: task texts, summaries, the events table,
execution ids (one per attempt, so the attempt number stands for them).

The worker is external: it may get an execute command any number of times (`Deliver`), and may
send a heartbeat or a completion with that attempt's token at any time, or never.

### IssueOrchestrator

`row` is the snapshot of one issue; `claim` the row of the execution claims; `ownerOf` and
`ctrlOf` the maps `#executionOwners` and `#executionControllers` of each process; `snap[c]`,
`inner`, `outer`, `lost` and `sent` the local variables of a call (its snapshot, the two abort
signals, `claimLost`, the five `...DispatchedInThisCall` flags). One action is one branch of
`runStages`, or one store call of the wrapper `withExecutionClaim`. `Turn(c)` says that no other
call of the same process is between two awaits.

`save` has three outcomes: it stores (`Stored`), it yields to a cancellation without an error
(`Yielded`), or it throws (`Refused`); what happens next depends on the caller (`Saves`,
`SavesAndReports`, `SavesAndReturns`). An actor call ends with one of the outcomes its port and
the receipt checks allow (`OutcomesOf`). The lease is a flag that may lapse rather than a clock:
a live owner may stall past its lease (`MaxLapses` times), and a dead one always may. Left out:
texts, obligations, bindings, the events table, the in-process joining of two identical
`start()` calls, and that `cancelAfterActor` tries a refused save once more with the cost unavailable
(single-issue-orchestrator.ts:510): whatever refused the first save refuses that one.

### IssueContract

What a user of the orchestrator sees of an issue: it is open, awaits an answer, is being worked on,
or has ended; a cancellation may be on record. `IssueLifecycle` says what it may become, and
`IssueContract` is its specification. `IssueRefinement` maps the fifteen states of the snapshot to
these phases; actors, claims, versions and receipts disappear, so most steps of `IssueOrchestrator`
are stutters.

### MultiIssueSessions

`sess` are the rows of the sessions, `order` the submitted sessions by `ready_sequence` (a new
sequence number is a move to its end), `lease` the row of the scheduler lease, as a flag that may
lapse. `pc[m]` says where `runPump` of manager `m` stands, `wanted` is `#pumpRequested`, and
`call[m]` its map `active`: what each execution asks of the orchestrator, then what was reported
to it. One action is one store transaction with the synchronous code around it; `Recover`, `Claim`
and `Leave` are each one transaction because the store makes them so. Between two awaits of a
pump (`Serving`) its process takes commands. A restarted process is another manager, because its
owner id is fresh.

The single-issue orchestrator is replaced by its contract: `issue[s]` moves by `IssueLifecycle`
once some execution has begun to work on it (`started`), aborted executions included, and
`ReportsOf` says what a call may return. A call that resumes an issue becomes a "cancel" once it
knows of the cancellation, since its report must then be final. An issue may cost anything in
`Costs`, or an amount that cannot be told.

The code adds the same amounts up three times, each in an order of its own, and amounts are
doubles: `claimReady` the settled costs, then the running reservations, then the candidates
(`WithinBudget`), `canAdmit` the candidate first and then whatever is listed (`HeadFits`, for the
release of `Leave`), `portfolio()` two sums apart (`BudgetBlocked`). So an addition is `Plus`: the
exact sum, `Rounded` as the processor rounds it, a constant of which no more is assumed than that
a sum which ends within the threshold has lost at most `Slack`. `BudgetKept` speaks of the exact
amounts; that the three verdicts agree (`SumsAgree`) is not so. Left out: digests and source
identities, the events table, store calls that throw for I/O, costs of sessions not yet settled.

### PaidCallBudget and IssueTeam

`rows` are the reservations by idempotency key: active at the whole allowance, or settled at what
the receipt says. The dollars and the two token counts of the policy are limited by the same
comparison, so one amount stands for the three.

`team` is the row of `issue_team_runs`, written by compare-and-set on its version; `lease` and
`worktree` the lease file and the directory of the managed worktree; `pc[c]`, `snap[c]`, `handle[c]`
the place, the snapshot and the allocation a call of `execute` or `recover` holds. A call is cut at
every store access and while it waits for the role's provider; at each cut its process may die
(`Dies`). `nextTransition` is the operators `Claimed`, `Moved` and `Acknowledged`. The role executor reserves
before it spawns and settles before the decision is acknowledged, and other actors (`Actors`) draw
on the same budget. `spawned` is a history: the provider sessions ever started under each key.

### CodingJobs

`record` is the state of each job's file, `lease` its worktree's lease file or the course job's entry of
the leases map, `active` the controllers, `before` the HEAD a course job's lease has seen. `start()` is cut at
its saves (`Start`, `SaveRunning`, then `RunnerStarts` or `RunnerThrows`), since a crash may come there; `starting`
keeps every other handler out. `session`, `deadline` and `finished` are the runner's, `cancelling` the user's
call that waits for the session's. `Settle` is `#terminal`: a course job's proposal is applied and verified
there, before the cancellation is looked at. `chains[j][0]` is what the course service sends first,
`chains[j][n]` what the n-th retry timer started beside it; `pending` is the state that waits for a
retry and `shown` the messages in the channel, of which the durable deduplication keeps one of a kind. `applied`,
`retained` and `reported` are histories. Sessions, the Discord runtime and the student, who edits and commits in the selected repository, are
external. A result of the runner and the microtask that delivers it are one step.

### ChatTurn

`turn` is the entry of the turns map, `pc` where `onChatRequest` stands, `wire` what the client was
told. Each stage that processes something (compaction, recall, the model round, a tool, the save)
first passes `Prepare`, `Deliver` and `Ack`: the plan's consents are reserved, each disclosure is
sent and accepted or refused, and the reservation is committed or given back. The memory model
behind a compaction or a save asks for itself (`role`), and provider-native tools run beside the
round (`native`), so a turn has up to three processes. Once a turn has passed its deadline on a
memory request, the request lives on as stale. `due` counts disclosures accepted less operations
begun: it may never be negative. Text, prompts, prices and the scoring of memories are left out.

### SupervisedRun

`session[a]` is the session of attempt `a`: where its child is, the last signal it was sent, what
it has said, the queue the supervisor reads, and the two timers that turn into SIGKILL. The
adapters differ in what ends a session, so `Agents` has three kinds: parsers that leave the end to
the process (`plain`), codex, which ends on a line and then reaps its child (`reaped`), and pi and
grok, which end on a line and do not (`unreaped`). The child is external and may say lines, write
files, ignore or answer SIGTERM at any time, and its pipes hold lines after it has exited. `tree`
is what `git status` lists, `baseline` and `latest` the snapshots the run has taken.

### DiscordDedupe and DiscordChannel

An entry of the record goes from reserved to replying (a cursor over the chunks: claimed, then
confirmed) to completed or partial. A process decides on its cached copy and writes by
compare-and-set against the file, so `Reservation`, `Decision` and `Merged` take both. A task of
`DiscordChannel` is one delivery on its way through `handleMessage`, `handleEmit` and
`sendDurableReply`, each await a stage; several processes share the file, one being selected by the
authority file. `SendReply` is the hand-over of a POST to the gateway, where it waits behind the replies queued before it,
is retried and sleeps out rate limits (discord-gateway.ts:660): for up to `PostTimeout` ticks it may arrive at any moment (`Arrives`), once or
again, with or without its answer, and also after its sender was replaced, gave up (`PostFails`) or crashed; `post` and
`at` of a task are the POST on its way. Discord does not repeat a nonce it has seen in the last `NonceMemory` ticks. The rest of the
gateway is modelled from its use: a connection comes and goes, and a message may be delivered again. Left out of the replay is the
thread that is no longer known (`thread_resume_unavailable`), which closes the reservation as an interruption does.

### RadioDj

The controller's fields are one record `dj`; an awaited operation (a search, a status, a stop, a
comment being written) is a slot of `ops`, or the head of `chain` for transition comments, each
with the activity and epoch it captured. The helpers of the code are functions from `dj` to `dj`.
The player and the mail of its events are external: it loads, plays, fails and skips, and reports
late. `floor` is a history of the user's turn: held from the yield until its binding comes back or the user asks
for something, disturbed by a failure of the player or the search, or a report out of order. Times, back-off and
wording are left out, and the catch around the first introduction, because the deployed egress does not throw;
the selector's await is part of the search it leads to, and so are the attempts of one search.

## Runs

A property of a run is often the conjunction of named parts that one failure of the code could break
together; the parts are defined beside it, each with its own comment. In the radio, Discord, chat and coding job modules
the type invariant is such a part.

| run | instance | shows | states |
|---|---|---|---|
| `durable_safety` | 1 run, the timer and one start(), 4 ticks, 1 restart, 1 failing store call | `AttemptsMatchOutbox` (one open attempt, one command per attempt), `TimedAsPromised` (backoff, reports), `SettlementHolds` (leases, acknowledgements) | 1.4 M |
| `durable_live` | 4 ticks, 1 restart, no failing call, reports due beside attempts | `WorkIsTakenUp`: no stranded command, lapsed attempts replaced, due commands (attempts and reports) claimed | 196 k |
| `issue` | a start and a cancel in one process, an answer in another; 1 question, 1 lapse, 1 crash, a caller that aborts | `CancelPreventsWorker`, `ReportIsGrounded` (verified, paid for and persisted), `CalledOnce`, `Fenced`; it implements `IssueContract`; `CallsSettle`: every call returns, a recorded cancellation settles | 249 k |
| `sessions_safety` | two sessions under a limit of one and a threshold, two managers, 1 cancellation, 1 question, 1 fault of any kind | `SlotsOwned`, `OutcomesGrounded`, `BudgetKept`, `NothingRewritten`: rows, executions, issues and budget stay in step | 1.6 M |
| `sessions_live` | two sessions and two managers, leases that hold, no crash, one port that throws | `QueuedIsServed`: a queued session is admitted | 25 k |
| `sessions_slots` | 1 failing renewal | finding: a manager leaves its own aborted session in its slot | - |
| `team_safety` | one execute, two recoveries, one other actor at a limit of eight calls | `NothingPaidTwice`, `WithinBudget`, `EndingStands` | 2.0 M |
| `coding_jobs` | two requests, each for a worktree of its own or the selected workspace; one fault (a failed message, an intervention, a crash); requests are symmetric | `LeasesFollowJobs`, `ChannelIsHonest`, `JobEndsOnce` | 193 k |
| `chat` | one turn, two tool calls in one round, one native tool, two consents, all kinds of tools and data | `OneEnding`, `OnlyAuthorised`, `Recorded`, `NothingBeginsAfterCancel`, `CancelledEnds` | 146 k |
| `run_honest` | one retry, one line per attempt, one file, both kinds of parsers that end on a line | `HonestRun` (whole transcript, true report, no session beside another), `RunComesToRest` | 539 k |
| `discord_safety` | two processes, one message, one course notice, replies of two chunks, 1 fault of any kind | `RoutedOnce`, `RepliesArePrefixes`, `RecordMatchesChannel` (in order, true, nothing left open) | 2.1 M |
| `radio_safety` | one activity, two tracks, two operations in flight, all controls and faults | `OneReplacement`, `CancelledWorkIsSilent`, `ConfirmedBeforeIntroduced`, `UserHasTheFloor`, `SelectionEnds` | 287 k |

### Bounds

`DurableSupervisor`: with a lease of one tick and a backoff unit of two, four ticks fit a
first attempt, its lapse, the backoff of its replacement and the lapse of that; the report interval
of two puts two boundaries inside that, which a restart may miss together. In `durable_live` the interval is
three, so that a report falls due while an attempt's command is queued, claimed or deferred: each of the two may be claimed
before the other, and neither may be passed over for ever. One restart is enough to
interrupt any pump at any point, and two pumps are the most the code can have beside a second
start().

`IssueOrchestrator`: three calls are an owner, its successor and a canceller; one lapse or crash
makes the successor take over at any point. `MaxQuestions = 1` gives one round of moderator, user
and moderator.

`MultiIssueSessions`: a limit of one makes two sessions compete for the slot. The first reserves
4 and the second 5 or 7, under a threshold of 8, with sums rounded to three bits (`ThreeBits`; a `Slack` of 1): 4 and 5 are
9, which is rounded to 8 and admitted; 4 and 7 fit together only once the second has proved cheap, so the order of
settlement and recovery decides what is admitted next. Two managers are an owner and
whoever finds the lease taken, takes it over or is restarted. One fault of any kind (a lapse under a
live owner, a failed renewal, a crash, a port that throws) is enough for a row to be recovered from
an owner that is dead, that is alive and unaware, or that has been told to abort.

`IssueTeam`: a converging run takes six role calls, eight after its one repair, so `MaxPaidCalls = 8`
lets it finish; an allowance of 2 within a charge of 9 also lets the budget refuse a role in the
middle, and costs of 1 and 3 settle below and above the allowance. Two recoveries are a recovery of
the execute and a recovery of that recovery; each may be stalled while another works. One other
actor is enough to take the last call.

`CodingJobs`: two jobs compete for the selected workspace, or do not. One fault is a message that fails,
hence a second chain beside the first, or a crash at any point, or a student who commits or edits at any point. With two
faults (2.1 M states: two retries, a crash during a retry) the three properties hold as well, and the
theorems hold for any number.

`ChatTurn`: two calls in one round are a tool that waits and its successor, a round and the final
answer are the two rounds the guard sees, two consents, for the model request and for a network tool, let one be spent while the other is
reserved; that a plan of two operations gives both back is left to the theorem of `OnlyAuthorised`. Turns of one handler share the consents only; instances with two turns (1.5 M and 3.0 M
states, with and without native tools) and with two tool rounds hold the same properties, and all but
`CancelledEnds` are theorems for any number of turns, rounds and calls.

`SupervisedRun`: one line leaves the queue empty, with an event, with an end, or with both; one retry
puts a second session behind a child that is being reaped; one file is or is not in the baseline.
A session says at most one line, so that the transcript keeps the order of two lines of one session is what the
theorem of `HonestRun` adds, for any `MaxSaid`.
The third kind of parser (`plain`) is a codex session that never says its end line; a run of all
three kinds (887 k states) holds the same safety.

`DiscordChannel`: a redelivery or a course notice beside a delivery needs two tasks, a hand-over two
processes, a cursor with a doubtful chunk two chunks. A POST takes up to one tick, so that time passes between its hand-over, its arrivals and the
answer; three ticks are a POST, a doubt younger or older than `ReplayWindow = 1`, and the POST of the replay.
`RepliesArePrefixes` speaks of messages delivered at most twice, because a third delivery may repeat
a chunk (see "Also seen" (f)). All three are theorems for any number of everything, `RepliesArePrefixes` for any times with
`ReplayWindow + PostTimeout =< NonceMemory` and `PostTimeout + PostTimeout =< NonceMemory`, which hold here
with `NonceMemory = 2`.

`RadioDj`: two slots are the stale and the current operation, two tracks are the playing and the
next. Two requests are a profile and the yield, and all that the user's turn can meet then comes from the player and the searches;
three requests (3.6 M states, without `SelectionEnds`) hold the same properties. More than one activity, two transition comments or two events on their way add interleavings
of the same pairs.

### Deadlock

The supervisor stops when the clock reaches its bound, a chat turn when it has been released, a supervised run when it has reported and no child
is left, the channel, the team, the DJ and the coding jobs when their bounded inputs are used up; those
configurations say `CHECK_DEADLOCK FALSE`. In `issue` deadlock is checked, with an explicit
stutter once every call has returned or died. In `MultiIssueSessions` a command or a pump can be
asked for while any manager lives; all its runs check deadlock.

### Fairness

The clock, `setInterval`, settled promises and continuations always proceed.

* Supervisor: WF of `Tick`, `TimerFires`, and of the pump's own steps; a dispatch settles
  (`Acknowledge` or `Defer`). Nothing obliges a worker to answer or a host to restart.
* Issues: the actor ports take an abort signal and settle; SF because other calls of the process
  may take their turn in between. The lease of a dead owner runs out. No call need be made. A recorded
  cancellation settles unless a lease has lapsed under a live owner.
* Sessions: WF of the pump's own steps (`PumpStep`), of a call that can return (`PortStep`) and of the
  work on an issue (`IssueAdvances`); no user must answer or cancel. `QueuedIsServed` is checked for
  leases that hold and processes that live: nothing in the code asks for a pump when the lease of a
  dead process expires, so its queue waits for the next command.
* Chat: WF of the handler's steps and of deliveries. A tool settles because it is raced with
  its deadline, an aborted provider stream because it is raced with the signal. The provider, the
  user and the memory model may be silent for ever.
* Supervised runs: WF of reading an event, of the verification, and of what the session owes a child it has
  signalled: the timers fire, a child under SIGKILL exits, its pipes close. A child nobody has
  signalled need not end.
* DJ: WF of an operation in flight, of the transition chain, of the two timers and of a player that
  was told to load. Nothing is assumed of the user, the events or the subscription.

## Proofs

The theorems hold for every value of the constants, from the named ASSUMEs of the modules alone
(timings are positive, calls have a process and a method, bounds are naturals, the limit and the number
of utterances are positive, there are finitely many sessions, a settled cost is an amount). TLC evaluates those
assumptions in each run. One theorem, `RepliesStayPrefixes`, has a hypothesis of its own, explained below.

`DurableSupervisor_proofs` proves `TypeOK`, `OneOpenAttempt`, `OutboxMatchesAttempts`,
`SettlementHolds` and `TimedAsPromised` for any set of runs and pumps and any positive timings. The three invariants are
inductive together once one fact is added: a command some pump awaits is a command of the outbox
(`HeldInOutbox`). Each action is then one lemma. `SettlementHolds` speaks of steps: the rows a step may
touch are those of a command not yet acknowledged, or of the one open attempt, and of these the
invariant knows the rest. `TimedAsPromised` needs two more facts. `BackedOff`: the command of a retry
still waits, or its backoff has passed; a restart, which makes interrupted commands available at once,
meets only commands that had been sent. `Punctual`: the boundaries reported are exactly the multiples of the
interval below the next one due, and the next one is at most an interval away; the catch-up loop after a
restart adds all the boundaries it passed, which needs the lemmas on multiples (`FirstAfter`).

`IssueOrchestrator_proofs` proves `TypeOK`, `CancelPreventsWorker`, `CalledOnce`, `TerminalIsFinal`,
`ReportIsGrounded` and `Fenced` for any number of calls and processes. The inductive invariant has five parts:

* `TypeOK` and `Awaiting`: what a call waiting for an actor knows of its own snapshot;
* `Fresh`: no call's snapshot is newer than the row, and one of the row's version agrees with it.
  This is what the version check of `save` buys: a stored snapshot continues the row's state;
* `CancelledBefore`: a cancelled issue is not past the dispatch of its worker;
* `KeysSpentOnce`: a key already handed to an actor belongs to a stage the row has passed, and at
  most one call holds the *token* of the next one. A token is created only by storing a row that
  enters the actor's stage, which happens at most once per version.

Every step of a call is first shown to have an `Effect` on the row and on the call's own token;
the parts of the invariant are then preserved by any effect.

`ReportIsGrounded` needs more than the effect: a step is also one of six shapes (`Detail`: it stores what
it asked for, leaves the row alone, flags it, reads it, is about to end it, or calls an actor), and `Grounded`
adds nine parts, among them

* `StagesAdvance`: a snapshot past the dispatch is not overtaken by a cancellation. It is why an aborted
  signal before the dispatch cannot forget a receipt, and why the reporter, which returns its report
  without looking at what `save` returned, never meets a cancelled row;
* `HeldStands`, `HeldOnce`: while a call holds the key of a stage (its token, or the actor's answer not
  yet settled) the issue stays at that stage or ends. The worker is left out: recovery may leave two calls with its key;
* `EndsPriced`, `CallsCovered`: every key handed out is on record, or is that of the stage in flight, or the
  row says that its cost is not known.

The fence of the execution claim is not needed for any of these: they rest on versions alone, which is why
they survive the ways past the fence named under "Also seen" (c). `Fenced` says what the fence does
give: the writer belongs to the process of the live claim's owner, since a process enters only its own calls (`Owners`).

It also proves that `IssueOrchestrator` implements `IssueContract`. The same
`Effect` of a step on the row, with `CancelledBefore`, is a step of the contract or a stutter
(`RowStepIsContractStep`): a case per way a row may continue.

`MultiIssueSessions_proofs` proves `TypeOK`, `SlotsOwned`, `OutcomesGrounded`, `NothingRewritten` and `BudgetKept` for
any number of managers, any finite set of sessions, any amounts, any rounding that `Slack` bounds and any faults. For `SlotsOwned` the invariant adds to
`BoundedConcurrency`:

* `Held`: an execution of the lease's holder has its row running under that manager. It is stronger
  than `ExecutionOwnsSession`, which is only about executions not told to abort: the proof shows that
  the abort is not what protects a row, the lease is;
* `Fresh`: a pump that has not yet passed its recovery has no execution. Without it a manager that
  loses the lease and takes it again could hold it beside executions whose sessions another manager
  has taken.

Commands, heartbeats, crashes and the orchestrator's steps are `Quiet`: they start no execution, give
nobody a lease and neither start nor end a running row. `Acquire`, `Recover`, `Claim` and `Settle`
are the four that are not; for `Claim` the admitted sessions are the image of an interval no
longer than the free capacity (`AdmittedFits`).

`TypeOK` says that the order holds every submitted session exactly once. It rests on what selecting
from a sequence returns (`OnlySelects`: the elements of the set, none twice), so moving sessions to the end
loses and repeats none (`MovedOrder`), and only queued sessions are in the queue (`QueueHolds`).

For `OutcomesGrounded` and `NothingRewritten` every step is first shown to be one of eight things for each session
(`Effect`: it was moved, answered, cancelled, settled or started, its issue advanced, or its call took an answer or
returned). `Grounds` has a part for each thing a row or an execution may rely on, each kept by any effect:

* `CancelKnown`, `Awaits`, `Owed`: a cancellation of the issue is one of the session; a question shown, and an answer
  recorded, is one the issue waits for, unless it has taken it or the issue is cancelled;
* `Answers`: whoever brings an answer brings the row's, or one its issue takes no more. It is why an execution
  whose lease was taken, and whose session another manager has recovered, cannot take the answer of a later question;
* `Reports`, `Cancels`: a report of an end is the issue's, and a call that cancels does so for ever;
* `Delivers`: the lease's holder goes on, or reports a question or an end, only past the answer it was given.

`BudgetKept` is inductive once running rows are known to have a reservation (`Priced`). A step either releases
(what stops to run and settles for no more than its reservation takes the sum no higher, `BudgetReleased`) or claims, and
the admitted sessions are then a prefix of the queue that fits as a whole (`LargestPrefix`, `AdmittedPriced`).
What fits is a rounded sum over a sequence; `RoundedAway` bounds by it the exact sum over the set, since every
intermediate sum is within the threshold too and each of the at most `Cardinality(Sessions)` additions loses no more than
`Slack`. For doubles that is half of the last place of the threshold.

`IssueTeam_proofs` proves `NothingPaidTwice`, `WithinBudget` and `EndingStands`, with `PaidOnce`, `NoBlindReplay`, `Earned`,
`AnswersAgree` and the bound on the calls, for any number of recoveries, actors, cycles and any
costs. The invariant is `TypeOK` with six parts:

* `Runs`: what a stored row's state, step, streak of clean verdicts and number of repairs say of each other. The
  operators of `nextTransition` are shown to keep it on a row alone (`ClaimedRun`, `AcknowledgedRun`,
  `FailedRun`), with small lemmas on appending a role to a history;
* `CallsOK`: what each place in `execute` or `recover` knows of its snapshot and of the row;
* `Alone`: a claimed role has at most one call behind it, the one whose compare-and-set claimed it;
* `KeysOK` and `BudgetOK`: a key was started only by a step the row has reached, and is in the ledger; the
  charges of the ledger's keys sum to no more than the limit, which makes `WithinBudget` inductive;
* `AnswersAgree`: an ending once returned is the row's.

`CodingJobs_proofs` proves all three properties, for any number of requests and faults. `LeasesFollowJobs` is inductive
with four facts about each job: a job nobody has started has left no trace (`Untouched`), while `start()` is on the stack it
has no runner (`Beginning`), a process that is down has nothing in memory (`Forgotten`), and there are no more
chains than faults (`Retries`). A step is shown to leave the other jobs as they are (`Same`), and its own job
in the invariant. `ChannelIsHonest` needs a second invariant over the first: everything told is true
(`Holds`), which a step preserves because what has ended stands (`StepStands`) and the one thing a step adds to what is told
is true; and the reports follow the record exactly (`Account`).

`ChannelAndRun_proofs` proves `RoutedOnce` and `RecordMatchesChannel` (with `RepliesInOrder`, a part of it) of `DiscordChannel` for
any number of processes, messages, deliveries, chunks and faults. The invariant adds to the types and epochs

* `RecordsTrue`: every entry, in the file or in any process's copy of it, claims confirmed only what is visible. Copies
  may be stale, and what a stale copy claims stays true because nothing visible disappears;
* `TasksTrue`: a task has confirmed only what is visible, so the chunk it posts is the next one or is shown
  already; this, and not the record's cursor, gives `RepliesInOrder`;
* `Flying`, a part of it: the chunks before one that is on its way are visible, whether or not anybody waits for it;
* `ChannelTrue`: a nonce Discord remembers belongs to a chunk people see, so a POST it suppresses was shown;
* `Routing`: a message the file does not know was never handed over, and of the tasks between reservation
  and dispatch at most one is about any message: the others found an entry, which no write removes;
* `AloneKept`: a process that is alone, with no crash and no failed write so far, has a true copy of the file, and whatever
  the file leaves reserved or in doubt has a task that will settle it (`Settling`). `NothingLeftInDoubt` is what
  remains of this once no task is left.

A step of a task is described by four facts, each a lemma for all fifteen actions: it advances the task (`Advance`), the
files stay true (`FilesTrue`), it binds a message only with an entry that was not there (`Binds`), and a process that is
alone settles what it leaves (`Settles`). What a call writes is one lemma for each operator of `DiscordDedupe`.

`RepliesArePrefixes` (`RepliesStayPrefixes`) needs a second invariant over the first, one `Ledger` for each message. It is about time: a chunk
may be posted again only while Discord remembers its nonce, and whether it does is told from what the record says of
its doubt. TLC found each part before it was proved, on the instance of `discord_safety`
(exhaustively with one fault, in part with five).

* `Timed`: nothing is dated in the future, and a POST somebody waits for is no older than `PostTimeout`;
* `Cursor`: the file is at or ahead of every copy and every task, and at most one chunk behind what is shown or on its way (`Out`);
* `Opening`, `Posters`: while a reply has not begun nothing of it is out and nobody else answers it; what is out was posted
  by a task that is past it;
* `Stamps`: what somebody else posted of the chunk a task is about to claim or to post arrived since that task last looked, or is still
  to arrive;
* `Told`, `Holder`: until the second delivery leaves its queue (`Calm`), a chunk that is out beyond the record's cursor is in doubt
  in the record, since before it arrived, and the task at work holds a copy that knows it. This is where "at most two
  deliveries" is used: the second meets a record that only one task has written, a third need not;
* `Stale`: while no living process has handed over, the copy a notice is resumed from is as true (`Chosen`: only the selected
  process is prepared);
* `Replays`: hence what is about to be posted a second time arrived so recently that it will still be remembered after
  `PostTimeout` (`Recent`), and so was what a POST on its way repeats (`Flight`); what is seen is a prefix.

What a step may do to the ledger of a message is one of eight kinds: it is not about its reply (`Drifts`), a POST is handed over (`Posts`)
or arrives (`Lands`), the record is reserved, resumed, claimed, confirmed or given up (`Reserves`, `Resumes`, `Claims`, `Confirms`, `GivesUp`). Each
action is shown to be of these kinds, and each kind to keep the ledger. The theorem assumes both inequalities
above. A replay is decided while the doubt is at most `ReplayWindow` old, and its POST may arrive `PostTimeout` later; the second covers a POST
that arrives late while a successor's POST of the same chunk is on its way. The code bounds only the age of a doubt
(60 s by default), neither the wait in the gateway's queue nor, together, the retries (three of 10 s each, and sleeps of up to
30 s after a 429), and Discord says only that it remembers a nonce for some minutes: these are hypotheses on the
code's environment, and they are needed, as TLC shows with `NonceMemory = 1` ("Also seen" (f)).

The same module proves `HonestRun` of `SupervisedRun` for any kinds of parsers, retries, lines and files. Every
handler of a session is shown to keep the transcript (`Keeps`, a transitive relation, so a
handler that emits, ends and reaps is the composition of three facts); the invariant adds

* `Transcript`: the queue is the rest of what was said, in order, then the end if there is one (`Pending`);
* `Children` (`Doomed`): a child that lives although its session has ended has been told to go;
* `Workspace`: everything `git` lists was in the baseline or written since;
* `Reported`: what the report says was so when it was made, and the run moves no more.

`ChatAndRadio_proofs` proves `OneEnding`, `OnlyAuthorised`, `Recorded` and `NothingBeginsAfterCancel`, for any
number of turns that share the consents. A step is of one turn (`OneTurn`), so most of the invariant is about one
turn at a time (`TurnInv`), and an action is one lemma about the turn it moves:

* `Life`, `Queued`: where `onChatRequest` stands agrees with the entry of the map and with what the
  client was told. A refused memory request may have told it of an error while the main line goes on;
* `Opened`: what was announced and not closed is the call being handled, or the provider's own;
* `Afforded`: every request to the provider is paid for by a tool round, an utterance, the retry or the control
  round, or is the one streaming, which gives the bound in `OneEnding`;
* `Planned`: a plan belongs to who is asking, and one that allows discloses everything that is asked
  for. The save processes in two ways: between its two disclosures the first is already accepted (`Halfway`);
* `Covered`: disclosures and approvals not yet used suffice for what may begin;
* `Memorised`: what was saved and written down is what the place of the turn says.

`Reserved` is about all turns together: a consent is held by one plan only, is then reserved in the store and
unspent, and one that was spent is reserved for ever. `NothingBeginsAfterCancel` follows from the guards at the
turn that moves (`Dormant`), and from `OneTurn`, hence the invariant, at the others.

The same module proves all four safety properties of `RadioDj`, `OneReplacement`, `CancelledWorkIsSilent`,
`ConfirmedBeforeIntroduced` and `UserHasTheFloor`, for any number of activities, tracks, requests and operations in
flight. It assumes of the constants only that they are numbers and that 0 names no slot (`DjAssumption`). The invariant
`RadioInv` has four parts:

* `DjPart`: the types of the controller's fields, and a bound of its epoch by what was asked and opened: an
  operation that has captured an epoch has captured no later one, so a new epoch makes it stale for good;
* `PlayerPart`: what plays, and what an event on its way reports, has played;
* `OpsPart` (`Fits`): a replacement that is current is the attempt the controller has on record, which makes two of them one;
  a start or a replacement is not current while the controller has yielded;
* `ChainPart`: an introduction on its way is of a track that has played, a slot that waits for its comment is
  named by one comment only, and no comment has captured an epoch to come.

An action is one lemma about the slot it moves. `Evolves` says what every helper of the controller may do to an operation that is
waiting: it never makes one current again. `CancelledWorkIsSilent` and `ConfirmedBeforeIntroduced` then follow from what a step
has just said (`Uttered`): it was said by an operation, or a comment, that was current when the step began.

`UserHasTheFloor` speaks of the turn, not of the state `yielded`, which the controller may leave while the turn is open: a
search that succeeds in "music only" does. Its invariant `HeldInv` says what a held floor leaves possible: no timer runs, the one
kind of operation begun since the yield is the search after a track's end, a comment of this epoch will find the controller yielded, and
in "music only" whatever still waits for a "playing" waits for the announced track (`Hushed`). A step of a held floor keeps this and is
silent (`HoldsStill`), or is one of those that take the floor.

`DataInduction` is what the two budgets rest on. The library's induction theorems take an operator as a
parameter, which no installed prover can instantiate, but what they say of sets can be used: the numbers, or the
subsets of a finite set, that refute a claim would have a smallest one (`SmallestNat`, `MinimalSubset`). From this it proves that
the community modules' sum over a finite set is what its definition says in any order, additive over disjoint sets and
monotone, and `OnlySelects` and `RoundedAway` above are proved in the same way. `Only` is written as a recursive function rather than with
`SelectSeq`, whose recursion `tlapm` does not unfold.

Every safety invariant and action property of the passing runs is a theorem. Only model-checked is everything under
fairness (`WorkIsTakenUp`, `CallsSettle`, `QueuedIsServed`, `CancelledEnds`, `RunComesToRest`, `SelectionEnds`): liveness and ENABLED
are outside what TLAPS can prove.

## Findings

`sessions_slots` expects a violation: docs/requirements.md:652 (FR-MULTI-007) promises that an
execution "always releases its scheduler slot", also after a process-local abort. A manager whose
pump lost its lease aborts its executions and leaves their rows running; when it takes the lease again,
`recoverRunning` skips the rows of its own owner id. Their slots are taken and nobody executes
them. The run shows it with one failed renewal.

### Also seen

Where the models showed the code doing something a reader would not expect, the module states it
as a property (named below where there is one) that no run lists, because it does not hold. To see
the trace, put the property alone into a copy of the configuration named.

* (a) Supervisor. A `deferCommand` that throws strands its command until the next restart, although
  the comment at app/durable-supervisor.ts:83 says the next tick retries it: `NoStrandedCommand`
  with `DurableSafety.cfg`.
* (b) `stop()` while `start()` awaits its recovery leaves the periodic timer (app/durable-supervisor.ts:59):
  `StopIsFinal` with `DurableSafety.cfg`.
* (c) Issues. `#executionOwners` is keyed by issue alone, so a stale call of the same process saves under its
  successor's owner id (single-issue-orchestrator.ts:459): `OwnerFenced` with `Issue.cfg`,
  `ProcOf <- OneProcess` and `MethodOf <- StartResumeCancel`. A call that has abandoned its claim saves once its successor has released it
  (`LostNeverSaves`); a chat reply is returned for an issue a concurrent cancel ends (`ChatIsPersisted`,
  with `MethodOf <- StartResumeCancel`);
  a report may be in an in-flight state (`ReportIsSettled`); all with `Issue.cfg`.
* (d) Sessions. A session recovered after its issue took the answer answers again, is refused, and
  settles `outcome_unknown` while its issue is open (multi-issue-session-manager.ts:205):
  `OutcomeIsRetained`.
* (e) A report left in flight by a refused save is settled into a row which `list()` refuses from then on
  (sqlite-multi-issue-session-store.ts:233): `RowsReadable`. A cancellation that comes while the question is being
  settled leaves the session awaiting its user: `CancelledIsRequeued`. A waiting pump looks
  at the queue only after the next settlement though a slot is free: `WorkConserving`
  (`SessionsLive.cfg`, `Limit = 2`). Two orders of adding the same doubles may end on two sides of the threshold (settled costs of 0.2 and 0.1
  and a candidate of 0.3 against 0.6): `claimReady` refuses what `canAdmit` accepts, and `runPump`, with no execution to wait for, asks both again
  without an await for as long as it owns the lease (multi-issue-session-manager.ts:188), while `budgetBlocked` says what a third order gives: `SumsAgree`
  (`SessionsSafety.cfg`, with a third session, no fault and no cancellation, `Costs = {1}` and reservations of 1, 1 and 8).
* (f) Discord. A failed write of a course notice's reservation is read as a duplicate and reported "delivered" though
  nothing was posted (discord-channel.ts:417, against the comment at :408): `DeliveredIsPosted`.
  discord-dedupe-store.ts:18 says that `ambiguousSinceAt` is "kept across retries so the nonce safety window cannot
  reset", but `reserve` looks at the window only while the cursor shows a chunk in doubt. A replay inside the window
  sets the cursor back; if the process ends before it claims the chunk again, the next delivery sees no doubt, resumes
  the reply at any age, and the chunk may be shown twice: `StopsAfterWindow`, with `DiscordSafety.cfg`, `Chunks = 1`,
  `Courses = {}` and `MaxTasks = 3`. Two deliveries are enough for a notice when a process that was selected for a
  moment has read the other's reservation as a partial reply, for the sake of a message of its own, and is selected
  again later: it resumes the notice from that cached copy, which knows nothing of the doubt since
  (`MaxFaults.switches = 2`, `MaxTopics = 2`, `MaxTasks = 3`). So they are if Discord forgets a nonce before the
  replay window and a POST have passed, or before two POSTs have: a chunk arrives, its process ends, the replay is
  decided in time and its POST arrives after the queue, too late to be suppressed (`RepliesArePrefixes` with
  `NonceMemory = 1`). An answer that comes after a successor has given the reply up is still confirmed, over the
  partial record. With one lost connection an answered message may end with no reply recorded: `ReplyIsAccounted`.
  Loading the record in one process turns the reservations another is working on into partial replies; a confirmed
  chunk forgets an earlier doubt; a delivery dropped because too many turns are active gets no reply.
* (g) DJ. Switching the profile off closes the route before the music is stopped, and the adapter then
  refuses to stop it (personal-radio-dj-controller.ts:1641, activity-radio-dj-bgm.ts:145): `OffIsQuiet`.
  The contract test personal-radio-dj.contract.test.ts:1012 and the comment at controller.ts:243 have speech yield to the user; but a track that
  fails during the turn starts a replacement, which introduces its track before the turn is over (personal-radio-dj-controller.ts:848, :1179, :1312), and a
  search that throws leaves `music_only`, where the next "playing" is introduced (:921, :702): `FloorIsNeverTaken`.
  `MusicOnlyKeepsMusic` (three requests), `NeverWedged`, `StopIsTerminal` and `MusicOnlyIsSilent` fail in similar ways, with
  `RadioSafety.cfg`; a track may be introduced twice.
* (h) Team. A budget that refuses a role after `role_claimed` was stored leaves the team `running`, and its recovery says
  unknown. A `role_failed` save that throws, or a receipt of a rejection that cannot be stored, is swallowed and the rejection thrown
  all the same (issue-team-worker.ts:100), so that the orchestrator fails the issue (single-issue-orchestrator.ts:304) while the stored run stays
  `running`: `RejectionsAreRecorded`, with `TeamSafety.cfg`. A crash between the lease and the run row, or a second crash of a recovered
  run, leaves a dispatch no recovery can take up. The loser of two calls releases a lease while the winner
  still works under it.
* (i) Chat. After a role's denial has ended a turn, a disclosure of its recall may still be sent, against the header
  comment of chat-turn-handler.ts:2 (`NothingAfterTerminal`). A denial during the save ends the turn with an error but the
  transcript is appended all the same. The built-in memory save and the append are not raced with the turn's deadline. A
  cancellation is ignored once the turn is "errored" by a denial.
* (j) Supervised runs. pi and grok sessions end on a line without terminating their child
  (subagent-pi.ts:189, :192, subagent-grok.ts:65) while supervisor.ts:208 assumes it dead: `NoChildOutlivesItsSession`. If the first
  attempt ended before git answered, a second attempt has no baseline and its report blames nobody or
  everybody (`BlamesOnlyTheAgent`; supervisor.ts:76, :101). A child that traps SIGTERM and exits 0 makes a cancelled session a success
  (`CancelledIsNoSuccess`; subprocess-session.ts:257).
* (k) Coding jobs, all with `CodingJobs.cfg`. If "received" fails once, its retry starts a chain beside the "running" that
  is in flight, and the channel shows it after (`ShownInOrder`; against NFR-JEONJU-1). If an older message succeeds while
  the last state waits for its retry, the success deletes what is pending and the channel never hears how the
  job ended (`EndIsTold`, with `MaxFaults = 2`; jeonju-discord-course.ts:118, :155). A proposal is applied before the cancellation is
  looked at, so a cancelled job may have changed the repository (`CancelledLeavesNoTrace`; coding-job-service.ts:97).

## Not modelled

* **A job file that cannot be saved.** `CodingJobs` lets every save succeed. From the code: a first
  save that fails leaks the lease, a last one leaves the job running until it is cancelled or the process restarts;
  a crash between the lease file and the first save leaves the file without a job; a workspace that is gone makes the recovery,
  and with it the start of the service, throw.
* **Discord gateway and generation authority**: of the gateway only the way of a POST; otherwise the channel is modelled
  against what the gateway may do (drop, redeliver, hand over). Its own handshake has two orders worth a model: messages
  that arrive before RESUMED are lost when the socket closes, and the late 'close' of an old socket overwrites the sequence of the new one.
* **Exhibition intro and speech profiles**: scripts with one caller, whose rules for the floor are
  those modelled for the DJ.
* **Observed-spend budget**: an in-memory tally no shipped composition uses; the durable paid-call
  budget is modelled.
* **Memory surfacing and reload**: scoring and rendering of memories is data. What a turn does with
  them (a recall that outlives its turn, a save that never returns) is in `ChatTurn`.
* **Providers, gRPC and stdio, settings, tools, stores of plain files, command line, benchmarks**: translation and I/O with
  little state of their own. Where they decide anything of a model they appear as the external steps
  of its actors, or as the constants of the composition.

Within the modelled components, texts, digests, prices, scores, event logs and layouts are left out
throughout; each section above names what else is. Large parts of the longest files
(prompts of the DJ and of the chat turn, the parsing of subprocess lines, Discord's
formatting) are of that kind, which is why the mapped lines are a fraction of them.
