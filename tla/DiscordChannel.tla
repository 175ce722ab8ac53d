---------------------------- MODULE DiscordChannel ----------------------------
(* The Discord channel runtime (adapters/discord-channel.ts): how a message   *)
(* that the gateway delivers becomes at most one turn of the agent, and how   *)
(* the reply is posted chunk by chunk over the durable record of              *)
(* DiscordDedupe.  Several processes share the record: one generation hands   *)
(* over to the next while it may still be answering, or crashes.              *)
(*                                                                            *)
(* A task is one delivery of a message on its way through handleMessage,      *)
(* handleEmit and sendDurableReply (or one sendCourseLifecycle call of the    *)
(* host); each await is a step of its own.  The Discord service is what the   *)
(* code relies on: a POST arrives, at any moment of its way and as often as   *)
(* the gateway retries it, or it does not; its answer arrives or not; and a   *)
(* nonce seen in the last NonceMemory ticks is not posted again.              *)
EXTENDS DiscordDedupe, Sequences, FiniteSets, Functions

CONSTANTS Chunks,          \* chunks a reply consists of
          Procs,           \* agent processes, in the order they start
          Messages,        \* messages of one conversation
          Courses,         \* fixed course notices of the host
          MaxActiveTurns,
          NonceMemory,     \* how long Discord enforces a nonce, in ticks
          PostTimeout,     \* how long a POST takes at most, in ticks: behind the replies
                           \* queued before it, and with its retries and their sleeps
          MaxTasks, MaxTopics, MaxTime,
          MaxFaults        \* bounds of the model: how often each kind of fault may
                           \* happen, and all of them together

Faults == {"configures", "switches", "crashes", "losses", "writes"}
ASSUME DiscordConstants ==
    /\ Chunks \in Nat \ {0} /\ Procs \subseteq Nat \ {Nobody}
    /\ Courses \cap Messages = {}
    /\ MaxFaults \in [Faults \cup {"all"} -> Nat]
    /\ MaxActiveTurns \in Nat \ {0} /\ {PostTimeout, MaxTime, NonceMemory} \subseteq Nat
    /\ NonceMemory >= ReplayWindow

VARIABLES file,     \* the dedupe file
          cached,   \* per process: its copy of the file
          proc,     \* per process: phase, lifecycleEpoch, authorityPrepared, connection
          selected, \* the process whose generation the authority file names
          tasks,    \* the deliveries, in the order they came
          now,      \* the clock
          routed,   \* per message: how often it was handed to the agent
          visible,  \* per message: the chunks people see, in order
          nonceAt,  \* per message: when Discord first saw a chunk's nonce
          spent     \* what is used up of the bounds on faults

vars == <<file, cached, proc, selected, tasks, now, routed, visible, nonceAt, spent>>

Ids == Messages \cup Courses
Parts(m) == IF m \in Courses THEN 1 ELSE Chunks
Tasks == 1..Len(tasks)

Phases == {"unborn", "running", "quiescing", "stopped", "crashed"}
Stages == {"queued", "admitted", "doubtful", "reserved", "resuming", "preparing", "awaiting", "finished",
           "begun", "sending", "claimed", "posting", "answered", "abandoning", "done"}

Alive(p) == proc[p].phase \in {"running", "quiescing"}
IsActive(p) == selected = p
IsLifecycleCurrent(d) == Alive(tasks[d].p) /\ proc[tasks[d].p].epoch = tasks[d].epoch

(* ensureAuthoritative(): a process that is not selected forgets that it was  *)
(* prepared; one that is selected again first loads the file anew.            *)
Fresh(p) == IF proc[p].prepared THEN file ELSE [m \in Ids |-> Recovered(file[m], p)]
Cache(p) == IF proc[p].prepared THEN cached[p] ELSE Fresh(p)
May(d) == IsActive(tasks[d].p) /\ IsLifecycleCurrent(d)
EnsureAuthoritative(p) ==
    proc' = [proc EXCEPT ![p].prepared = Alive(p) /\ IsActive(p)]
NoLoad(p) == UNCHANGED <<file, cached>>
Refresh(p) == file' = Fresh(p) /\ cached' = [cached EXCEPT ![p] = Cache(p)]

(* How a task goes on: to the next await, or to its end.  A reply is sent     *)
(* over the connection of the moment: without one it is not even begun.       *)
At(d, stage) == [tasks[d] EXCEPT !.stage = stage]
Ended(d, result) ==
    [tasks[d] EXCEPT !.stage = "done", !.held = FALSE, !.epoch = 0, !.i = 0,
                     !.result = IF tasks[d].m \in Courses THEN result ELSE "none"]
SendDurableReply(d, start) ==
    LET p == tasks[d].p IN
    IF ~proc[p].ready THEN Ended(d, "retry")
    ELSE [At(d, "sending") EXCEPT !.i = start,
                                  !.epoch = IF tasks[d].m \in Courses THEN proc[p].epoch ELSE @]
Happens(f) ==
    /\ spent[f] < MaxFaults[f]
    /\ FoldFunction(+, 0, spent) < MaxFaults["all"]
    /\ spent' = [spent EXCEPT ![f] = @ + 1]
Go(d, task) == tasks' = [tasks EXCEPT ![d] = task]

(* The check between two awaits failed: the task goes on as told.             *)
Lapse(d, task) ==
    LET p == tasks[d].p IN
    /\ ~May(d)
    /\ EnsureAuthoritative(p)
    /\ IF Alive(p) /\ IsActive(p) THEN Refresh(p) ELSE NoLoad(p)
    /\ Go(d, task)
    /\ UNCHANGED <<selected, now, routed, visible, nonceAt, spent>>

(* A call on the dedupe port: want is what it asks of the cached entry, e the *)
(* entry it writes.  It succeeds when the file accepts e; a process that      *)
(* fails to write keeps the copy it has.                                      *)
Written(p, m, want, e) == want /\ Accepts(Fresh(p)[m], e)
Record(p, m, want, e) ==
    LET f == IF Written(p, m, want, e) THEN [Fresh(p) EXCEPT ![m] = Merged(@, e)] ELSE Fresh(p) IN
    /\ file' = f
    /\ cached' = [cached EXCEPT ![p] = IF Written(p, m, want, e) THEN f ELSE Cache(p)]
WriteFails(p) ==
    /\ Happens("writes")
    /\ Refresh(p)

Admitted(p) == {d \in Tasks : tasks[d].p = p /\ tasks[d].held /\ tasks[d].stage # "awaiting"}
Active(p) == {d \in Tasks : tasks[d].p = p /\ tasks[d].stage = "awaiting"}
InFlight(p) == {d \in Tasks : tasks[d].p = p /\ tasks[d].stage # "done"}

-------------------------------------------------------------------------------
Init ==
    /\ file = [m \in Ids |-> NoEntry]
    /\ cached = [p \in Procs |-> [m \in Ids |-> NoEntry]]
    /\ proc = [p \in Procs |-> [phase |-> "unborn", epoch |-> 0, prepared |-> FALSE, ready |-> FALSE]]
    /\ selected \in Procs /\ \A p \in Procs : selected <= p
    /\ tasks = <<>> /\ now = 0
    /\ routed = [m \in Ids |-> 0]
    /\ visible = [m \in Ids |-> <<>>]
    /\ nonceAt = [m \in Ids |-> [i \in 1..Parts(m) |-> Never]]
    /\ spent = [f \in Faults |-> 0]

(* A process starts: the store loads the file, and run() connects (nothing    *)
(* is delivered before it has).                                               *)
Start(p) ==
    /\ proc[p].phase = "unborn"
    /\ \A q \in Procs : q < p => proc[q].phase # "unborn"
    /\ proc' = [proc EXCEPT ![p].phase = "running", ![p].ready = TRUE]
    /\ file' = [m \in Ids |-> Recovered(file[m], p)]
    /\ cached' = [cached EXCEPT ![p] = file']
    /\ UNCHANGED <<selected, tasks, now, routed, visible, nonceAt, spent>>

(* run(): the connection closes, and the gateway becomes ready again.         *)
Connect(p) ==
    /\ Alive(p) /\ ~proc[p].ready
    /\ proc' = [proc EXCEPT ![p].ready = TRUE]
    /\ UNCHANGED <<file, cached, selected, tasks, now, routed, visible, nonceAt, spent>>
Disconnect(p) ==
    /\ Alive(p) /\ proc[p].ready
    /\ proc' = [proc EXCEPT ![p].ready = FALSE]
    /\ Happens("losses")
    /\ UNCHANGED <<file, cached, selected, tasks, now, routed, visible, nonceAt>>

(* scheduleMessage(): a quiescing process admits nothing, a busy one drops;   *)
(* and the host's retry queue calls sendCourseLifecycle.                      *)
Deliver(p, m) ==
    /\ proc[p].ready /\ Len(tasks) < MaxTasks
    /\ Cardinality({m} \cup {tasks[d].m : d \in Tasks}) <= MaxTopics
    /\ \/ m \in Messages /\ proc[p].phase = "running"
          /\ Cardinality(Active(p)) + Cardinality(Admitted(p)) < MaxActiveTurns
       \/ m \in Courses /\ Alive(p)
    /\ tasks' = Append(tasks, [p |-> p, m |-> m, epoch |-> proc[p].epoch, stage |-> "queued",
                               i |-> 0, post |-> 0, at |-> 0, held |-> m \in Messages, result |-> "none"])
    /\ UNCHANGED <<file, cached, proc, selected, now, routed, visible, nonceAt, spent>>

(* handleMessage() up to the ingress policy: the messages of a conversation   *)
(* are handled one after another.                                             *)
HeadOfQueue(d) == \A b \in 1..(d - 1) : tasks[b].p = tasks[d].p => ~tasks[b].held
HandleMessage(d) ==
    LET p == tasks[d].p IN
    /\ tasks[d].stage = "queued" /\ tasks[d].m \in Messages /\ HeadOfQueue(d)
    /\ \/ Lapse(d, Ended(d, "none"))
       \/ /\ May(d) /\ EnsureAuthoritative(p) /\ Refresh(p)
          /\ Go(d, At(d, "admitted"))
          /\ UNCHANGED <<selected, now, routed, visible, nonceAt, spent>>

(* dedupe.reserve(): a new message is processed, an unfinished reply resumed, *)
(* anything else is a duplicate; so is a message whose reservation fails.     *)
Reserve(d) ==
    LET p == tasks[d].p  m == tasks[d].m  e == Cache(p)[m]  w == Reservation(e, p, now)
        answer == IF ReserveWrites(e) /\ ~Written(p, m, TRUE, w) THEN "duplicate" ELSE Decision(e, now)
    IN
    /\ tasks[d].stage = "admitted"
    /\ \/ Lapse(d, Ended(d, "none"))
       \/ /\ May(d) /\ EnsureAuthoritative(p)
          /\ \/ Record(p, m, ReserveWrites(e), w) /\ UNCHANGED spent
                /\ Go(d, CASE answer = "process" -> At(d, "reserved")
                           [] answer = "resume_reply" -> [At(d, "resuming") EXCEPT !.i = e.conf]
                           [] OTHER -> Ended(d, "none"))
             \/ ReserveWrites(e) /\ WriteFails(p) /\ Go(d, Ended(d, "none"))
          /\ UNCHANGED <<selected, now, routed, visible, nonceAt>>

(* After the reservation: a resumed reply goes on from its cursor, a mention  *)
(* gets its thread and the inbox its record.  Both may fail or find the world *)
(* changed, and then the reservation is finished as interrupted.              *)
Prepare(d) ==
    LET p == tasks[d].p IN
    /\ tasks[d].m \in Messages
    /\ \/ tasks[d].stage = "reserved" /\ Lapse(d, At(d, "abandoning"))
       \/ tasks[d].stage = "resuming" /\ Lapse(d, Ended(d, "none"))
       \/ /\ May(d) /\ EnsureAuthoritative(p) /\ Refresh(p)
          /\ \/ tasks[d].stage = "reserved"
                /\ \E next \in {"preparing", "abandoning"} : Go(d, At(d, next))
             \/ tasks[d].stage = "resuming" /\ Go(d, SendDurableReply(d, tasks[d].i))
          /\ UNCHANGED <<selected, now, routed, visible, nonceAt, spent>>

(* The dispatch: the message becomes a turn of the agent.                     *)
Dispatch(d) ==
    LET p == tasks[d].p IN
    /\ tasks[d].stage = "preparing"
    /\ \/ Lapse(d, At(d, "abandoning"))
       \/ /\ May(d) /\ EnsureAuthoritative(p) /\ Refresh(p)
          /\ routed' = [routed EXCEPT ![tasks[d].m] = @ + 1]
          /\ Go(d, At(d, "awaiting"))
          /\ UNCHANGED <<selected, now, visible, nonceAt, spent>>

(* handleEmit() of the turn's finish or error: the turn ends and lets the     *)
(* next message of the conversation go, then its reply is written down.       *)
Released(d, stage) == [At(d, stage) EXCEPT !.held = FALSE]
Finish(d) ==
    LET p == tasks[d].p IN
    /\ tasks[d].stage = "awaiting"
    /\ \/ Lapse(d, Released(d, "abandoning"))
       \/ /\ May(d) /\ EnsureAuthoritative(p) /\ Refresh(p)
          /\ Go(d, Released(d, "finished"))
          /\ UNCHANGED <<selected, now, routed, visible, nonceAt, spent>>
BeginReply(d) ==
    LET p == tasks[d].p  m == tasks[d].m  e == Cache(p)[m]  want == e.state = "reserved" IN
    /\ tasks[d].stage = "finished"
    /\ \/ Lapse(d, At(d, "abandoning"))
       \/ /\ May(d) /\ EnsureAuthoritative(p)
          /\ \/ Record(p, m, want, Replying(e, Chunks, now)) /\ UNCHANGED spent
                /\ Go(d, IF Written(p, m, want, Replying(e, Chunks, now)) THEN At(d, "begun") ELSE Ended(d, "none"))
             \/ WriteFails(p) /\ Go(d, Ended(d, "none"))
          /\ UNCHANGED <<selected, now, routed, visible, nonceAt>>
StartReply(d) ==
    /\ tasks[d].stage = "begun"
    /\ Go(d, IF IsLifecycleCurrent(d) THEN SendDurableReply(d, 0) ELSE At(d, "abandoning"))
    /\ UNCHANGED <<file, cached, proc, selected, now, routed, visible, nonceAt, spent>>

(* sendDurableReply(): each chunk is claimed, posted and confirmed in turn;   *)
(* before the claim and before the POST the task looks whether it still may.  *)
ClaimChunk(d) ==
    LET p == tasks[d].p  m == tasks[d].m  e == Cache(p)[m]  i == tasks[d].i + 1
        want == CanClaim(e, i)
    IN
    /\ tasks[d].stage = "sending"
    /\ \/ Lapse(d, At(d, "abandoning"))
       \/ /\ May(d) /\ EnsureAuthoritative(p)
          /\ \/ Record(p, m, want, Claimed(e, i, now)) /\ UNCHANGED spent
                /\ Go(d, At(d, IF Written(p, m, want, Claimed(e, i, now)) THEN "claimed" ELSE "abandoning"))
             \/ WriteFails(p) /\ Go(d, At(d, "abandoning"))
          /\ UNCHANGED <<selected, now, routed, visible, nonceAt>>
\* connection.sendReply(): the POST of chunk tasks[d].post is on its way since .at
SendReply(d) ==
    LET p == tasks[d].p IN
    /\ tasks[d].stage = "claimed"
    /\ \/ Lapse(d, At(d, "abandoning"))
       \/ /\ May(d) /\ EnsureAuthoritative(p) /\ Refresh(p)
          /\ Go(d, [At(d, "posting") EXCEPT !.post = tasks[d].i + 1, !.at = now])
          /\ UNCHANGED <<selected, now, routed, visible, nonceAt, spent>>
ConfirmChunk(d) ==
    LET p == tasks[d].p  m == tasks[d].m  e == cached[p][m]  i == tasks[d].i + 1
        want == CanConfirm(e, i)  w == Confirmed(e, i, now)
        ok == want /\ Accepts(file[m], w)
    IN
    /\ tasks[d].stage = "answered"
    /\ \/ ok /\ UNCHANGED spent
          /\ file' = [file EXCEPT ![m] = w]
          /\ cached' = [cached EXCEPT ![p] = file']
          /\ Go(d, IF ~IsLifecycleCurrent(d) THEN [At(d, "abandoning") EXCEPT !.i = i]
                   ELSE IF i = Parts(m) THEN Ended(d, "delivered")
                   ELSE [At(d, "sending") EXCEPT !.i = i])
       \/ Happens("writes")
          /\ Go(d, At(d, "abandoning")) /\ NoLoad(p)
       \/ ~(ok /\ IsLifecycleCurrent(d)) /\ UNCHANGED spent
          /\ Go(d, At(d, "abandoning")) /\ NoLoad(p)
    /\ UNCHANGED <<proc, selected, now, routed, visible, nonceAt>>
\* sendReply() throws: refused, timed out, aborted or out of retries
PostFails(d) ==
    /\ tasks[d].stage = "posting"
    /\ Go(d, At(d, "abandoning"))
    /\ UNCHANGED <<file, cached, proc, selected, now, routed, visible, nonceAt, spent>>

(* recordPartial(), finishInterruptedReservation(): as far as it can be       *)
(* written.                                                                   *)
RecordPartial(d) ==
    LET p == tasks[d].p  m == tasks[d].m  e == cached[p][m]  w == GivenUp(e, tasks[d].i, now) IN
    /\ tasks[d].stage = "abandoning"
    /\ \/ CanGiveUp(e) /\ Accepts(file[m], w) /\ UNCHANGED spent
          /\ file' = [file EXCEPT ![m] = Merged(@, w)]
          /\ cached' = [cached EXCEPT ![p] = file']
       \/ ~(CanGiveUp(e) /\ Accepts(file[m], w)) /\ NoLoad(p) /\ UNCHANGED spent
       \/ Happens("writes") /\ NoLoad(p)
    /\ Go(d, Ended(d, "retry"))
    /\ UNCHANGED <<proc, selected, now, routed, visible, nonceAt>>

(* sendCourseLifecycle(): the notice takes the same way without a turn, and   *)
(* a duplicate may be a partial to resume.                                    *)
CourseReserve(d) ==
    LET p == tasks[d].p  m == tasks[d].m  e == Cache(p)[m]  w == Reservation(e, p, now)
        answer == IF ReserveWrites(e) /\ ~Written(p, m, TRUE, w) THEN "duplicate" ELSE Decision(e, now)
    IN
    /\ tasks[d].stage = "queued" /\ m \in Courses
    /\ \/ Alive(p) /\ IsActive(p) /\ proc[p].ready /\ EnsureAuthoritative(p)
          /\ \/ Record(p, m, ReserveWrites(e), w) /\ UNCHANGED spent
                /\ Go(d, CASE answer = "process" -> At(d, "reserved")
                           [] answer = "resume_reply" -> SendDurableReply(d, e.conf)
                           [] OTHER -> At(d, "doubtful"))
             \/ ReserveWrites(e) /\ WriteFails(p) /\ Go(d, At(d, "doubtful"))
       \/ ~(Alive(p) /\ IsActive(p) /\ proc[p].ready) /\ NoLoad(p) /\ UNCHANGED <<proc, spent>>
          /\ Go(d, Ended(d, "retry"))
    /\ UNCHANGED <<selected, now, routed, visible, nonceAt>>
CourseRecord(d, want, w, start) ==
    LET p == tasks[d].p  m == tasks[d].m  ok == want /\ Accepts(file[m], w) IN
    /\ \/ ok /\ UNCHANGED spent /\ Go(d, SendDurableReply(d, start))
          /\ file' = [file EXCEPT ![m] = Merged(@, w)] /\ cached' = [cached EXCEPT ![p] = file']
       \/ ~ok /\ UNCHANGED spent /\ Go(d, Ended(d, "retry")) /\ NoLoad(p)
       \/ Happens("writes")
          /\ Go(d, Ended(d, "retry")) /\ NoLoad(p)
    /\ UNCHANGED <<proc, selected, now, routed, visible, nonceAt>>
CourseBegin(d) ==
    LET e == cached[tasks[d].p][tasks[d].m] IN
    /\ tasks[d].stage = "reserved" /\ tasks[d].m \in Courses
    /\ CourseRecord(d, e.state = "reserved", Replying(e, 1, now), 0)
CourseResume(d) ==
    LET p == tasks[d].p  e == cached[p][tasks[d].m]  decision == Resumption(e, now) IN
    /\ tasks[d].stage = "doubtful"
    /\ \/ decision = "resumed" /\ CourseRecord(d, TRUE, Resumed(e, p, 1, now), e.conf)
       \/ /\ decision # "resumed"
          /\ Go(d, Ended(d, IF decision = "not_partial" THEN "delivered" ELSE decision))
          /\ UNCHANGED <<file, cached, proc, selected, now, routed, visible, nonceAt, spent>>

-------------------------------------------------------------------------------
(* configure() and stopRuntime(): a new epoch; the turns of the old one are   *)
(* cancelled and recorded as partial, what else is under way finds out.       *)
NextEpoch(p, phase) ==
    /\ proc' = [proc EXCEPT ![p] = [phase |-> phase, epoch |-> @.epoch + 1,
                                    prepared |-> FALSE, ready |-> FALSE]]
    /\ tasks' = [d \in Tasks |-> IF d \in Active(p) THEN Released(d, "abandoning") ELSE tasks[d]]
    /\ UNCHANGED <<file, cached, selected, now, routed, visible, nonceAt>>
Configure(p) ==
    /\ proc[p].phase = "running"
    /\ NextEpoch(p, "running")
    /\ Happens("configures")
(* gracefulStop() waits for what is under way, for a bounded time; with       *)
(* nothing under way it is a stop.                                            *)
Quiesce(p) ==
    /\ proc[p].phase = "running" /\ InFlight(p) # {}
    /\ proc' = [proc EXCEPT ![p].phase = "quiescing"]
    /\ UNCHANGED <<file, cached, selected, tasks, now, routed, visible, nonceAt, spent>>
Stop(p) ==
    /\ Alive(p)
    /\ NextEpoch(p, "stopped") /\ UNCHANGED spent
Crash(p) ==
    /\ Alive(p)
    /\ proc' = [proc EXCEPT ![p].phase = "crashed", ![p].ready = FALSE]
    /\ tasks' = [d \in Tasks |-> IF tasks[d].p = p THEN Ended(d, tasks[d].result) ELSE tasks[d]]
    /\ Happens("crashes")
    /\ cached' = [cached EXCEPT ![p] = [m \in Ids |-> NoEntry]]
    /\ UNCHANGED <<file, selected, now, routed, visible, nonceAt>>

(* The host selects another process: in place of one that ended, or while     *)
(* that one still runs.                                                       *)
Select(p) ==
    /\ p # selected /\ Alive(p)
    /\ selected' = p
    /\ IF Alive(selected) THEN Happens("switches") ELSE UNCHANGED spent
    /\ UNCHANGED <<file, cached, proc, tasks, now, routed, visible, nonceAt>>

(* A POST reaches Discord, the first time or again: its answer may be lost,   *)
(* and the gateway then retries it.  Nobody may wait for it any more: whoever *)
(* sent it has given up, was replaced or has crashed meanwhile.               *)
Arrives(d) ==
    LET m == tasks[d].m  i == tasks[d].post IN
    /\ i # 0 /\ now - tasks[d].at <= PostTimeout
    /\ IF nonceAt[m][i] # Never /\ now - nonceAt[m][i] <= NonceMemory
       THEN UNCHANGED <<visible, nonceAt>>
       ELSE visible' = [visible EXCEPT ![m] = Append(@, i)] /\ nonceAt' = [nonceAt EXCEPT ![m][i] = now]
    /\ \/ UNCHANGED tasks
       \/ tasks[d].stage = "posting" /\ Go(d, [At(d, "answered") EXCEPT !.post = 0, !.at = 0])
    /\ UNCHANGED <<file, cached, proc, selected, now, routed, spent>>

(* Time passes while the agent answers or a POST is on its way, which is      *)
(* answered or given up in time; not between a decision to claim or to post   *)
(* and the hand-over to the gateway, nor between an answer or an interruption *)
(* and its record: only microtasks and local files lie between them.  It      *)
(* matters only while the file holds a doubt that grows old.                  *)
Tick ==
    /\ now < MaxTime
    /\ \E m \in Ids : InDoubt(file[m]) \/ file[m].since # Never
    /\ \A d \in Tasks : tasks[d].stage \notin {"doubtful", "resuming", "begun", "sending", "claimed",
                                                "answered", "abandoning"}
                       /\ ~(tasks[d].stage = "reserved" /\ tasks[d].m \in Courses)
                       /\ (tasks[d].stage = "posting" => now - tasks[d].at < PostTimeout)
    /\ now' = now + 1
    /\ UNCHANGED <<file, cached, proc, selected, tasks, routed, visible, nonceAt, spent>>

TaskStep(d) ==
    \/ HandleMessage(d) \/ Reserve(d) \/ Prepare(d) \/ Dispatch(d) \/ Finish(d) \/ BeginReply(d)
    \/ StartReply(d) \/ ClaimChunk(d) \/ SendReply(d) \/ ConfirmChunk(d) \/ PostFails(d) \/ RecordPartial(d)
    \/ CourseReserve(d) \/ CourseBegin(d) \/ CourseResume(d)
Environment ==
    \/ \E p \in Procs : \/ Start(p) \/ Connect(p) \/ Disconnect(p) \/ Configure(p) \/ Quiesce(p)
                        \/ Stop(p) \/ Crash(p) \/ Select(p)
                        \/ \E m \in Ids : Deliver(p, m)
    \/ \E d \in Tasks : Arrives(d)
    \/ Tick
Next == Environment \/ \E d \in Tasks : TaskStep(d)

(* Promises are resumed, requests to Discord time out, and the agent ends     *)
(* every turn with finish or error.                                           *)
Fairness == \A d \in 1..MaxTasks : WF_vars(d \in Tasks /\ TaskStep(d))
Spec == Init /\ [][Next]_vars /\ Fairness

-------------------------------------------------------------------------------
Entry == [state : States, owner : Procs \cup {Nobody}, parts : 0..Chunks, next : 0..Chunks,
          conf : 0..Chunks, upd : 0..MaxTime, since : (0..MaxTime) \cup {Never}, known : BOOLEAN]
(* Everything has its type, and the cursor of a reply is inside it.           *)
TypeOK ==
    /\ file \in [Ids -> Entry]
    /\ \A p \in Procs : cached[p] \in [Ids -> Entry]
    /\ \A p \in Procs : proc[p].phase \in Phases /\ proc[p].epoch \in 0..(MaxFaults["configures"] + 1)
    /\ \A d \in Tasks : tasks[d].stage \in Stages /\ tasks[d].m \in Ids /\ tasks[d].i \in 0..Chunks
    /\ \A m \in Ids : file[m].conf <= file[m].next \/ file[m].state = "partial"
    /\ selected \in Procs /\ now \in 0..MaxTime

(* However often the gateway delivers a message, across reconnects, new       *)
(* configurations, hand-overs to another process and crashes, the agent is    *)
(* asked to answer it at most once.                                           *)
RoutedOnce == \A m \in Ids : routed[m] <= 1

(* No chunk of a reply is shown before the ones before it, although several    *)
(* tasks of several processes may be sending it.                              *)
RepliesInOrder ==
    \A m \in Ids : \A k \in DOMAIN visible[m] :
        1..(visible[m][k] - 1) \subseteq {visible[m][j] : j \in 1..(k - 1)}

(* What people see of a reply that was delivered once or twice is a prefix of *)
(* it: nothing is posted again after Discord has forgotten its nonce, which   *)
(* it remembers for the replay window and a POST longer.  A third delivery    *)
(* may be (see StopsAfterWindow), and a course notice after a living process  *)
(* has handed over: when it takes over again, it resumes the notice from the  *)
(* copy of the record it has kept.                                            *)
RepliesArePrefixes ==
    \A m \in Ids :
        /\ Cardinality({d \in Tasks : tasks[d].m = m}) <= 2
        /\ m \in Courses => spent.switches = 0
        => visible[m] = [i \in 1..Len(visible[m]) |-> i]

(* The record claims no more than happened: the confirmed chunks are visible, *)
(* and a completed message has its whole reply.                               *)
RecordIsHonest ==
    \A m \in Ids :
        /\ 1..file[m].conf \subseteq Range(visible[m])
        /\ file[m].state = "completed" => 1..Parts(m) = Range(visible[m])

(* What no task works on any more is never left reserved or with a chunk in   *)
(* doubt: a stop, a new configuration and the loss of authority all settle    *)
(* what they interrupt.  A crash, a failed write or a successor that has      *)
(* taken the reply over leave it to the next start.                           *)
Undisturbed(m) ==
    /\ spent.writes = 0
    /\ \A p \in Procs : proc[p].phase # "crashed" /\ (p # file[m].owner => proc[p].phase = "unborn")
    /\ \A d \in Tasks : tasks[d].m = m => tasks[d].stage = "done"
NothingLeftInDoubt ==
    \A m \in Ids : Undisturbed(m) => file[m].state # "reserved" /\ ~InDoubt(file[m])

(* Together: replies are shown in order, the record is true of the channel,   *)
(* and nothing in it is left open.                                            *)
RecordMatchesChannel == TypeOK /\ RepliesInOrder /\ RecordIsHonest /\ NothingLeftInDoubt

(* A course notice reported as delivered was posted: the comment in           *)
(* sendCourseLifecycle promises no false success to the host's retry queue.   *)
DeliveredIsPosted ==
    \A d \in Tasks : tasks[d].m \in Courses /\ tasks[d].result = "delivered"
        => visible[tasks[d].m] # <<>>

(* A reply the agent gave is completed or recorded as partial once nobody     *)
(* works on it any more.                                                      *)
ReplyIsAccounted ==
    \A m \in Messages :
        routed[m] > 0 /\ Undisturbed(m) => file[m].state \in {"completed", "partial"}

(* A chunk whose POST may have arrived is not posted again once the replay    *)
(* window after that POST has passed: the anchor of the doubt is "kept across *)
(* retries so the nonce safety window cannot reset".                          *)
StopsAfterWindow ==
    \A d \in Tasks :
        LET e == file[tasks[d].m]
        IN  tasks[d].stage = "claimed" /\ InDoubt(e) /\ e.since # Never => now - e.since <= ReplayWindow

(* Every delivery that was admitted comes to its end.                         *)
TasksEnd == \A d \in 1..MaxTasks : d \in Tasks ~> d \in Tasks /\ tasks[d].stage = "done"
===============================================================================
