------------------------------ MODULE RadioDj ------------------------------
(* The personal radio DJ: PersonalRadioDjController, the activity route table *)
(* and speech egress it talks through, the BGM adapter and the player of the  *)
(* shell behind it.                                                           *)
(*                                                                            *)
(* The controller is single threaded: an action runs from one await to the    *)
(* next. What it awaits - a search, a player status, a comment being written, *)
(* a stop - is a slot of ops or the head of chain; it captured the activity   *)
(* and the operationEpoch at its start and asks Current before it goes on.    *)
(* The generation of the code changes only together with the epoch, so the    *)
(* epoch stands for both. Speech leaves at once through the deployed egress:  *)
(* speak() and what follows it are one step.                                  *)
(* Left out: times and back-off delays, the lease (it only counts), sequence  *)
(* numbers inside one playback (its retired identifiers already drop what is  *)
(* late) and the wording of comments and queries.                             *)
EXTENDS Naturals, Sequences, FiniteSets

CONSTANTS
    Slots,          \* concurrent asynchronous operations, a set of numbers
    MaxActivities,  \* bound: activities opened
    MaxTracks,      \* bound: tracks the player loads
    MaxRequests,    \* bound: requests of the user, the profile and the subscription
    MaxChain,       \* bound: queued transition comments
    MaxMail,        \* bound: player events on their way
    Controls,       \* the controls, profile changes and user turns that occur
    Faults          \* subset of {"throw", "slow", "error", "churn", "skip"}

ASSUME DjAssumption ==
    /\ Slots \subseteq Nat \ {0}     \* 0 is None
    /\ {MaxActivities, MaxTracks, MaxRequests, MaxChain, MaxMail} \subseteq Nat

VARIABLES
    dj,             \* the fields of the controller
    subscribed,     \* subscriberReady
    lanes,          \* the activities with an open route
    opened,         \* activities opened so far
    player,         \* what the shell plays: track, status and whether one is queued
    loaded,         \* tracks loaded so far
    mail,           \* player events the shell has not delivered yet
    ops,            \* per slot the operation that is waiting, or Free
    chain,          \* transitionSpeechChain
    turns,          \* resume bindings handed to user turns
    spoke,          \* the utterance of the last step, or Silence
    asked,          \* requests made so far
    floor,          \* the user's turn: "free", "held", or "disturbed" (history)
    played          \* the tracks that ever played

djVars == <<dj, subscribed, lanes, opened, player, loaded, mail, ops, chain, turns, spoke, asked, floor, played>>

None == 0
Free == [kind |-> "free"]
Silence == [what |-> "silence"]
AnyTrack == MaxTracks + 1       \* a pendingTransition that names no track
NoPending == MaxTracks + 2
States == {"disabled", "idle", "selecting", "dj_speaking", "music_only", "yielded", "stopped"}
Tracks == 1..MaxTracks

-----------------------------------------------------------------------------
(* The controller's helpers, as functions of its fields.                     *)

Fresh == [configured |-> FALSE, st |-> "disabled", act |-> None, epoch |-> 0, aborted |-> TRUE,
          preserve |-> {}, replacing |-> None, timer |-> "none", yields |-> 0,
          musicOnly |-> FALSE, awaiting |-> FALSE, pending |-> NoPending, deferred |-> FALSE,
          playback |-> None, video |-> None, retP |-> {}, retV |-> {}, annP |-> {}, annV |-> None,
          notices |-> {}]

CurrentActivity(d, o) == o.act = d.act /\ ~d.aborted /\ d.st # "stopped"     \* mutant: no epoch
Current(d, o) ==
    /\ o.act = d.act /\ o.epoch = d.epoch
    /\ ~d.aborted /\ d.st # "stopped"

CancelFlow(d) == [d EXCEPT !.timer = "none"]

ArmIdle(d, ready) ==
    IF d.configured /\ d.st = "idle" /\ ready /\ d.timer = "none"
    THEN [d EXCEPT !.timer = "idle"] ELSE d

ScheduleComment(d) ==
    IF d.configured /\ d.act # None /\ d.st = "dj_speaking" /\ d.timer = "none"
    THEN [d EXCEPT !.timer = "comment"] ELSE d

RetireExecution(d) ==
    [CancelFlow(d) EXCEPT !.replacing = None, !.preserve = {}, !.pending = NoPending,
                          !.deferred = FALSE, !.epoch = @ + 1, !.aborted = TRUE]

\* a success, or anything the user asks for, closes a run of failures
ResetBackoff(d) == [d EXCEPT !.notices = {}]

Settled(d) == [ResetBackoff(d) EXCEPT !.awaiting = FALSE, !.pending = NoPending]

RetireTrack(d, p, v) ==
    [d EXCEPT !.retP = @ \cup ({p} \ {None}), !.retV = @ \cup ({v} \ {None}),
              !.playback = IF @ = p THEN None ELSE @, !.video = IF @ = v THEN None ELSE @]

\* results carry a video only, events a playback too
AcceptTrack(d, p, v) ==
    LET other == d.video # None /\ d.video # v
        gone  == ({d.playback} \ {None, p}) \cap (IF p # None \/ other THEN {d.playback} ELSE {})
    IN  [d EXCEPT !.retP = (@ \cup gone) \ ({p} \ {None}),
                  !.retV = (IF other THEN @ \cup {d.video} ELSE @) \ {v},
                  !.annV = IF other /\ @ # v THEN None ELSE @,
                  !.playback = IF p # None THEN p ELSE IF gone # {} THEN None ELSE @,
                  !.video = v]

\* a transition the shell has announced: its track becomes the active one, unconfirmed
Expect(d, next) ==
    [d EXCEPT !.annV = None, !.playback = next, !.video = next, !.retP = @ \ {next}, !.retV = @ \ {next},
              !.pending = next, !.awaiting = TRUE]

MarkAnnounced(d, p, v) == [d EXCEPT !.annP = @ \cup ({p} \ {None}), !.annV = v]
HasAnnounced(d, p, v) == p \in d.annP \/ d.annV = v

Stale(d, e) ==
    CASE e.kind = "playing" -> e.track \in d.retP \cup d.retV
      [] e.kind = "changed" ->
            \/ e.next \in d.retP \cup d.retV
            \/ d.video \notin {None, e.track, e.next}
      [] OTHER ->
            \/ e.track \in d.retP \cup d.retV
            \/ d.playback \notin {None, e.track}
            \/ d.video \notin {None, e.track}

-----------------------------------------------------------------------------
(* What the controller reaches: speech, slots, the chain and the player.      *)

Audible(d) == d.act \in lanes /\ ~d.aborted /\ d.st # "stopped"

Say(d, what, track, epoch) ==
    spoke' = IF Audible(d) THEN [what |-> what, track |-> track, act |-> d.act, epoch |-> epoch]
             ELSE Silence
Quiet == spoke' = Silence

Op(kind, pc, d, yielded) ==
    [kind |-> kind, pc |-> pc, act |-> d.act, epoch |-> d.epoch, track |-> None, prev |-> None,
     yielded |-> yielded]
Step(what, track, d, slot, yielded) ==
    [what |-> what, track |-> track, act |-> d.act, epoch |-> d.epoch, slot |-> slot, yielded |-> yielded]

FreeSlots == {s \in Slots : ops[s] = Free}
Slot == CHOOSE s \in FreeSlots : \A r \in FreeSlots : s <= r
Use(s, o) == ops' = [ops EXCEPT ![s] = o]
\* an operation that ends clears replacementInFlight when it is still the tracked one
Done(d, s) == [d EXCEPT !.replacing = IF @ = s THEN None ELSE @]

Enqueue(step) == chain' = Append(chain, step)

\* bgm.stop: a call for an activity without a route is refused by the adapter
StopPlayer(act) ==
    player' = IF act \in lanes THEN [player EXCEPT !.status = "stopped", !.queued = FALSE] ELSE player

Load(t) == [track |-> t, status |-> "loading", queued |-> FALSE]
Accepted(o) == o.act \in lanes /\ player.track = o.track     \* mutant: believed before it plays
Observed(o) == o.act \in lanes /\ player.track = o.track /\ player.status = "playing"

\* a playback that succeeds for an operation no longer current is stopped again, unless
\* "music only" has asked to keep what that epoch was loading
Compensate(o, s, bad) ==
    /\ dj' = [Done(dj, s) EXCEPT !.preserve = IF bad THEN @ \ {o.epoch} ELSE @]
    /\ IF bad /\ o.epoch \notin dj.preserve THEN StopPlayer(o.act) ELSE UNCHANGED player
    /\ Use(s, Free) /\ Quiet /\ UNCHANGED chain

\* mutant: every request searches
ReplaceAlways(d, s, text) ==
    LET e == [CancelFlow(d) EXCEPT !.st = "selecting", !.replacing = s]
    IN  dj' = e /\ Use(s, Op("replace", "find", e, FALSE)) /\ Quiet

\* replaceSelection: joins the attempt in flight, or starts one in slot s
Replace(d, s, text) ==
    IF d.replacing # None
    THEN dj' = Done(d, s) /\ Use(s, Free) /\ Quiet
    ELSE LET e == [CancelFlow(d) EXCEPT !.st = "selecting", !.replacing = s]
         IN  /\ dj' = e
             /\ Use(s, Op("replace", "find", e, FALSE))
             /\ IF text THEN Say(e, "wrap", None, e.epoch) ELSE Quiet

EnsureOpen(d) ==
    IF d.act # None THEN d ELSE [d EXCEPT !.act = opened + 1, !.aborted = FALSE]
Opens(d) ==
    IF d.act # None THEN UNCHANGED <<lanes, opened>>
    ELSE opened' = opened + 1 /\ lanes' = lanes \cup {opened + 1}

Calm == UNCHANGED <<subscribed, lanes, opened, turns>>
Same == UNCHANGED <<player, loaded, mail>>

-----------------------------------------------------------------------------
DjInit ==
    /\ dj = Fresh
    /\ subscribed = FALSE
    /\ lanes = {} /\ opened = 0 /\ loaded = 0 /\ mail = {} /\ turns = {}
    /\ player = [track |-> None, status |-> "stopped", queued |-> FALSE]
    /\ ops = [s \in Slots |-> Free]
    /\ chain = <<>>
    /\ spoke = Silence
    /\ asked = 0 /\ floor = "free"
    /\ played = {}

(* The profile, its subscription and the user.                                *)

\* deactivateCurrent closes the route before it calls bgm.stop: the stop finds no route
Deactivate(d) == [RetireExecution(d) EXCEPT !.act = None]

Configure(on) ==
    /\ "configure" \in Controls
    /\ on \/ dj.configured \/ dj.st = "stopped"
    /\ dj' = ArmIdle([Fresh EXCEPT !.configured = on, !.st = IF on THEN "idle" ELSE "disabled",
                                   !.epoch = Deactivate(dj).epoch, !.yields = dj.yields], subscribed)
    /\ lanes' = lanes \ {dj.act}
    /\ Quiet /\ Same /\ UNCHANGED <<subscribed, opened, ops, chain, turns>>

Subscribe ==
    /\ ~subscribed /\ subscribed' = TRUE
    /\ dj' = ArmIdle(dj, TRUE)
    /\ Quiet /\ Same /\ UNCHANGED <<lanes, opened, ops, chain, turns>>

Unsubscribe ==
    /\ "churn" \in Faults /\ subscribed
    /\ subscribed' = FALSE
    /\ IF dj.st \in {"stopped", "disabled", "music_only"}
       THEN UNCHANGED <<dj, lanes>>
       ELSE /\ dj' = [Deactivate(dj) EXCEPT !.st = IF dj.configured THEN "idle" ELSE "disabled"]
            /\ lanes' = lanes \ {dj.act}
    /\ Quiet /\ Same /\ UNCHANGED <<opened, ops, chain, turns>>

\* mutant: what was under way stays current
YieldedInPlace(d) == [CancelFlow(d) EXCEPT !.st = "yielded", !.yields = @ + 1]
Yielded(d) == [CancelFlow(d) EXCEPT !.epoch = @ + 1, !.st = "yielded", !.yields = @ + 1]

YieldForUserTurn ==
    /\ "yield" \in Controls
    /\ dj.act # None /\ dj.st \in {"selecting", "dj_speaking", "music_only"}
    /\ dj' = Yielded(dj)
    /\ turns' = turns \cup {[act |-> dj.act, yields |-> dj.yields + 1]}
    /\ Quiet /\ Same /\ UNCHANGED <<subscribed, lanes, opened, ops, chain>>

ResumeAfterUserTurn(b) ==
    /\ turns' = turns \ {b}
    /\ LET resumed == [dj EXCEPT !.st = IF @ = "yielded" THEN "dj_speaking" ELSE @, !.deferred = FALSE]
       IN  CASE b.act # dj.act \/ dj.st # "yielded" \/ b.yields # dj.yields -> UNCHANGED <<dj, chain>>
             [] OTHER ->
                IF dj.musicOnly THEN dj' = [resumed EXCEPT !.st = "music_only"] /\ UNCHANGED chain
                ELSE IF dj.deferred
                THEN /\ Len(chain) < MaxChain
                     /\ dj' = resumed /\ Enqueue(Step("deferred", None, resumed, None, FALSE))
                ELSE dj' = ScheduleComment(resumed) /\ UNCHANGED chain
    /\ Quiet /\ Same /\ UNCHANGED <<subscribed, lanes, opened, ops>>

\* control() opens an activity from idle and closes a run of failures first
Controlled == LET d == EnsureOpen(dj)
              IN  ResetBackoff(IF dj.act = None THEN [CancelFlow(d) EXCEPT !.st = "dj_speaking"] ELSE d)
CanControl(kind) ==
    /\ kind \in Controls /\ dj.configured
    /\ dj.act # None \/ (dj.st = "idle" /\ opened < MaxActivities)

MusicOnly ==
    /\ CanControl("music_only")
    /\ dj' = [CancelFlow(Controlled) EXCEPT !.musicOnly = TRUE, !.awaiting = FALSE, !.st = "music_only",
                  !.preserve = @ \cup {dj.epoch}, !.epoch = @ + 1, !.aborted = FALSE]
    /\ Opens(dj) /\ Quiet /\ Same /\ UNCHANGED <<subscribed, ops, chain, turns>>

TalkLess ==
    /\ CanControl("talk_less")
    /\ dj' = IF Controlled.st = "dj_speaking" THEN ScheduleComment(CancelFlow(Controlled)) ELSE Controlled
    /\ Opens(dj) /\ Quiet /\ Same /\ UNCHANGED <<subscribed, ops, chain, turns>>

TalkMore ==
    /\ CanControl("talk_more")
    /\ LET d == [Controlled EXCEPT !.musicOnly = FALSE, !.awaiting = FALSE,
                                   !.st = IF @ = "music_only" THEN "dj_speaking" ELSE @]
       IN  dj' = IF d.st = "dj_speaking" THEN ScheduleComment(CancelFlow(d)) ELSE d
    /\ Opens(dj) /\ Quiet /\ Same /\ UNCHANGED <<subscribed, ops, chain, turns>>

Asked == [Controlled EXCEPT !.musicOnly = FALSE, !.awaiting = FALSE, !.pending = NoPending]

\* change_vibe, and next where the shell cannot skip
ChangeVibe ==
    /\ CanControl("change_vibe") /\ FreeSlots # {}
    /\ Replace(Asked, Slot, FALSE)
    /\ Opens(dj) /\ Same /\ UNCHANGED <<subscribed, chain, turns>>

NextTrack ==
    /\ CanControl("next") /\ FreeSlots # {}
    /\ dj' = Asked /\ Use(Slot, Op("next", "find", Asked, FALSE))
    /\ Opens(dj) /\ Quiet /\ Same /\ UNCHANGED <<subscribed, chain, turns>>

StopDj ==
    /\ "stop" \in Controls
    /\ dj' = [RetireExecution(dj) EXCEPT !.st = "stopped"]
    /\ IF dj.act = None
       THEN UNCHANGED <<ops, player>>
       ELSE FreeSlots # {} /\ Use(Slot, Op("stop", "close", dj, FALSE)) /\ StopPlayer(dj.act)
    /\ Quiet /\ Calm /\ UNCHANGED <<loaded, mail, chain>>

\* stop() after its bgm.stop: whatever activity is open now is forgotten
StopReturns(s) ==
    /\ ops[s] # Free /\ ops[s].kind = "stop"
    /\ dj' = [dj EXCEPT !.act = None]
    /\ lanes' = lanes \ {ops[s].act}
    /\ Use(s, Free)
    /\ Quiet /\ Same /\ UNCHANGED <<subscribed, opened, chain, turns>>

-----------------------------------------------------------------------------
(* Starting, searching and observing.                                         *)

IdleFires ==
    /\ dj.timer = "idle" /\ opened < MaxActivities /\ FreeSlots # {}
    /\ IF dj.st # "idle" \/ ~subscribed
       THEN dj' = CancelFlow(dj) /\ UNCHANGED <<ops, lanes, opened>>
       ELSE LET d == [CancelFlow(dj) EXCEPT !.st = "selecting", !.act = opened + 1,
                                            !.aborted = FALSE, !.epoch = @ + 1]
            IN  /\ dj' = d
                /\ opened' = opened + 1 /\ lanes' = lanes \cup {d.act}
                /\ Use(Slot, Op("start", "find", d, FALSE))
    /\ Quiet /\ Same /\ UNCHANGED <<subscribed, chain, turns>>

\* mutant: a start that throws is only logged
Abandons(s, o) == UNCHANGED dj /\ Use(s, Free) /\ Quiet

StartThrows(s, o) ==
    /\ dj' = IF Current(dj, o) THEN ArmIdle([dj EXCEPT !.st = "idle"], subscribed) ELSE dj
    /\ Use(s, Free) /\ Quiet

\* the context or the selector throws (the adapter of the player never does): each caller
\* has its own answer, and the one after a realtime end does not ask whether it is current
FindThrows(s) ==
    LET o == ops[s] IN
    /\ "throw" \in Faults /\ o # Free /\ o.kind # "next" /\ o.pc \in {"find", "retry"}
    /\ CASE o.kind = "start" -> StartThrows(s, o)
         [] o.kind = "realtime" ->
                /\ dj' = [Done(dj, s) EXCEPT !.awaiting = TRUE, !.st = "music_only"]
                /\ Use(s, Free) /\ Quiet
         [] o.kind = "replace" ->
                /\ Use(s, Free)
                /\ IF Current(dj, o)
                   THEN /\ dj' = [Done(dj, s) EXCEPT !.st = "music_only", !.notices = @ \cup {"replace"}]
                        /\ IF "replace" \in dj.notices THEN Quiet ELSE Say(dj, "notice", None, o.epoch)
                   ELSE dj' = Done(dj, s) /\ Quiet
    /\ Calm /\ Same /\ UNCHANGED chain

\* the search is sent: the shell loads a track, keeps the one that plays, or refuses
Find(s) ==
    LET o == ops[s]
        sent == [o EXCEPT !.pc = IF o.pc = "retry" THEN "observe2" ELSE "observe",
                          !.prev = IF o.pc = "retry" THEN @ ELSE player.track]
    IN
    /\ o # Free /\ o.pc \in {"find", "retry"}
    /\ IF o.kind # "next" /\ ~Current(dj, o)
       THEN dj' = Done(dj, s) /\ Use(s, Free) /\ Same
       ELSE /\ UNCHANGED <<dj, mail>>
            /\ \/ Use(s, sent) /\ UNCHANGED <<player, loaded>>
               \/ /\ o.kind = "start" /\ player.status = "playing" /\ o.act \in lanes
                  /\ Use(s, [sent EXCEPT !.track = player.track]) /\ UNCHANGED <<player, loaded>>
               \/ /\ o.act \in lanes /\ ~dj.aborted /\ loaded < MaxTracks
                  /\ o.kind = "next" => player.status = "playing"
                  /\ o.kind = "start" => player.status # "playing"
                  /\ loaded' = loaded + 1 /\ player' = Load(loaded + 1)
                  /\ Use(s, [sent EXCEPT !.track = loaded + 1])
    /\ Quiet /\ Calm /\ UNCHANGED chain

\* a replacement that succeeded: the new track is introduced and the comments go on
Introduce(d, s, o, p, t) ==
    /\ dj' = Done(ScheduleComment([MarkAnnounced(d, p, t) EXCEPT !.st = "dj_speaking"]), s)
    /\ Say(d, "intro", t, o.epoch)
    /\ Use(s, Free)

StartResult(s, o, ok) ==
    LET d == AcceptTrack(Settled(dj), None, o.track)
    IN  IF ~ok
        THEN dj' = [dj EXCEPT !.awaiting = TRUE, !.st = "music_only"] /\ Use(s, Free) /\ Quiet
        ELSE IF o.track = o.prev    \* the shell kept the user's track: no introduction
        THEN /\ dj' = ScheduleComment([MarkAnnounced(d, d.playback, o.track) EXCEPT !.st = "dj_speaking"])
             /\ Use(s, Free) /\ Quiet
        ELSE Introduce(d, s, o, d.playback, o.track)

NextResult(s, o, ok) ==
    IF ok /\ o.track # o.prev
    THEN Introduce(AcceptTrack(RetireTrack(dj, o.prev, o.prev), None, o.track), s, o, None, o.track)
    ELSE Replace(dj, s, FALSE)

ReplaceResult(s, o, ok) ==
    LET d == AcceptTrack(Settled(RetireTrack(dj, o.prev, o.prev)), None, o.track)
    IN  IF ok THEN Introduce(d, s, o, d.playback, o.track)
        ELSE IF o.pc = "observe" THEN UNCHANGED dj /\ Use(s, [o EXCEPT !.pc = "recheck"]) /\ Quiet
        ELSE /\ dj' = [Done(dj, s) EXCEPT !.awaiting = TRUE, !.st = "music_only",
                                          !.notices = @ \cup {"replace"}]
             /\ IF "replace" \in dj.notices THEN Quiet ELSE Say(dj, "notice", None, o.epoch)
             /\ Use(s, Free)

\* selectAndPlayAfterRealtimeEnd: its speech goes through the chain and keeps the slot waiting
RealtimeResult(s, o, ok) ==
    LET d     == AcceptTrack(Settled(dj), None, o.track)
        spare == dj.st = "yielded" \/ o.yielded
    IN  IF ~ok
        THEN LET f == [dj EXCEPT !.pending = AnyTrack, !.awaiting = TRUE]
             IN  IF dj.musicOnly \/ "next" \in dj.notices
                 THEN /\ dj' = [Done(f, s) EXCEPT !.st = IF spare THEN @ ELSE "music_only"]
                      /\ Use(s, Free) /\ UNCHANGED chain
                 ELSE /\ dj' = [f EXCEPT !.notices = @ \cup {"next"}]
                      /\ Use(s, [o EXCEPT !.pc = "chain"]) /\ Len(chain) < MaxChain
                      /\ Enqueue(Step("notice", None, dj, s, o.yielded))
        ELSE IF dj.musicOnly
        THEN dj' = [Done(d, s) EXCEPT !.st = "music_only"] /\ Use(s, Free) /\ UNCHANGED chain
        ELSE IF HasAnnounced(d, d.playback, o.track)
        THEN /\ dj' = IF spare THEN Done(d, s)
                      ELSE ScheduleComment([Done(d, s) EXCEPT !.st = "dj_speaking"])
             /\ Use(s, Free) /\ UNCHANGED chain
        ELSE /\ dj' = MarkAnnounced(d, d.playback, o.track)
             /\ Use(s, [o EXCEPT !.pc = "chain"]) /\ Len(chain) < MaxChain
             /\ Enqueue(Step("intro", o.track, dj, s, o.yielded))

\* the adapter sees the track play, or gives up on it
Observe(s) ==
    LET o == ops[s]
        ok == Observed(o)
        waits == /\ o.act \in lanes /\ player.track = o.track /\ player.status = "loading"
                 /\ "slow" \notin Faults
    IN
    /\ o # Free /\ o.pc \in {"observe", "observe2"} /\ (ok \/ ~waits)
    /\ IF ~Current(dj, o)
       THEN Compensate(o, s, ok \/ o.kind = "next")
       ELSE /\ UNCHANGED player
            /\ CASE o.kind = "start"    -> StartResult(s, o, ok) /\ UNCHANGED chain
                 [] o.kind = "next"     -> NextResult(s, o, ok) /\ UNCHANGED chain
                 [] o.kind = "replace"  -> ReplaceResult(s, o, ok) /\ UNCHANGED chain
                 [] o.kind = "realtime" -> RealtimeResult(s, o, ok) /\ Quiet
    /\ Calm /\ UNCHANGED <<loaded, mail>>

\* after a failed replacement: has the shell changed track after all?
Recheck(s) ==
    LET o == ops[s]
        t == player.track
        left == RetireTrack(dj, o.prev, o.prev)
    IN
    /\ o # Free /\ o.pc = "recheck"
    /\ CASE ~Current(dj, o) -> dj' = Done(dj, s) /\ Use(s, Free) /\ Quiet
         [] Current(dj, o) /\ t # o.prev /\ player.status = "playing" ->
                Introduce(AcceptTrack(Settled(left), t, t), s, o, t, t)
         [] Current(dj, o) /\ t # o.prev /\ player.status = "loading" ->
                /\ dj' = [Done(left, s) EXCEPT !.awaiting = TRUE, !.st = "music_only"]
                /\ Use(s, Free) /\ Quiet
         [] OTHER -> UNCHANGED dj /\ Use(s, [o EXCEPT !.pc = "retry"]) /\ Quiet
    /\ Calm /\ Same /\ UNCHANGED chain

-----------------------------------------------------------------------------
(* The comment timer and the chain of transition comments.                    *)

CommentFires ==
    /\ dj.timer = "comment" /\ FreeSlots # {}
    /\ LET d == CancelFlow(dj)
       IN  /\ dj' = d
           /\ IF Current(d, d) /\ d.st = "dj_speaking"
              THEN Use(Slot, Op("comment", "status", d, FALSE)) ELSE UNCHANGED ops
    /\ Quiet /\ Calm /\ Same /\ UNCHANGED chain

Comment(s, o) ==
    IF Current(dj, o) /\ dj.st = "dj_speaking"
    THEN dj' = ScheduleComment(dj) /\ Say(dj, "comment", None, o.epoch) /\ Use(s, Free)
    ELSE UNCHANGED dj /\ Quiet /\ Use(s, Free)

CommentStatus(s) ==
    LET o == ops[s]
        status == IF o.act \in lanes THEN player.status ELSE "unknown"
    IN
    /\ o # Free /\ o.pc = "status"
    /\ IF ~Current(dj, o) \/ dj.st # "dj_speaking" THEN Comment(s, o)
       ELSE CASE status \in {"ended", "error"} -> Replace(dj, s, status = "ended")
              [] status = "playing" ->
                    \/ Comment(s, o)
                    \/ /\ ~player.queued /\ dj.replacing = None
                       /\ UNCHANGED dj /\ Quiet /\ Use(s, [o EXCEPT !.pc = "prequeue"])
              [] OTHER -> dj' = ScheduleComment(dj) /\ Quiet /\ Use(s, Free)
    /\ Calm /\ Same /\ UNCHANGED chain

\* preQueueNextTrackIfNeeded: the shell queues a next track, or the search fails
PreQueue(s) ==
    LET o == ops[s] IN
    /\ o # Free /\ o.pc = "prequeue"
    /\ \/ UNCHANGED player
       \/ /\ o.act \in lanes /\ player.status = "playing" /\ loaded < MaxTracks
          /\ player' = [player EXCEPT !.queued = TRUE]
    /\ Comment(s, o)
    /\ Calm /\ UNCHANGED <<loaded, mail, chain>>

\* the head of the chain has been written: it is spoken, deferred or dropped, and the
\* operation that waited for it goes on
ChainStep ==
    /\ chain # <<>>
    /\ LET c == Head(chain)
           live == Current(dj, c)
           defer == live /\ (dj.st = "yielded" \/ c.yielded)
           d == CASE ~live -> dj
                  [] defer -> [dj EXCEPT !.deferred = TRUE]
                  [] OTHER ->
                     LET e == IF c.what = "deferred" THEN dj ELSE [dj EXCEPT !.st = "dj_speaking"]
                     IN  IF c.what \in {"intro", "deferred"} THEN ScheduleComment(e) ELSE e
           spare == d.st = "yielded" \/ c.yielded
       IN  /\ IF live /\ ~defer THEN Say(d, c.what, c.track, c.epoch) ELSE Quiet
           /\ IF c.slot = None THEN dj' = d /\ UNCHANGED ops
              ELSE CASE c.what = "wrap" /\ live ->
                            /\ dj' = IF spare \/ d.musicOnly THEN d ELSE [d EXCEPT !.st = "selecting"]
                            /\ Use(c.slot, [ops[c.slot] EXCEPT !.pc = "find"])
                     [] c.what = "notice" /\ live ->
                            /\ dj' = Done(IF spare THEN d ELSE [d EXCEPT !.st = "music_only"], c.slot)
                            /\ Use(c.slot, Free)
                     [] OTHER -> dj' = Done(d, c.slot) /\ Use(c.slot, Free)
    /\ chain' = Tail(chain)
    /\ Calm /\ Same

-----------------------------------------------------------------------------
(* Events of the player.                                                      *)

OnPlaying(d0, e) ==
    LET d == AcceptTrack(d0, e.track, e.track)
        fresh == ~HasAnnounced(d, e.track, e.track)
        marked == MarkAnnounced(d, e.track, e.track)
    IN  CASE d.pending \in {e.track, AnyTrack} ->
                IF d.musicOnly \/ ~fresh
                THEN dj' = Settled(d) /\ UNCHANGED chain /\ Quiet
                ELSE /\ Len(chain) < MaxChain
                     /\ dj' = Settled(marked) /\ Quiet
                     /\ Enqueue(Step("intro", e.track, d, None, FALSE))
          [] d.pending \notin {e.track, AnyTrack} /\ d.st = "music_only" /\ d.replacing = None
                /\ (d.awaiting \/ ~d.musicOnly) ->
                LET back == [ResetBackoff(d) EXCEPT !.awaiting = FALSE, !.st = "dj_speaking"]
                IN  /\ dj' = ScheduleComment(IF fresh THEN MarkAnnounced(back, e.track, e.track) ELSE back)
                    /\ IF fresh THEN Say(back, "intro", e.track, d.epoch) ELSE Quiet
                    /\ UNCHANGED chain
          [] OTHER -> dj' = d /\ UNCHANGED chain /\ Quiet

\* an announced transition: the track that ended is wrapped up, the next one waits for "playing"
OnTransition(d, e) ==
    /\ dj' = Expect(d, e.next) /\ Quiet /\ UNCHANGED ops
    /\ IF d.musicOnly \/ e.kind = "error" THEN UNCHANGED chain
       ELSE Len(chain) < MaxChain /\ Enqueue(Step("wrap", None, d, None, FALSE))

\* the queue is empty: wrap up, then search inside the same activity
OnEnded(d) ==
    LET yielded == d.st = "yielded"
        o == Op("realtime", IF d.musicOnly THEN "find" ELSE "chain", d, yielded)
    IN  IF d.replacing # None THEN dj' = d /\ Quiet /\ UNCHANGED <<ops, chain>>
        ELSE /\ FreeSlots # {}
             /\ dj' = [d EXCEPT !.replacing = Slot]
             /\ Use(Slot, o) /\ Quiet
             /\ IF d.musicOnly THEN UNCHANGED chain
                ELSE Len(chain) < MaxChain /\ Enqueue(Step("wrap", None, d, Slot, yielded))

OnBgmEvent(e) ==
    LET wakes == dj.st = "idle" /\ e.kind # "playing"
        d0 == EnsureOpen(dj)
        d  == IF wakes
              THEN [CancelFlow(d0) EXCEPT !.st = IF dj.musicOnly THEN "music_only" ELSE "dj_speaking"]
              ELSE dj
        left == IF e.kind = "changed" THEN RetireTrack(d, None, e.track)
                ELSE RetireTrack(d, e.track, e.track)
    IN
    /\ mail' = mail \ {e}
    /\ IF \/ ~subscribed \/ dj.st \in {"disabled", "stopped"}
          \/ (e.act # None /\ dj.act # None /\ e.act # dj.act)
          \/ (dj.st = "idle" /\ ~wakes) \/ d.act = None
       THEN UNCHANGED <<dj, lanes, opened, ops, chain>> /\ Quiet
       ELSE /\ IF wakes THEN (dj.act # None \/ opened < MaxActivities) /\ Opens(dj)
               ELSE UNCHANGED <<lanes, opened>>
            /\ CASE Stale(d, e) -> dj' = d /\ Quiet /\ UNCHANGED <<ops, chain>>
                 [] ~Stale(d, e) /\ e.kind = "playing" -> OnPlaying(d, e) /\ UNCHANGED ops
                 [] ~Stale(d, e) /\ e.kind # "playing" /\ e.next # None ->
                        OnTransition(IF e.kind = "error" THEN left ELSE CancelFlow(left), e)
                 [] ~Stale(d, e) /\ e.kind = "ended" /\ e.next = None -> OnEnded(CancelFlow(left))
                 [] ~Stale(d, e) /\ e.kind = "error" /\ e.next = None ->
                        IF left.replacing # None THEN dj' = left /\ Quiet /\ UNCHANGED <<ops, chain>>
                        ELSE FreeSlots # {} /\ Replace(left, Slot, FALSE) /\ UNCHANGED chain
    /\ UNCHANGED <<subscribed, player, loaded, turns>>

\* the shell's player moves by itself and reports what it did
Report(kind, next) ==
    /\ Cardinality(mail) < MaxMail
    /\ mail' = mail \cup {[kind |-> kind, track |-> player.track, next |-> next, act |-> dj.act]}
PlayerUnmoved == Quiet /\ Calm /\ UNCHANGED <<dj, ops, chain>>

PlayerStarts ==
    /\ player.status = "loading"
    /\ player' = [player EXCEPT !.status = "playing"]
    /\ Report("playing", None)
    /\ PlayerUnmoved /\ UNCHANGED loaded

PlayerEnds ==
    /\ player.status = "playing"
    /\ IF player.queued
       THEN /\ loaded < MaxTracks /\ loaded' = loaded + 1 /\ player' = Load(loaded + 1)
            /\ Report("ended", loaded + 1)
       ELSE player' = [player EXCEPT !.status = "ended"] /\ Report("ended", None) /\ UNCHANGED loaded
    /\ PlayerUnmoved

PlayerFails ==
    /\ "error" \in Faults /\ player.status \in {"loading", "playing"}
    /\ player' = [player EXCEPT !.status = "error", !.queued = FALSE]
    /\ Report("error", None)
    /\ PlayerUnmoved /\ UNCHANGED loaded

\* the user picks a track in the shell
ShellSkips ==
    /\ "skip" \in Faults /\ player.status = "playing" /\ loaded < MaxTracks
    /\ loaded' = loaded + 1 /\ player' = Load(loaded + 1)
    /\ Report("changed", loaded + 1)
    /\ PlayerUnmoved

-----------------------------------------------------------------------------
Work(s) == StopReturns(s) \/ FindThrows(s) \/ Find(s) \/ Observe(s) \/ Recheck(s) \/ CommentStatus(s) \/ PreQueue(s)
People ==
    \/ \E on \in BOOLEAN : Configure(on)
    \/ Unsubscribe \/ YieldForUserTurn \/ MusicOnly \/ TalkLess \/ TalkMore \/ ChangeVibe \/ NextTrack \/ StopDj
Deliveries == \E e \in mail : OnBgmEvent(e)
Resumes == \E b \in turns : ResumeAfterUserTurn(b)

\* a user turn lasts until its binding comes back, or the user asks the DJ for something
TurnBegins == turns' \ turns # {}
TurnEnds == asked' # asked \/ \E b \in turns \ turns' : b.act = dj.act /\ b.yields = dj.yields
\* the player reports a failure, or another track than the announced one, or the search
\* for the next track throws
Disturbs ==
    \/ \E e \in mail \ mail' :
          \/ e.kind = "error" /\ e.next = None
          \/ e.kind = "playing" /\ dj.pending \notin {NoPending, AnyTrack, e.track}
    \/ /\ dj'.st = "music_only"
       /\ \E s \in Slots : /\ ops[s] # Free /\ ops[s].kind = "realtime" /\ ops[s].pc \in {"find", "retry"}
                           /\ ops'[s] = Free

Record(requests) ==
    /\ asked' = asked + requests
    /\ floor' = CASE TurnBegins -> "held"
                  [] ~TurnBegins /\ TurnEnds -> "free"
                  [] ~TurnBegins /\ ~TurnEnds /\ floor = "held" /\ Disturbs -> "disturbed"
                  [] OTHER -> floor
    /\ played' = played \cup (IF player'.status = "playing" THEN {player'.track} ELSE {})

DjNext ==
    \/ asked < MaxRequests /\ People /\ Record(1)
    \/ /\ \/ Subscribe \/ Resumes
          \/ IdleFires \/ CommentFires \/ ChainStep \/ (\E s \in Slots : Work(s))
          \/ Deliveries \/ PlayerStarts \/ PlayerEnds \/ PlayerFails \/ ShellSkips
       /\ Record(0)

\* promises settle, timers fire and a loading track starts: the event loop and the
\* adapter's timeouts; nothing is assumed of the user, of the events or of the subscription
DjFairness ==
    /\ \A s \in Slots : WF_djVars(Work(s) /\ Record(0))
    /\ WF_djVars(ChainStep /\ Record(0)) /\ WF_djVars(CommentFires /\ Record(0))
    /\ WF_djVars(IdleFires /\ Record(0)) /\ WF_djVars(PlayerStarts /\ Record(0))

DjSpec == DjInit /\ [][DjNext]_djVars /\ DjFairness

-----------------------------------------------------------------------------
(* Properties.                                                                *)

DjTypeOK ==
    /\ dj.st \in States /\ dj.act \in 0..MaxActivities /\ dj.epoch \in 0..(MaxRequests + MaxActivities)
    /\ dj.timer \in {"none", "idle", "comment"} /\ dj.replacing \in {None} \cup Slots
    /\ dj.pending \in {NoPending, AnyTrack} \cup Tracks
    /\ dj.retP \cup dj.retV \cup dj.annP \subseteq Tracks
    /\ lanes \subseteq 1..opened /\ opened <= MaxActivities
    /\ player.track \in 0..loaded /\ loaded <= MaxTracks
    /\ Len(chain) <= MaxChain
    /\ \A s \in Slots : ops[s] = Free \/ ops[s].kind \in
           {"start", "replace", "realtime", "next", "comment", "stop"}

\* What was begun before a stop, a yield, a "music only", a new profile or the loss of the
\* subscriber never speaks afterwards, whichever await it was in.
CancelledWorkIsSilent == [][spoke' # Silence => spoke'.epoch = dj'.epoch]_djVars

\* A title is spoken only of a track the player has confirmed (FR-RADIO-DJ.5).
ConfirmedBeforeIntroduced == [][spoke'.what = "intro" => spoke'.track \in played']_djVars

\* While the user's turn is open nothing is said, whatever plays, ends, is found or is
\* resumed late meanwhile - unless the user asks for it, the player or the search for the
\* next track fails, or the player reports its tracks out of order.
UserHasTheFloor == [][floor' = "held" => spoke' = Silence]_djVars

\* Not so: nothing is said in a user turn the user asks nothing in. A failure of the player
\* starts a replacement, which introduces its track, and a search that throws leaves the
\* DJ in music_only, where the next "playing" is introduced.
FloorIsNeverTaken == [][floor # "free" => spoke' = Silence]_djVars

\* Replacement requests that overlap share one attempt.
OneReplacement ==
    /\ DjTypeOK
    /\ Cardinality({s \in Slots : ops[s] # Free /\ ops[s].kind \in {"replace", "realtime"}
                                  /\ Current(dj, ops[s])}) <= 1

\* "Music only" keeps the track that plays: no late compensation stops it.
MusicOnlyKeepsMusic ==
    [][dj.st = "music_only" /\ dj.musicOnly /\ dj'.st = "music_only" =>
           ~(player.status = "playing" /\ player'.status = "stopped")]_djVars

\* Nobody waits for a search for ever: while its activity lasts, a selection ends in
\* comments, in music only, in a user turn or in idle, whatever throws or fails.
SelectionEnds ==
    (dj.st = "selecting" /\ dj.act # None) ~> (dj.st # "selecting" \/ dj.act = None)

\* On air something is still to come: a comment is due, work is under way, or the
\* transition that was announced waits for its "playing".
NeverWedged ==
    dj.st = "dj_speaking" /\ dj.act # None =>
        \/ dj.timer = "comment" \/ dj.pending # NoPending
        \/ \E s \in Slots : ops[s] # Free /\ Current(dj, ops[s])
        \/ \E i \in DOMAIN chain : Current(dj, chain[i])

\* stop() is terminal: only a new profile leaves it.
StopIsTerminal == [][dj.st = "stopped" => dj'.st = "stopped" \/ dj'.configured # dj.configured
                                          \/ dj'.epoch # dj.epoch]_djVars

\* A user who asked for music only is not spoken to until asking for something else.
MusicOnlyIsSilent == [][dj.musicOnly => spoke' = Silence]_djVars

\* A profile that is switched off leaves no music of the DJ playing.
OffIsQuiet == dj.st = "disabled" => player.status \notin {"loading", "playing"}

\* At most one activity has an open route, and it is the controller's.
LaneOfActivity == lanes \subseteq {dj.act}
=============================================================================
