---------------------------- MODULE DiscordDedupe ----------------------------
(* The durable record the Discord channel keeps of every message it answers   *)
(* (adapters/discord-dedupe-store.ts): reserved -> replying (an outbox cursor *)
(* over the chunks of the reply) -> completed or partial.  One entry per      *)
(* message; the chunks are numbered and only their number is kept.  A process *)
(* works on a copy of the file and writes by compare-and-set against it, so   *)
(* the operators here take the cached entry a call was decided on apart from  *)
(* the entry the file holds.  The seven-day expiry of settled entries and the *)
(* capacity of the file are left out.                                         *)
EXTENDS Integers

CONSTANT ReplayWindow     \* nonceReplayWindowMs, in ticks of the model's clock

ASSUME DedupeConstants == ReplayWindow \in Nat

States == {"none", "reserved", "replying", "completed", "partial"}
Never == -1                                 \* no ambiguousSinceAt
Nobody == 0                                 \* the owner of an entry not there

NoEntry == [state |-> "none", owner |-> Nobody, parts |-> 0, next |-> 0, conf |-> 0,
            upd |-> 0, since |-> Never, known |-> FALSE]

InDoubt(e) == e.state = "replying" /\ e.next > e.conf
DoubtSince(e) == IF e.since # Never THEN e.since ELSE e.upd
\* mutant: a doubt never grows too old
ReplayableForever(e, t) == e.known
Replayable(e, t) == e.known /\ t >= DoubtSince(e) /\ t - DoubtSince(e) <= ReplayWindow

(* load(): what a process finds after a crash or a hand-over: reservations    *)
(* nobody will answer any more are closed, replies are taken over.            *)
\* mutant: an abandoned reservation is released
ReleasedOnLoad(e, p) == IF e.state = "reserved" THEN NoEntry ELSE e
Recovered(e, p) ==
    CASE e.state = "reserved" -> [e EXCEPT !.state = "partial", !.owner = p, !.known = TRUE]
      [] e.state = "replying" -> [e EXCEPT !.owner = p]
      [] OTHER -> e

(* write(): the transitions the file accepts from its current entry.          *)
Advances(f, e) ==
    \/ e.next = f.next + 1 /\ e.conf = f.conf
    \/ e.next = f.next /\ e.conf = f.conf + 1
    \/ f.next = f.conf + 1 /\ e.next = f.conf /\ e.conf = f.conf
       /\ e.since = DoubtSince(f) /\ e.known
Accepts(f, e) ==
    CASE e.state = "reserved" -> f.state = "none"
      [] e.state = "replying" ->
            \/ f.state = "reserved" /\ f.owner = e.owner
            \/ f.state = "replying" /\ f.owner = e.owner /\ f.parts = e.parts /\ Advances(f, e)
            \/ f.state = "partial" /\ e.next = f.conf /\ e.conf = f.conf
      [] e.state = "partial" -> f.state \notin {"none", "completed"} /\ f.owner = e.owner
      [] OTHER -> f.state # "none" /\ f.owner = e.owner
Larger(a, b) == IF a >= b THEN a ELSE b
Merged(f, e) ==
    IF e.state # "partial" THEN e
    ELSE LET since == IF f.since # Never THEN f.since ELSE e.since IN
         [e EXCEPT !.since = since, !.upd = Larger(e.upd, since),
                   !.conf = Larger(f.conf, e.conf),
                   !.known = IF f.state = "partial" THEN f.known ELSE e.known]

(* reserve(), as the entry it writes: a reply in doubt is replayed inside the *)
(* nonce window and given up outside it.                                      *)
Reservation(e, p, t) ==
    IF e.state = "none"
    THEN [NoEntry EXCEPT !.state = "reserved", !.owner = p, !.upd = t]
    ELSE IF Replayable(e, t)
    THEN [e EXCEPT !.owner = p, !.upd = t, !.next = e.conf, !.since = DoubtSince(e), !.known = TRUE]
    ELSE [e EXCEPT !.state = "partial", !.upd = Larger(t, DoubtSince(e)), !.parts = 0,
                   !.next = 0, !.since = DoubtSince(e)]
Decision(e, t) ==
    CASE e.state = "none" -> "process"
      [] e.state = "replying" /\ (InDoubt(e) => Replayable(e, t)) -> "resume_reply"
      [] OTHER -> "duplicate"
ReserveWrites(e) == e.state = "none" \/ InDoubt(e)

Replying(e, n, t) ==
    [NoEntry EXCEPT !.state = "replying", !.owner = e.owner, !.parts = n, !.upd = t, !.known = TRUE]

CanClaim(e, i) == e.state = "replying" /\ i = e.next + 1 /\ i <= e.parts /\ e.next = e.conf
Claimed(e, i, t) == [e EXCEPT !.upd = Larger(t, Larger(e.upd, e.since)), !.next = i]

CanConfirm(e, i) == e.state = "replying" /\ i = e.conf + 1 /\ i = e.next
Completed(e, t) == [NoEntry EXCEPT !.state = "completed", !.owner = e.owner, !.upd = t]
Confirmed(e, i, t) ==
    IF i = e.parts THEN Completed(e, t)
    ELSE [e EXCEPT !.upd = t, !.conf = i, !.since = Never, !.known = FALSE]

CanGiveUp(e) == e.state \in {"reserved", "replying", "partial"}
\* mutant: the claimed chunk counts as confirmed
GivenUpAsClaimed(e, i, t) ==
    [e EXCEPT !.state = "partial", !.upd = t, !.parts = 0, !.next = 0, !.conf = Larger(e.next, i),
              !.known = TRUE]
GivenUp(e, i, t) ==
    [e EXCEPT !.state = "partial", !.upd = t, !.parts = 0, !.next = 0, !.conf = Larger(e.conf, i),
              !.since = IF e.since = Never /\ InDoubt(e) THEN e.upd ELSE e.since, !.known = TRUE]

(* resumePartialReply(): only the course notices come back to a partial.      *)
Resumption(e, t) ==
    CASE e.state # "partial" -> "not_partial"
      [] ~e.known \/ (e.since # Never /\ (t < e.since \/ t - e.since > ReplayWindow))
            -> "reconciliation_required"
      [] OTHER -> "resumed"
Resumed(e, p, n, t) ==
    [e EXCEPT !.state = "replying", !.owner = p, !.parts = n, !.upd = t, !.next = e.conf]
===============================================================================
