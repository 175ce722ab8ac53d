------------------------- MODULE ChannelAndRun_proofs -------------------------
(***************************************************************************)
(* The two components at the edge of the agent: the Discord channel, and   *)
(* the one-shot run over its subprocess sessions.                          *)
(*                                                                         *)
(* For any number of processes, messages, deliveries and chunks, with any  *)
(* number of faults of every kind: a message is handed to the agent at     *)
(* most once, no chunk of a reply is shown before the ones before it, and  *)
(* the durable record is true of what people see and settles what nobody   *)
(* works on.  What is seen of a reply delivered at most twice is a prefix  *)
(* of it, nothing repeated, if Discord remembers a nonce for the replay    *)
(* window and a POST with its retries, and for two such POSTs.             *)
(*                                                                         *)
(* For every kind of parser, every number of retries and events and every  *)
(* set of files: the transcript of an attempt is whole, an ended session   *)
(* has left no child alone, no two sessions overlap, and the report counts *)
(* and says only what happened.                                            *)
(***************************************************************************)
EXTENDS DiscordChannel, SupervisedRun, FiniteSetTheorems, SequenceTheorems, TLAPS

Results == {"none", "retry", "delivered", "reconciliation_required", "failed"}
Task == [p : Procs, m : Ids, epoch : Nat, stage : Stages, i : 0..Chunks, post : 0..Chunks,
         at : Nat, held : BOOLEAN, result : Results]
Process == [phase : Phases, epoch : Nat, prepared : BOOLEAN, ready : BOOLEAN]

\* Everything has its type; the epoch of a process counts its configurations.
Typed ==
    /\ file \in [Ids -> Entry]
    /\ cached \in [Procs -> [Ids -> Entry]]
    /\ proc \in [Procs -> Process]
    /\ selected \in Procs /\ now \in 0..MaxTime
    /\ tasks \in Seq(Task)
    /\ routed \in [Ids -> Nat]
    /\ visible \in [Ids -> Seq(Nat)]
    /\ \A m \in Ids : nonceAt[m] \in [1..Parts(m) -> Int]
    /\ nonceAt = [m \in Ids |-> nonceAt[m]]
    /\ spent \in [Faults -> Nat]

Epochs ==
    /\ spent["configures"] =< MaxFaults["configures"]
    /\ \A p \in Procs : proc[p].epoch =< spent["configures"] + (IF proc[p].phase = "stopped" THEN 1 ELSE 0)

\* What an entry of the record, in the file or in a copy of it, claims of message
\* m is true when the chunks in shown are visible.
Shown(m) == Range(visible[m])
True(m, e, shown) ==
    /\ 1..e.conf \subseteq shown
    /\ e.state = "completed" => 1..Parts(m) \subseteq shown
    /\ e.state = "replying" => e.parts = Parts(m) /\ e.conf =< e.next
    /\ e.state \in {"none", "reserved", "completed"} => e.conf = 0 /\ e.next = 0

RecordsTrue ==
    \A m \in Ids : /\ True(m, file[m], Shown(m))
                   /\ \A p \in Procs : True(m, cached[p][m], Shown(m))

\* A task has confirmed only what is visible, and it posts the next chunk.
TaskTrue(t, shown) ==
    /\ 1..t.i \subseteq shown
    /\ t.stage \in {"claimed", "posting", "answered"} => t.i + 1 =< Parts(t.m)
    /\ t.stage = "posting" => t.post = t.i + 1
    /\ t.stage = "answered" => t.i + 1 \in shown
    /\ t.stage \in {"admitted", "resuming", "preparing", "awaiting", "finished"} => t.m \in Messages
    /\ t.stage = "doubtful" => t.m \in Courses
\* A POST on its way is of a chunk whose forerunners are visible.
Flying(t, shown) == t.post # 0 => t.post =< Parts(t.m) /\ 1..(t.post - 1) \subseteq shown
TasksTrue ==
    \A d \in Tasks : /\ TaskTrue(tasks[d], Shown(tasks[d].m)) /\ Flying(tasks[d], Shown(tasks[d].m))
                     /\ proc[tasks[d].p].phase # "unborn"

ChannelTrue ==
    \A m \in Ids : /\ Shown(m) \subseteq 1..Parts(m)
                   /\ \A i \in 1..Parts(m) : nonceAt[m][i] # Never => i \in Shown(m)

\* A message is asked about by the one task that reserved it.
Bound(d) == tasks[d].stage \in {"reserved", "preparing"}
Routing ==
    /\ RoutedOnce
    /\ \A m \in Ids : file[m].state = "none" => routed[m] = 0
    /\ \A d \in Tasks : Bound(d) => routed[tasks[d].m] = 0 /\ file[tasks[d].m].state # "none"
    /\ \A d, b \in Tasks : Bound(d) /\ Bound(b) /\ tasks[d].m = tasks[b].m => d = b

\* A process alone, whose writes have all succeeded, has a true copy; what it
\* has left open has a task that works on it.
Alone(p) ==
    /\ spent["writes"] = 0
    /\ \A q \in Procs : proc[q].phase # "crashed" /\ (q # p => proc[q].phase = "unborn")
Settling(m, stages) == \E d \in Tasks : tasks[d].m = m /\ tasks[d].stage \in stages
Answering == {"reserved", "preparing", "awaiting", "finished", "abandoning"}
Posting == {"claimed", "posting", "answered", "abandoning"}
Owned(p, records) ==
    \A m \in Ids : records[m].owner = IF records[m].state = "none" THEN Nobody ELSE p
Kept(p) ==
    /\ IF proc[p].phase = "unborn" THEN \A m \in Ids : file[m] = NoEntry ELSE cached[p] = file
    /\ Owned(p, file)
    /\ \A d \in Tasks : tasks[d].p = p
    /\ \A m \in Ids : file[m].state = "reserved" => Settling(m, Answering)
    /\ \A m \in Ids : InDoubt(file[m]) => Settling(m, Posting)
AloneKept == \A p \in Procs : Alone(p) => Kept(p)

IInv == Typed /\ Epochs /\ RecordsTrue /\ TasksTrue /\ ChannelTrue /\ Routing /\ RepliesInOrder /\ AloneKept
-------------------------------------------------------------------------------
LEMMA PartsOne == \A m \in Ids : Parts(m) \in 1..Chunks
  BY DiscordConstants DEF Parts

LEMMA EntryFacts ==
    ASSUME NEW e \in Entry
    PROVE  /\ e.state \in States /\ e.owner \in Procs \cup {Nobody} /\ e.known \in BOOLEAN
           /\ e.parts \in 0..Chunks /\ e.next \in 0..Chunks /\ e.conf \in 0..Chunks
           /\ e.upd \in 0..MaxTime /\ e.since \in (0..MaxTime) \cup {Never}
  BY DEF Entry

\* The entries the calls write are entries, and true when the ones they were
\* decided on are.
LEMMA NoEntryTrue == ASSUME NEW m \in Ids, NEW shown PROVE NoEntry \in Entry /\ True(m, NoEntry, shown)
  BY DiscordConstants DEF NoEntry, Entry, True, States, Never

LEMMA TrueKept ==
    ASSUME NEW m, NEW e, NEW shown, NEW more, shown \subseteq more, True(m, e, shown)
    PROVE  True(m, e, more)
  BY DEF True

LEMMA RecoveredTrue ==
    ASSUME NEW m \in Ids, NEW e \in Entry, NEW p \in Procs, NEW shown, True(m, e, shown)
    PROVE  /\ Recovered(e, p) \in Entry /\ True(m, Recovered(e, p), shown)
           /\ Recovered(e, p).state = "none" <=> e.state = "none"
           /\ Recovered(e, p).conf = e.conf
  BY Zenon DEF Recovered, Entry, True, States

LEMMA LargerIn ==
    ASSUME NEW n \in Nat, NEW a \in 0..n, NEW b \in (0..n) \cup {Never}
    PROVE  Larger(a, b) \in 0..n /\ Larger(b, a) \in 0..n /\ (Larger(a, b) = a \/ Larger(a, b) = b)
  BY DEF Larger, Never

LEMMA MergedTrue ==
    ASSUME NEW m \in Ids, NEW f \in Entry, NEW w \in Entry, NEW shown,
           True(m, f, shown), True(m, w, shown), w.state # "none"
    PROVE  /\ Merged(f, w) \in Entry /\ True(m, Merged(f, w), shown)
           /\ Merged(f, w).state = w.state /\ Merged(f, w).owner = w.owner
           /\ w.state # "partial" => Merged(f, w) = w
<1>1. CASE w.state # "partial"
  BY <1>1 DEF Merged
<1>2. CASE w.state = "partial"
  <2> DEFINE since == IF f.since # Never THEN f.since ELSE w.since
             upd == Larger(w.upd, since)
             conf == Larger(f.conf, w.conf)
             known == IF f.state = "partial" THEN f.known ELSE w.known
  <2>1. Merged(f, w) = [w EXCEPT !.since = since, !.upd = upd, !.conf = conf, !.known = known]
    BY <1>2 DEF Merged
  <2>2. since \in (0..MaxTime) \cup {Never}
    BY EntryFacts
  <2>3. upd \in 0..MaxTime
    BY Zenon, <2>2, EntryFacts, LargerIn, DiscordConstants
  <2>4. conf \in 0..Chunks /\ (conf = f.conf \/ conf = w.conf)
    BY EntryFacts DEF Larger
  <2>5. known \in BOOLEAN
    BY EntryFacts
  <2>6. 1..conf \subseteq shown
    BY <2>4 DEF True
  <2> HIDE DEF since, upd, conf, known
  <2>7. Merged(f, w) \in Entry
    BY Zenon, <2>1, <2>2, <2>3, <2>4, <2>5 DEF Entry
  <2>8. Merged(f, w).state = "partial" /\ Merged(f, w).conf = conf /\ Merged(f, w).owner = w.owner
    BY <2>1, <1>2 DEF Entry
  <2> QED
    BY <2>6, <2>7, <2>8, <1>2 DEF True
<1> QED
  BY <1>1, <1>2

LEMMA ReservationTrue ==
    ASSUME NEW m \in Ids, NEW e \in Entry, NEW p \in Procs, NEW t \in 0..MaxTime, NEW shown,
           True(m, e, shown), ReserveWrites(e)
    PROVE  /\ Reservation(e, p, t) \in Entry /\ True(m, Reservation(e, p, t), shown)
           /\ e.state = "none" => /\ Reservation(e, p, t).state = "reserved"
                                  /\ Reservation(e, p, t).owner = p
           /\ e.state # "none" =>
                /\ Reservation(e, p, t).state \in {"replying", "partial"}
                /\ Reservation(e, p, t).owner \in {p, e.owner}
                /\ ~InDoubt(Reservation(e, p, t))
  <1>1. DoubtSince(e) \in 0..MaxTime
    BY EntryFacts DEF DoubtSince
  <1>2. Larger(t, DoubtSince(e)) \in 0..MaxTime
    BY <1>1 DEF Larger
  <1>3. CASE e.state = "none"
    BY Zenon, <1>3, DiscordConstants, EntryFacts DEF Reservation, Entry, True, NoEntry, States, Never
  <1>4. CASE e.state # "none" /\ Replayable(e, t)
    <2> DEFINE yes == TRUE
    <2>1. yes \in BOOLEAN /\ Reservation(e, p, t) =
             [e EXCEPT !.owner = p, !.upd = t, !.next = e.conf, !.since = DoubtSince(e), !.known = yes]
      BY <1>4 DEF Reservation
    <2> HIDE DEF yes
    <2>2. Reservation(e, p, t) =
             [state |-> e.state, owner |-> p, parts |-> e.parts, next |-> e.conf, conf |-> e.conf,
              upd |-> t, since |-> DoubtSince(e), known |-> yes]
      BY Zenon, <2>1 DEF Entry
    <2>3. Reservation(e, p, t) \in Entry
      <3>1. e.conf \in 0..Chunks
        BY EntryFacts
      <3> QED
        BY <3>1, <2>1, <2>2, <1>1 DEF Entry
    <2> QED
      BY <2>2, <2>3, <1>4, EntryFacts DEF True, Entry, InDoubt, ReserveWrites
  <1>5. CASE e.state # "none" /\ ~Replayable(e, t)
    <2>1. Reservation(e, p, t) = [e EXCEPT !.state = "partial", !.upd = Larger(t, DoubtSince(e)), !.parts = 0,
                                           !.next = 0, !.since = DoubtSince(e)]
      BY <1>5 DEF Reservation
    <2>a. "partial" \in States /\ 0 \in 0..Chunks
      BY DiscordConstants DEF States
    <2>2. Reservation(e, p, t) \in Entry
      BY Zenon, <2>1, <2>a, <1>1, <1>2 DEF Entry
    <2> QED
      BY <2>1, <2>2, <1>5, EntryFacts DEF True, Entry, InDoubt, ReserveWrites
  <1> QED
    BY <1>3, <1>4, <1>5

LEMMA ReplyingTrue ==
    ASSUME NEW m \in Ids, NEW e \in Entry, NEW t \in 0..MaxTime, NEW shown
    PROVE  /\ Replying(e, Parts(m), t) \in Entry /\ True(m, Replying(e, Parts(m), t), shown)
           /\ Replying(e, Parts(m), t).state = "replying" /\ ~InDoubt(Replying(e, Parts(m), t))
           /\ Replying(e, Parts(m), t).owner = e.owner
  <1> DEFINE yes == TRUE
  <1>a. yes \in BOOLEAN /\ Replying(e, Parts(m), t) =
            [NoEntry EXCEPT !.state = "replying", !.owner = e.owner, !.parts = Parts(m), !.upd = t, !.known = yes]
    BY DEF Replying
  <1> HIDE DEF yes
  <1>1. Replying(e, Parts(m), t) =
            [state |-> "replying", owner |-> e.owner, parts |-> Parts(m), next |-> 0, conf |-> 0,
             upd |-> t, since |-> Never, known |-> yes]
    BY Zenon, <1>a DEF NoEntry
  <1>2. Replying(e, Parts(m), t) \in Entry
    BY <1>a, <1>1, PartsOne, EntryFacts, DiscordConstants DEF Entry, States
  <1> QED
    BY <1>1, <1>2, PartsOne DEF True, InDoubt

LEMMA ClaimedTrue ==
    ASSUME NEW m \in Ids, NEW e \in Entry, NEW t \in 0..MaxTime, NEW shown, NEW i \in Nat,
           True(m, e, shown), CanClaim(e, i)
    PROVE  /\ Claimed(e, i, t) \in Entry /\ True(m, Claimed(e, i, t), shown)
           /\ Claimed(e, i, t).state = "replying" /\ i =< Parts(m)
           /\ Claimed(e, i, t).owner = e.owner
  <1>1. i \in 0..Chunks /\ e.state = "replying" /\ i =< Parts(m) /\ e.conf =< i
    <2>1. e.conf \in Nat /\ e.next \in Nat /\ Parts(m) \in 1..Chunks
      BY EntryFacts, PartsOne
    <2>2. e.state = "replying" /\ i = e.next + 1 /\ i =< e.parts /\ e.next = e.conf /\ e.parts = Parts(m)
      BY DEF CanClaim, True
    <2> QED
      BY <2>1, <2>2, DiscordConstants
  <1>2. Larger(t, Larger(e.upd, e.since)) \in 0..MaxTime
    BY EntryFacts, DiscordConstants DEF Larger, Never
  <1>3. Claimed(e, i, t) = [e EXCEPT !.upd = Larger(t, Larger(e.upd, e.since)), !.next = i]
    BY DEF Claimed
  <1>4. Claimed(e, i, t) \in Entry
    BY Zenon, <1>1, <1>2, <1>3 DEF Entry
  <1> QED
    BY <1>1, <1>3, <1>4, EntryFacts DEF True, Entry

LEMMA ConfirmedTrue ==
    ASSUME NEW m \in Ids, NEW e \in Entry, NEW t \in 0..MaxTime, NEW shown, NEW i \in Nat,
           True(m, e, shown), CanConfirm(e, i), 1..i \subseteq shown
    PROVE  /\ Confirmed(e, i, t) \in Entry /\ True(m, Confirmed(e, i, t), shown)
           /\ Confirmed(e, i, t).state \in {"replying", "completed"}
           /\ ~InDoubt(Confirmed(e, i, t)) /\ Confirmed(e, i, t).owner = e.owner
  <1>1. i \in 0..Chunks /\ e.state = "replying" /\ e.parts = Parts(m) /\ e.next = i
    BY EntryFacts, PartsOne DEF CanConfirm, True
  <1>2. CASE i = e.parts
    <2>1. Confirmed(e, i, t) =
             [state |-> "completed", owner |-> e.owner, parts |-> 0, next |-> 0, conf |-> 0,
              upd |-> t, since |-> Never, known |-> FALSE]
      BY Zenon, <1>2 DEF Confirmed, Completed, NoEntry
    <2>2. Confirmed(e, i, t) \in Entry
      BY <2>1, EntryFacts, DiscordConstants DEF Entry, States
    <2>3. 1..Parts(m) \subseteq shown
      BY <1>1, <1>2
    <2>4. 1..0 \subseteq shown
      OBVIOUS
    <2> QED
      BY <2>1, <2>2, <2>3, <2>4 DEF True, InDoubt
  <1>3. CASE i # e.parts
    <2>1. Confirmed(e, i, t) = [e EXCEPT !.upd = t, !.conf = i, !.since = Never, !.known = FALSE]
      BY <1>3 DEF Confirmed
    <2>2. Confirmed(e, i, t) \in Entry
      BY Zenon, <2>1, <1>1 DEF Entry
    <2> QED
      BY <2>1, <2>2, <1>1, EntryFacts DEF True, Entry, InDoubt
  <1> QED
    BY <1>2, <1>3

LEMMA GivenUpTrue ==
    ASSUME NEW m \in Ids, NEW e \in Entry, NEW t \in 0..MaxTime, NEW shown, NEW i \in 0..Chunks,
           True(m, e, shown), 1..i \subseteq shown
    PROVE  /\ GivenUp(e, i, t) \in Entry /\ True(m, GivenUp(e, i, t), shown)
           /\ GivenUp(e, i, t).state = "partial" /\ GivenUp(e, i, t).owner = e.owner
  <1> DEFINE conf == Larger(e.conf, i)
             since == IF e.since = Never /\ InDoubt(e) THEN e.upd ELSE e.since
  <1>1. conf \in 0..Chunks /\ 1..conf \subseteq shown
    BY EntryFacts DEF Larger, True
  <1>2. since \in (0..MaxTime) \cup {Never}
    BY EntryFacts
  <1> DEFINE yes == TRUE
  <1>3. yes \in BOOLEAN /\ GivenUp(e, i, t) =
            [e EXCEPT !.state = "partial", !.upd = t, !.parts = 0, !.next = 0, !.conf = conf,
                      !.since = since, !.known = yes]
    BY DEF GivenUp
  <1> HIDE DEF conf, since, yes
  <1>4. GivenUp(e, i, t) \in Entry
    <2>1. "partial" \in States /\ 0 \in 0..Chunks
      BY DiscordConstants DEF States
    <2> QED
      BY Zenon, <2>1, <1>1, <1>2, <1>3 DEF Entry
  <1>5. /\ GivenUp(e, i, t).state = "partial" /\ GivenUp(e, i, t).conf = conf
        /\ GivenUp(e, i, t).owner = e.owner
    BY <1>3 DEF Entry
  <1> QED
    BY <1>1, <1>4, <1>5 DEF True

LEMMA ResumedTrue ==
    ASSUME NEW m \in Ids, NEW e \in Entry, NEW p \in Procs, NEW t \in 0..MaxTime, NEW shown,
           True(m, e, shown)
    PROVE  /\ Resumed(e, p, Parts(m), t) \in Entry /\ True(m, Resumed(e, p, Parts(m), t), shown)
           /\ Resumed(e, p, Parts(m), t).state = "replying" /\ ~InDoubt(Resumed(e, p, Parts(m), t))
           /\ Resumed(e, p, Parts(m), t).owner = p
  <1>1. Resumed(e, p, Parts(m), t) =
            [e EXCEPT !.state = "replying", !.owner = p, !.parts = Parts(m), !.upd = t, !.next = e.conf]
    BY DEF Resumed
  <1>2. Resumed(e, p, Parts(m), t) \in Entry
    <2>1. "replying" \in States /\ Parts(m) \in 0..Chunks /\ e.conf \in 0..Chunks
      BY PartsOne, EntryFacts DEF States
    <2> QED
      BY Zenon, <1>1, <2>1 DEF Entry
  <1> QED
    BY <1>1, <1>2, EntryFacts DEF True, Entry, InDoubt
-------------------------------------------------------------------------------
\* The file and the copies after a step: typed, true of what was visible before
\* it, and no message forgotten.
FilesTrue(records, copies) ==
    /\ records \in [Ids -> Entry]
    /\ copies \in [Procs -> [Ids -> Entry]]
    /\ \A m \in Ids : True(m, records[m], Shown(m)) /\ (records[m].state = "none" => file[m].state = "none")
    /\ \A p \in Procs : \A m \in Ids : True(m, copies[p][m], Shown(m))

\* A call on the record that writes entry w of message m, having loaded the file
\* anew if need be, or right away.
Puts(p, m, w) ==
    /\ Accepts(Fresh(p)[m], w)
    /\ file' = [Fresh(p) EXCEPT ![m] = Merged(@, w)]
    /\ cached' = [cached EXCEPT ![p] = file']
PutsAtOnce(p, m, w) ==
    /\ Accepts(file[m], w)
    /\ file' = [file EXCEPT ![m] = Merged(@, w)]
    /\ cached' = [cached EXCEPT ![p] = file']

LEMMA FreshTrue ==
    ASSUME Typed, RecordsTrue, NEW p \in Procs
    PROVE  /\ Fresh(p) \in [Ids -> Entry] /\ Cache(p) \in [Ids -> Entry]
           /\ \A m \in Ids : /\ True(m, Fresh(p)[m], Shown(m)) /\ True(m, Cache(p)[m], Shown(m))
                             /\ Fresh(p)[m].state = "none" <=> file[m].state = "none"
<1>1. file \in [Ids -> Entry] /\ cached[p] \in [Ids -> Entry]
  BY DEF Typed
<1>2. \A m \in Ids : True(m, file[m], Shown(m)) /\ True(m, cached[p][m], Shown(m))
  BY DEF RecordsTrue
<1>3. \A m \in Ids : /\ Recovered(file[m], p) \in Entry /\ True(m, Recovered(file[m], p), Shown(m))
                     /\ Recovered(file[m], p).state = "none" <=> file[m].state = "none"
  BY <1>1, <1>2, RecoveredTrue
<1>4. /\ Fresh(p) \in [Ids -> Entry]
      /\ \A m \in Ids : /\ True(m, Fresh(p)[m], Shown(m))
                        /\ Fresh(p)[m].state = "none" <=> file[m].state = "none"
  BY <1>1, <1>2, <1>3 DEF Fresh
<1> QED
  BY <1>1, <1>2, <1>4 DEF Cache

LEMMA SameFiles == ASSUME Typed, RecordsTrue, UNCHANGED <<file, cached>> PROVE FilesTrue(file', cached')
  BY DEF FilesTrue, Typed, RecordsTrue

LEMMA RefreshTrue == ASSUME Typed, RecordsTrue, NEW p \in Procs, Refresh(p) PROVE FilesTrue(file', cached')
<1>1. cached \in [Procs -> [Ids -> Entry]] /\ \A q \in Procs : \A m \in Ids : True(m, cached[q][m], Shown(m))
  BY DEF Typed, RecordsTrue
<1>2. file' = Fresh(p) /\ cached' = [cached EXCEPT ![p] = Cache(p)]
  BY DEF Refresh
<1> QED
  BY <1>1, <1>2, FreshTrue DEF FilesTrue

LEMMA PutsTrue ==
    ASSUME Typed, RecordsTrue, NEW p \in Procs, NEW m \in Ids, NEW w \in Entry,
           True(m, w, Shown(m)), w.state # "none", Puts(p, m, w)
    PROVE  /\ FilesTrue(file', cached')
           /\ file'[m] = Merged(Fresh(p)[m], w) /\ file'[m].state = w.state /\ file'[m].owner = w.owner
           /\ w.state # "partial" => file'[m] = w
           /\ \A n \in Ids \ {m} : file'[n] = Fresh(p)[n]
           /\ cached'[p] = file'
<1>1. cached \in [Procs -> [Ids -> Entry]] /\ \A q \in Procs : \A n \in Ids : True(n, cached[q][n], Shown(n))
  BY DEF Typed, RecordsTrue
<1>2. file' = [Fresh(p) EXCEPT ![m] = Merged(Fresh(p)[m], w)] /\ cached' = [cached EXCEPT ![p] = file']
  BY DEF Puts
<1>3. /\ Merged(Fresh(p)[m], w) \in Entry /\ True(m, Merged(Fresh(p)[m], w), Shown(m))
      /\ Merged(Fresh(p)[m], w).state = w.state /\ Merged(Fresh(p)[m], w).owner = w.owner
      /\ w.state # "partial" => Merged(Fresh(p)[m], w) = w
  BY FreshTrue, MergedTrue
<1>4. /\ file' \in [Ids -> Entry] /\ file'[m] = Merged(Fresh(p)[m], w)
      /\ \A n \in Ids \ {m} : file'[n] = Fresh(p)[n]
  BY <1>2, <1>3, FreshTrue
<1>5. \A n \in Ids : True(n, file'[n], Shown(n)) /\ (file'[n].state = "none" => file[n].state = "none")
  BY <1>3, <1>4, FreshTrue
<1>6. cached'[p] = file' /\ cached' \in [Procs -> [Ids -> Entry]]
  BY <1>1, <1>2, <1>4
<1>7. \A q \in Procs : \A n \in Ids : True(n, cached'[q][n], Shown(n))
  BY <1>1, <1>2, <1>5
<1> QED
  BY <1>3, <1>4, <1>5, <1>6, <1>7 DEF FilesTrue

LEMMA PutsAtOnceTrue ==
    ASSUME Typed, RecordsTrue, NEW p \in Procs, NEW m \in Ids, NEW w \in Entry,
           True(m, w, Shown(m)), w.state # "none", PutsAtOnce(p, m, w)
    PROVE  /\ FilesTrue(file', cached')
           /\ file'[m] = Merged(file[m], w) /\ file'[m].state = w.state /\ file'[m].owner = w.owner
           /\ w.state # "partial" => file'[m] = w
           /\ \A n \in Ids \ {m} : file'[n] = file[n]
           /\ cached'[p] = file'
<1>1. cached \in [Procs -> [Ids -> Entry]] /\ \A q \in Procs : \A n \in Ids : True(n, cached[q][n], Shown(n))
  BY DEF Typed, RecordsTrue
<1>2. file' = [file EXCEPT ![m] = Merged(file[m], w)] /\ cached' = [cached EXCEPT ![p] = file']
  BY DEF PutsAtOnce
<1>0. file \in [Ids -> Entry] /\ \A n \in Ids : True(n, file[n], Shown(n))
  BY DEF Typed, RecordsTrue
<1>3. /\ Merged(file[m], w) \in Entry /\ True(m, Merged(file[m], w), Shown(m))
      /\ Merged(file[m], w).state = w.state /\ Merged(file[m], w).owner = w.owner
      /\ w.state # "partial" => Merged(file[m], w) = w
  BY <1>0, MergedTrue
<1>4. /\ file' \in [Ids -> Entry] /\ file'[m] = Merged(file[m], w)
      /\ \A n \in Ids \ {m} : file'[n] = file[n]
  BY <1>2, <1>3, <1>0
<1>5. \A n \in Ids : True(n, file'[n], Shown(n)) /\ (file'[n].state = "none" => file[n].state = "none")
  BY <1>3, <1>4, <1>0
<1>6. cached'[p] = file' /\ cached' \in [Procs -> [Ids -> Entry]]
  BY <1>1, <1>2, <1>4
<1>7. \A q \in Procs : \A n \in Ids : True(n, cached'[q][n], Shown(n))
  BY <1>1, <1>2, <1>5
<1> QED
  BY <1>3, <1>4, <1>5, <1>6, <1>7 DEF FilesTrue

\* To a process alone, its copy is the file, whether or not it loads it anew.
LEMMA FreshOwned ==
    ASSUME Typed, NEW p \in Procs, Kept(p), proc[p].phase # "unborn"
    PROVE  /\ cached[p] = file /\ Cache(p) = Fresh(p) /\ Owned(p, file) /\ Owned(p, Fresh(p))
           /\ \A m \in Ids : /\ Fresh(p)[m].state = "reserved" => file[m].state = "reserved"
                             /\ InDoubt(Fresh(p)[m]) => InDoubt(file[m])
<1>1. cached[p] = file /\ Owned(p, file)
  BY DEF Kept
<1>2. Cache(p) = Fresh(p)
  BY <1>1 DEF Cache, Fresh
<1>3. ASSUME NEW m \in Ids
      PROVE  /\ Fresh(p)[m].owner = IF Fresh(p)[m].state = "none" THEN Nobody ELSE p
             /\ Fresh(p)[m].state = "reserved" => file[m].state = "reserved"
             /\ InDoubt(Fresh(p)[m]) => InDoubt(file[m])
  <2>1. file[m] \in Entry /\ file[m].owner = IF file[m].state = "none" THEN Nobody ELSE p
    BY <1>1 DEF Typed, Owned
  <2>2. Fresh(p)[m] = file[m] \/ Fresh(p)[m] = Recovered(file[m], p)
    BY DEF Fresh
  <2>3. /\ Recovered(file[m], p).owner = IF Recovered(file[m], p).state = "none" THEN Nobody ELSE p
        /\ Recovered(file[m], p).state = "reserved" => file[m].state = "reserved"
        /\ InDoubt(Recovered(file[m], p)) => InDoubt(file[m])
    BY <2>1 DEF Recovered, Entry, InDoubt
  <2> QED
    BY <2>1, <2>2, <2>3
<1> QED
  BY <1>1, <1>2, <1>3 DEF Owned
-------------------------------------------------------------------------------
\* How a task goes on: the POST it has on its way is forgotten with the next one.
Follows(d, t) ==
    /\ t \in Task /\ t.p = tasks[d].p /\ t.m = tasks[d].m
    /\ (t.post = tasks[d].post /\ t.at = tasks[d].at) \/ t.stage = "posting"

LEMMA TaskType ==
    ASSUME Typed, NEW d \in Tasks
    PROVE  /\ tasks[d] \in Task /\ tasks[d].p \in Procs /\ tasks[d].m \in Ids
           /\ tasks[d].i \in 0..Chunks /\ tasks[d].stage \in Stages /\ tasks[d].result \in Results
           /\ tasks[d].epoch \in Nat /\ tasks[d].at \in Nat /\ tasks[d].post \in 0..Chunks
<1>1. tasks[d] \in Task
  BY DEF Typed, Tasks
<1> QED
  BY <1>1 DEF Task

LEMMA AtFollows ==
    ASSUME Typed, NEW d \in Tasks, NEW stage \in Stages
    PROVE  /\ Follows(d, At(d, stage)) /\ At(d, stage).stage = stage
           /\ At(d, stage).i = tasks[d].i
           /\ At(d, stage).post = tasks[d].post /\ At(d, stage).at = tasks[d].at
<1>1. At(d, stage) = [tasks[d] EXCEPT !.stage = stage]
  BY DEF At
<1> QED
  BY <1>1, TaskType DEF Task, Follows

LEMMA AtWith ==
    ASSUME Typed, NEW d \in Tasks, NEW stage \in Stages, NEW i \in 0..Chunks
    PROVE  /\ Follows(d, [At(d, stage) EXCEPT !.i = i]) /\ [At(d, stage) EXCEPT !.i = i].stage = stage
           /\ [At(d, stage) EXCEPT !.i = i].i = i
<1> DEFINE t == At(d, stage)
<1>1. /\ t \in Task /\ t.p = tasks[d].p /\ t.m = tasks[d].m /\ t.stage = stage
      /\ t.post = tasks[d].post /\ t.at = tasks[d].at
  BY AtFollows DEF Follows
<1> HIDE DEF t
<1>2. Follows(d, [t EXCEPT !.i = i]) /\ [t EXCEPT !.i = i].stage = stage /\ [t EXCEPT !.i = i].i = i
  BY <1>1 DEF Task, Follows
<1> QED
  BY <1>2 DEF t

LEMMA EndedFollows ==
    ASSUME Typed, NEW d \in Tasks, NEW result \in Results
    PROVE  Follows(d, Ended(d, result)) /\ Ended(d, result).stage = "done" /\ Ended(d, result).i = 0
<1> DEFINE no == FALSE
           last == IF tasks[d].m \in Courses THEN result ELSE "none"
<1>1. no \in BOOLEAN /\ Ended(d, result) = [tasks[d] EXCEPT !.stage = "done", !.held = no, !.epoch = 0, !.i = 0,
                                              !.result = last]
  BY DEF Ended
<1>2. last \in Results /\ "done" \in Stages /\ 0 \in 0..Chunks /\ no \in BOOLEAN
  BY DiscordConstants DEF Results, Stages
<1> HIDE DEF no, last
<1>3. Ended(d, result) = [p |-> tasks[d].p, m |-> tasks[d].m, epoch |-> 0, stage |-> "done", i |-> 0,
                          post |-> tasks[d].post, at |-> tasks[d].at, held |-> no, result |-> last]
  BY Zenon, <1>1, TaskType DEF Task
<1>4. Ended(d, result) \in Task
  <2>1. tasks[d].p \in Procs /\ tasks[d].m \in Ids /\ tasks[d].post \in 0..Chunks /\ tasks[d].at \in Nat
    BY TaskType
  <2> QED
    BY <2>1, <1>2, <1>3 DEF Task
<1> QED
  BY <1>3, <1>4 DEF Follows

LEMMA ReleasedFollows ==
    ASSUME Typed, NEW d \in Tasks, NEW stage \in Stages
    PROVE  /\ Follows(d, Released(d, stage)) /\ Released(d, stage).stage = stage
           /\ Released(d, stage).i = tasks[d].i
           /\ Released(d, stage).post = tasks[d].post /\ Released(d, stage).at = tasks[d].at
<1> DEFINE no == FALSE
           t == At(d, stage)
<1>1. /\ t \in Task /\ t.p = tasks[d].p /\ t.m = tasks[d].m /\ t.stage = stage
      /\ t.i = tasks[d].i /\ t.post = tasks[d].post /\ t.at = tasks[d].at
  BY AtFollows DEF Follows
<1>2. no \in BOOLEAN /\ Released(d, stage) = [t EXCEPT !.held = no]
  BY DEF Released
<1> HIDE DEF no, t
<1> QED
  BY <1>1, <1>2 DEF Task, Follows

\* sendDurableReply() ends, or begins behind the chunks that are confirmed.
LEMMA SendFollows ==
    ASSUME Typed, NEW d \in Tasks, NEW start \in 0..Chunks
    PROVE  /\ Follows(d, SendDurableReply(d, start))
           /\ \/ SendDurableReply(d, start).stage = "done" /\ SendDurableReply(d, start).i = 0
              \/ SendDurableReply(d, start).stage = "sending" /\ SendDurableReply(d, start).i = start
<1> DEFINE p == tasks[d].p
           epoch == IF tasks[d].m \in Courses THEN proc[p].epoch ELSE tasks[d].epoch
           t == At(d, "sending")
<1>1. "retry" \in Results /\ "sending" \in Stages
  BY DEF Results, Stages
<1>2. /\ t \in Task /\ t.p = tasks[d].p /\ t.m = tasks[d].m /\ t.stage = "sending"
      /\ t.epoch = tasks[d].epoch /\ t.post = tasks[d].post /\ t.at = tasks[d].at
  BY <1>1, AtFollows, TaskType DEF Follows, At, Task
<1>3. epoch \in Nat
  BY TaskType DEF Typed, Process
<1>4. CASE ~proc[p].ready
  BY <1>1, <1>4, EndedFollows DEF SendDurableReply
<1>5. CASE proc[p].ready
  <2>1. SendDurableReply(d, start) = [t EXCEPT !.i = start, !.epoch = epoch]
    BY Zenon, <1>2, <1>5 DEF SendDurableReply
  <2> HIDE DEF t, epoch
  <2> QED
    BY Zenon, <2>1, <1>2, <1>3 DEF Task, Follows
<1> QED
  BY <1>4, <1>5
-------------------------------------------------------------------------------
\* What every step of a task does: it moves on, the record stays true, and of the
\* processes only authorityPrepared may change.
SameWorld ==
    /\ proc' \in [Procs -> Process]
    /\ \A p \in Procs : proc'[p].phase = proc[p].phase /\ proc'[p].epoch = proc[p].epoch
    /\ spent' \in [Faults -> Nat] /\ spent'["configures"] = spent["configures"]
    /\ spent'["writes"] = 0 => spent["writes"] = 0
    /\ UNCHANGED <<selected, now>>
Advance(d, t) == Go(d, t) /\ Follows(d, t) /\ FilesTrue(file', cached') /\ SameWorld
Binds(d, t) ==
    t.stage \in {"reserved", "preparing"} =>
        Bound(d) \/ (file[t.m].state = "none" /\ file'[t.m].state # "none")

\* For a process alone: its copy stays the file, and the task leaves nothing open.
LeavesNothing(d, t) ==
    \A m \in Ids :
        /\ file'[m].state = "reserved" =>
              IF m = t.m THEN t.stage \in Answering
                              \/ (file[m].state = "reserved" /\ tasks[d].stage \notin Answering)
              ELSE file[m].state = "reserved"
        /\ InDoubt(file'[m]) =>
              IF m = t.m THEN t.stage \in Posting \/ (InDoubt(file[m]) /\ tasks[d].stage \notin Posting)
              ELSE InDoubt(file[m])
Settles(d, t) ==
    Kept(tasks[d].p) /\ proc[tasks[d].p].phase # "unborn" /\ spent'["writes"] = 0
    => cached'[tasks[d].p] = file' /\ Owned(tasks[d].p, file') /\ LeavesNothing(d, t)

LEMMA GoTasks ==
    ASSUME Typed, NEW d \in Tasks, NEW t, Follows(d, t), Go(d, t)
    PROVE  /\ tasks' \in Seq(Task) /\ Tasks' = Tasks
           /\ \A b \in Tasks : tasks'[b] = IF b = d THEN t ELSE tasks[b]
<1>1. tasks \in Seq(Task) /\ d \in 1..Len(tasks) /\ t \in Task /\ tasks' = [tasks EXCEPT ![d] = t]
  BY DEF Typed, Tasks, Follows, Go
<1> QED
  BY <1>1, ExceptSeq DEF Tasks

LEMMA AdvanceTrue ==
    ASSUME IInv, NEW d \in Tasks, NEW t, Advance(d, t), UNCHANGED <<visible, nonceAt>>,
           routed' \in [Ids -> Nat], TaskTrue(t, Shown(t.m))
    PROVE  Typed' /\ Epochs' /\ RecordsTrue' /\ TasksTrue' /\ ChannelTrue' /\ RepliesInOrder'
<1>0. Typed /\ Go(d, t) /\ Follows(d, t) /\ FilesTrue(file', cached') /\ SameWorld
  BY DEF IInv, Advance
<1>1. /\ tasks' \in Seq(Task) /\ Tasks' = Tasks
      /\ \A b \in Tasks : tasks'[b] = IF b = d THEN t ELSE tasks[b]
  BY <1>0, GoTasks
<1>2. \A m \in Ids : Shown(m)' = Shown(m)
  BY DEF Shown
<1>3. Typed'
  BY <1>0, <1>1 DEF Typed, FilesTrue, SameWorld
<1>4. Epochs'
  BY <1>0 DEF IInv, Epochs, SameWorld
<1>5. RecordsTrue'
  BY <1>0, <1>2 DEF RecordsTrue, FilesTrue
<1>6. TasksTrue'
  <2>1. \A b \in Tasks : TaskTrue(tasks'[b], Shown(tasks'[b].m)) /\ proc'[tasks'[b].p].phase # "unborn"
    <3>1. /\ \A b \in Tasks : TaskTrue(tasks[b], Shown(tasks[b].m)) /\ proc[tasks[b].p].phase # "unborn"
          /\ \A b \in Tasks : tasks[b].p \in Procs
      BY <1>0, TaskType DEF IInv, TasksTrue
    <3>2. t.p = tasks[d].p /\ \A p \in Procs : proc'[p].phase = proc[p].phase
      BY <1>0 DEF Follows, SameWorld
    <3> QED
      BY <1>1, <3>1, <3>2
  <2>2. \A b \in Tasks : tasks'[b].m \in Ids
    BY <1>0, <1>1, TaskType DEF Follows
  <2>3. Flying(t, Shown(t.m))
    <3>0. t \in Task /\ t.m = tasks[d].m
      BY <1>0 DEF Follows
    <3>1. t.i \in 0..Chunks /\ t.m = tasks[d].m /\ Flying(tasks[d], Shown(tasks[d].m))
      BY <3>0 DEF Task, IInv, TasksTrue
    <3>2. CASE t.post = tasks[d].post
      BY <3>1, <3>2 DEF Flying
    <3>3. CASE t.stage = "posting"
      BY <3>1, <3>3 DEF TaskTrue, Flying
    <3> QED
      BY <3>2, <3>3, <1>0 DEF Follows
  <2>4. \A b \in Tasks : Flying(tasks'[b], Shown(tasks'[b].m))
    BY <2>3, <1>1 DEF IInv, TasksTrue
  <2> QED
    BY <2>1, <2>2, <2>4, <1>1, <1>2 DEF TasksTrue
<1>7. ChannelTrue' /\ RepliesInOrder'
  BY <1>2 DEF IInv, ChannelTrue, RepliesInOrder
<1> QED
  BY <1>3, <1>4, <1>5, <1>6, <1>7

LEMMA AdvanceRouting ==
    ASSUME IInv, NEW d \in Tasks, NEW t, Advance(d, t), UNCHANGED routed, Binds(d, t)
    PROVE  Routing'
<1>0. Typed /\ Go(d, t) /\ Follows(d, t) /\ FilesTrue(file', cached')
  BY DEF IInv, Advance
<1>1. Tasks' = Tasks /\ \A b \in Tasks : tasks'[b] = IF b = d THEN t ELSE tasks[b]
  BY <1>0, GoTasks
<1>2. \A m \in Ids : file'[m].state = "none" => file[m].state = "none" /\ routed[m] = 0
  BY <1>0 DEF FilesTrue, IInv, Routing
<1>3. \A b \in Tasks : tasks[b].m \in Ids /\ tasks'[b].m = tasks[b].m
  BY <1>0, <1>1, TaskType DEF Follows
<1>4. \A b \in Tasks : Bound(b)' =>
        Bound(b) \/ (b = d /\ file[tasks[d].m].state = "none" /\ file'[tasks[d].m].state # "none")
  BY <1>0, <1>1 DEF Bound, Binds, Follows
<1>5. \A b \in Tasks : Bound(b) => routed[tasks[b].m] = 0 /\ file[tasks[b].m].state # "none"
  BY DEF IInv, Routing
<1>6. \A b \in Tasks : Bound(b)' => routed'[tasks'[b].m] = 0 /\ file'[tasks'[b].m].state # "none"
  BY <1>2, <1>3, <1>4, <1>5 DEF IInv, Routing
<1>7. \A a, b \in Tasks : Bound(a)' /\ Bound(b)' /\ tasks'[a].m = tasks'[b].m => a = b
  BY <1>3, <1>4, <1>5 DEF IInv, Routing
<1>8. RoutedOnce'
  BY DEF IInv, Routing, RoutedOnce
<1> QED
  BY <1>1, <1>2, <1>6, <1>7, <1>8 DEF Routing

LEMMA AdvanceKept ==
    ASSUME IInv, NEW d \in Tasks, NEW t, Advance(d, t), Settles(d, t)
    PROVE  AloneKept'
<1> DEFINE p == tasks[d].p
<1>0. Typed /\ Go(d, t) /\ Follows(d, t) /\ FilesTrue(file', cached') /\ SameWorld
  BY DEF IInv, Advance
<1>1. /\ Tasks' = Tasks /\ \A b \in Tasks : tasks'[b] = IF b = d THEN t ELSE tasks[b]
  BY <1>0, GoTasks
<1>2. p \in Procs /\ proc[p].phase # "unborn"
  BY <1>0, TaskType DEF IInv, TasksTrue
<1> SUFFICES ASSUME NEW q \in Procs, Alone(q)' PROVE Kept(q)'
  BY DEF AloneKept
<1>3. q = p /\ Alone(p) /\ spent'["writes"] = 0
  BY <1>0, <1>2 DEF Alone, SameWorld
<1>4. Kept(p)
  BY <1>2, <1>3 DEF IInv, AloneKept
<1>5. cached'[p] = file' /\ Owned(p, file') /\ LeavesNothing(d, t)
  BY <1>2, <1>3, <1>4 DEF Settles
<1>6. proc'[p].phase # "unborn"
  BY <1>0, <1>2 DEF SameWorld
<1>7. \A b \in Tasks : tasks'[b].p = p /\ tasks'[b].m = tasks[b].m
  BY <1>0, <1>1, <1>4 DEF Kept, Follows
<1>8. ASSUME NEW m \in Ids, file'[m].state = "reserved" PROVE Settling(m, Answering)'
  <2>1. CASE m = t.m /\ t.stage \in Answering
    BY <2>1, <1>1 DEF Settling
  <2>2. CASE file[m].state = "reserved" /\ (m = t.m => tasks[d].stage \notin Answering)
    <3>1. PICK b \in Tasks : tasks[b].m = m /\ tasks[b].stage \in Answering
      BY <2>2, <1>4 DEF Kept, Settling
    <3>2. b # d
      BY <3>1, <2>2, <1>0 DEF Follows
    <3> QED
      BY <3>1, <3>2, <1>1 DEF Settling
  <2> QED
    BY <2>1, <2>2, <1>5, <1>8 DEF LeavesNothing
<1>9. ASSUME NEW m \in Ids, InDoubt(file'[m]) PROVE Settling(m, Posting)'
  <2>1. CASE m = t.m /\ t.stage \in Posting
    BY <2>1, <1>1 DEF Settling
  <2>2. CASE InDoubt(file[m]) /\ (m = t.m => tasks[d].stage \notin Posting)
    <3>1. PICK b \in Tasks : tasks[b].m = m /\ tasks[b].stage \in Posting
      BY <2>2, <1>4 DEF Kept, Settling
    <3>2. b # d
      BY <3>1, <2>2, <1>0 DEF Follows
    <3> QED
      BY <3>1, <3>2, <1>1 DEF Settling
  <2> QED
    BY <2>1, <2>2, <1>5, <1>9 DEF LeavesNothing
<1>10. Owned(q, file')
  BY <1>3, <1>5
<1> QED
  BY <1>1, <1>3, <1>5, <1>6, <1>7, <1>8, <1>9, <1>10 DEF Kept, Owned

LEMMA AdvanceIInv ==
    ASSUME IInv, NEW d \in Tasks, NEW t, Advance(d, t), UNCHANGED <<routed, visible, nonceAt>>,
           TaskTrue(t, Shown(t.m)), Binds(d, t), Settles(d, t)
    PROVE  IInv'
<1> routed' \in [Ids -> Nat]
  BY DEF IInv, Typed
<1> QED
  BY AdvanceTrue, AdvanceRouting, AdvanceKept DEF IInv
-------------------------------------------------------------------------------
LEMMA WorldSame ==
    ASSUME Typed, NEW p \in Procs, EnsureAuthoritative(p) \/ UNCHANGED proc,
           UNCHANGED spent \/ Happens("writes"), UNCHANGED <<selected, now>>
    PROVE  SameWorld /\ (Happens("writes") => spent'["writes"] # 0)
<1>1. proc' \in [Procs -> Process] /\ \A q \in Procs : proc'[q].phase = proc[q].phase
      /\ proc'[q].epoch = proc[q].epoch
  <2>1. CASE EnsureAuthoritative(p)
    <3> DEFINE can == Alive(p) /\ IsActive(p)
               new == [proc[p] EXCEPT !.prepared = can]
    <3>1. proc \in [Procs -> Process] /\ proc[p] \in Process /\ can \in BOOLEAN
      BY DEF Typed, Alive, IsActive
    <3>2. proc' = [proc EXCEPT ![p] = new]
      BY <2>1 DEF EnsureAuthoritative
    <3>3. new \in Process /\ new.phase = proc[p].phase /\ new.epoch = proc[p].epoch
      <4> HIDE DEF can
      <4> QED
        BY <3>1 DEF Process
    <3> HIDE DEF new
    <3> QED
      BY <3>1, <3>2, <3>3
  <2>2. CASE UNCHANGED proc
    BY <2>2 DEF Typed
  <2> QED
    BY <2>1, <2>2
<1>2. /\ spent' \in [Faults -> Nat] /\ spent'["configures"] = spent["configures"]
      /\ spent'["writes"] = 0 => spent["writes"] = 0
      /\ Happens("writes") => spent'["writes"] # 0
  <2>1. spent \in [Faults -> Nat] /\ "writes" \in Faults /\ "configures" \in Faults
    BY DEF Typed, Faults
  <2>2. Happens("writes") => spent' = [spent EXCEPT !["writes"] = spent["writes"] + 1]
    BY Zenon DEF Happens
  <2> QED
    BY <2>1, <2>2
<1> QED
  BY <1>1, <1>2 DEF SameWorld

\* A step that writes nothing of its own.
Loads(d, t) ==
    /\ Go(d, t) /\ Follows(d, t)
    /\ EnsureAuthoritative(tasks[d].p) \/ UNCHANGED proc
    /\ Refresh(tasks[d].p) \/ UNCHANGED <<file, cached>>
    /\ UNCHANGED spent \/ Happens("writes")
    /\ UNCHANGED <<selected, now, routed, visible, nonceAt>>

LEMMA LoadsFiles ==
    ASSUME IInv, NEW d \in Tasks, Refresh(tasks[d].p) \/ UNCHANGED <<file, cached>>
    PROVE  /\ FilesTrue(file', cached')
           /\ Kept(tasks[d].p) /\ proc[tasks[d].p].phase # "unborn" =>
                 /\ cached'[tasks[d].p] = file' /\ Owned(tasks[d].p, file')
                 /\ \A m \in Ids : /\ file'[m].state = "reserved" => file[m].state = "reserved"
                                   /\ InDoubt(file'[m]) => InDoubt(file[m])
<1> DEFINE p == tasks[d].p
<1>1. Typed /\ RecordsTrue /\ p \in Procs
  BY TaskType DEF IInv
<1>2. FilesTrue(file', cached')
  BY <1>1, RefreshTrue, SameFiles
<1>3. ASSUME Kept(p), proc[p].phase # "unborn"
      PROVE  /\ cached'[p] = file' /\ Owned(p, file')
             /\ \A m \in Ids : /\ file'[m].state = "reserved" => file[m].state = "reserved"
                               /\ InDoubt(file'[m]) => InDoubt(file[m])
  <2>1. /\ cached[p] = file /\ Cache(p) = Fresh(p) /\ Owned(p, file) /\ Owned(p, Fresh(p))
        /\ \A m \in Ids : /\ Fresh(p)[m].state = "reserved" => file[m].state = "reserved"
                          /\ InDoubt(Fresh(p)[m]) => InDoubt(file[m])
    BY <1>1, <1>3, FreshOwned
  <2>2. CASE Refresh(p)
    <3>1. file' = Fresh(p) /\ cached'[p] = Cache(p)
      BY <2>2, <1>1 DEF Refresh, Typed
    <3> QED
      BY <3>1, <2>1
  <2>3. CASE UNCHANGED <<file, cached>>
    <3>1. file' = file /\ cached'[p] = cached[p]
      BY <2>3
    <3> QED
      BY <3>1, <2>1
  <2> QED
    BY <2>2, <2>3
<1> QED
  BY <1>2, <1>3

LEMMA LoadsSettle ==
    ASSUME IInv, NEW d \in Tasks, NEW t, Loads(d, t),
           Happens("writes") \/ (/\ tasks[d].stage \in Answering => t.stage \in Answering
                                 /\ tasks[d].stage \in Posting => t.stage \in Posting)
    PROVE  Settles(d, t)
<1>1. Typed /\ tasks[d].p \in Procs
  BY TaskType DEF IInv
<1>2. Happens("writes") => spent'["writes"] # 0
  BY <1>1, WorldSame DEF Loads
<1> QED
  BY <1>2, LoadsFiles DEF Settles, LeavesNothing, Loads

LEMMA LoadsIInv ==
    ASSUME IInv, NEW d \in Tasks, NEW t, Loads(d, t), Settles(d, t), TaskTrue(t, Shown(t.m)),
           t.stage \in {"reserved", "preparing"} => Bound(d)
    PROVE  IInv'
<1>1. Typed /\ tasks[d].p \in Procs
  BY TaskType DEF IInv
<1>2. Advance(d, t)
  BY <1>1, LoadsFiles, WorldSame DEF Loads, Advance
<1>3. Binds(d, t) /\ UNCHANGED <<routed, visible, nonceAt>>
  BY DEF Binds, Loads
<1> QED
  BY <1>2, <1>3, AdvanceIInv

\* A step that writes entry w.
Writes(d, t, w) ==
    /\ Go(d, t) /\ Follows(d, t)
    /\ EnsureAuthoritative(tasks[d].p) \/ UNCHANGED proc
    /\ Puts(tasks[d].p, tasks[d].m, w) \/ PutsAtOnce(tasks[d].p, tasks[d].m, w)
    /\ UNCHANGED <<spent, selected, now, routed, visible, nonceAt>>

LEMMA WritesIInv ==
    ASSUME IInv, NEW d \in Tasks, NEW t, NEW w \in Entry, Writes(d, t, w),
           True(tasks[d].m, w, Shown(tasks[d].m)), w.state # "none",
           Kept(tasks[d].p) /\ proc[tasks[d].p].phase # "unborn" => w.owner = tasks[d].p,
           w.state = "reserved" => t.stage \in Answering,
           InDoubt(w) => t.stage \in Posting,
           TaskTrue(t, Shown(t.m)),
           t.stage \in {"reserved", "preparing"} => Bound(d) \/ file[tasks[d].m].state = "none"
    PROVE  IInv'
<1> DEFINE p == tasks[d].p
           m == tasks[d].m
<1>1. Typed /\ RecordsTrue /\ p \in Procs /\ m \in Ids
  BY TaskType DEF IInv
<1>2. /\ FilesTrue(file', cached')
      /\ file'[m].state = w.state /\ file'[m].owner = w.owner /\ (w.state # "partial" => file'[m] = w)
      /\ cached'[p] = file'
      /\ \/ \A n \in Ids \ {m} : file'[n] = Fresh(p)[n]
         \/ \A n \in Ids \ {m} : file'[n] = file[n]
  <2>1. CASE Puts(p, m, w)
    BY <2>1, <1>1, PutsTrue
  <2>2. CASE PutsAtOnce(p, m, w)
    BY <2>2, <1>1, PutsAtOnceTrue
  <2> QED
    BY <2>1, <2>2 DEF Writes
<1>3. Advance(d, t)
  BY <1>1, <1>2, WorldSame DEF Writes, Advance
<1>4. Binds(d, t) /\ UNCHANGED <<routed, visible, nonceAt>>
  BY <1>2 DEF Binds, Writes, Follows
<1>5. Settles(d, t)
  <2> SUFFICES ASSUME Kept(p), proc[p].phase # "unborn"
               PROVE  Owned(p, file') /\ LeavesNothing(d, t)
    BY <1>2 DEF Settles
  <2>1. /\ Owned(p, file) /\ Owned(p, Fresh(p))
        /\ \A n \in Ids : /\ Fresh(p)[n].state = "reserved" => file[n].state = "reserved"
                          /\ InDoubt(Fresh(p)[n]) => InDoubt(file[n])
    BY <1>1, FreshOwned
  <2>2. Owned(p, file')
    BY <2>1, <1>2 DEF Owned
  <2>3. t.m = m
    BY DEF Writes, Follows
  <2>4. InDoubt(file'[m]) => InDoubt(w)
    BY <1>2 DEF InDoubt
  <2>5. LeavesNothing(d, t)
    BY <1>2, <2>1, <2>3, <2>4 DEF LeavesNothing
  <2> QED
    BY <2>2, <2>5
<1> QED
  BY <1>3, <1>4, <1>5, AdvanceIInv
-------------------------------------------------------------------------------
\* One lemma for every step of a task.
LEMMA StepFacts ==
    ASSUME IInv, NEW d \in Tasks
    PROVE  /\ Typed /\ RecordsTrue /\ now \in 0..MaxTime
           /\ tasks[d].p \in Procs /\ tasks[d].m \in Ids /\ tasks[d].i \in 0..Chunks
           /\ TaskTrue(tasks[d], Shown(tasks[d].m))
           /\ Cache(tasks[d].p)[tasks[d].m] \in Entry /\ cached[tasks[d].p][tasks[d].m] \in Entry
           /\ True(tasks[d].m, Cache(tasks[d].p)[tasks[d].m], Shown(tasks[d].m))
           /\ True(tasks[d].m, cached[tasks[d].p][tasks[d].m], Shown(tasks[d].m))
           /\ Kept(tasks[d].p) /\ proc[tasks[d].p].phase # "unborn" =>
                 /\ cached[tasks[d].p] = file /\ Cache(tasks[d].p) = Fresh(tasks[d].p)
                 /\ Owned(tasks[d].p, Cache(tasks[d].p)) /\ Owned(tasks[d].p, file)
<1>1. Typed /\ RecordsTrue /\ now \in 0..MaxTime
  BY DEF IInv, Typed
<1>2. tasks[d].p \in Procs /\ tasks[d].m \in Ids /\ tasks[d].i \in 0..Chunks
  BY <1>1, TaskType
<1>3. TaskTrue(tasks[d], Shown(tasks[d].m))
  BY DEF IInv, TasksTrue
<1>4. cached[tasks[d].p] \in [Ids -> Entry]
      /\ True(tasks[d].m, cached[tasks[d].p][tasks[d].m], Shown(tasks[d].m))
  BY <1>1, <1>2 DEF Typed, RecordsTrue
<1> QED
  BY <1>1, <1>2, <1>3, <1>4, FreshTrue, FreshOwned

LEMMA EndedTrue ==
    ASSUME Typed, NEW d \in Tasks, NEW result \in Results
    PROVE  TaskTrue(Ended(d, result), Shown(Ended(d, result).m))
<1>1. Ended(d, result).stage = "done" /\ Ended(d, result).i = 0
  BY EndedFollows
<1> QED
  BY <1>1 DEF TaskTrue

LEMMA LapseStep ==
    ASSUME IInv, NEW d \in Tasks, NEW t, Lapse(d, t), Follows(d, t), TaskTrue(t, Shown(t.m)),
           t.stage \notin {"reserved", "preparing"},
           tasks[d].stage \in Answering => t.stage \in Answering,
           tasks[d].stage \in Posting => t.stage \in Posting
    PROVE  IInv'
<1>1. Loads(d, t)
  BY DEF Lapse, Loads, NoLoad
<1> QED
  BY <1>1, LoadsSettle, LoadsIInv

LEMMA HandleMessageStep == ASSUME IInv, NEW d \in Tasks, HandleMessage(d) PROVE IInv'
<1> DEFINE p == tasks[d].p
<1>1. /\ Typed /\ TaskTrue(tasks[d], Shown(tasks[d].m))
      /\ tasks[d].stage = "queued" /\ tasks[d].m \in Messages
      /\ "none" \in Results /\ "admitted" \in Stages
  BY StepFacts DEF HandleMessage, Results, Stages
<1>2. CASE Lapse(d, Ended(d, "none"))
  <2>1. Follows(d, Ended(d, "none")) /\ TaskTrue(Ended(d, "none"), Shown(Ended(d, "none").m))
        /\ Ended(d, "none").stage = "done"
    BY <1>1, EndedFollows, EndedTrue
  <2> QED
    BY <1>1, <1>2, <2>1, LapseStep DEF Answering, Posting
<1>3. CASE /\ EnsureAuthoritative(p) /\ Refresh(p) /\ Go(d, At(d, "admitted"))
           /\ UNCHANGED <<selected, now, routed, visible, nonceAt, spent>>
  <2> DEFINE t == At(d, "admitted")
  <2>1. Follows(d, t) /\ t.stage = "admitted" /\ t.i = tasks[d].i /\ t.m = tasks[d].m
    BY <1>1, AtFollows DEF Follows
  <2>2. TaskTrue(t, Shown(t.m))
    BY <1>1, <2>1 DEF TaskTrue
  <2>3. Loads(d, t)
    BY <1>3, <2>1 DEF Loads
  <2> HIDE DEF t
  <2> QED
    BY <1>1, <2>1, <2>2, <2>3, LoadsSettle, LoadsIInv DEF Answering, Posting
<1> QED
  BY <1>2, <1>3 DEF HandleMessage

LEMMA RecordSplits ==
    ASSUME NEW p \in Procs, NEW m \in Ids, NEW want, NEW w, Record(p, m, want, w)
    PROVE  (Written(p, m, want, w) /\ want /\ Puts(p, m, w)) \/ (~Written(p, m, want, w) /\ Refresh(p))
  BY Zenon DEF Record, Puts, Refresh, Written

\* reserve(): what the caller is told, and what it does then.
Answer(d) ==
    LET p == tasks[d].p  e == Cache(p)[tasks[d].m] IN
    IF ReserveWrites(e) /\ ~Written(p, tasks[d].m, TRUE, Reservation(e, p, now)) THEN "duplicate"
    ELSE Decision(e, now)

LEMMA ReservationStep ==
    ASSUME IInv, NEW d \in Tasks, NEW t, Follows(d, t), TaskTrue(t, Shown(t.m)),
           tasks[d].stage \notin Answering \cup Posting, t.stage \notin Posting \cup {"preparing"},
           Answer(d) = "process" => t.stage = "reserved",
           Answer(d) # "process" => t.stage \notin Answering,
           Go(d, t), EnsureAuthoritative(tasks[d].p),
           Record(tasks[d].p, tasks[d].m, ReserveWrites(Cache(tasks[d].p)[tasks[d].m]),
                  Reservation(Cache(tasks[d].p)[tasks[d].m], tasks[d].p, now)),
           UNCHANGED <<selected, now, routed, visible, nonceAt, spent>>
    PROVE  IInv'
<1> DEFINE p == tasks[d].p
           m == tasks[d].m
           e == Cache(p)[m]
           w == Reservation(e, p, now)
           answer == IF ReserveWrites(e) /\ ~Written(p, m, TRUE, w) THEN "duplicate" ELSE Decision(e, now)
<1>0. /\ Typed /\ p \in Procs /\ m \in Ids /\ now \in 0..MaxTime /\ e \in Entry /\ True(m, e, Shown(m))
      /\ answer = Answer(d)
  BY StepFacts DEF Answer
<1>1. CASE Written(p, m, ReserveWrites(e), w) /\ Puts(p, m, w)
  <2>1. ReserveWrites(e) /\ Accepts(Fresh(p)[m], w)
    BY <1>1 DEF Written
  <2>2. /\ w \in Entry /\ True(m, w, Shown(m)) /\ ~InDoubt(w) /\ w.state # "none"
        /\ e.state = "none" => w.state = "reserved" /\ w.owner = p
        /\ e.state # "none" => w.state \in {"replying", "partial"} /\ w.owner \in {p, e.owner}
    <3>0. /\ w \in Entry /\ True(m, w, Shown(m))
          /\ e.state = "none" => w.state = "reserved" /\ w.owner = p
          /\ e.state # "none" => w.state \in {"replying", "partial"} /\ w.owner \in {p, e.owner} /\ ~InDoubt(w)
      <4>1. w = Reservation(e, p, now) /\ ReserveWrites(e)
        BY <2>1
      <4> HIDE DEF w, e, p, m, answer
      <4> QED
        BY <1>0, <4>1, ReservationTrue
    <3> HIDE DEF w, e
    <3>1. w.state # "none"
      BY <3>0
    <3>2. ~InDoubt(w)
      BY <3>0 DEF InDoubt
    <3> QED
      BY <3>0, <3>1, <3>2
  <2>3. answer = Decision(e, now)
    BY <2>1 DEF Written
  <2>4. answer = "process" <=> e.state = "none"
    BY Zenon, <2>3 DEF Decision
  <2>5. e.state = "none" => file[m].state = "none"
    BY Zenon, <2>1, <2>2, <1>0, StepFacts, FreshTrue DEF Accepts
  <2>6. Kept(p) /\ proc[p].phase # "unborn" => w.owner = p
    <3>1. Kept(p) /\ proc[p].phase # "unborn" => e.owner = IF e.state = "none" THEN Nobody ELSE p
      BY <1>0, StepFacts DEF Owned
    <3> QED
      BY <3>1, <2>2
  <2>7. Writes(d, t, w)
    BY <1>1 DEF Writes
  <2>8. /\ w.state = "reserved" => t.stage \in Answering
        /\ t.stage \in {"reserved", "preparing"} => file[m].state = "none"
    BY Zenon, <2>2, <2>4, <2>5, <1>0 DEF Answering
  <2> HIDE DEF w, e, answer
  <2> QED
    BY <2>2, <2>6, <2>7, <2>8, WritesIInv
<1>2. CASE ~Written(p, m, ReserveWrites(e), w) /\ Refresh(p)
  <2>1. answer # "process"
    BY <1>2 DEF Written, Decision, ReserveWrites
  <2>2. Loads(d, t)
    BY <1>2 DEF Loads
  <2>3. t.stage \notin {"reserved", "preparing"}
    BY Zenon, <2>1, <1>0 DEF Answering
  <2> HIDE DEF answer
  <2> QED
    BY <1>0, <2>1, <2>2, <2>3, LoadsSettle, LoadsIInv DEF Answering, Posting
<1> QED
  BY <1>1, <1>2, <1>0, RecordSplits

LEMMA ReserveStep == ASSUME IInv, NEW d \in Tasks, Reserve(d) PROVE IInv'
<1> DEFINE p == tasks[d].p
           m == tasks[d].m
           e == Cache(p)[m]
           w == Reservation(e, p, now)
           answer == IF ReserveWrites(e) /\ ~Written(p, m, TRUE, w) THEN "duplicate" ELSE Decision(e, now)
           t == CASE answer = "process" -> At(d, "reserved")
                  [] answer = "resume_reply" -> [At(d, "resuming") EXCEPT !.i = e.conf]
                  [] OTHER -> Ended(d, "none")
<1>1. /\ Typed /\ TaskTrue(tasks[d], Shown(m)) /\ p \in Procs /\ m \in Ids /\ now \in 0..MaxTime
      /\ e \in Entry /\ True(m, e, Shown(m))
      /\ tasks[d].stage = "admitted" /\ m \in Messages
      /\ "none" \in Results /\ "reserved" \in Stages /\ "resuming" \in Stages
  BY StepFacts DEF Reserve, Results, Stages, TaskTrue
<1>2. Follows(d, Ended(d, "none")) /\ TaskTrue(Ended(d, "none"), Shown(Ended(d, "none").m))
      /\ Ended(d, "none").stage = "done"
  BY <1>1, EndedFollows, EndedTrue
<1>3. CASE Lapse(d, Ended(d, "none"))
  BY <1>1, <1>2, <1>3, LapseStep DEF Answering, Posting
<1>4. e.conf \in 0..Chunks
  BY <1>1, EntryFacts
<1>5. /\ Follows(d, t) /\ TaskTrue(t, Shown(t.m)) /\ t.stage \notin Posting \cup {"preparing"}
      /\ answer = "process" => t.stage = "reserved"
      /\ answer # "process" => t.stage \notin Answering
  <2>1. CASE answer = "process"
    <3>1. t = At(d, "reserved")
      BY Zenon, <2>1
    <3> HIDE DEF t
    <3>2. Follows(d, t) /\ t.stage = "reserved" /\ t.i = tasks[d].i /\ t.m = m
      BY <1>1, <3>1, AtFollows DEF Follows
    <3> QED
      BY Zenon, <1>1, <2>1, <3>2 DEF TaskTrue, Posting
  <2>2. CASE answer = "resume_reply"
    <3>1. t = [At(d, "resuming") EXCEPT !.i = e.conf]
      BY Zenon, <2>2
    <3> HIDE DEF t, e
    <3>2. Follows(d, t) /\ t.stage = "resuming" /\ t.i = e.conf /\ t.m = m
      BY <1>1, <1>4, <3>1, AtWith DEF Follows
    <3> QED
      BY Zenon, <1>1, <2>2, <3>2 DEF TaskTrue, True, Answering, Posting
  <2>3. CASE answer \notin {"process", "resume_reply"}
    <3>1. t = Ended(d, "none")
      BY Zenon, <2>3
    <3> HIDE DEF t
    <3> QED
      BY Zenon, <1>2, <2>3, <3>1 DEF Answering, Posting
  <2> QED
    BY Zenon, <2>1, <2>2, <2>3
<1>6. CASE /\ EnsureAuthoritative(p) /\ Record(p, m, ReserveWrites(e), w) /\ Go(d, t)
           /\ UNCHANGED <<selected, now, routed, visible, nonceAt, spent>>
  <2> HIDE DEF t
  <2> QED
    BY Zenon, <1>1, <1>5, <1>6, ReservationStep DEF Answer, Answering, Posting
<1>7. CASE /\ EnsureAuthoritative(p) /\ WriteFails(p) /\ Go(d, Ended(d, "none"))
           /\ UNCHANGED <<selected, now, routed, visible, nonceAt>>
  <2>1. Loads(d, Ended(d, "none")) /\ Happens("writes")
    BY <1>2, <1>7 DEF Loads, WriteFails
  <2> QED
    BY <1>2, <2>1, LoadsSettle, LoadsIInv
<1> QED
  BY Zenon, <1>3, <1>6, <1>7 DEF Reserve

LEMMA AtTrue ==
    ASSUME IInv, NEW d \in Tasks, NEW stage \in Stages, stage \notin {"claimed", "posting", "answered", "doubtful"},
           stage \in {"admitted", "resuming", "preparing", "awaiting", "finished"} => tasks[d].m \in Messages
    PROVE  /\ Follows(d, At(d, stage)) /\ At(d, stage).stage = stage
           /\ TaskTrue(At(d, stage), Shown(At(d, stage).m))
           /\ Follows(d, Released(d, stage)) /\ Released(d, stage).stage = stage
           /\ TaskTrue(Released(d, stage), Shown(Released(d, stage).m))
<1> DEFINE t == At(d, stage)
           u == Released(d, stage)
<1>1. /\ Follows(d, t) /\ t.stage = stage /\ t.i = tasks[d].i /\ t.m = tasks[d].m
      /\ Follows(d, u) /\ u.stage = stage /\ u.i = tasks[d].i /\ u.m = tasks[d].m
  BY AtFollows, ReleasedFollows DEF Follows, IInv
<1>2. TaskTrue(tasks[d], Shown(tasks[d].m))
  BY StepFacts
<1> HIDE DEF t, u
<1>3. TaskTrue(t, Shown(t.m)) /\ TaskTrue(u, Shown(u.m))
  BY <1>1, <1>2 DEF TaskTrue
<1> QED
  BY <1>1, <1>3 DEF t, u

LEMMA SendTrue ==
    ASSUME IInv, NEW d \in Tasks, NEW start \in 0..Chunks, 1..start \subseteq Shown(tasks[d].m)
    PROVE  /\ Follows(d, SendDurableReply(d, start)) /\ SendDurableReply(d, start).stage \in {"done", "sending"}
           /\ TaskTrue(SendDurableReply(d, start), Shown(SendDurableReply(d, start).m))
<1> DEFINE t == SendDurableReply(d, start)
<1>1. /\ Follows(d, t) /\ t.m = tasks[d].m
      /\ (t.stage = "done" /\ t.i = 0) \/ (t.stage = "sending" /\ t.i = start)
  BY SendFollows DEF Follows, IInv
<1> HIDE DEF t
<1>2. TaskTrue(t, Shown(t.m))
  BY <1>1 DEF TaskTrue
<1> QED
  BY <1>1, <1>2 DEF t

LEMMA EndsTrue ==
    ASSUME IInv, NEW d \in Tasks, NEW result \in Results
    PROVE  /\ Follows(d, Ended(d, result)) /\ TaskTrue(Ended(d, result), Shown(Ended(d, result).m))
           /\ Ended(d, result).stage = "done"
  BY EndedTrue, EndedFollows DEF IInv

LEMMA LapseEnds ==
    ASSUME IInv, NEW d \in Tasks, tasks[d].stage \notin Answering \cup Posting, Lapse(d, Ended(d, "none"))
    PROVE  IInv'
<1> "none" \in Results
  BY DEF Results
<1> QED
  BY EndsTrue, LapseStep

LEMMA LapseAbandons ==
    ASSUME IInv, NEW d \in Tasks, Lapse(d, At(d, "abandoning")) \/ Lapse(d, Released(d, "abandoning"))
    PROVE  IInv'
<1>1. "abandoning" \in Stages /\ "abandoning" \in Answering /\ "abandoning" \in Posting
  BY DEF Stages, Answering, Posting
<1> QED
  BY <1>1, AtTrue, LapseStep

\* A task that may goes on without writing.
LEMMA GoesOn ==
    ASSUME IInv, NEW d \in Tasks, NEW t, Follows(d, t), TaskTrue(t, Shown(t.m)), Go(d, t),
           EnsureAuthoritative(tasks[d].p), Refresh(tasks[d].p),
           UNCHANGED <<selected, now, routed, visible, nonceAt, spent>>,
           tasks[d].stage \in Answering => t.stage \in Answering,
           tasks[d].stage \in Posting => t.stage \in Posting,
           t.stage \in {"reserved", "preparing"} => Bound(d)
    PROVE  IInv'
<1>1. Loads(d, t)
  BY DEF Loads
<1> QED
  BY <1>1, LoadsSettle, LoadsIInv

\* A write that fails ends the task or interrupts it.
LEMMA FailsToWrite ==
    ASSUME IInv, NEW d \in Tasks, NEW t, Follows(d, t), TaskTrue(t, Shown(t.m)), Go(d, t),
           EnsureAuthoritative(tasks[d].p) \/ UNCHANGED proc, Happens("writes"),
           Refresh(tasks[d].p) \/ UNCHANGED <<file, cached>>,
           UNCHANGED <<selected, now, routed, visible, nonceAt>>,
           t.stage \notin {"reserved", "preparing"}
    PROVE  IInv'
<1>1. Loads(d, t)
  BY DEF Loads
<1> QED
  BY <1>1, LoadsSettle, LoadsIInv

LEMMA PrepareStep == ASSUME IInv, NEW d \in Tasks, Prepare(d) PROVE IInv'
<1> DEFINE p == tasks[d].p
           Loaded == /\ EnsureAuthoritative(p) /\ Refresh(p)
                     /\ UNCHANGED <<selected, now, routed, visible, nonceAt, spent>>
<1>1. tasks[d].m \in Messages /\ {"abandoning", "preparing"} \subseteq Stages
  BY DEF Prepare, Stages
<1>2. CASE Lapse(d, At(d, "abandoning"))
  BY <1>2, LapseAbandons
<1>3. CASE tasks[d].stage = "resuming" /\ Lapse(d, Ended(d, "none"))
  BY <1>3, LapseEnds DEF Answering, Posting
<1>4. ASSUME NEW next \in {"preparing", "abandoning"},
             Loaded, tasks[d].stage = "reserved", Go(d, At(d, next))
      PROVE  IInv'
  <2>1. /\ Follows(d, At(d, next)) /\ At(d, next).stage = next
        /\ TaskTrue(At(d, next), Shown(At(d, next).m))
    BY <1>1, <1>4, AtTrue
  <2> QED
    BY <2>1, <1>4, GoesOn DEF Answering, Posting, Bound
<1>5. CASE Loaded /\ tasks[d].stage = "resuming" /\ Go(d, SendDurableReply(d, tasks[d].i))
  <2>1. tasks[d].i \in 0..Chunks /\ 1..tasks[d].i \subseteq Shown(tasks[d].m)
    BY StepFacts DEF TaskTrue
  <2>2. /\ Follows(d, SendDurableReply(d, tasks[d].i)) /\ SendDurableReply(d, tasks[d].i).stage \in {"done", "sending"}
        /\ TaskTrue(SendDurableReply(d, tasks[d].i), Shown(SendDurableReply(d, tasks[d].i).m))
    BY <2>1, SendTrue
  <2> QED
    BY <2>2, <1>5, GoesOn DEF Answering, Posting
<1> QED
  BY <1>2, <1>3, <1>4, <1>5 DEF Prepare

LEMMA FinishStep == ASSUME IInv, NEW d \in Tasks, Finish(d) PROVE IInv'
<1> DEFINE p == tasks[d].p
           t == Released(d, "finished")
<1>1. CASE Lapse(d, Released(d, "abandoning"))
  BY <1>1, LapseAbandons
<1>2. CASE /\ EnsureAuthoritative(p) /\ Refresh(p) /\ Go(d, t)
           /\ UNCHANGED <<selected, now, routed, visible, nonceAt, spent>>
  <2>1. tasks[d].stage = "awaiting" /\ tasks[d].m \in Messages /\ "finished" \in Stages
    BY StepFacts DEF Finish, TaskTrue, Stages
  <2>2. Follows(d, t) /\ t.stage = "finished" /\ TaskTrue(t, Shown(t.m))
    BY <2>1, AtTrue
  <2> QED
    BY <1>2, <2>1, <2>2, GoesOn DEF Answering, Posting
<1> QED
  BY <1>1, <1>2 DEF Finish

LEMMA BeginReplyStep == ASSUME IInv, NEW d \in Tasks, BeginReply(d) PROVE IInv'
<1> DEFINE p == tasks[d].p
           m == tasks[d].m
           e == Cache(p)[m]
           w == Replying(e, Chunks, now)
           want == e.state = "reserved"
<1>1. /\ tasks[d].stage = "finished" /\ m \in Messages /\ m \in Ids /\ p \in Procs /\ now \in 0..MaxTime
      /\ "begun" \in Stages /\ "none" \in Results /\ e \in Entry /\ Typed
  BY StepFacts DEF BeginReply, TaskTrue, Stages, Results
<1>2. Parts(m) = Chunks
  BY <1>1, DiscordConstants DEF Parts
<1>3. /\ w \in Entry /\ True(m, w, Shown(m)) /\ w.state = "replying" /\ ~InDoubt(w) /\ w.owner = e.owner
  BY <1>1, <1>2, ReplyingTrue
<1>4. CASE Lapse(d, At(d, "abandoning"))
  BY <1>4, LapseAbandons
<1>5. CASE /\ EnsureAuthoritative(p) /\ Record(p, m, want, w) /\ UNCHANGED spent
           /\ Go(d, IF Written(p, m, want, w) THEN At(d, "begun") ELSE Ended(d, "none"))
           /\ UNCHANGED <<selected, now, routed, visible, nonceAt>>
  <2>1. CASE Written(p, m, want, w) /\ want /\ Puts(p, m, w)
    <3>1. Follows(d, At(d, "begun")) /\ At(d, "begun").stage = "begun"
          /\ TaskTrue(At(d, "begun"), Shown(At(d, "begun").m))
      BY <1>1, AtTrue
    <3>2. Writes(d, At(d, "begun"), w)
      BY <1>5, <2>1, <3>1 DEF Writes
    <3>3. Kept(p) /\ proc[p].phase # "unborn" => w.owner = p
      BY <1>1, <1>3, <2>1, StepFacts DEF Owned
    <3> HIDE DEF w
    <3> QED
      BY <1>3, <3>1, <3>2, <3>3, WritesIInv
  <2>2. CASE ~Written(p, m, want, w) /\ Refresh(p)
    <3> DEFINE t == Ended(d, "none")
    <3>1. Follows(d, t) /\ TaskTrue(t, Shown(t.m)) /\ t.stage = "done"
      BY <1>1, EndsTrue
    <3>2. Loads(d, t)
      BY <1>5, <2>2, <3>1 DEF Loads
    <3>3. Settles(d, t)
      <4> SUFFICES ASSUME Kept(p), proc[p].phase # "unborn"
                   PROVE  cached'[p] = file' /\ Owned(p, file') /\ LeavesNothing(d, t)
        BY DEF Settles
      <4>1. /\ cached'[p] = file' /\ Owned(p, file')
            /\ \A n \in Ids : /\ file'[n].state = "reserved" => file[n].state = "reserved"
                              /\ InDoubt(file'[n]) => InDoubt(file[n])
        BY <2>2, LoadsFiles
      <4>2. file'[m].state # "reserved"
        <5>1. file' = Fresh(p) /\ e = Fresh(p)[m]
          BY <2>2, StepFacts DEF Refresh
        <5>2. e.state = "reserved" => Accepts(e, w)
          BY <1>3 DEF Accepts
        <5> QED
          BY <5>1, <5>2, <2>2 DEF Written
      <4>3. t.m = m /\ tasks[d].stage \notin Posting
        BY <3>1, <1>1 DEF Follows, Posting
      <4> HIDE DEF t
      <4> QED
        BY <4>1, <4>2, <4>3 DEF LeavesNothing
    <3> HIDE DEF t
    <3> QED
      BY <3>1, <3>2, <3>3, LoadsIInv
  <2> QED
    BY Zenon, <2>1, <2>2, <1>1, <1>5, RecordSplits
<1>6. CASE /\ EnsureAuthoritative(p) /\ WriteFails(p) /\ Go(d, Ended(d, "none"))
           /\ UNCHANGED <<selected, now, routed, visible, nonceAt>>
  BY <1>1, <1>6, EndsTrue, FailsToWrite DEF WriteFails
<1> QED
  BY <1>4, <1>5, <1>6 DEF BeginReply

LEMMA StartReplyStep == ASSUME IInv, NEW d \in Tasks, StartReply(d) PROVE IInv'
<1> DEFINE t == IF IsLifecycleCurrent(d) THEN SendDurableReply(d, 0) ELSE At(d, "abandoning")
<1>1. 0 \in 0..Chunks /\ 1..0 \subseteq Shown(tasks[d].m) /\ "abandoning" \in Stages
  BY DiscordConstants DEF Stages
<1>2. Follows(d, t) /\ TaskTrue(t, Shown(t.m)) /\ t.stage \in {"done", "sending", "abandoning"}
  BY <1>1, SendTrue, AtTrue
<1>3. Loads(d, t) /\ tasks[d].stage = "begun"
  BY <1>2 DEF StartReply, Loads
<1> HIDE DEF t
<1> QED
  BY <1>2, <1>3, LoadsSettle, LoadsIInv DEF Answering, Posting

LEMMA ClaimChunkStep == ASSUME IInv, NEW d \in Tasks, ClaimChunk(d) PROVE IInv'
<1> DEFINE p == tasks[d].p
           m == tasks[d].m
           e == Cache(p)[m]
           i == tasks[d].i + 1
           w == Claimed(e, i, now)
           want == CanClaim(e, i)
           t == At(d, "claimed")
           u == At(d, "abandoning")
<1>1. /\ tasks[d].stage = "sending" /\ m \in Ids /\ p \in Procs /\ now \in 0..MaxTime
      /\ tasks[d].i \in 0..Chunks /\ TaskTrue(tasks[d], Shown(m))
      /\ {"claimed", "abandoning"} \subseteq Stages /\ e \in Entry /\ True(m, e, Shown(m)) /\ Typed
  BY StepFacts DEF ClaimChunk, Stages
<1>2. Follows(d, t) /\ t.stage = "claimed" /\ t.i = tasks[d].i /\ t.m = m
  BY <1>1, AtFollows DEF Follows
<1>3. Follows(d, u) /\ u.stage = "abandoning" /\ TaskTrue(u, Shown(u.m))
  BY <1>1, AtTrue
<1>4. CASE Lapse(d, u)
  BY <1>4, LapseAbandons
<1>5. CASE /\ EnsureAuthoritative(p) /\ Record(p, m, want, w) /\ UNCHANGED spent
           /\ Go(d, At(d, IF Written(p, m, want, w) THEN "claimed" ELSE "abandoning"))
           /\ UNCHANGED <<selected, now, routed, visible, nonceAt>>
  <2>1. CASE Written(p, m, want, w) /\ want /\ Puts(p, m, w)
    <3>1. i \in Nat /\ CanClaim(e, i)
      BY <1>1, <2>1
    <3>2. /\ w \in Entry /\ True(m, w, Shown(m)) /\ w.state = "replying" /\ i =< Parts(m) /\ w.owner = e.owner
      <4> HIDE DEF i, e
      <4> QED
        BY <1>1, <3>1, ClaimedTrue
    <3>3. TaskTrue(t, Shown(t.m))
      <4> HIDE DEF t
      <4> QED
        BY <1>1, <1>2, <3>2 DEF TaskTrue
    <3>4. Writes(d, t, w)
      BY <1>5, <2>1, <1>2 DEF Writes
    <3>5. Kept(p) /\ proc[p].phase # "unborn" => w.owner = p
      <4>1. e.state # "none"
        BY <3>1 DEF CanClaim
      <4> QED
        BY <1>1, <3>2, <4>1, StepFacts DEF Owned
    <3> HIDE DEF w, t
    <3> QED
      BY <1>2, <3>2, <3>3, <3>4, <3>5, WritesIInv DEF Posting
  <2>2. CASE ~Written(p, m, want, w) /\ Refresh(p)
    <3>1. Go(d, u)
      BY <1>5, <2>2
    <3> HIDE DEF u
    <3> QED
      BY <1>1, <1>3, <1>5, <2>2, <3>1, GoesOn DEF Answering, Posting
  <2> QED
    BY <2>1, <2>2, <1>1, <1>5, RecordSplits
<1>6. CASE /\ EnsureAuthoritative(p) /\ WriteFails(p) /\ Go(d, u)
           /\ UNCHANGED <<selected, now, routed, visible, nonceAt>>
  BY <1>1, <1>3, <1>6, FailsToWrite DEF WriteFails
<1> QED
  BY <1>4, <1>5, <1>6 DEF ClaimChunk

LEMMA ConfirmChunkStep == ASSUME IInv, NEW d \in Tasks, ConfirmChunk(d) PROVE IInv'
<1> DEFINE p == tasks[d].p
           m == tasks[d].m
           e == cached[p][m]
           i == tasks[d].i + 1
           w == Confirmed(e, i, now)
           want == CanConfirm(e, i)
           t == IF ~IsLifecycleCurrent(d) THEN [At(d, "abandoning") EXCEPT !.i = i]
                ELSE IF i = Parts(m) THEN Ended(d, "delivered")
                ELSE [At(d, "sending") EXCEPT !.i = i]
           u == At(d, "abandoning")
<1>1. /\ tasks[d].stage = "answered" /\ m \in Ids /\ p \in Procs /\ now \in 0..MaxTime
      /\ tasks[d].i \in 0..Chunks /\ TaskTrue(tasks[d], Shown(m)) /\ Typed
      /\ {"sending", "abandoning"} \subseteq Stages /\ e \in Entry /\ True(m, e, Shown(m))
      /\ UNCHANGED <<proc, selected, now, routed, visible, nonceAt>> /\ "delivered" \in Results
  <2>1. /\ tasks[d].stage = "answered" /\ UNCHANGED <<proc, selected, now, routed, visible, nonceAt>>
    BY DEF ConfirmChunk
  <2>2. {"sending", "abandoning"} \subseteq Stages /\ "delivered" \in Results
    BY DEF Stages, Results
  <2> HIDE DEF i, w, want, t, u
  <2> QED
    BY <2>1, <2>2, StepFacts
<1>2. i \in 0..Chunks /\ i \in Nat
  BY <1>1, PartsOne, DiscordConstants DEF TaskTrue
<1>3. Follows(d, u) /\ u.stage = "abandoning" /\ TaskTrue(u, Shown(u.m))
  <2>1. Follows(d, u) /\ u.stage = "abandoning" /\ u.i = tasks[d].i
    BY <1>1, AtFollows
  <2> HIDE DEF u
  <2>2. u.m = m
    BY <2>1 DEF Follows
  <2>3. 1..tasks[d].i \subseteq Shown(m)
    BY <1>1 DEF TaskTrue
  <2> QED
    BY <2>1, <2>2, <2>3 DEF TaskTrue
<1>4. CASE /\ want /\ Accepts(file[m], w) /\ UNCHANGED spent
           /\ file' = [file EXCEPT ![m] = w] /\ cached' = [cached EXCEPT ![p] = file'] /\ Go(d, t)
  <2>1. 1..i \subseteq Shown(m)
    <3>1. 1..tasks[d].i \subseteq Shown(m) /\ i \in Shown(m)
      BY <1>1, <1>4 DEF TaskTrue
    <3>2. 1..i = (1..tasks[d].i) \cup {i}
      BY <1>1
    <3> QED
      BY Zenon, <3>1, <3>2
  <2>2. /\ w \in Entry /\ True(m, w, Shown(m)) /\ w.state \in {"replying", "completed"}
        /\ ~InDoubt(w) /\ w.owner = e.owner /\ e.state # "none"
    <3>1. e.state # "none" /\ CanConfirm(e, i)
      BY <1>4 DEF CanConfirm
    <3> HIDE DEF i, e
    <3>2. w \in Entry /\ True(m, w, Shown(m)) /\ w.state \in {"replying", "completed"} /\ ~InDoubt(w) /\ w.owner = e.owner
      BY Zenon, <1>1, <1>2, <3>1, <2>1, ConfirmedTrue
    <3> HIDE DEF w
    <3> QED
      BY <3>1, <3>2
  <2>3. Follows(d, t) /\ t.stage \in {"abandoning", "done", "sending"} /\ TaskTrue(t, Shown(t.m))
    <3>1. CASE t = Ended(d, "delivered")
      <4> HIDE DEF t
      <4> QED
        BY <1>1, <3>1, EndsTrue
    <3>2. ASSUME NEW stage \in {"abandoning", "sending"}, t = [At(d, stage) EXCEPT !.i = i]
          PROVE  Follows(d, t) /\ t.stage \in {"abandoning", "done", "sending"} /\ TaskTrue(t, Shown(t.m))
      <4> HIDE DEF t, i
      <4>1. Follows(d, t) /\ t.stage = stage /\ t.i = i /\ t.m = m
        BY <1>1, <1>2, <3>2, AtWith DEF Follows
      <4> QED
        BY <2>1, <4>1 DEF TaskTrue
    <3> QED
      BY <3>1, <3>2
  <2>4. PutsAtOnce(p, m, w)
    BY Zenon, <1>4, <2>2 DEF PutsAtOnce, Merged
  <2>5. Writes(d, t, w)
    BY Zenon, <1>1, <1>4, <2>3, <2>4 DEF Writes
  <2>6. Kept(p) /\ proc[p].phase # "unborn" => w.owner = p
    BY Zenon, <1>1, <2>2, StepFacts DEF Owned
  <2> HIDE DEF t, w
  <2> QED
    BY <2>2, <2>3, <2>5, <2>6, WritesIInv
<1>5. CASE Happens("writes") /\ Go(d, u) /\ NoLoad(p)
  <2> HIDE DEF u
  <2> QED
    BY <1>1, <1>3, <1>5, FailsToWrite DEF NoLoad
<1>6. CASE UNCHANGED spent /\ Go(d, u) /\ NoLoad(p)
  <2> HIDE DEF u
  <2>1. Loads(d, u)
    BY <1>1, <1>3, <1>6 DEF Loads, NoLoad
  <2> QED
    BY <1>3, <2>1, LoadsSettle, LoadsIInv DEF Answering, Posting
<1> QED
  BY <1>4, <1>5, <1>6 DEF ConfirmChunk

LEMMA RecordPartialStep == ASSUME IInv, NEW d \in Tasks, RecordPartial(d) PROVE IInv'
<1> DEFINE p == tasks[d].p
           m == tasks[d].m
           e == cached[p][m]
           w == GivenUp(e, tasks[d].i, now)
           t == Ended(d, "retry")
<1>1. /\ tasks[d].stage = "abandoning" /\ m \in Ids /\ p \in Procs /\ now \in 0..MaxTime
      /\ tasks[d].i \in 0..Chunks /\ TaskTrue(tasks[d], Shown(m)) /\ Typed
      /\ e \in Entry /\ True(m, e, Shown(m)) /\ Go(d, t)
      /\ UNCHANGED <<proc, selected, now, routed, visible, nonceAt>> /\ "retry" \in Results
  BY StepFacts DEF RecordPartial, Results
<1>2. Follows(d, t) /\ t.stage = "done" /\ TaskTrue(t, Shown(t.m)) /\ t.m = m
  BY <1>1, EndsTrue DEF Follows
<1>3. /\ w \in Entry /\ True(m, w, Shown(m)) /\ w.state = "partial" /\ w.owner = e.owner
  BY <1>1, GivenUpTrue DEF TaskTrue
<1>4. CASE /\ CanGiveUp(e) /\ Accepts(file[m], w) /\ UNCHANGED spent
           /\ file' = [file EXCEPT ![m] = Merged(@, w)] /\ cached' = [cached EXCEPT ![p] = file']
  <2>1. Writes(d, t, w)
    BY <1>1, <1>2, <1>4 DEF Writes, PutsAtOnce
  <2>2. Kept(p) /\ proc[p].phase # "unborn" => w.owner = p
    <3>1. e.state # "none"
      BY <1>4 DEF CanGiveUp
    <3> QED
      BY Zenon, <1>1, <1>3, <3>1, StepFacts DEF Owned
  <2>3. ~InDoubt(w)
    BY <1>3 DEF InDoubt
  <2> HIDE DEF t, w
  <2> QED
    BY <1>2, <1>3, <2>1, <2>2, <2>3, WritesIInv
<1>5. CASE ~(CanGiveUp(e) /\ Accepts(file[m], w)) /\ NoLoad(p) /\ UNCHANGED spent
  <2>1. Loads(d, t)
    BY <1>1, <1>2, <1>5 DEF Loads, NoLoad
  <2>2. Settles(d, t)
    <3> SUFFICES ASSUME Kept(p), proc[p].phase # "unborn"
                 PROVE  cached'[p] = file' /\ Owned(p, file') /\ LeavesNothing(d, t)
      BY DEF Settles
    <3>1. /\ cached'[p] = file' /\ Owned(p, file')
          /\ \A n \in Ids : /\ file'[n].state = "reserved" => file[n].state = "reserved"
                            /\ InDoubt(file'[n]) => InDoubt(file[n])
      BY <1>5, LoadsFiles DEF NoLoad
    <3>2. e = file[m] /\ file' = file
      BY <1>5, StepFacts DEF NoLoad
    <3>3. e.state \notin {"reserved", "replying"}
      <4>1. CanGiveUp(e) => Accepts(e, w)
        BY <1>3 DEF CanGiveUp, Accepts
      <4> QED
        BY <1>5, <3>2, <4>1 DEF CanGiveUp
    <3>4. file'[m].state # "reserved" /\ ~InDoubt(file'[m])
      BY <3>2, <3>3 DEF InDoubt
    <3> HIDE DEF t
    <3> QED
      BY <3>1, <3>4, <1>2 DEF LeavesNothing
  <2> HIDE DEF t
  <2> QED
    BY <1>2, <2>1, <2>2, LoadsIInv
<1>6. CASE Happens("writes") /\ NoLoad(p)
  <2> HIDE DEF t
  <2> QED
    BY <1>1, <1>2, <1>6, FailsToWrite DEF NoLoad
<1> QED
  BY <1>4, <1>5, <1>6 DEF RecordPartial

LEMMA CourseReserveStep == ASSUME IInv, NEW d \in Tasks, CourseReserve(d) PROVE IInv'
<1> DEFINE p == tasks[d].p
           m == tasks[d].m
           e == Cache(p)[m]
           w == Reservation(e, p, now)
           answer == IF ReserveWrites(e) /\ ~Written(p, m, TRUE, w) THEN "duplicate" ELSE Decision(e, now)
           t == CASE answer = "process" -> At(d, "reserved")
                  [] answer = "resume_reply" -> SendDurableReply(d, e.conf)
                  [] OTHER -> At(d, "doubtful")
           u == At(d, "doubtful")
<1>1. /\ Typed /\ TaskTrue(tasks[d], Shown(m)) /\ p \in Procs /\ m \in Ids /\ now \in 0..MaxTime
      /\ e \in Entry /\ True(m, e, Shown(m))
      /\ tasks[d].stage = "queued" /\ m \in Courses
      /\ "retry" \in Results /\ {"reserved", "doubtful"} \subseteq Stages
  BY StepFacts DEF CourseReserve, Results, Stages
<1>2. /\ Follows(d, u) /\ u.stage = "doubtful" /\ TaskTrue(u, Shown(u.m))
  <2>1. Follows(d, u) /\ u.stage = "doubtful" /\ u.i = tasks[d].i /\ u.m = m
    BY <1>1, AtFollows DEF Follows
  <2> HIDE DEF u
  <2> QED
    BY <1>1, <2>1 DEF TaskTrue
<1>3. e.conf \in 0..Chunks /\ 1..e.conf \subseteq Shown(m)
  BY <1>1, EntryFacts DEF True
<1>5. /\ Follows(d, t) /\ TaskTrue(t, Shown(t.m)) /\ t.stage \notin Posting \cup {"preparing"}
      /\ answer = "process" => t.stage = "reserved"
      /\ answer # "process" => t.stage \notin Answering
  <2>1. CASE answer = "process"
    <3>1. t = At(d, "reserved")
      BY Zenon, <2>1
    <3> HIDE DEF t
    <3>2. Follows(d, t) /\ t.stage = "reserved" /\ TaskTrue(t, Shown(t.m))
      BY <1>1, <3>1, AtTrue
    <3> QED
      BY Zenon, <2>1, <3>2 DEF Posting
  <2>2. CASE answer = "resume_reply"
    <3>1. t = SendDurableReply(d, e.conf)
      BY Zenon, <2>2
    <3> HIDE DEF t, e
    <3>2. Follows(d, t) /\ t.stage \in {"done", "sending"} /\ TaskTrue(t, Shown(t.m))
      BY <1>3, <3>1, SendTrue
    <3> QED
      BY Zenon, <2>2, <3>2 DEF Answering, Posting
  <2>3. CASE answer \notin {"process", "resume_reply"}
    <3>1. t = u
      BY Zenon, <2>3
    <3> HIDE DEF t, u
    <3> QED
      BY Zenon, <1>2, <2>3, <3>1 DEF Answering, Posting
  <2> QED
    BY Zenon, <2>1, <2>2, <2>3
<1>6. CASE /\ EnsureAuthoritative(p) /\ Record(p, m, ReserveWrites(e), w) /\ Go(d, t)
           /\ UNCHANGED <<selected, now, routed, visible, nonceAt, spent>>
  <2> HIDE DEF t
  <2> QED
    BY Zenon, <1>1, <1>5, <1>6, ReservationStep DEF Answer, Answering, Posting
<1>7. CASE /\ EnsureAuthoritative(p) /\ WriteFails(p) /\ Go(d, u)
           /\ UNCHANGED <<selected, now, routed, visible, nonceAt>>
  <2> HIDE DEF u
  <2> QED
    BY <1>2, <1>7, FailsToWrite DEF WriteFails
<1>8. CASE /\ NoLoad(p) /\ UNCHANGED <<proc, spent>> /\ Go(d, Ended(d, "retry"))
           /\ UNCHANGED <<selected, now, routed, visible, nonceAt>>
  <2>1. Follows(d, Ended(d, "retry")) /\ Ended(d, "retry").stage = "done"
        /\ TaskTrue(Ended(d, "retry"), Shown(Ended(d, "retry").m))
    BY <1>1, EndsTrue
  <2>2. Loads(d, Ended(d, "retry"))
    BY <1>8, <2>1 DEF Loads, NoLoad
  <2> QED
    BY <1>1, <2>1, <2>2, LoadsSettle, LoadsIInv DEF Answering, Posting
<1> QED
  BY Zenon, <1>6, <1>7, <1>8 DEF CourseReserve

LEMMA CourseRecordStep ==
    ASSUME IInv, NEW d \in Tasks, NEW w \in Entry, NEW start \in 0..Chunks,
           \E want \in BOOLEAN :
              /\ CourseRecord(d, want, w, start)
              /\ Kept(tasks[d].p) /\ proc[tasks[d].p].phase # "unborn"
                 => /\ want => w.owner = tasks[d].p
                    /\ ~(want /\ Accepts(file[tasks[d].m], w)) /\ tasks[d].stage \in Answering
                       => file[tasks[d].m].state # "reserved",
           True(tasks[d].m, w, Shown(tasks[d].m)), w.state = "replying", ~InDoubt(w),
           1..start \subseteq Shown(tasks[d].m), tasks[d].stage \notin Posting
    PROVE  IInv'
<1> DEFINE p == tasks[d].p
           m == tasks[d].m
           t == SendDurableReply(d, start)
           u == Ended(d, "retry")
<1>0. PICK want \in BOOLEAN :
              /\ CourseRecord(d, want, w, start)
              /\ Kept(p) /\ proc[p].phase # "unborn"
                 => /\ want => w.owner = p
                    /\ ~(want /\ Accepts(file[m], w)) /\ tasks[d].stage \in Answering => file[m].state # "reserved"
  OBVIOUS
<1>1. /\ Follows(d, t) /\ t.stage \in {"done", "sending"} /\ TaskTrue(t, Shown(t.m))
      /\ Follows(d, u) /\ u.stage = "done" /\ TaskTrue(u, Shown(u.m))
      /\ UNCHANGED <<proc, selected, now, routed, visible, nonceAt>>
  <2>1. "retry" \in Results
    BY DEF Results
  <2> QED
    BY <1>0, <2>1, SendTrue, EndsTrue DEF CourseRecord
<1>2. CASE /\ want /\ Accepts(file[m], w) /\ UNCHANGED spent /\ Go(d, t)
           /\ file' = [file EXCEPT ![m] = Merged(@, w)] /\ cached' = [cached EXCEPT ![p] = file']
  <2>1. Writes(d, t, w)
    BY <1>1, <1>2 DEF Writes, PutsAtOnce
  <2> HIDE DEF t
  <2> QED
    BY <1>0, <1>1, <1>2, <2>1, WritesIInv
<1>3. CASE ~(want /\ Accepts(file[m], w)) /\ UNCHANGED spent /\ Go(d, u) /\ NoLoad(p)
  <2>1. Loads(d, u)
    BY <1>1, <1>3 DEF Loads, NoLoad
  <2>2. Settles(d, u)
    <3> SUFFICES ASSUME Kept(p), proc[p].phase # "unborn"
                 PROVE  cached'[p] = file' /\ Owned(p, file') /\ LeavesNothing(d, u)
      BY DEF Settles
    <3>1. /\ cached'[p] = file' /\ Owned(p, file')
          /\ \A n \in Ids : /\ file'[n].state = "reserved" => file[n].state = "reserved"
                            /\ InDoubt(file'[n]) => InDoubt(file[n])
      BY <1>3, LoadsFiles DEF NoLoad
    <3>2. file[m].state = "reserved" => tasks[d].stage \notin Answering
      BY <1>0, <1>3
    <3>3. u.m = m
      BY <1>1 DEF Follows
    <3> HIDE DEF u
    <3> QED
      BY <3>1, <3>2, <3>3 DEF LeavesNothing
  <2> HIDE DEF u
  <2> QED
    BY <1>1, <2>1, <2>2, LoadsIInv
<1>4. CASE Happens("writes") /\ Go(d, u) /\ NoLoad(p)
  <2> HIDE DEF u
  <2> QED
    BY <1>1, <1>4, FailsToWrite DEF NoLoad
<1> QED
  BY <1>0, <1>2, <1>3, <1>4 DEF CourseRecord

LEMMA CourseBeginStep == ASSUME IInv, NEW d \in Tasks, CourseBegin(d) PROVE IInv'
<1> DEFINE p == tasks[d].p
           m == tasks[d].m
           e == cached[p][m]
           w == Replying(e, 1, now)
<1>1. /\ tasks[d].stage = "reserved" /\ m \in Courses /\ m \in Ids /\ now \in 0..MaxTime /\ e \in Entry
      /\ CourseRecord(d, e.state = "reserved", w, 0) /\ 0 \in 0..Chunks /\ 1..0 \subseteq Shown(m)
  <2>1. tasks[d].stage = "reserved" /\ m \in Courses /\ CourseRecord(d, e.state = "reserved", w, 0)
    BY DEF CourseBegin
  <2>2. 0 \in 0..Chunks /\ 1..0 \subseteq Shown(m)
    BY DiscordConstants
  <2> HIDE DEF w
  <2> QED
    BY <2>1, <2>2, StepFacts
<1>2. /\ w \in Entry /\ True(m, w, Shown(m)) /\ w.state = "replying" /\ ~InDoubt(w) /\ w.owner = e.owner
  <2>1. Parts(m) = 1 /\ m \in Ids /\ e \in Entry /\ now \in 0..MaxTime
    BY <1>1 DEF Parts
  <2> HIDE DEF m, e
  <2>2. w = Replying(e, Parts(m), now)
    BY <2>1
  <2> HIDE DEF w
  <2> QED
    BY <2>1, <2>2, ReplyingTrue
<1>3. ASSUME Kept(p), proc[p].phase # "unborn"
      PROVE  /\ e.state = "reserved" => w.owner = p
             /\ ~(e.state = "reserved" /\ Accepts(file[m], w)) => file[m].state # "reserved"
  <2>1. e = file[m] /\ e.owner = IF e.state = "none" THEN Nobody ELSE p
    BY <1>1, <1>3, StepFacts DEF Owned
  <2>2. e.state = "reserved" => Accepts(e, w)
    <3> HIDE DEF e, w
    <3> QED
      BY <1>2 DEF Accepts
  <2> QED
    BY <2>1, <2>2, <1>2
<1>4. tasks[d].stage \notin Posting
  BY <1>1 DEF Posting
<1>5. \E want \in BOOLEAN :
        /\ CourseRecord(d, want, w, 0)
        /\ Kept(p) /\ proc[p].phase # "unborn"
           => /\ want => w.owner = p
              /\ ~(want /\ Accepts(file[m], w)) /\ tasks[d].stage \in Answering => file[m].state # "reserved"
  <2> DEFINE want == e.state = "reserved"
  <2>1. want \in BOOLEAN
    BY Zenon
  <2>2. /\ CourseRecord(d, want, w, 0)
        /\ Kept(p) /\ proc[p].phase # "unborn"
           => /\ want => w.owner = p
              /\ ~(want /\ Accepts(file[m], w)) => file[m].state # "reserved"
    BY <1>1, <1>3
  <2> HIDE DEF want, w
  <2> QED
    BY <2>1, <2>2
<1> HIDE DEF w
<1> QED
  BY <1>1, <1>2, <1>4, <1>5, CourseRecordStep

LEMMA CourseResumeStep == ASSUME IInv, NEW d \in Tasks, CourseResume(d) PROVE IInv'
<1> DEFINE p == tasks[d].p
           m == tasks[d].m
           e == cached[p][m]
           decision == Resumption(e, now)
           w == Resumed(e, p, 1, now)
<1>1. /\ tasks[d].stage = "doubtful" /\ m \in Courses /\ m \in Ids /\ p \in Procs /\ now \in 0..MaxTime
      /\ e \in Entry /\ True(m, e, Shown(m))
  BY StepFacts DEF CourseResume, TaskTrue
<1>2. CASE CourseRecord(d, TRUE, w, e.conf)
  <2>1. /\ w \in Entry /\ True(m, w, Shown(m)) /\ w.state = "replying" /\ ~InDoubt(w) /\ w.owner = p
    <3>1. Parts(m) = 1
      BY <1>1 DEF Parts
    <3> QED
      BY <1>1, <3>1, ResumedTrue
  <2>2. e.conf \in 0..Chunks /\ 1..e.conf \subseteq Shown(m)
    BY <1>1, EntryFacts DEF True
  <2>3. tasks[d].stage \notin Posting /\ tasks[d].stage \notin Answering
    BY <1>1 DEF Posting, Answering
  <2>4. \E want \in BOOLEAN :
          /\ CourseRecord(d, want, w, e.conf)
          /\ Kept(p) /\ proc[p].phase # "unborn"
             => /\ want => w.owner = p
                /\ ~(want /\ Accepts(file[m], w)) /\ tasks[d].stage \in Answering => file[m].state # "reserved"
    BY Zenon, <1>2, <2>1, <2>3
  <2> DEFINE start == e.conf
  <2> HIDE DEF w, start
  <2>5. start \in 0..Chunks /\ 1..start \subseteq Shown(m)
    BY <2>2 DEF start
  <2>6. \E want \in BOOLEAN :
          /\ CourseRecord(d, want, w, start)
          /\ Kept(p) /\ proc[p].phase # "unborn"
             => /\ want => w.owner = p
                /\ ~(want /\ Accepts(file[m], w)) /\ tasks[d].stage \in Answering => file[m].state # "reserved"
    BY <2>4 DEF start
  <2> QED
    BY <2>1, <2>3, <2>5, <2>6, CourseRecordStep
<1>3. CASE /\ decision # "resumed"
           /\ Go(d, Ended(d, IF decision = "not_partial" THEN "delivered" ELSE decision))
           /\ UNCHANGED <<file, cached, proc, selected, now, routed, visible, nonceAt, spent>>
  <2> DEFINE result == IF decision = "not_partial" THEN "delivered" ELSE decision
             t == Ended(d, result)
  <2>1. result \in Results
    <3>1. decision \in {"not_partial", "reconciliation_required", "resumed"}
      BY Zenon DEF Resumption
    <3> QED
      BY <1>3, <3>1 DEF Results
  <2>2. Follows(d, t) /\ t.stage = "done" /\ TaskTrue(t, Shown(t.m))
    <3> HIDE DEF result
    <3> QED
      BY <2>1, EndsTrue
  <2>3. Loads(d, t)
    BY Zenon, <1>3, <2>2 DEF Loads
  <2> HIDE DEF t
  <2> QED
    BY <1>1, <2>2, <2>3, LoadsSettle, LoadsIInv DEF Answering, Posting
<1> QED
  BY Zenon, <1>2, <1>3 DEF CourseResume

LEMMA DispatchStep == ASSUME IInv, NEW d \in Tasks, Dispatch(d) PROVE IInv'
<1> DEFINE p == tasks[d].p
           m == tasks[d].m
           t == At(d, "awaiting")
<1>1. /\ tasks[d].stage = "preparing" /\ m \in Messages /\ m \in Ids /\ p \in Procs /\ Typed
      /\ "awaiting" \in Stages
  BY StepFacts DEF Dispatch, TaskTrue, Stages
<1>2. CASE Lapse(d, At(d, "abandoning"))
  BY <1>2, LapseAbandons
<1>3. CASE /\ EnsureAuthoritative(p) /\ Refresh(p) /\ Go(d, t)
           /\ routed' = [routed EXCEPT ![m] = @ + 1]
           /\ UNCHANGED <<selected, now, visible, nonceAt, spent>>
  <2>1. Follows(d, t) /\ t.stage = "awaiting" /\ TaskTrue(t, Shown(t.m)) /\ t.m = m
    BY <1>1, AtTrue DEF Follows
  <2>2. SameWorld
    BY <1>1, <1>3, WorldSame
  <2>3. Advance(d, t)
    BY <1>3, <2>1, <2>2, LoadsFiles DEF Advance
  <2>4. Settles(d, t)
    <3>1. Kept(p) /\ proc[p].phase # "unborn" =>
             /\ cached'[p] = file' /\ Owned(p, file')
             /\ \A n \in Ids : /\ file'[n].state = "reserved" => file[n].state = "reserved"
                               /\ InDoubt(file'[n]) => InDoubt(file[n])
      BY <1>3, LoadsFiles
    <3>2. t.stage \in Answering /\ tasks[d].stage \notin Posting
      BY <1>1, <2>1 DEF Answering, Posting
    <3> HIDE DEF t
    <3> QED
      BY <3>1, <3>2 DEF Settles, LeavesNothing
  <2>5. /\ routed' \in [Ids -> Nat] /\ routed \in [Ids -> Nat]
        /\ \A n \in Ids \ {m} : routed'[n] = routed[n]
    BY <1>1, <1>3 DEF Typed
  <2> HIDE DEF t
  <2>6. Typed' /\ Epochs' /\ RecordsTrue' /\ TasksTrue' /\ ChannelTrue' /\ RepliesInOrder'
    BY <1>3, <2>1, <2>3, <2>5, AdvanceTrue
  <2>7. AloneKept'
    BY <2>3, <2>4, AdvanceKept
  <2>8. Routing'
    <3>1. Tasks' = Tasks /\ \A b \in Tasks : tasks'[b] = IF b = d THEN t ELSE tasks[b]
      BY <1>1, <1>3, <2>1, GoTasks
    <3>2. \A n \in Ids : file'[n].state = "none" => file[n].state = "none"
      BY <2>3 DEF Advance, FilesTrue
    <3>3. Bound(d)
      BY <1>1 DEF Bound
    <3>4. file[m].state # "none" /\ \A b \in Tasks \ {d} : Bound(b) => tasks[b].m # m
      BY <3>3 DEF IInv, Routing
    <3>5. \A b \in Tasks : Bound(b)' => b # d /\ Bound(b) /\ tasks'[b] = tasks[b]
      BY <3>1, <2>1 DEF Bound
    <3>6. \A n \in Ids : file'[n].state = "none" => routed'[n] = 0
      BY <3>2, <3>4, <2>5 DEF IInv, Routing
    <3>7. \A b \in Tasks : Bound(b)' => routed'[tasks'[b].m] = 0 /\ file'[tasks'[b].m].state # "none"
      <4> SUFFICES ASSUME NEW b \in Tasks, Bound(b)'
                   PROVE  routed'[tasks'[b].m] = 0 /\ file'[tasks'[b].m].state # "none"
        OBVIOUS
      <4>1. b # d /\ Bound(b) /\ tasks'[b] = tasks[b] /\ tasks[b].m \in Ids /\ tasks[b].m # m
        BY <1>1, <3>4, <3>5, TaskType
      <4> QED
        BY <4>1, <2>5, <3>2 DEF IInv, Routing
    <3>8. \A a, b \in Tasks : Bound(a)' /\ Bound(b)' /\ tasks'[a].m = tasks'[b].m => a = b
      BY <3>5 DEF IInv, Routing
    <3>9. RoutedOnce'
      <4>1. routed'[m] = 1
        BY <1>1, <1>3, <2>5, <3>3 DEF IInv, Routing
      <4> QED
        BY <4>1, <2>5 DEF IInv, Routing, RoutedOnce
    <3> QED
      BY <3>1, <3>6, <3>7, <3>8, <3>9 DEF Routing
  <2> QED
    BY <2>6, <2>7, <2>8 DEF IInv
<1> QED
  BY <1>2, <1>3 DEF Dispatch

LEMMA RangeAppend ==
    ASSUME NEW s \in Seq(Nat), NEW i \in Nat
    PROVE  Range(Append(s, i)) = Range(s) \cup {i}
<1>1. /\ Append(s, i) \in Seq(Nat) /\ Len(Append(s, i)) = Len(s) + 1 /\ Len(s) \in Nat
      /\ \A k \in 1..Len(s) : Append(s, i)[k] = s[k]
      /\ Append(s, i)[Len(s) + 1] = i
  BY AppendProperties
<1>2. DOMAIN Append(s, i) = 1..(Len(s) + 1) /\ DOMAIN s = 1..Len(s)
  BY <1>1
<1>3. 1..(Len(s) + 1) = (1..Len(s)) \cup {Len(s) + 1}
  BY <1>1
<1> QED
  BY <1>1, <1>2, <1>3 DEF Range

LEMMA SendReplyStep == ASSUME IInv, NEW d \in Tasks, SendReply(d) PROVE IInv'
<1> DEFINE p == tasks[d].p
           m == tasks[d].m
           i == tasks[d].i + 1
           u == At(d, "posting")
           t == [u EXCEPT !.post = i, !.at = now]
<1>1. /\ tasks[d].stage = "claimed" /\ m \in Ids /\ p \in Procs /\ Typed /\ TaskTrue(tasks[d], Shown(m))
      /\ tasks[d].i \in 0..Chunks /\ now \in 0..MaxTime /\ "posting" \in Stages
  BY Zenon, StepFacts DEF SendReply, Stages
<1>2. i \in 1..Parts(m) /\ i \in 0..Chunks
  <2>1. i =< Parts(m) /\ Parts(m) \in 1..Chunks /\ Chunks \in Nat
    BY <1>1, PartsOne, DiscordConstants DEF TaskTrue
  <2> QED
    BY <2>1, <1>1
<1>3. CASE Lapse(d, At(d, "abandoning"))
  BY <1>3, LapseAbandons
<1>4. CASE /\ EnsureAuthoritative(p) /\ Refresh(p) /\ Go(d, t)
           /\ UNCHANGED <<selected, now, routed, visible, nonceAt, spent>>
  <2>1. u \in Task /\ u.p = p /\ u.m = m /\ u.stage = "posting" /\ u.i = tasks[d].i
    BY <1>1, AtFollows DEF Follows
  <2>2. now \in Nat
    BY <1>1
  <2> HIDE DEF u, i
  <2>3. t \in Task /\ t.p = p /\ t.m = m /\ t.stage = "posting" /\ t.i = tasks[d].i /\ t.post = i
    BY <2>1, <2>2, <1>2 DEF Task
  <2> HIDE DEF t
  <2>4. Follows(d, t)
    BY <2>3 DEF Follows
  <2>5. TaskTrue(t, Shown(t.m))
    BY <2>3, <1>1 DEF TaskTrue, i
  <2> QED
    BY <2>3, <2>4, <2>5, <1>1, <1>4, GoesOn DEF Answering, Posting
<1> QED
  BY Zenon, <1>3, <1>4 DEF SendReply

LEMMA PostFailsStep == ASSUME IInv, NEW d \in Tasks, PostFails(d) PROVE IInv'
<1> DEFINE u == At(d, "abandoning")
<1>1. "abandoning" \in Stages /\ tasks[d].stage = "posting" /\ Go(d, u)
      /\ UNCHANGED <<file, cached, proc, selected, now, routed, visible, nonceAt, spent>>
  BY DEF Stages, PostFails
<1>2. Follows(d, u) /\ u.stage = "abandoning" /\ TaskTrue(u, Shown(u.m))
  BY <1>1, AtTrue
<1> HIDE DEF u
<1>3. Loads(d, u)
  BY <1>1, <1>2 DEF Loads
<1> QED
  BY <1>1, <1>2, <1>3, LoadsSettle, LoadsIInv DEF Answering, Posting
-------------------------------------------------------------------------------
\* The environment.  A step that leaves the record, the channel and the tasks
\* alone keeps what is said about them.
LEMMA HappensCounts ==
    ASSUME Typed, NEW f \in Faults, Happens(f) \/ UNCHANGED spent
    PROVE  /\ spent' \in [Faults -> Nat] /\ \A g \in Faults \ {f} : spent'[g] = spent[g]
           /\ spent'[f] = (IF Happens(f) THEN spent[f] + 1 ELSE spent[f])
           /\ Happens(f) => spent'[f] =< MaxFaults[f]
<1>1. spent \in [Faults -> Nat] /\ MaxFaults[f] \in Nat
  BY DiscordConstants DEF Typed
<1>2. CASE Happens(f)
  <2>1. spent' = [spent EXCEPT ![f] = spent[f] + 1] /\ spent[f] < MaxFaults[f]
    BY Zenon, <1>2 DEF Happens
  <2> QED
    BY <1>1, <1>2, <2>1
<1>3. CASE ~Happens(f)
  BY <1>1, <1>3
<1> QED
  BY <1>2, <1>3

LEMMA ProcessesMove ==
    ASSUME IInv, UNCHANGED <<file, cached, tasks, routed, visible, nonceAt>>,
           proc' \in [Procs -> Process], selected' \in Procs, now' \in 0..MaxTime, spent' \in [Faults -> Nat],
           spent'["writes"] = spent["writes"], Epochs',
           \A p \in Procs : /\ proc'[p].phase = "unborn" <=> proc[p].phase = "unborn"
                            /\ proc[p].phase = "crashed" => proc'[p].phase = "crashed"
    PROVE  IInv'
<1>1. Tasks' = Tasks /\ \A m \in Ids : Shown(m)' = Shown(m)
  BY DEF Tasks, Shown
<1>2. Typed'
  BY DEF IInv, Typed
<1>3. RecordsTrue' /\ ChannelTrue' /\ RepliesInOrder'
  BY <1>1 DEF IInv, RecordsTrue, ChannelTrue, RepliesInOrder
<1>4. TasksTrue'
  <2>1. \A d \in Tasks : tasks[d].p \in Procs /\ tasks[d].m \in Ids
    BY TaskType DEF IInv
  <2> QED
    BY <1>1, <2>1 DEF IInv, TasksTrue
<1>5. Routing'
  BY <1>1 DEF IInv, Routing, RoutedOnce, Bound
<1>6. AloneKept'
  <2> SUFFICES ASSUME NEW p \in Procs, Alone(p)' PROVE Kept(p)'
    BY DEF AloneKept
  <2>1. Alone(p)
    BY DEF Alone
  <2> QED
    BY <1>1, <2>1 DEF IInv, AloneKept, Kept, Owned, Settling
<1> QED
  BY <1>2, <1>3, <1>4, <1>5, <1>6 DEF IInv

LEMMA ConnectStep == ASSUME IInv, NEW p \in Procs, Connect(p) PROVE IInv'
<1> DEFINE yes == TRUE
           new == [proc[p] EXCEPT !.ready = yes]
<1>1. proc \in [Procs -> Process] /\ proc' = [proc EXCEPT ![p] = new] /\ yes \in BOOLEAN /\ Typed
  BY DEF IInv, Typed, Connect
<1> HIDE DEF yes
<1>2. new \in Process /\ new.phase = proc[p].phase /\ new.epoch = proc[p].epoch
  BY <1>1 DEF Process
<1> HIDE DEF new
<1>3. proc' \in [Procs -> Process] /\ \A q \in Procs : proc'[q].phase = proc[q].phase
      /\ proc'[q].epoch = proc[q].epoch
  BY <1>1, <1>2
<1>4. UNCHANGED <<file, cached, selected, tasks, now, routed, visible, nonceAt, spent>>
  BY DEF Connect
<1>5. Epochs'
  BY <1>3, <1>4 DEF IInv, Epochs
<1> QED
  BY <1>1, <1>3, <1>4, <1>5, ProcessesMove DEF Typed

LEMMA DisconnectStep == ASSUME IInv, NEW p \in Procs, Disconnect(p) PROVE IInv'
<1> DEFINE no == FALSE
           new == [proc[p] EXCEPT !.ready = no]
<1>1. proc \in [Procs -> Process] /\ proc' = [proc EXCEPT ![p] = new] /\ no \in BOOLEAN /\ Typed
  BY DEF IInv, Typed, Disconnect
<1> HIDE DEF no
<1>2. new \in Process /\ new.phase = proc[p].phase /\ new.epoch = proc[p].epoch
  BY <1>1 DEF Process
<1> HIDE DEF new
<1>3. proc' \in [Procs -> Process] /\ \A q \in Procs : proc'[q].phase = proc[q].phase
      /\ proc'[q].epoch = proc[q].epoch
  BY <1>1, <1>2
<1>4. UNCHANGED <<file, cached, selected, tasks, now, routed, visible, nonceAt>> /\ Happens("losses")
  BY DEF Disconnect
<1>5. spent' \in [Faults -> Nat] /\ spent'["writes"] = spent["writes"]
      /\ spent'["configures"] = spent["configures"]
  BY <1>1, <1>4, HappensCounts DEF Faults
<1>6. Epochs'
  BY <1>3, <1>5 DEF IInv, Epochs
<1> QED
  BY <1>1, <1>3, <1>4, <1>5, <1>6, ProcessesMove DEF Typed

LEMMA QuiesceStep == ASSUME IInv, NEW p \in Procs, Quiesce(p) PROVE IInv'
<1> DEFINE new == [proc[p] EXCEPT !.phase = "quiescing"]
<1>1. /\ proc \in [Procs -> Process] /\ proc' = [proc EXCEPT ![p] = new] /\ Typed
      /\ proc[p].phase = "running" /\ "quiescing" \in Phases
  BY DEF IInv, Typed, Quiesce, Phases
<1>2. new \in Process /\ new.phase = "quiescing" /\ new.epoch = proc[p].epoch
  BY <1>1 DEF Process
<1> HIDE DEF new
<1>3. proc' \in [Procs -> Process] /\ \A q \in Procs : proc'[q] = IF q = p THEN new ELSE proc[q]
  BY <1>1, <1>2
<1>4. UNCHANGED <<file, cached, selected, tasks, now, routed, visible, nonceAt, spent>>
  BY DEF Quiesce
<1>5. Epochs'
  BY <1>1, <1>2, <1>3, <1>4 DEF IInv, Epochs
<1>6. \A q \in Procs : /\ proc'[q].phase = "unborn" <=> proc[q].phase = "unborn"
                       /\ proc[q].phase = "crashed" => proc'[q].phase = "crashed"
  BY <1>1, <1>2, <1>3
<1> QED
  BY <1>1, <1>3, <1>4, <1>5, <1>6, ProcessesMove DEF Typed

LEMMA SelectStep == ASSUME IInv, NEW p \in Procs, Select(p) PROVE IInv'
<1>1. /\ UNCHANGED <<file, cached, proc, tasks, now, routed, visible, nonceAt>> /\ selected' = p /\ Typed
      /\ Happens("switches") \/ UNCHANGED spent
  BY DEF IInv, Select
<1>2. spent' \in [Faults -> Nat] /\ spent'["writes"] = spent["writes"]
      /\ spent'["configures"] = spent["configures"]
  BY <1>1, HappensCounts DEF Faults
<1>3. Epochs'
  BY <1>1, <1>2 DEF IInv, Epochs
<1> QED
  BY <1>1, <1>2, <1>3, ProcessesMove DEF Typed

LEMMA TickStep == ASSUME IInv, Tick PROVE IInv'
<1>1. /\ UNCHANGED <<file, cached, proc, selected, tasks, routed, visible, nonceAt, spent>> /\ Typed
      /\ now' = now + 1 /\ now < MaxTime
  BY DEF IInv, Tick
<1>2. now' \in 0..MaxTime
  BY <1>1, DiscordConstants DEF Typed
<1>3. Epochs'
  BY <1>1 DEF IInv, Epochs
<1> QED
  BY <1>1, <1>2, <1>3, ProcessesMove DEF Typed

\* A POST arrives: the chunk is shown, unless Discord remembers its nonce, and
\* the sender may learn of it.
LEMMA ArrivesStep == ASSUME IInv, NEW d \in Tasks, Arrives(d) PROVE IInv'
<1> DEFINE m == tasks[d].m
           i == tasks[d].post
           post == ~(nonceAt[m][i] # Never /\ now - nonceAt[m][i] <= NonceMemory)
           u == At(d, "answered")
           t == [u EXCEPT !.post = 0, !.at = 0]
<1>1. /\ m \in Ids /\ Typed /\ TaskTrue(tasks[d], Shown(m)) /\ Flying(tasks[d], Shown(m))
      /\ tasks[d].i \in 0..Chunks /\ i \in 0..Chunks /\ i # 0 /\ now \in 0..MaxTime /\ "answered" \in Stages
      /\ UNCHANGED <<file, cached, proc, selected, now, routed, spent>>
  BY StepFacts, TaskType DEF Arrives, Stages, IInv, TasksTrue
<1>2. i \in 1..Parts(m) /\ i \in Nat /\ 1..(i - 1) \subseteq Shown(m)
  BY <1>1, PartsOne DEF Flying
<1>3. visible \in [Ids -> Seq(Nat)] /\ visible[m] \in Seq(Nat)
  BY <1>1 DEF Typed
<1>4. /\ post => visible' = [visible EXCEPT ![m] = Append(visible[m], i)] /\ nonceAt' = [nonceAt EXCEPT ![m][i] = now]
      /\ ~post => UNCHANGED <<visible, nonceAt>>
      /\ UNCHANGED tasks \/ (tasks[d].stage = "posting" /\ Go(d, t))
  BY Zenon DEF Arrives
<1>5. u \in Task /\ u.p = tasks[d].p /\ u.m = m /\ u.stage = "answered" /\ u.i = tasks[d].i
  BY <1>1, AtFollows DEF Follows
<1> HIDE DEF u
<1>6. t \in Task /\ t.p = tasks[d].p /\ t.m = m /\ t.stage = "answered" /\ t.i = tasks[d].i /\ t.post = 0
  <2>1. 0 \in 0..Chunks /\ 0 \in Nat
    BY DiscordConstants
  <2> QED
    BY Zenon, <1>5, <2>1 DEF Task
<1> HIDE DEF t, i, post
<1>7. /\ tasks' \in Seq(Task) /\ Tasks' = Tasks
      /\ \A b \in Tasks : tasks'[b] = tasks[b] \/ (b = d /\ tasks[d].stage = "posting" /\ tasks'[b] = t)
  <2>1. CASE UNCHANGED tasks
    BY <2>1, <1>1 DEF Typed, Tasks
  <2>2. CASE tasks[d].stage = "posting" /\ Go(d, t)
    <3>1. tasks \in Seq(Task) /\ d \in 1..Len(tasks) /\ tasks' = [tasks EXCEPT ![d] = t]
      BY <2>2, <1>1 DEF Typed, Tasks, Go
    <3> QED
      BY <2>2, <3>1, <1>6, ExceptSeq DEF Tasks
  <2> QED
    BY <2>1, <2>2, <1>4
<1>8. \A b \in Tasks : /\ tasks[b].m \in Ids /\ tasks[b].p \in Procs
                       /\ tasks'[b].m = tasks[b].m /\ tasks'[b].p = tasks[b].p
  BY <1>1, <1>6, <1>7, TaskType
<1>9. /\ visible' \in [Ids -> Seq(Nat)]
      /\ \A n \in Ids \ {m} : visible'[n] = visible[n]
      /\ visible'[m] = IF post THEN Append(visible[m], i) ELSE visible[m]
  <2>1. Append(visible[m], i) \in Seq(Nat)
    BY <1>2, <1>3, AppendProperties
  <2>2. CASE post
    <3>1. visible' = [visible EXCEPT ![m] = Append(visible[m], i)]
      BY <1>4, <2>2
    <3> QED
      BY <3>1, <2>1, <2>2, <1>3, <1>1
  <2>3. CASE ~post
    <3>1. visible' = visible
      BY <1>4, <2>3
    <3> QED
      BY <3>1, <2>3, <1>3
  <2> QED
    BY <2>2, <2>3
<1>10. \A n \in Ids : Shown(n)' = IF n = m /\ post THEN Shown(n) \cup {i} ELSE Shown(n)
  BY <1>2, <1>3, <1>9, RangeAppend DEF Shown
<1>11. /\ \A n \in Ids : nonceAt'[n] \in [1..Parts(n) -> Int]
       /\ nonceAt' = [n \in Ids |-> nonceAt'[n]]
       /\ \A n \in Ids : \A j \in 1..Parts(n) :
             nonceAt'[n][j] = IF n = m /\ j = i /\ post THEN now ELSE nonceAt[n][j]
  <2> DEFINE new == [nonceAt[m] EXCEPT ![i] = now]
  <2>0. /\ \A n \in Ids : nonceAt[n] \in [1..Parts(n) -> Int]
        /\ nonceAt = [n \in Ids |-> nonceAt[n]]
    BY <1>1 DEF Typed
  <2>1. new \in [1..Parts(m) -> Int] /\ \A j \in 1..Parts(m) : new[j] = IF j = i THEN now ELSE nonceAt[m][j]
    <3> DEFINE f == nonceAt[m]
    <3>1. f \in [1..Parts(m) -> Int] /\ i \in 1..Parts(m) /\ now \in Int
      BY <2>0, <1>1, <1>2
    <3> HIDE DEF f
    <3>2. /\ [f EXCEPT ![i] = now] \in [1..Parts(m) -> Int]
          /\ \A j \in 1..Parts(m) : [f EXCEPT ![i] = now][j] = IF j = i THEN now ELSE f[j]
      BY <3>1
    <3> QED
      BY <3>2 DEF f
  <2>2. CASE post
    <3>1. nonceAt' = [nonceAt EXCEPT ![m] = new]
      BY <1>4, <2>2
    <3> HIDE DEF new
    <3>2. nonceAt' = [n \in Ids |-> IF n = m THEN new ELSE nonceAt[n]]
      BY <3>1, <2>0
    <3> QED
      BY <3>2, <2>0, <2>1, <2>2, <1>1
  <2>3. CASE ~post
    <3>1. nonceAt' = nonceAt
      BY <1>4, <2>3
    <3> QED
      BY <3>1, <2>3, <2>0
  <2> QED
    BY <2>2, <2>3
<1>12. Typed'
  BY <1>1, <1>7, <1>9, <1>11 DEF Typed
<1>13. Epochs'
  BY <1>1 DEF IInv, Epochs
<1>14. RecordsTrue'
  <2>1. /\ \A n \in Ids : True(n, file'[n], Shown(n))
        /\ \A q \in Procs : \A n \in Ids : True(n, cached'[q][n], Shown(n))
    BY <1>1 DEF IInv, RecordsTrue
  <2>2. \A n \in Ids : Shown(n) \subseteq Shown(n)'
    BY <1>10
  <2> QED
    BY <2>1, <2>2, TrueKept DEF RecordsTrue
<1>15. TasksTrue'
  <2> DEFINE Seen(n) == Range(visible'[n])
  <2>0. \A n \in Ids : Shown(n) \subseteq Seen(n) /\ (n = m /\ post => i \in Seen(n))
    BY Zenon, <1>10 DEF Shown
  <2> HIDE DEF Seen
  <2>1. ASSUME NEW b \in Tasks
        PROVE  /\ TaskTrue(tasks'[b], Seen(tasks[b].m)) /\ Flying(tasks'[b], Seen(tasks[b].m))
               /\ proc'[tasks[b].p].phase # "unborn"
    <3>1. /\ TaskTrue(tasks[b], Shown(tasks[b].m)) /\ Flying(tasks[b], Shown(tasks[b].m))
          /\ proc'[tasks[b].p].phase # "unborn" /\ Shown(tasks[b].m) \subseteq Seen(tasks[b].m)
      BY <1>1, <1>8, <2>0 DEF IInv, TasksTrue
    <3>2. CASE tasks'[b] = tasks[b]
      BY <3>1, <3>2 DEF TaskTrue, Flying
    <3>3. CASE b = d /\ tasks[d].stage = "posting" /\ tasks'[b] = t
      <4>1. i \in Seen(m)
        <5>1. ~post => i \in Shown(m)
          BY <1>1, <1>2 DEF post, IInv, ChannelTrue
        <5> QED
          BY <5>1, <2>0, <1>1
      <4>2. i = t.i + 1 /\ t.i + 1 =< Parts(m) /\ 1..t.i \subseteq Shown(m)
        BY <1>1, <1>6, <3>3 DEF TaskTrue, i
      <4>3. TaskTrue(t, Seen(m)) /\ Flying(t, Seen(m))
        BY <4>1, <4>2, <1>6, <3>1, <3>3 DEF TaskTrue, Flying
      <4> QED
        BY <4>3, <3>1, <3>3
    <3> QED
      BY <3>2, <3>3, <1>7
  <2> QED
    BY <2>1, <1>7, <1>8 DEF TasksTrue, Shown, Seen
<1>16. ChannelTrue'
  <2>1. now # Never
    BY <1>1 DEF Never
  <2>2. \A n \in Ids : /\ Shown(n) \subseteq 1..Parts(n)
                       /\ \A j \in 1..Parts(n) : nonceAt[n][j] # Never => j \in Shown(n)
    BY DEF IInv, ChannelTrue
  <2>3. \A n \in Ids : /\ Shown(n)' \subseteq 1..Parts(n)
                       /\ \A j \in 1..Parts(n) : nonceAt'[n][j] # Never => j \in Shown(n)'
    BY <1>2, <1>10, <1>11, <2>1, <2>2
  <2> QED
    BY <2>3 DEF ChannelTrue
<1>17. RepliesInOrder'
  <2>0. ASSUME NEW n \in Ids, NEW k \in DOMAIN visible[n]
        PROVE  1..(visible[n][k] - 1) \subseteq {visible[n][j] : j \in 1..(k - 1)}
    BY DEF IInv, RepliesInOrder
  <2>1. ASSUME NEW n \in Ids, ~(n = m /\ post), NEW k \in DOMAIN visible'[n]
        PROVE  1..(visible'[n][k] - 1) \subseteq {visible'[n][j] : j \in 1..(k - 1)}
    <3>1. visible'[n] = visible[n]
      BY <2>1, <1>9
    <3> QED
      BY <3>1, <2>0, <2>1
  <2>2. ASSUME post, NEW k \in DOMAIN visible'[m]
        PROVE  1..(visible'[m][k] - 1) \subseteq {visible'[m][j] : j \in 1..(k - 1)}
    <3> DEFINE v == visible[m]
               w == visible'[m]
    <3>1. /\ w = Append(v, i) /\ v \in Seq(Nat)
      BY <2>2, <1>3, <1>9
    <3>2. /\ Len(v) \in Nat /\ DOMAIN v = 1..Len(v) /\ DOMAIN w = 1..(Len(v) + 1)
          /\ (\A j \in 1..Len(v) : w[j] = v[j]) /\ w[Len(v) + 1] = i
      BY <3>1, <1>2, AppendProperties
    <3>3. \A a \in DOMAIN v : 1..(v[a] - 1) \subseteq {v[j] : j \in 1..(a - 1)}
      BY <1>1, <2>0
    <3>4. \A a \in 1..(i - 1) : a \in {v[j] : j \in 1..Len(v)}
      BY Zenon, <3>2, <1>2 DEF Shown, Range
    <3>5. k \in 1..(Len(v) + 1)
      BY <2>2, <3>2
    <3> HIDE DEF v, w
    <3>6. CASE k \in 1..Len(v)
      <4>1. {w[j] : j \in 1..(k - 1)} = {v[j] : j \in 1..(k - 1)} /\ w[k] = v[k]
        BY <3>2, <3>6
      <4> QED
        BY <4>1, <3>2, <3>3, <3>6 DEF w
    <3>7. CASE k = Len(v) + 1
      <4>1. {w[j] : j \in 1..(k - 1)} = {v[j] : j \in 1..Len(v)} /\ w[k] = i
        BY <3>2, <3>7
      <4> QED
        BY Zenon, <4>1, <3>4 DEF w
    <3> QED
      BY <3>2, <3>5, <3>6, <3>7
  <2> QED
    BY <2>1, <2>2, <1>1 DEF RepliesInOrder
<1>18. Routing'
  <2>1. \A b \in Tasks : Bound(b)' => Bound(b)
    BY <1>6, <1>7 DEF Bound
  <2> QED
    BY <1>1, <1>7, <1>8, <2>1 DEF IInv, Routing, RoutedOnce
<1>19. AloneKept'
  <2> SUFFICES ASSUME NEW q \in Procs, Alone(q)' PROVE Kept(q)'
    BY DEF AloneKept
  <2>1. Kept(q)
    BY <1>1 DEF Alone, IInv, AloneKept
  <2>2. \A n \in Ids : /\ Settling(n, Answering) => Settling(n, Answering)'
                       /\ Settling(n, Posting) => Settling(n, Posting)'
    BY <1>6, <1>7, <1>8 DEF Settling, Answering, Posting
  <2> QED
    BY <1>1, <1>7, <1>8, <2>1, <2>2 DEF Kept, Owned
<1> QED
  BY <1>12, <1>13, <1>14, <1>15, <1>16, <1>17, <1>18, <1>19 DEF IInv

\* The first load: reservations are closed and replies taken over.
LEMMA StartStep == ASSUME IInv, NEW p \in Procs, Start(p) PROVE IInv'
<1> DEFINE yes == TRUE
           new == [proc[p] EXCEPT !.phase = "running", !.ready = yes]
           f == [m \in Ids |-> Recovered(file[m], p)]
<1>1. /\ Typed /\ proc \in [Procs -> Process] /\ file \in [Ids -> Entry] /\ cached \in [Procs -> [Ids -> Entry]]
      /\ proc[p].phase = "unborn" /\ yes \in BOOLEAN /\ "running" \in Phases
  BY DEF IInv, Typed, Start, Phases
<1>2. proc' = [proc EXCEPT ![p] = new] /\ file' = f /\ cached' = [cached EXCEPT ![p] = f]
  BY Zenon, <1>1 DEF Start
<1>3. UNCHANGED <<selected, tasks, now, routed, visible, nonceAt, spent>>
  BY DEF Start
<1> HIDE DEF yes
<1>4. new \in Process /\ new.phase = "running" /\ new.epoch = proc[p].epoch
  BY Zenon, <1>1 DEF Process
<1> HIDE DEF new
<1>5. proc' \in [Procs -> Process] /\ \A q \in Procs : proc'[q] = IF q = p THEN new ELSE proc[q]
  BY <1>1, <1>2, <1>4
<1>6. \A m \in Ids : /\ f[m] = Recovered(file[m], p) /\ f[m] \in Entry /\ True(m, f[m], Shown(m))
                     /\ f[m].state = "none" <=> file[m].state = "none"
  BY <1>1, RecoveredTrue DEF IInv, RecordsTrue
<1>7. f \in [Ids -> Entry]
  BY <1>6
<1> HIDE DEF f
<1>8. cached' \in [Procs -> [Ids -> Entry]] /\ \A q \in Procs : cached'[q] = IF q = p THEN f ELSE cached[q]
  BY <1>1, <1>2, <1>7
<1>9. Tasks' = Tasks /\ \A m \in Ids : Shown(m)' = Shown(m)
  BY <1>3 DEF Tasks, Shown
<1>10. Typed'
  BY <1>2, <1>3, <1>5, <1>7, <1>8 DEF IInv, Typed
<1>11. Epochs'
  BY <1>1, <1>3, <1>4, <1>5 DEF IInv, Epochs
<1>12. RecordsTrue'
  BY <1>2, <1>6, <1>8, <1>9 DEF IInv, RecordsTrue
<1>13. TasksTrue'
  <2>1. \A d \in Tasks : tasks[d].p \in Procs /\ tasks[d].m \in Ids
    BY <1>1, TaskType
  <2> QED
    BY <1>3, <1>4, <1>5, <1>9, <2>1 DEF IInv, TasksTrue
<1>14. ChannelTrue' /\ RepliesInOrder'
  BY <1>3, <1>9 DEF IInv, ChannelTrue, RepliesInOrder
<1>15. Routing'
  <2>1. \A d \in Tasks : tasks[d].m \in Ids
    BY <1>1, TaskType
  <2> QED
    BY <1>2, <1>3, <1>6, <1>9, <2>1 DEF IInv, Routing, RoutedOnce, Bound
<1>16. AloneKept'
  <2> SUFFICES ASSUME NEW q \in Procs, Alone(q)' PROVE Kept(q)'
    BY DEF AloneKept
  <2>1. q = p
    BY <1>4, <1>5 DEF Alone
  <2>2. Alone(p)
    BY <1>1, <1>3, <1>5, <2>1 DEF Alone
  <2>3. Kept(p) /\ \A m \in Ids : file[m] = NoEntry
    BY <1>1, <2>2 DEF IInv, AloneKept, Kept
  <2>4. \A m \in Ids : f[m] = NoEntry
    <3>1. NoEntry.state = "none"
      BY DEF NoEntry
    <3>2. Recovered(NoEntry, p) = NoEntry
      BY <3>1 DEF Recovered
    <3> QED
      BY <2>3, <1>6, <3>2
  <2>5. \A m \in Ids : f[m].state = "none" /\ f[m].owner = Nobody /\ ~InDoubt(f[m])
    BY <2>4 DEF NoEntry, InDoubt
  <2>6. proc'[p].phase # "unborn" /\ cached'[p] = file'
    BY <1>2, <1>4, <1>5, <1>8
  <2>7. \A d \in Tasks : tasks[d].p = p
    BY <2>3 DEF Kept
  <2> QED
    BY <1>2, <1>3, <1>9, <2>1, <2>5, <2>6, <2>7 DEF Kept, Owned
<1> QED
  BY <1>10, <1>11, <1>12, <1>13, <1>14, <1>15, <1>16 DEF IInv

\* A new configuration and a stop: the turns of the old epoch are abandoned.
LEMMA NextEpochStep ==
    ASSUME IInv, NEW p \in Procs, NEW phase \in {"running", "stopped"}, NextEpoch(p, phase),
           proc[p].phase \in {"running", "quiescing"},
           IF phase = "running" THEN Happens("configures") ELSE UNCHANGED spent
    PROVE  IInv'
<1> DEFINE new == [phase |-> phase, epoch |-> proc[p].epoch + 1, prepared |-> FALSE, ready |-> FALSE]
           moved(d) == IF d \in Active(p) THEN Released(d, "abandoning") ELSE tasks[d]
<1>1. /\ Typed /\ proc \in [Procs -> Process] /\ phase \in Phases /\ tasks \in Seq(Task)
      /\ Tasks = 1..Len(tasks) /\ Len(tasks) \in Nat /\ "abandoning" \in Stages
      /\ proc[p].epoch \in Nat /\ spent \in [Faults -> Nat]
  BY DEF IInv, Typed, Phases, Stages, Tasks, Process
<1>2. /\ proc' = [proc EXCEPT ![p] = new] /\ tasks' = [d \in Tasks |-> moved(d)]
      /\ UNCHANGED <<file, cached, selected, now, routed, visible, nonceAt>>
  BY DEF NextEpoch
<1>3. new \in Process /\ new.phase = phase /\ new.epoch = proc[p].epoch + 1
  BY <1>1 DEF Process
<1>4. \A d \in Tasks : /\ Follows(d, moved(d))
                       /\ moved(d) = tasks[d]
                          \/ (tasks[d].stage = "awaiting" /\ moved(d).stage = "abandoning" /\ moved(d).i = tasks[d].i)
  <2> SUFFICES ASSUME NEW d \in Tasks
               PROVE  /\ Follows(d, moved(d))
                      /\ moved(d) = tasks[d]
                         \/ (tasks[d].stage = "awaiting" /\ moved(d).stage = "abandoning" /\ moved(d).i = tasks[d].i)
    OBVIOUS
  <2>1. CASE d \in Active(p)
    BY <1>1, <2>1, ReleasedFollows DEF Active
  <2>2. CASE d \notin Active(p)
    BY <1>1, <2>2, TaskType DEF Follows
  <2> QED
    BY <2>1, <2>2
<1> HIDE DEF new, moved
<1>5. proc' \in [Procs -> Process] /\ \A q \in Procs : proc'[q] = IF q = p THEN new ELSE proc[q]
  BY <1>1, <1>2, <1>3
<1>6. tasks' \in Seq(Task) /\ Tasks' = Tasks /\ \A d \in Tasks : tasks'[d] = moved(d)
  <2>1. tasks' \in [1..Len(tasks) -> Task] /\ \A d \in Tasks : tasks'[d] = moved(d)
    BY <1>1, <1>2, <1>4 DEF Follows
  <2>2. tasks' \in Seq(Task) /\ Len(tasks') = Len(tasks)
    <3>1. tasks' \in [1..Len(tasks) -> Task] /\ Len(tasks) \in Nat
      BY <2>1, <1>1
    <3> QED
      BY <3>1
  <2> QED
    BY <2>1, <2>2 DEF Tasks
<1>7. /\ spent' \in [Faults -> Nat] /\ spent'["writes"] = spent["writes"]
      /\ spent'["configures"] = spent["configures"] + (IF phase = "running" THEN 1 ELSE 0)
      /\ spent'["configures"] =< MaxFaults["configures"]
  <2>1. CASE phase = "running"
    BY <1>1, <2>1, HappensCounts DEF Faults
  <2>2. CASE phase # "running"
    BY <1>1, <2>2 DEF IInv, Epochs, Faults
  <2> QED
    BY <2>1, <2>2
<1>8. \A m \in Ids : Shown(m)' = Shown(m)
  BY <1>2 DEF Shown
<1>9. \A d \in Tasks : /\ tasks[d].p \in Procs /\ tasks[d].m \in Ids
                       /\ tasks'[d].p = tasks[d].p /\ tasks'[d].m = tasks[d].m
  BY <1>1, <1>4, <1>6, TaskType DEF Follows
<1>10. Typed'
  BY <1>2, <1>5, <1>6, <1>7 DEF IInv, Typed
<1>11. Epochs'
  <2>1. /\ spent["configures"] \in Nat
        /\ \A q \in Procs : /\ proc[q].epoch \in Nat
                            /\ proc[q].epoch =< spent["configures"] + (IF proc[q].phase = "stopped" THEN 1 ELSE 0)
    BY <1>1 DEF IInv, Epochs, Process, Faults
  <2>2. /\ proc[p].phase # "stopped" /\ new.phase = phase /\ new.epoch = proc[p].epoch + 1
        /\ spent'["configures"] = spent["configures"] + (IF phase = "running" THEN 1 ELSE 0)
    BY <1>3, <1>7
  <2>3. ASSUME NEW q \in Procs
        PROVE  proc'[q].epoch =< spent'["configures"] + (IF proc'[q].phase = "stopped" THEN 1 ELSE 0)
    <3>1. CASE q = p
      BY <3>1, <1>5, <2>1, <2>2
    <3>2. CASE q # p
      <4>1. proc'[q] = proc[q]
        BY <3>2, <1>5
      <4> QED
        BY <4>1, <2>1, <2>2
    <3> QED
      BY <3>1, <3>2
  <2> QED
    BY <2>3, <1>7 DEF Epochs
<1>12. RecordsTrue' /\ ChannelTrue' /\ RepliesInOrder'
  BY <1>2, <1>8 DEF IInv, RecordsTrue, ChannelTrue, RepliesInOrder
<1>13. TasksTrue'
  <2>1. \A d \in Tasks : TaskTrue(tasks'[d], Shown(tasks[d].m)) /\ proc'[tasks[d].p].phase # "unborn"
    BY <1>3, <1>4, <1>5, <1>6, <1>9 DEF IInv, TasksTrue, TaskTrue, Follows
  <2>2. \A d \in Tasks : Flying(tasks'[d], Shown(tasks[d].m))
    BY <1>4, <1>6, <1>9 DEF IInv, TasksTrue, Flying, Follows
  <2> QED
    BY <2>1, <2>2, <1>6, <1>8, <1>9 DEF TasksTrue
<1>14. Routing'
  <2>1. \A d \in Tasks : Bound(d)' => Bound(d)
    BY <1>4, <1>6 DEF Bound
  <2> QED
    BY <1>2, <1>6, <1>9, <2>1 DEF IInv, Routing, RoutedOnce
<1>15. AloneKept'
  <2> SUFFICES ASSUME NEW q \in Procs, Alone(q)' PROVE Kept(q)'
    BY DEF AloneKept
  <2>1. proc'[p].phase # "unborn" /\ q = p /\ Alone(p)
    BY <1>3, <1>5, <1>7 DEF Alone
  <2>2. Kept(p) /\ cached[p] = file
    BY <2>1 DEF IInv, AloneKept, Kept
  <2>3. \A m \in Ids : /\ Settling(m, Answering) => Settling(m, Answering)'
                       /\ Settling(m, Posting) => Settling(m, Posting)'
    BY <1>4, <1>6, <1>9 DEF Settling, Answering, Posting
  <2> QED
    BY <1>2, <1>6, <1>9, <2>1, <2>2, <2>3 DEF Kept, Owned
<1> QED
  BY <1>10, <1>11, <1>12, <1>13, <1>14, <1>15 DEF IInv

LEMMA ConfigureStep == ASSUME IInv, NEW p \in Procs, Configure(p) PROVE IInv'
  BY NextEpochStep DEF Configure

LEMMA StopStep == ASSUME IInv, NEW p \in Procs, Stop(p) PROVE IInv'
  BY NextEpochStep DEF Stop, Alive

\* A crash ends the tasks of the process and forgets its copy; nobody is alone
\* any more.
LEMMA CrashStep == ASSUME IInv, NEW p \in Procs, Crash(p) PROVE IInv'
<1> DEFINE no == FALSE
           new == [proc[p] EXCEPT !.phase = "crashed", !.ready = no]
           moved(d) == IF tasks[d].p = p THEN Ended(d, tasks[d].result) ELSE tasks[d]
           empty == [m \in Ids |-> NoEntry]
<1>1. /\ Typed /\ proc \in [Procs -> Process] /\ "crashed" \in Phases /\ tasks \in Seq(Task)
      /\ Tasks = 1..Len(tasks) /\ Len(tasks) \in Nat /\ spent \in [Faults -> Nat] /\ no \in BOOLEAN
      /\ cached \in [Procs -> [Ids -> Entry]]
  BY DEF IInv, Typed, Phases, Tasks
<1>2. /\ proc' = [proc EXCEPT ![p] = new] /\ tasks' = [d \in Tasks |-> moved(d)]
      /\ cached' = [cached EXCEPT ![p] = empty] /\ Happens("crashes")
      /\ UNCHANGED <<file, selected, now, routed, visible, nonceAt>>
  BY Zenon DEF Crash
<1> HIDE DEF no
<1>3. new \in Process /\ new.phase = "crashed" /\ new.epoch = proc[p].epoch
  BY Zenon, <1>1 DEF Process
<1>4. \A d \in Tasks : /\ Follows(d, moved(d))
                       /\ moved(d) = tasks[d] \/ (moved(d).stage = "done" /\ moved(d).i = 0)
  <2> SUFFICES ASSUME NEW d \in Tasks
               PROVE  /\ Follows(d, moved(d))
                      /\ moved(d) = tasks[d] \/ (moved(d).stage = "done" /\ moved(d).i = 0)
    OBVIOUS
  <2>1. CASE tasks[d].p = p
    BY <1>1, <2>1, EndedFollows, TaskType
  <2>2. CASE tasks[d].p # p
    BY <1>1, <2>2, TaskType DEF Follows
  <2> QED
    BY <2>1, <2>2
<1>5. empty \in [Ids -> Entry] /\ \A m \in Ids : empty[m] \in Entry /\ True(m, empty[m], Shown(m))
  BY NoEntryTrue
<1> HIDE DEF new, moved, empty
<1>6. proc' \in [Procs -> Process] /\ \A q \in Procs : proc'[q] = IF q = p THEN new ELSE proc[q]
  BY <1>1, <1>2, <1>3
<1>7. tasks' \in Seq(Task) /\ Tasks' = Tasks /\ \A d \in Tasks : tasks'[d] = moved(d)
  <2>1. tasks' \in [1..Len(tasks) -> Task] /\ \A d \in Tasks : tasks'[d] = moved(d)
    BY <1>1, <1>2, <1>4 DEF Follows
  <2>2. tasks' \in Seq(Task) /\ Len(tasks') = Len(tasks)
    <3>1. tasks' \in [1..Len(tasks) -> Task] /\ Len(tasks) \in Nat
      BY <2>1, <1>1
    <3> QED
      BY <3>1
  <2> QED
    BY <2>1, <2>2 DEF Tasks
<1>8. cached' \in [Procs -> [Ids -> Entry]] /\ \A q \in Procs : cached'[q] = IF q = p THEN empty ELSE cached[q]
  BY <1>1, <1>2, <1>5
<1>9. spent' \in [Faults -> Nat] /\ spent'["configures"] = spent["configures"]
  BY <1>1, <1>2, HappensCounts DEF Faults
<1>10. \A m \in Ids : Shown(m)' = Shown(m)
  BY <1>2 DEF Shown
<1>11. \A d \in Tasks : /\ tasks[d].p \in Procs /\ tasks[d].m \in Ids
                        /\ tasks'[d].p = tasks[d].p /\ tasks'[d].m = tasks[d].m
  BY <1>1, <1>4, <1>7, TaskType DEF Follows
<1>12. Typed'
  BY <1>2, <1>6, <1>7, <1>8, <1>9 DEF IInv, Typed
<1>13. Epochs'
  <2>1. proc[p].phase # "stopped"
    BY DEF Crash, Alive
  <2> QED
    BY <1>3, <1>6, <1>9, <2>1 DEF IInv, Epochs
<1>14. RecordsTrue' /\ ChannelTrue' /\ RepliesInOrder'
  BY <1>2, <1>5, <1>8, <1>10 DEF IInv, RecordsTrue, ChannelTrue, RepliesInOrder
<1>15. TasksTrue'
  <2>1. \A d \in Tasks : TaskTrue(tasks'[d], Shown(tasks[d].m)) /\ proc'[tasks[d].p].phase # "unborn"
    <3> SUFFICES ASSUME NEW d \in Tasks
                 PROVE  TaskTrue(tasks'[d], Shown(tasks[d].m)) /\ proc'[tasks[d].p].phase # "unborn"
      OBVIOUS
    <3>0. /\ TaskTrue(tasks[d], Shown(tasks[d].m)) /\ proc[tasks[d].p].phase # "unborn"
          /\ tasks[d].p \in Procs /\ tasks'[d] = moved(d)
      BY <1>7, <1>11 DEF IInv, TasksTrue
    <3>1. proc'[tasks[d].p].phase # "unborn"
      BY <1>3, <1>6, <3>0
    <3>2. CASE moved(d) = tasks[d]
      BY <3>0, <3>1, <3>2
    <3>3. CASE moved(d).stage = "done" /\ moved(d).i = 0
      <4> DEFINE u == moved(d)
      <4> HIDE DEF u
      <4>1. u.stage = "done" /\ u.i = 0
        BY <3>3 DEF u
      <4>2. TaskTrue(u, Shown(tasks[d].m))
        BY <4>1 DEF TaskTrue
      <4> QED
        BY <4>2, <3>0, <3>1 DEF u
    <3> QED
      BY <3>1, <3>2, <3>3, <1>4
  <2>2. \A d \in Tasks : Flying(tasks'[d], Shown(tasks[d].m))
    BY <1>4, <1>7, <1>11 DEF IInv, TasksTrue, Flying, Follows
  <2> QED
    BY <2>1, <2>2, <1>7, <1>10, <1>11 DEF TasksTrue
<1>16. Routing'
  <2>1. \A d \in Tasks : Bound(d)' => Bound(d)
    BY <1>4, <1>7 DEF Bound
  <2> QED
    BY <1>2, <1>7, <1>11, <2>1 DEF IInv, Routing, RoutedOnce
<1>17. AloneKept'
  BY <1>3, <1>6 DEF AloneKept, Alone
<1> QED
  BY <1>12, <1>13, <1>14, <1>15, <1>16, <1>17 DEF IInv

\* A delivery: one more task, with everything before it.
LEMMA DeliverStep == ASSUME IInv, NEW p \in Procs, NEW m \in Ids, Deliver(p, m) PROVE IInv'
<1> DEFINE t == [p |-> p, m |-> m, epoch |-> proc[p].epoch, stage |-> "queued",
                 i |-> 0, post |-> 0, at |-> 0, held |-> m \in Messages, result |-> "none"]
           n == Len(tasks)
<1>1. /\ Typed /\ tasks \in Seq(Task) /\ Tasks = 1..n /\ n \in Nat /\ proc[p].epoch \in Nat
      /\ "queued" \in Stages /\ "none" \in Results /\ 0 \in 0..Chunks
  BY DiscordConstants DEF IInv, Typed, Process, Tasks, Stages, Results
<1>2. /\ tasks' = Append(tasks, t) /\ proc[p].phase # "unborn"
      /\ UNCHANGED <<file, cached, proc, selected, now, routed, visible, nonceAt, spent>>
  BY DEF Deliver, Alive
<1>3. t.p = p /\ t.m = m /\ t.stage = "queued" /\ t.i = 0 /\ t.post = 0
  OBVIOUS
<1>4. t \in Task
  <2> DEFINE held == m \in Messages
  <2>1. held \in BOOLEAN
    OBVIOUS
  <2>2. t = [p |-> p, m |-> m, epoch |-> proc[p].epoch, stage |-> "queued",
             i |-> 0, post |-> 0, at |-> 0, held |-> held, result |-> "none"]
    OBVIOUS
  <2> HIDE DEF held, t
  <2> QED
    BY <2>1, <2>2, <1>1 DEF Task
<1> HIDE DEF t
<1>5. /\ tasks' \in Seq(Task) /\ Len(tasks') = n + 1 /\ tasks'[n + 1] = t
      /\ \A d \in 1..n : tasks'[d] = tasks[d]
  BY <1>1, <1>2, <1>4, AppendProperties
<1> HIDE DEF n
<1>6. Tasks' = Tasks \cup {n + 1} /\ \A d \in Tasks : tasks'[d] = tasks[d]
  BY <1>1, <1>5 DEF Tasks
<1>7. \A k \in Ids : Shown(k)' = Shown(k)
  BY <1>2 DEF Shown
<1>8. \A d \in Tasks : tasks[d].p \in Procs /\ tasks[d].m \in Ids
  BY <1>1, TaskType
<1>9. Typed'
  BY <1>2, <1>5 DEF IInv, Typed
<1>10. Epochs'
  BY <1>2 DEF IInv, Epochs
<1>11. RecordsTrue' /\ ChannelTrue' /\ RepliesInOrder'
  BY <1>2, <1>7 DEF IInv, RecordsTrue, ChannelTrue, RepliesInOrder
<1>12. TasksTrue'
  <2>1. ASSUME NEW d \in Tasks PROVE (/\ TaskTrue(tasks[d], Shown(tasks[d].m)) /\ Flying(tasks[d], Shown(tasks[d].m))
         /\ proc[tasks[d].p].phase # "unborn")'
    BY Zenon, <1>2, <1>6, <1>7, <1>8 DEF IInv, TasksTrue
  <2>2. TaskTrue(t, Shown(m)') /\ Flying(t, Shown(m)') /\ proc'[t.p].phase # "unborn"
    BY <1>2, <1>3 DEF TaskTrue, Flying
  <2>3. tasks'[n + 1] = t /\ t.m = m
    BY <1>3, <1>5
  <2>4. ASSUME NEW d \in Tasks' PROVE (/\ TaskTrue(tasks[d], Shown(tasks[d].m)) /\ Flying(tasks[d], Shown(tasks[d].m))
         /\ proc[tasks[d].p].phase # "unborn")'
    <3>1. d \in Tasks \/ d = n + 1
      BY <1>6
    <3> QED
      BY <3>1, <2>1, <2>2, <2>3
  <2> QED
    BY <2>4 DEF TasksTrue
<1>13. Routing'
  <2>1. \A d \in Tasks' : Bound(d)' => d \in Tasks /\ Bound(d) /\ tasks'[d] = tasks[d] /\ tasks[d].m \in Ids
    BY <1>3, <1>5, <1>6, <1>8 DEF Bound
  <2>2. /\ RoutedOnce'
        /\ \A k \in Ids : file'[k].state = "none" => routed'[k] = 0
    BY <1>2 DEF IInv, Routing, RoutedOnce
  <2>3. \A d \in Tasks' : Bound(d)' => routed'[tasks'[d].m] = 0 /\ file'[tasks'[d].m].state # "none"
    <3>1. \A d \in Tasks : Bound(d) => routed[tasks[d].m] = 0 /\ file[tasks[d].m].state # "none"
      BY DEF IInv, Routing
    <3>2. routed' = routed /\ file' = file
      BY <1>2
    <3> QED
      BY <2>1, <3>1, <3>2
  <2>4. \A d, b \in Tasks' : Bound(d)' /\ Bound(b)' /\ tasks'[d].m = tasks'[b].m => d = b
    BY <2>1 DEF IInv, Routing
  <2> QED
    BY <2>2, <2>3, <2>4 DEF Routing
<1>14. AloneKept'
  <2> SUFFICES ASSUME NEW q \in Procs, Alone(q)' PROVE Kept(q)'
    BY DEF AloneKept
  <2>1. Alone(q) /\ q = p
    BY <1>2 DEF Alone
  <2>2. Kept(p) /\ proc'[p].phase # "unborn" /\ cached[p] = file
    BY <1>2, <2>1 DEF IInv, AloneKept, Kept
  <2>3. \A k \in Ids : /\ Settling(k, Answering) => Settling(k, Answering)'
                       /\ Settling(k, Posting) => Settling(k, Posting)'
    BY <1>6 DEF Settling
  <2>4. \A d \in Tasks' : tasks'[d].p = p
    BY <1>3, <1>5, <1>6, <2>2 DEF Kept
  <2> QED
    BY Zenon, <1>2, <2>1, <2>2, <2>3, <2>4 DEF Kept, Owned
<1> QED
  BY <1>9, <1>10, <1>11, <1>12, <1>13, <1>14 DEF IInv
-------------------------------------------------------------------------------
LEMMA InitIInv == Init => IInv
<1> SUFFICES ASSUME Init PROVE IInv
  OBVIOUS
<1>1. /\ file = [m \in Ids |-> NoEntry] /\ cached = [p \in Procs |-> [m \in Ids |-> NoEntry]]
      /\ proc = [p \in Procs |-> [phase |-> "unborn", epoch |-> 0, prepared |-> FALSE, ready |-> FALSE]]
      /\ selected \in Procs /\ tasks = <<>> /\ now = 0
      /\ routed = [m \in Ids |-> 0] /\ visible = [m \in Ids |-> <<>>]
      /\ nonceAt = [m \in Ids |-> [i \in 1..Parts(m) |-> Never]]
      /\ spent = [f \in Faults |-> 0]
  BY DEF Init
<1>2. Tasks = {}
  BY <1>1 DEF Tasks
<1>3. \A m \in Ids : NoEntry \in Entry /\ True(m, NoEntry, Shown(m))
  BY NoEntryTrue
<1>4. \A m \in Ids : visible[m] = <<>> /\ Shown(m) = {}
  BY <1>1 DEF Shown, Range
<1>5. proc \in [Procs -> Process]
  BY <1>1 DEF Process, Phases
<1>6. /\ \A m \in Ids : nonceAt[m] \in [1..Parts(m) -> Int]
      /\ \A m \in Ids : \A i \in 1..Parts(m) : nonceAt[m][i] = Never
      /\ nonceAt = [m \in Ids |-> nonceAt[m]]
  BY <1>1 DEF Never
<1>7. /\ file \in [Ids -> Entry] /\ cached \in [Procs -> [Ids -> Entry]]
      /\ \A m \in Ids : file[m] = NoEntry /\ \A p \in Procs : cached[p][m] = NoEntry
  BY <1>1, <1>3
<1>8. Typed
  <2>1. now \in 0..MaxTime /\ tasks \in Seq(Task) /\ routed \in [Ids -> Nat] /\ spent \in [Faults -> Nat]
    BY <1>1, DiscordConstants
  <2>2. visible \in [Ids -> Seq(Nat)]
    BY <1>1
  <2> QED
    BY <1>1, <1>5, <1>6, <1>7, <2>1, <2>2 DEF Typed
<1>9. Epochs
  BY <1>1, DiscordConstants DEF Epochs, Faults
<1>10. RecordsTrue
  BY <1>3, <1>7 DEF RecordsTrue
<1>11. TasksTrue /\ ChannelTrue /\ RepliesInOrder
  BY <1>2, <1>4, <1>6 DEF TasksTrue, ChannelTrue, RepliesInOrder
<1>12. Routing
  BY <1>1, <1>2 DEF Routing, RoutedOnce
<1>13. AloneKept
  <2>1. \A m \in Ids : NoEntry.state = "none" /\ NoEntry.owner = Nobody /\ ~InDoubt(NoEntry)
    BY DEF NoEntry, InDoubt
  <2>2. \A p \in Procs : proc[p].phase = "unborn"
    BY <1>1
  <2> QED
    BY <1>2, <1>7, <2>1, <2>2 DEF AloneKept, Kept, Owned
<1> QED
  BY <1>8, <1>9, <1>10, <1>11, <1>12, <1>13 DEF IInv

LEMMA StutterIInv == ASSUME IInv, UNCHANGED vars PROVE IInv'
<1>1. UNCHANGED <<file, cached, proc, selected, tasks, now, routed, visible, nonceAt, spent>>
  BY DEF vars
<1>2. Typed /\ Epochs'
  BY <1>1 DEF IInv, Epochs
<1> QED
  BY <1>1, <1>2, ProcessesMove DEF Typed

LEMMA NextIInv == IInv /\ [Next]_vars => IInv'
<1> SUFFICES ASSUME IInv, [Next]_vars PROVE IInv'
  OBVIOUS
<1>1. ASSUME NEW d \in Tasks, TaskStep(d) PROVE IInv'
  BY <1>1, HandleMessageStep, ReserveStep, PrepareStep, DispatchStep, FinishStep, BeginReplyStep,
     StartReplyStep,
     ClaimChunkStep, SendReplyStep, ConfirmChunkStep, PostFailsStep, RecordPartialStep, CourseReserveStep, CourseBeginStep,
     CourseResumeStep DEF TaskStep
<1>2. ASSUME Environment PROVE IInv'
  BY <1>2, StartStep, ConnectStep, DisconnectStep, ConfigureStep, QuiesceStep, StopStep, CrashStep, SelectStep,
     DeliverStep, ArrivesStep, TickStep DEF Environment
<1> QED
  BY <1>1, <1>2, StutterIInv DEF Next

LEMMA Inductive == Spec => []IInv
  BY InitIInv, NextIInv, PTL DEF Spec

(* However often a message is delivered, across reconnects, configurations,   *)
(* hand-overs and crashes, the agent is asked to answer it at most once.      *)
THEOREM RoutedAlwaysOnce == Spec => []RoutedOnce
<1>1. IInv => RoutedOnce
  BY DEF IInv, Routing
<1> QED
  BY <1>1, Inductive, PTL

(* No chunk of a reply is ever shown before the ones before it.               *)
THEOREM RepliesAlwaysInOrder == Spec => []RepliesInOrder
<1>1. IInv => RepliesInOrder
  BY DEF IInv
<1> QED
  BY <1>1, Inductive, PTL

LEMMA IInvHonest == IInv => RecordIsHonest
<1> SUFFICES ASSUME IInv, NEW m \in Ids
             PROVE  /\ 1..file[m].conf \subseteq Range(visible[m])
                    /\ file[m].state = "completed" => 1..Parts(m) = Range(visible[m])
  BY DEF RecordIsHonest
<1>1. True(m, file[m], Shown(m)) /\ Shown(m) \subseteq 1..Parts(m)
  BY DEF IInv, RecordsTrue, ChannelTrue
<1> QED
  BY Zenon, <1>1 DEF True, Shown

LEMMA IInvTyped == IInv => TypeOK
<1> SUFFICES ASSUME IInv PROVE TypeOK
  OBVIOUS
<1>1. Typed /\ selected \in Procs /\ now \in 0..MaxTime
  BY DEF IInv, Typed
<1>2. file \in [Ids -> Entry] /\ \A p \in Procs : cached[p] \in [Ids -> Entry]
  BY <1>1 DEF Typed
<1>3. \A p \in Procs : proc[p].phase \in Phases /\ proc[p].epoch \in 0..(MaxFaults["configures"] + 1)
  <2>1. /\ spent["configures"] \in Nat /\ MaxFaults["configures"] \in Nat
        /\ spent["configures"] =< MaxFaults["configures"]
        /\ \A p \in Procs : /\ proc[p].phase \in Phases /\ proc[p].epoch \in Nat
                            /\ proc[p].epoch =< spent["configures"] + (IF proc[p].phase = "stopped" THEN 1 ELSE 0)
    BY <1>1, DiscordConstants DEF IInv, Epochs, Typed, Process, Faults
  <2> QED
    BY <2>1
<1>4. \A d \in Tasks : tasks[d].stage \in Stages /\ tasks[d].m \in Ids /\ tasks[d].i \in 0..Chunks
  BY <1>1, TaskType
<1>5. ASSUME NEW m \in Ids PROVE file[m].conf =< file[m].next \/ file[m].state = "partial"
  <2>1. True(m, file[m], Shown(m)) /\ file[m].state \in States
    BY <1>2, EntryFacts DEF IInv, RecordsTrue
  <2> QED
    BY <2>1 DEF True, States
<1> QED
  BY <1>1, <1>2, <1>3, <1>4, <1>5 DEF TypeOK

LEMMA IInvSettled == IInv => NothingLeftInDoubt
<1> SUFFICES ASSUME IInv, NEW m \in Ids, Undisturbed(m)
             PROVE  file[m].state # "reserved" /\ ~InDoubt(file[m])
  BY DEF NothingLeftInDoubt
<1>1. /\ spent["writes"] = 0
      /\ \A p \in Procs : proc[p].phase # "crashed" /\ (p # file[m].owner => proc[p].phase = "unborn")
      /\ \A d \in Tasks : tasks[d].m = m => tasks[d].stage = "done"
  BY DEF Undisturbed
<1>2. selected \in Procs /\ file[m].owner \in Procs \cup {Nobody} /\ Nobody \notin Procs
  BY EntryFacts, DiscordConstants DEF IInv, Typed
<1>3. CASE file[m].owner \in Procs
  <2>1. Alone(file[m].owner)
    BY <1>1, <1>3 DEF Alone
  <2>2. Kept(file[m].owner)
    BY <1>3, <2>1 DEF IInv, AloneKept
  <2>3. ~Settling(m, Answering) /\ ~Settling(m, Posting)
    BY <1>1 DEF Settling, Answering, Posting
  <2> QED
    BY <2>2, <2>3 DEF Kept
<1>4. CASE file[m].owner = Nobody
  <2>1. Alone(selected) /\ proc[selected].phase = "unborn"
    BY <1>1, <1>2, <1>4 DEF Alone
  <2>2. file[m] = NoEntry
    BY <1>2, <2>1 DEF IInv, AloneKept, Kept
  <2> QED
    BY <2>2 DEF NoEntry, InDoubt
<1> QED
  BY <1>2, <1>3, <1>4

(* The record claims no more than people see, its cursors are inside the      *)
(* reply, and what nobody works on any more it does not leave open.           *)
THEOREM RecordAlwaysMatches == Spec => []RecordMatchesChannel
<1>1. IInv => RepliesInOrder
  BY DEF IInv
<1>2. IInv => RecordMatchesChannel
  BY <1>1, IInvTyped, IInvHonest, IInvSettled DEF RecordMatchesChannel
<1> QED
  BY <1>2, Inductive, PTL
-------------------------------------------------------------------------------
(* Replies stay prefixes.  Of the at most two deliveries of a message one is   *)
(* first: until the other leaves its queue, what the record says of a chunk    *)
(* in doubt is no older than the chunk.                                        *)

Of(m) == {d \in Tasks : tasks[d].m = m}

\* The chunks that are shown or on their way, and the earliest time from which
\* Discord may remember them.
Out(m) == Shown(m) \cup ({tasks[d].post : d \in Of(m)} \ {0})
Born(m) == [i \in 1..Parts(m) |-> IF i \in Shown(m) THEN nonceAt[m][i] ELSE now]

Early(d) == tasks[d].stage \in {"queued", "admitted", "doubtful"}
Calm(m) == \A a, b \in Of(m) : ~Early(a) /\ ~Early(b) => a = b
Twice(m) == \A a, b, c \in Of(m) : a = b \/ b = c \/ a = c
Steady(m) == Twice(m) /\ (m \in Courses => spent["switches"] = 0)

\* When things happened.
Fits(e) == e.upd =< now /\ e.since =< now /\ (e.state = "replying" => e.next =< e.conf + 1)
Timed(m) ==
    /\ \A i \in 1..Parts(m) : nonceAt[m][i] =< now /\ (i \in Shown(m) => nonceAt[m][i] # Never)
    /\ Fits(file[m]) /\ \A p \in Procs : Fits(cached[p][m])
    /\ \A d \in Of(m) :
          /\ tasks[d].post # 0 => tasks[d].at =< now /\ tasks[d].stage \in {"posting", "abandoning", "done"}
          /\ tasks[d].stage = "posting" => tasks[d].at =< now /\ now - tasks[d].at =< PostTimeout

\* The record's cursor is ahead of all copies and tasks, and at most one chunk behind
\* what is shown.
Openings == {"reserved", "preparing", "awaiting", "finished"}
Cursor(m) ==
    /\ file[m].state # "completed" =>
          /\ \A p \in Procs : cached[p][m].conf =< file[m].conf
          /\ \A d \in Of(m) : tasks[d].i =< file[m].conf
          /\ Out(m) \subseteq 1..(file[m].conf + 1)
    /\ file[m].state = "none" =>
          /\ \A p \in Procs : cached[p][m].state = "none"
          /\ \A d \in Of(m) : tasks[d].stage \in {"queued", "admitted", "doubtful", "done"}
    /\ file[m].state = "reserved" =>
          /\ \A p \in Procs : cached[p][m].state \in {"none", "reserved"}
          /\ \A d \in Of(m) : tasks[d].stage \in
                {"queued", "admitted", "doubtful", "abandoning", "done"} \cup Openings
    /\ file[m].state \in {"none", "reserved"} => Out(m) = {}

\* A message whose reply has not begun: nothing is out, and nobody else answers it.
Opening(m) ==
    \A d \in Of(m) : m \in Messages /\ tasks[d].stage \in Openings =>
        /\ file[m].state \in {"reserved", "partial"} /\ Out(m) = {}
        /\ \A p \in Procs : cached[p][m].state \in {"none", "reserved", "partial"}
        /\ \A b \in Of(m) : b # d => tasks[b].stage \in {"queued", "admitted", "abandoning", "done"}

\* Every chunk was posted by a task, which is past it.
Past(t, i) ==
    \/ t.stage \in {"abandoning", "done"}
    \/ t.stage \in {"posting", "answered"} /\ t.i + 1 >= i
    \/ t.stage \in {"sending", "claimed"} /\ t.i >= i
Posters(m) == \A i \in Out(m) : \E b \in Of(m) : Past(tasks[b], i)

\* What was posted behind the back of a task was posted since it last looked.
Stamps(m) ==
    \A d \in Of(m) :
        /\ tasks[d].stage = "reserved" /\ m \in Courses /\ 1 \in Out(m) => Born(m)[1] >= now
        /\ tasks[d].stage = "claimed" /\ tasks[d].i + 2 \in Out(m) => Born(m)[tasks[d].i + 2] >= now
        /\ tasks[d].stage = "posting" /\ tasks[d].i + 2 \in Out(m) =>
              Born(m)[tasks[d].i + 2] >= tasks[d].at
        /\ tasks[d].stage = "answered" /\ tasks[d].i + 2 \in Out(m) =>
              now - Born(m)[tasks[d].i + 2] =< PostTimeout

\* A chunk that is out beyond the cursor is in doubt since before it was posted.
Dates(m, e) == Born(m)[e.conf + 1]
Doubted(m, e) == InDoubt(e) /\ e.conf + 1 \in Out(m) => DoubtSince(e) =< Dates(m, e)
Dated(m, e) ==
    e.state = "partial" /\ e.conf + 1 \in Out(m) => e.since # Never /\ e.since =< Dates(m, e)
Lost(e) == e.state = "partial" /\ e.since = Never
Told(m) ==
    Calm(m) =>
        /\ Doubted(m, file[m]) /\ Dated(m, file[m])
        /\ file[m].state = "replying" /\ file[m].conf + 1 \in Out(m) => InDoubt(file[m])
        /\ \A p \in Procs : Doubted(m, cached[p][m])
        /\ (\A d \in Of(m) : Early(d)) => file[m].state = "none"
Holder(m) ==
    Calm(m) =>
        \A d \in Of(m) : LET f == file[m]  c == cached[tasks[d].p][m] IN
            /\ ~Early(d) /\ tasks[d].stage # "done" /\ InDoubt(f) /\ f.since = Never =>
                  InDoubt(c) /\ c.since = Never /\ c.upd = f.upd
            /\ tasks[d].stage \in {"claimed", "posting", "answered"} =>
                  f.conf = tasks[d].i /\ f.state \in {"replying", "partial"} /\ (f.state = "replying" => InDoubt(f))
            /\ tasks[d].stage \in {"begun", "resuming", "sending", "claimed", "posting", "answered"} => ~Lost(f)
            /\ tasks[d].stage = "claimed" => c.state \in {"replying", "partial"} /\ ~Lost(c)

\* A notice is resumed from the copy of the selected process.
Stale(m) ==
    Calm(m) /\ spent["switches"] = 0 /\ m \in Courses =>
        /\ \A p \in Procs : Alive(p) /\ proc[p].prepared => Dated(m, cached[p][m])
        /\ \A d \in Of(m) : LET c == cached[tasks[d].p][m] IN
              tasks[d].stage = "doubtful" => Dated(m, c) \/ (1 \in Out(m) /\ Born(m)[1] >= now)

\* What is posted a second time arrives while Discord remembers it.
LongMemory == ReplayWindow + PostTimeout =< NonceMemory /\ PostTimeout + PostTimeout =< NonceMemory
Recent(m, i) == i \in Out(m) => now - Born(m)[i] + PostTimeout =< NonceMemory
Flight(m, t) == t.post # 0 /\ t.post \in Shown(m) => t.at - nonceAt[m][t.post] + PostTimeout =< NonceMemory
Replays(m) ==
    Steady(m) =>
        /\ \A d \in Of(m) : /\ tasks[d].stage \in {"begun", "resuming", "sending"}
                            /\ file[m].state = "replying" /\ file[m].next = file[m].conf
                            => Recent(m, file[m].conf + 1)
        /\ \A d \in Of(m) : tasks[d].stage = "claimed" => Recent(m, tasks[d].i + 1)
        /\ \A d \in Of(m) : Flight(m, tasks[d])
        /\ visible[m] = [i \in 1..Len(visible[m]) |-> i]

Ledger(m) ==
    /\ Timed(m) /\ Cursor(m) /\ Opening(m) /\ Posters(m) /\ Stamps(m) /\ Told(m)
    /\ Holder(m) /\ Stale(m) /\ Replays(m)

\* Until a living process hands over, only the selected one is prepared.
Chosen ==
    /\ spent["switches"] = 0 => \A p \in Procs : Alive(p) /\ proc[p].prepared => p = selected
    /\ \A p \in Procs : proc[p].phase = "unborn" => ~proc[p].prepared
PInv == Chosen /\ \A m \in Ids : Ledger(m)
-------------------------------------------------------------------------------
\* What a step does to a message.  Mostly it drifts: its entry is taken over or not,
\* copies are loaded or lost, and its tasks go on without writing.
Resumable(m) == file[m].state = "replying" \/ \E q \in Procs : cached[q][m].state = "replying"
FileDrifts(m) == file'[m] = file[m] \/ \E p \in Procs : file'[m] = Recovered(file[m], p)
CopyDrifts(m, q) ==
    /\ \/ cached'[q][m] = cached[q][m]
       \/ cached'[q][m] = file'[m]
       \/ /\ cached'[q][m] = NoEntry /\ ~Alive(q)'
          /\ \A d \in Of(m) : tasks[d].p = q => tasks'[d].stage = "done"
    /\ Alive(q)' /\ proc'[q].prepared => (Alive(q) /\ proc[q].prepared) \/ cached'[q][m] = file'[m]
TaskDrifts(m, d) ==
    LET s == tasks[d]  t == tasks'[d] IN
    /\ t.p = s.p /\ t.post = s.post /\ t.at = s.at
    /\ \/ t = s
       \/ t.stage = "done" /\ t.i = 0
       \/ ~Early(d) /\ s.stage # "done" /\ t.stage = "abandoning" /\ t.i = s.i
       \/ s.stage = "queued" /\ t.stage = "admitted" /\ t.i = s.i
       \/ /\ s.stage = "queued" /\ m \in Courses /\ t.stage = "doubtful" /\ t.i = s.i
          /\ (Alive(s.p) /\ proc[s.p].prepared) \/ cached'[s.p][m] = file'[m]
       \/ m \in Messages /\ s.stage \in Openings /\ t.stage \in Openings \ {"reserved"} /\ t.i = s.i
       \/ s.stage \in {"begun", "resuming"} /\ t.stage = "sending" /\ t.i \in {0, s.i}
       \/ /\ Early(d) /\ t.stage \in {"resuming", "sending"} /\ Resumable(m)
          /\ file[m].state # "completed" => t.i =< file[m].conf
TasksDrift(m) ==
    /\ Of(m) \subseteq Of(m)'
    /\ \A d \in Of(m)' : IF d \in Of(m) THEN TaskDrifts(m, d)
                         ELSE tasks'[d].stage = "queued" /\ tasks'[d].i = 0 /\ tasks'[d].post = 0
SameChannel(m) == visible'[m] = visible[m] /\ nonceAt'[m] = nonceAt[m]
Drifts(m) ==
    /\ FileDrifts(m) /\ (\A q \in Procs : CopyDrifts(m, q)) /\ TasksDrift(m) /\ SameChannel(m)
    /\ now' = now /\ (spent'["switches"] = 0 => spent["switches"] = 0)

\* Task d hands the POST of the chunk it has claimed to the gateway.
Posts(m, d) ==
    /\ d \in Of(m) /\ Of(m)' = Of(m) /\ \A b \in Of(m) : b # d => tasks'[b] = tasks[b]
    /\ tasks[d].stage = "claimed" /\ tasks'[d].stage = "posting" /\ tasks'[d].at = now
    /\ tasks'[d].i = tasks[d].i /\ tasks'[d].p = tasks[d].p /\ tasks[d].p = selected
    /\ tasks[d].post = 0 /\ tasks'[d].post = tasks[d].i + 1
    /\ FileDrifts(m) /\ \A q \in Procs : CopyDrifts(m, q)
    /\ SameChannel(m) /\ now' = now /\ spent' = spent /\ selected' = selected

\* A POST of task d arrives, and may be answered.
Appears(m, i) ==
    /\ visible'[m] = Append(visible[m], i)
    /\ \A j \in 1..Parts(m) : nonceAt'[m][j] = IF j = i THEN now ELSE nonceAt[m][j]
    /\ ~(nonceAt[m][i] # Never /\ now - nonceAt[m][i] =< NonceMemory)
Lands(m, d) ==
    /\ d \in Of(m) /\ Of(m)' = Of(m) /\ \A b \in Of(m) : b # d => tasks'[b] = tasks[b]
    /\ tasks[d].post # 0 /\ now - tasks[d].at =< PostTimeout
    /\ \/ tasks'[d] = tasks[d]
       \/ /\ tasks[d].stage = "posting" /\ tasks'[d].stage = "answered"
          /\ tasks'[d].i = tasks[d].i /\ tasks'[d].p = tasks[d].p /\ tasks'[d].post = 0
    /\ \/ SameChannel(m) /\ nonceAt[m][tasks[d].post] # Never
       \/ Appears(m, tasks[d].post)
    /\ file' = file /\ cached' = cached /\ proc' = proc /\ now' = now /\ spent' = spent

\* Task d writes the entry and becomes t.
Enters(m, d, t) ==
    /\ d \in Of(m) /\ Of(m)' = Of(m) /\ \A b \in Of(m) : tasks'[b] = IF b = d THEN t ELSE tasks[b]
    /\ t.p = tasks[d].p /\ t.post = tasks[d].post /\ t.at = tasks[d].at
    /\ cached'[t.p][m] = file'[m]
    /\ \A q \in Procs : q # t.p => cached'[q][m] = cached[q][m] /\ proc'[q] = proc[q]
    /\ file'[m] \in Entry /\ Fits(file'[m])
    /\ SameChannel(m) /\ now' = now /\ spent' = spent
Reserves(m, d, t) ==
    /\ Enters(m, d, t) /\ Early(d) /\ t.stage = "reserved" /\ t.i = tasks[d].i
    /\ file[m].state = "none" /\ file'[m].state = "reserved" /\ file'[m].conf = 0
Resumes(m, d, t) ==
    /\ Enters(m, d, t) /\ tasks[d].stage \in {"queued", "admitted", "doubtful", "reserved", "finished"}
    /\ t.stage \in {"begun", "resuming", "sending", "done"} /\ t.i =< file[m].conf
    /\ m \in Messages => tasks[d].stage = "finished" \/ Resumable(m)
    /\ file[m].state \in {"reserved", "replying", "partial"}
    /\ file'[m].state = "replying" /\ file'[m].conf = file[m].conf /\ file'[m].next = file[m].conf
    /\ Steady(m) => Recent(m, file[m].conf + 1)
Claims(m, d, t) ==
    /\ Enters(m, d, t) /\ tasks[d].stage = "sending" /\ t.stage = "claimed" /\ t.i = tasks[d].i
    /\ file[m].state = "replying" /\ file[m].conf = t.i /\ file[m].next = t.i
    /\ file'[m].state = "replying" /\ file'[m].conf = t.i /\ file'[m].next = t.i + 1
Confirms(m, d, t) ==
    /\ Enters(m, d, t) /\ tasks[d].stage = "answered"
    /\ (t.stage = "done" /\ t.i = 0) \/ (t.stage \in {"sending", "abandoning"} /\ t.i = tasks[d].i + 1)
    /\ \/ file'[m].state = "completed"
       \/ /\ file[m].state \in {"replying", "partial"} /\ file[m].conf =< tasks[d].i + 1
          /\ file'[m].state = "replying" /\ file'[m].next = file'[m].conf
          /\ file'[m].conf = tasks[d].i + 1
GivesUp(m, d, t) ==
    /\ Enters(m, d, t) /\ tasks[d].stage \in {"abandoning", "queued", "admitted"}
    /\ \/ t.stage = "done" /\ t.i = 0
       \/ t.stage = "doubtful" /\ t.i = tasks[d].i /\ m \in Courses /\ tasks[d].stage = "queued"
          /\ file'[m].since # Never
    /\ file[m].state \in {"reserved", "replying", "partial"}
    /\ file'[m].state = "partial" /\ file'[m].conf = file[m].conf
    /\ (Calm(m) => Dated(m, file[m]))'

LEMMA MessageFacts ==
    ASSUME Typed, NEW m \in Ids
    PROVE  /\ file[m] \in Entry /\ \A p \in Procs : cached[p][m] \in Entry
           /\ \A d \in Of(m) : /\ d \in Tasks /\ tasks[d] \in Task /\ tasks[d].m = m
                               /\ tasks[d].p \in Procs /\ tasks[d].i \in Nat /\ tasks[d].at \in Nat
                               /\ tasks[d].post \in Nat
           /\ now \in Nat /\ nonceAt[m] \in [1..Parts(m) -> Int] /\ visible[m] \in Seq(Nat)
           /\ Born(m) \in [1..Parts(m) -> Int]
<1>1. \A d \in Of(m) : d \in Tasks /\ tasks[d].m = m
  BY DEF Of
<1>2. \A d \in Of(m) : /\ tasks[d] \in Task /\ tasks[d].p \in Procs /\ tasks[d].i \in 0..Chunks
                       /\ tasks[d].at \in Nat /\ tasks[d].post \in 0..Chunks
  BY <1>1, TaskType
<1>3. now \in Nat /\ nonceAt[m] \in [1..Parts(m) -> Int]
  BY DEF Typed
<1>4. Born(m) \in [1..Parts(m) -> Int]
  <2>1. ASSUME NEW i \in 1..Parts(m) PROVE (IF i \in Shown(m) THEN nonceAt[m][i] ELSE now) \in Int
    <3>1. nonceAt[m][i] \in Int
      BY <1>3
    <3>2. now \in Int
      BY <1>3
    <3> QED
      BY <3>1, <3>2
  <2> QED
    BY <2>1, Zenon DEF Born
<1> QED
  BY <1>1, <1>2, <1>3, <1>4, DiscordConstants DEF Typed

\* What is out are chunks of the message, and none was born later than now.
LEMMA OutFacts ==
    ASSUME Typed, ChannelTrue, TasksTrue, NEW m \in Ids
    PROVE  /\ Shown(m) \subseteq Out(m) /\ Out(m) \subseteq 1..Parts(m) /\ Parts(m) \in Nat
           /\ \A i \in 1..Parts(m) : Born(m)[i] = IF i \in Shown(m) THEN nonceAt[m][i] ELSE now
           /\ Timed(m) => \A i \in 1..Parts(m) : Born(m)[i] =< now
<1>1. Shown(m) \subseteq 1..Parts(m)
  BY DEF ChannelTrue
<1>2. Parts(m) \in Nat
  BY PartsOne, DiscordConstants
<1>3. ASSUME NEW d \in Of(m), tasks[d].post # 0 PROVE tasks[d].post \in 1..Parts(m)
  <2>1. tasks[d].post \in Nat /\ tasks[d].m = m /\ d \in Tasks
    BY MessageFacts
  <2>2. tasks[d].post =< Parts(m)
    BY <1>3, <2>1 DEF TasksTrue, Flying
  <2> QED
    BY <1>2, <1>3, <2>1, <2>2
<1>4. Shown(m) \subseteq Out(m) /\ Out(m) \subseteq 1..Parts(m)
  BY <1>1, <1>3 DEF Out
<1>5. \A i \in 1..Parts(m) : Born(m)[i] = IF i \in Shown(m) THEN nonceAt[m][i] ELSE now
  BY DEF Born
<1>6. Timed(m) => \A i \in 1..Parts(m) : Born(m)[i] =< now
  BY <1>5, MessageFacts DEF Timed
<1> QED
  BY <1>2, <1>4, <1>5, <1>6

\* Nothing comes out where neither the channel nor a POST changes.
LEMMA OutStays ==
    ASSUME NEW m \in Ids, Of(m) \subseteq Of(m)', SameChannel(m), now' = now,
           \A d \in Of(m)' : tasks'[d].post = IF d \in Of(m) THEN tasks[d].post ELSE 0
    PROVE  Shown(m)' = Shown(m) /\ Out(m)' = Out(m) /\ Born(m)' = Born(m)
<1>1. Shown(m)' = Shown(m) /\ nonceAt'[m] = nonceAt[m]
  BY DEF SameChannel, Shown
<1>2. {tasks'[d].post : d \in Of(m)'} \ {0} = {tasks[d].post : d \in Of(m)} \ {0}
  OBVIOUS
<1>3. Out(m)' = Out(m)
  BY <1>1, <1>2 DEF Out
<1>4. Born(m)' = Born(m)
  BY <1>1 DEF Born
<1> QED
  BY <1>1, <1>3, <1>4

LEMMA EntryNumbers ==
    ASSUME NEW e \in Entry
    PROVE  e.conf \in Nat /\ e.next \in Nat /\ e.upd \in Int /\ e.since \in Int /\ DoubtSince(e) \in Int
  BY EntryFacts DEF Never, DoubtSince

\* What drifts is the same entry, but for its owner and a reservation that was closed.
Alike(e, f) ==
    /\ e.conf = f.conf /\ e.next = f.next /\ e.since = f.since /\ e.upd = f.upd
    /\ e.state = f.state \/ (f.state = "reserved" /\ e.state = "partial")
LEMMA RecoveredAlike == ASSUME NEW e \in Entry, NEW p \in Procs PROVE Alike(Recovered(e, p), e)
<1>1. CASE e.state = "reserved"
  <2> DEFINE yes == TRUE
  <2>1. Recovered(e, p) = [e EXCEPT !.state = "partial", !.owner = p, !.known = yes]
    BY <1>1 DEF Recovered
  <2> HIDE DEF yes
  <2> QED
    BY <1>1, <2>1 DEF Alike, Entry
<1>2. CASE e.state # "reserved"
  BY <1>2 DEF Recovered, Alike, Entry
<1> QED
  BY <1>1, <1>2
LEMMA FileAlike == ASSUME Typed, NEW m \in Ids, FileDrifts(m) PROVE Alike(file'[m], file[m])
<1>1. file[m] \in Entry
  BY DEF Typed
<1> QED
  BY <1>1, RecoveredAlike DEF FileDrifts, Alike
LEMMA AlikeKeeps ==
    ASSUME NEW m \in Ids, NEW e, NEW f, Alike(e, f)
    PROVE  /\ InDoubt(e) <=> InDoubt(f)
           /\ DoubtSince(e) = DoubtSince(f)
           /\ Doubted(m, f) => Doubted(m, e)
           /\ Fits(f) => Fits(e)
  BY DEF Alike, InDoubt, DoubtSince, Doubted, Dates, Fits

LEMMA DriftTasks ==
    ASSUME Typed, Typed', NEW m \in Ids, Drifts(m), NEW d \in Of(m)'
    PROVE  /\ tasks'[d].p \in Procs
           /\ d \in Of(m) /\ tasks'[d].stage \in {"queued", "admitted", "doubtful"} => Early(d)
           /\ d \in Of(m) => TaskDrifts(m, d) /\ tasks'[d].p = tasks[d].p
           /\ d \notin Of(m) => tasks'[d].stage = "queued" /\ tasks'[d].i = 0 /\ tasks'[d].post = 0
<1>1. tasks'[d].p \in Procs
  <2>1. d \in 1..Len(tasks') /\ tasks' \in Seq(Task)
    BY DEF Typed, Of, Tasks
  <2>2. tasks'[d] \in Task
    BY <2>1
  <2> QED
    BY <2>2 DEF Task
<1>2. d \in Of(m) => TaskDrifts(m, d) /\ tasks'[d].p = tasks[d].p
  BY DEF Drifts, TasksDrift, TaskDrifts
<1>3. d \notin Of(m) => tasks'[d].stage = "queued" /\ tasks'[d].i = 0 /\ tasks'[d].post = 0
  BY DEF Drifts, TasksDrift
<1>4. d \in Of(m) /\ tasks'[d].stage \in {"queued", "admitted", "doubtful"} => Early(d)
  BY <1>2 DEF TaskDrifts, Early, Openings
<1> QED
  BY <1>1, <1>2, <1>3, <1>4

LEMMA DriftChannel ==
    ASSUME NEW m \in Ids, Drifts(m)
    PROVE  /\ Shown(m)' = Shown(m) /\ Out(m)' = Out(m) /\ Born(m)' = Born(m)
           /\ visible'[m] = visible[m] /\ nonceAt'[m] = nonceAt[m] /\ now' = now
<1>1. SameChannel(m) /\ now' = now /\ Of(m) \subseteq Of(m)'
  BY DEF Drifts, TasksDrift
<1>2. \A d \in Of(m)' : tasks'[d].post = IF d \in Of(m) THEN tasks[d].post ELSE 0
  BY DEF Drifts, TasksDrift, TaskDrifts
<1> QED
  BY <1>1, <1>2, OutStays DEF SameChannel

LEMMA DriftCalm ==
    ASSUME Typed, Typed', NEW m \in Ids, Drifts(m)
    PROVE  /\ Calm(m)' => Calm(m)
           /\ Steady(m)' => Steady(m)
<1>1. \A d \in Of(m) : d \in Of(m)' /\ (~Early(d) => ~Early(d)')
  BY DriftTasks DEF Drifts, TasksDrift, Early
<1>2. Calm(m)' => Calm(m)
  BY <1>1 DEF Calm
<1>3. Twice(m)' => Twice(m)
  BY <1>1 DEF Twice
<1> QED
  BY <1>2, <1>3 DEF Steady, Drifts

LEMMA DriftTimed == ASSUME Typed, Typed', NEW m \in Ids, Timed(m), Drifts(m) PROVE Timed(m)'
<1>1. /\ Fits(file[m]) /\ Fits(file'[m]) /\ now' = now
      /\ \A p \in Procs : cached'[p][m] \in {cached[p][m], file'[m], NoEntry}
  BY FileAlike, AlikeKeeps DEF Timed, Drifts, CopyDrifts
<1>2. Fits(NoEntry) /\ now \in Nat
  BY DiscordConstants DEF Fits, NoEntry, Never, Typed
<1>3. Fits(file[m])' /\ \A p \in Procs : Fits(cached[p][m])'
  BY <1>1, <1>2 DEF Timed, Fits
<1>4. \A d \in Of(m)' : tasks'[d].stage = "posting" => d \in Of(m) /\ tasks'[d] = tasks[d]
  BY DriftTasks DEF TaskDrifts, Openings
<1>5. \A i \in 1..Parts(m) : nonceAt'[m][i] =< now' /\ (i \in Shown(m)' => nonceAt'[m][i] # Never)
  BY <1>1, DriftChannel DEF Timed
<1>6. ASSUME NEW d \in Of(m)', tasks'[d].post # 0
      PROVE  tasks'[d].at =< now' /\ tasks'[d].stage \in {"posting", "abandoning", "done"}
  <2>1. d \in Of(m) /\ TaskDrifts(m, d)
    BY <1>6, DriftTasks
  <2>2. tasks[d].at =< now /\ tasks[d].stage \in {"posting", "abandoning", "done"}
    BY <1>6, <2>1 DEF Timed, TaskDrifts
  <2> QED
    BY <1>1, <2>1, <2>2 DEF TaskDrifts, Early, Openings
<1> QED
  BY <1>1, <1>3, <1>4, <1>5, <1>6 DEF Timed

LEMMA CalmWhileEarly == ASSUME NEW m, Twice(m), NEW d \in Of(m), Early(d) PROVE Calm(m)
  BY DEF Twice, Calm

LEMMA DriftCursor ==
    ASSUME Typed, Typed', NEW m \in Ids, Cursor(m), Drifts(m) PROVE Cursor(m)'
<1> DEFINE f == file[m]
           g == file'[m]
<1>1. Alike(g, f) /\ f \in Entry /\ g \in Entry
  BY FileAlike, MessageFacts DEF Drifts, Typed
<1>2. f.conf \in Nat /\ g.conf \in Nat /\ NoEntry.conf = 0 /\ NoEntry.state = "none"
  BY <1>1, EntryNumbers DEF NoEntry
<1>3. \A p \in Procs : cached'[p][m] = cached[p][m] \/ cached'[p][m] = g \/ cached'[p][m] = NoEntry
  BY DEF Drifts, CopyDrifts
<1>4. Out(m)' = Out(m)
  BY DriftChannel
<1> HIDE DEF f, g
<1>5. ASSUME g.state # "completed"
      PROVE  /\ \A p \in Procs : cached'[p][m].conf =< g.conf
             /\ \A d \in Of(m)' : tasks'[d].i =< g.conf
             /\ Out(m)' \subseteq 1..(g.conf + 1)
  <2>1. f.state # "completed" /\ g.conf = f.conf
    BY <1>1, <1>5 DEF Alike
  <2>2. /\ \A p \in Procs : cached[p][m].conf =< f.conf
        /\ \A d \in Of(m) : tasks[d].i =< f.conf
        /\ Out(m) \subseteq 1..(f.conf + 1)
    BY <2>1 DEF Cursor, f
  <2>3. \A p \in Procs : cached'[p][m].conf =< g.conf
    BY <1>2, <1>3, <2>1, <2>2
  <2>4. ASSUME NEW d \in Of(m)' PROVE tasks'[d].i =< g.conf
    <3>1. CASE d \notin Of(m)
      BY <3>1, DriftTasks, <1>2
    <3>2. CASE d \in Of(m)
      <4>1. TaskDrifts(m, d)
        BY <3>2, DriftTasks
      <4>2. tasks'[d].i = tasks[d].i \/ tasks'[d].i = 0 \/ tasks'[d].i =< f.conf
        BY <4>1, <2>1 DEF TaskDrifts, f
      <4> QED
        BY <4>2, <3>2, <2>1, <2>2, <1>2
    <3> QED
      BY <3>1, <3>2
  <2> QED
    BY <2>1, <2>2, <2>3, <2>4, <1>4
<1>6. ASSUME g.state = "none"
      PROVE  /\ \A p \in Procs : cached'[p][m].state = "none"
             /\ \A d \in Of(m)' : tasks'[d].stage \in {"queued", "admitted", "doubtful", "done"}
  <2>1. f.state = "none"
    BY <1>1, <1>6 DEF Alike
  <2>2. /\ \A p \in Procs : cached[p][m].state = "none"
        /\ \A d \in Of(m) : tasks[d].stage \in {"queued", "admitted", "doubtful", "done"}
    BY <2>1 DEF Cursor, f
  <2>3. ~Resumable(m)
    BY <2>1, <2>2 DEF Resumable, f
  <2>4. ASSUME NEW d \in Of(m)' PROVE tasks'[d].stage \in {"queued", "admitted", "doubtful", "done"}
    BY <2>2, <2>3, DriftTasks DEF TaskDrifts, Early, Openings
  <2> QED
    BY <1>2, <1>3, <1>6, <2>2, <2>4
<1>7. ASSUME g.state = "reserved"
      PROVE  /\ \A p \in Procs : cached'[p][m].state \in {"none", "reserved"}
             /\ \A d \in Of(m)' : tasks'[d].stage \in {"queued", "admitted", "doubtful", "abandoning", "done"} \cup Openings
  <2>1. f.state = "reserved"
    BY <1>1, <1>7 DEF Alike
  <2>2. /\ \A p \in Procs : cached[p][m].state \in {"none", "reserved"}
        /\ \A d \in Of(m) : tasks[d].stage \in {"queued", "admitted", "doubtful", "abandoning", "done"} \cup Openings
    BY <2>1 DEF Cursor, f
  <2>3. ~Resumable(m)
    BY <2>1, <2>2 DEF Resumable, f
  <2>4. ASSUME NEW d \in Of(m)'
        PROVE  tasks'[d].stage \in {"queued", "admitted", "doubtful", "abandoning", "done"} \cup Openings
    BY <2>2, <2>3, DriftTasks DEF TaskDrifts, Early, Openings
  <2> QED
    BY <1>2, <1>3, <1>7, <2>2, <2>4
<1>8. g.state \in {"none", "reserved"} => Out(m)' = {}
  BY <1>1, <1>4 DEF Cursor, Alike, f
<1> QED
  BY <1>5, <1>6, <1>7, <1>8 DEF Cursor, g

LEMMA DriftOpening ==
    ASSUME Typed, Typed', NEW m \in Ids, Opening(m), Drifts(m) PROVE Opening(m)'
<1> SUFFICES ASSUME NEW d \in Of(m)', m \in Messages, tasks'[d].stage \in Openings
             PROVE  /\ file'[m].state \in {"reserved", "partial"} /\ Out(m)' = {}
                    /\ \A p \in Procs : cached'[p][m].state \in {"none", "reserved", "partial"}
                    /\ \A b \in Of(m)' : b # d => tasks'[b].stage \in {"queued", "admitted", "abandoning", "done"}
  BY DEF Opening
<1>1. d \in Of(m) /\ tasks[d].stage \in Openings
  <2>1. d \in Of(m)
    BY DriftTasks DEF Openings
  <2> QED
    BY <2>1, DriftTasks DEF TaskDrifts, Openings
<1>2. /\ file[m].state \in {"reserved", "partial"} /\ Out(m) = {}
      /\ \A p \in Procs : cached[p][m].state \in {"none", "reserved", "partial"}
      /\ \A b \in Of(m) : b # d => tasks[b].stage \in {"queued", "admitted", "abandoning", "done"}
  BY <1>1 DEF Opening
<1>3. file'[m].state \in {"reserved", "partial"} /\ Out(m)' = {}
  BY <1>2, FileAlike, DriftChannel DEF Alike, Drifts
<1>4. \A p \in Procs : cached'[p][m].state \in {"none", "reserved", "partial"}
  BY <1>2, <1>3 DEF Drifts, CopyDrifts, NoEntry
<1>5. ~Resumable(m) /\ m \notin Courses
  BY <1>2, DiscordConstants DEF Resumable
<1>6. ASSUME NEW b \in Of(m)', b # d PROVE tasks'[b].stage \in {"queued", "admitted", "abandoning", "done"}
  BY <1>2, <1>5, <1>6, DriftTasks DEF TaskDrifts, Early, Openings
<1> QED
  BY <1>3, <1>4, <1>6

LEMMA DriftPosters == ASSUME Typed, Typed', NEW m \in Ids, Posters(m), Drifts(m) PROVE Posters(m)'
<1>1. ASSUME NEW b \in Of(m), NEW i, Past(tasks[b], i) PROVE b \in Of(m)' /\ Past(tasks'[b], i)
  <2>1. b \in Of(m)' /\ TaskDrifts(m, b)
    BY DriftTasks DEF Drifts, TasksDrift
  <2> QED
    BY <2>1, <1>1 DEF TaskDrifts, Past, Early, Openings
<1> QED
  BY <1>1, DriftChannel DEF Posters

LEMMA DriftStamps == ASSUME Typed, Typed', NEW m \in Ids, Stamps(m), Drifts(m) PROVE Stamps(m)'
<1>1. \A d \in Of(m)' : tasks'[d].stage \in {"reserved", "claimed", "posting", "answered"} =>
          d \in Of(m) /\ tasks'[d] = tasks[d]
  BY DriftTasks DEF TaskDrifts, Openings
<1>2. now' = now /\ Born(m)' = Born(m) /\ Out(m)' = Out(m)
  BY DriftChannel
<1> QED
  BY <1>1, <1>2 DEF Stamps

\* While a message stays calm, none but its first task does more than load.
LEMMA CalmStays ==
    ASSUME Typed, Typed', NEW m \in Ids, Cursor(m), Told(m), Drifts(m), Calm(m)', NEW d \in Of(m)',
           ~Early(d)', tasks'[d].stage # "done"
    PROVE  d \in Of(m) /\ ~Early(d) /\ tasks[d].stage # "done"
<1>1. Calm(m) /\ d \in Of(m) /\ TaskDrifts(m, d)
  BY DriftCalm, DriftTasks DEF Early
<1>2. CASE Early(d)
  <2>1. Resumable(m)
    BY <1>1, <1>2 DEF TaskDrifts, Early, Openings
  <2>2. file[m].state # "none"
    BY <2>1 DEF Cursor, Resumable
  <2>3. PICK b \in Of(m) : ~Early(b)
    BY <2>2, <1>1 DEF Told
  <2>4. b \in Of(m)' /\ ~Early(b)'
    <3>1. b \in Of(m)'
      BY DEF Drifts, TasksDrift
    <3> QED
      BY <3>1, <2>3, DriftTasks DEF Early
  <2> QED
    BY <2>3, <2>4, <1>2 DEF Calm
<1>3. CASE tasks[d].stage = "done"
  BY <1>1, <1>3 DEF TaskDrifts, Early, Openings
<1> QED
  BY <1>1, <1>2, <1>3

LEMMA DriftTold ==
    ASSUME Typed, Typed', NEW m \in Ids, Cursor(m), Told(m), Drifts(m) PROVE Told(m)'
<1> SUFFICES ASSUME Calm(m)'
             PROVE  /\ Doubted(m, file[m])' /\ Dated(m, file[m])'
                    /\ file'[m].state = "replying" /\ file'[m].conf + 1 \in Out(m)' => InDoubt(file'[m])
                    /\ \A p \in Procs : Doubted(m, cached[p][m])'
                    /\ (\A d \in Of(m)' : Early(d)') => file'[m].state = "none"
  BY DEF Told
<1>1. /\ Doubted(m, file[m]) /\ Dated(m, file[m])
      /\ file[m].state = "replying" /\ file[m].conf + 1 \in Out(m) => InDoubt(file[m])
      /\ \A p \in Procs : Doubted(m, cached[p][m])
      /\ (\A d \in Of(m) : Early(d)) => file[m].state = "none"
  BY DriftCalm DEF Told
<1>2. Alike(file'[m], file[m])
  BY FileAlike DEF Drifts
<1>3. Born(m)' = Born(m) /\ Out(m)' = Out(m)
  BY DriftChannel
<1>4. Doubted(m, file'[m]) /\ (InDoubt(file'[m]) <=> InDoubt(file[m]))
  BY <1>1, <1>2, AlikeKeeps
<1>5. Dated(m, file'[m])
  BY <1>1, <1>2 DEF Alike, Dated, Dates, Cursor
<1>6. file'[m].state = "replying" /\ file'[m].conf + 1 \in Out(m) => InDoubt(file'[m])
  BY <1>1, <1>2, <1>4 DEF Alike
<1>7. \A p \in Procs : Doubted(m, cached'[p][m])
  <2>1. Doubted(m, NoEntry)
    BY DEF Doubted, InDoubt, NoEntry
  <2> QED
    BY <1>1, <1>4, <2>1 DEF Drifts, CopyDrifts
<1>8. (\A d \in Of(m)' : Early(d)') => file'[m].state = "none"
  <2>1. \A d \in Of(m) : d \in Of(m)' /\ (Early(d)' => Early(d))
    BY DriftTasks DEF Drifts, TasksDrift, Early
  <2> QED
    BY <2>1, <1>1, <1>2 DEF Alike
<1> QED
  BY <1>3, <1>4, <1>5, <1>6, <1>7, <1>8 DEF Doubted, Dated, Dates

LEMMA DriftHolder ==
    ASSUME Typed, Typed', NEW m \in Ids, Cursor(m), Told(m), Holder(m), Drifts(m) PROVE Holder(m)'
<1> SUFFICES ASSUME Calm(m)', NEW d \in Of(m)'
             PROVE  LET f == file'[m]  c == cached'[tasks'[d].p][m]  t == tasks'[d] IN
                    /\ ~Early(d)' /\ t.stage # "done" /\ InDoubt(f) /\ f.since = Never =>
                          InDoubt(c) /\ c.since = Never /\ c.upd = f.upd
                    /\ t.stage \in {"claimed", "posting", "answered"} =>
                          f.conf = t.i /\ f.state \in {"replying", "partial"} /\ (f.state = "replying" => InDoubt(f))
                    /\ t.stage \in {"begun", "resuming", "sending", "claimed", "posting", "answered"} => ~Lost(f)
                    /\ t.stage = "claimed" => c.state \in {"replying", "partial"} /\ ~Lost(c)
  BY DEF Holder
<1> DEFINE f == file[m]
           g == file'[m]
           s == tasks[d]
           t == tasks'[d]
           c == cached[s.p][m]
           e == cached'[t.p][m]
<1> SUFFICES ASSUME ~Early(d)', t.stage # "done"
             PROVE  /\ InDoubt(g) /\ g.since = Never => InDoubt(e) /\ e.since = Never /\ e.upd = g.upd
                    /\ t.stage \in {"claimed", "posting", "answered"} =>
                          g.conf = t.i /\ g.state \in {"replying", "partial"} /\ (g.state = "replying" => InDoubt(g))
                    /\ t.stage \in {"begun", "resuming", "sending", "claimed", "posting", "answered"} => ~Lost(g)
                    /\ t.stage = "claimed" => e.state \in {"replying", "partial"} /\ ~Lost(e)
  BY DEF Early
<1>1. d \in Of(m) /\ ~Early(d) /\ s.stage # "done" /\ Calm(m)
  BY CalmStays, DriftCalm
<1>2. TaskDrifts(m, d) /\ t.p = s.p /\ s.p \in Procs
  BY <1>1, DriftTasks, MessageFacts
<1>3. e = c \/ e = g
  BY <1>1, <1>2 DEF Drifts, CopyDrifts
<1>4. Alike(g, f) /\ (InDoubt(g) <=> InDoubt(f))
  BY FileAlike, AlikeKeeps DEF Drifts
<1>5. /\ InDoubt(f) /\ f.since = Never => InDoubt(c) /\ c.since = Never /\ c.upd = f.upd
      /\ s.stage \in {"claimed", "posting", "answered"} =>
            f.conf = s.i /\ f.state \in {"replying", "partial"} /\ (f.state = "replying" => InDoubt(f))
      /\ s.stage \in {"begun", "resuming", "sending", "claimed", "posting", "answered"} => ~Lost(f)
      /\ s.stage = "claimed" => c.state \in {"replying", "partial"} /\ ~Lost(c)
  BY <1>1 DEF Holder
<1>6. /\ t.stage \in {"claimed", "posting", "answered"} => t = s
      /\ t.stage \in {"begun", "resuming", "sending"} => s.stage \in {"begun", "resuming", "sending"}
  BY <1>1, <1>2 DEF TaskDrifts, Early, Openings
<1>7. f.state = "reserved" => t.stage \notin {"begun", "resuming", "sending", "claimed", "posting", "answered"}
  BY <1>1, <1>6 DEF Cursor, Openings
<1> HIDE DEF f, g, s, t, c, e
<1>8. t.stage \in {"begun", "resuming", "sending", "claimed", "posting", "answered"} => ~Lost(g)
  BY <1>4, <1>5, <1>6, <1>7 DEF Alike, Lost
<1>9. t.stage \in {"claimed", "posting", "answered"} =>
        g.conf = t.i /\ g.state \in {"replying", "partial"} /\ (g.state = "replying" => InDoubt(g))
  BY <1>4, <1>5, <1>6, <1>7 DEF Alike
<1> QED
  BY <1>3, <1>4, <1>5, <1>6, <1>8, <1>9 DEF Alike

LEMMA DriftStale ==
    ASSUME Typed, Typed', NEW m \in Ids, Cursor(m), Told(m)', Stale(m), Drifts(m) PROVE Stale(m)'
<1> SUFFICES ASSUME Calm(m)', spent'["switches"] = 0, m \in Courses
             PROVE  /\ \A p \in Procs : Alive(p)' /\ proc'[p].prepared => Dated(m, cached[p][m])'
                    /\ \A d \in Of(m)' : tasks'[d].stage = "doubtful" =>
                          Dated(m, cached[tasks[d].p][m])' \/ (1 \in Out(m)' /\ Born(m)'[1] >= now')
  BY DEF Stale
<1>1. /\ \A p \in Procs : Alive(p) /\ proc[p].prepared => Dated(m, cached[p][m])
      /\ \A d \in Of(m) : tasks[d].stage = "doubtful" =>
            Dated(m, cached[tasks[d].p][m]) \/ (1 \in Out(m) /\ Born(m)[1] >= now)
  BY DriftCalm DEF Stale, Drifts
<1>2. Born(m)' = Born(m) /\ Out(m)' = Out(m) /\ now' = now
  BY DriftChannel
<1>4. Dated(m, file'[m]) /\ Dated(m, NoEntry)
  BY <1>2 DEF Told, Dated, Dates, NoEntry
<1>5. \A p \in Procs : Alive(p)' /\ proc'[p].prepared => Dated(m, cached'[p][m])
  BY <1>1, <1>4 DEF Drifts, CopyDrifts
<1>6. ASSUME NEW d \in Of(m)', tasks'[d].stage = "doubtful"
      PROVE  Dated(m, cached'[tasks'[d].p][m]) \/ (1 \in Out(m) /\ Born(m)[1] >= now)
  <2>1. d \in Of(m) /\ tasks'[d].p = tasks[d].p /\ tasks[d].p \in Procs /\ TaskDrifts(m, d)
    BY <1>6, DriftTasks, MessageFacts
  <2>2. \/ tasks[d].stage = "doubtful"
        \/ (Alive(tasks[d].p) /\ proc[tasks[d].p].prepared) \/ cached'[tasks[d].p][m] = file'[m]
    BY <1>6, <2>1 DEF TaskDrifts, Openings
  <2>3. \/ cached'[tasks[d].p][m] = cached[tasks[d].p][m]
        \/ cached'[tasks[d].p][m] \in {file'[m], NoEntry}
    BY <2>1 DEF Drifts, CopyDrifts
  <2> QED
    BY <1>1, <1>4, <2>1, <2>2, <2>3
<1> QED
  BY <1>2, <1>5, <1>6 DEF Dated, Dates

LEMMA DriftReplays ==
    ASSUME Typed, Typed', NEW m \in Ids, Told(m), Replays(m), Drifts(m) PROVE Replays(m)'
<1> SUFFICES ASSUME Steady(m)'
             PROVE  /\ \A d \in Of(m)' : /\ tasks'[d].stage \in {"begun", "resuming", "sending"}
                                         /\ file'[m].state = "replying" /\ file'[m].next = file'[m].conf
                                         => Recent(m, file[m].conf + 1)'
                    /\ \A d \in Of(m)' : tasks'[d].stage = "claimed" => Recent(m, tasks[d].i + 1)'
                    /\ \A d \in Of(m)' : Flight(m, tasks[d])'
                    /\ visible'[m] = [i \in 1..Len(visible'[m]) |-> i]
  BY DEF Replays
<1>1. Steady(m)
  BY DriftCalm
<1>2. Alike(file'[m], file[m])
  BY FileAlike DEF Drifts
<1>3. ASSUME NEW d \in Of(m)', tasks'[d].stage \in {"begun", "resuming", "sending"},
             file'[m].state = "replying", file'[m].next = file'[m].conf
      PROVE  Recent(m, file[m].conf + 1)
  <2>1. file[m].state = "replying" /\ file[m].next = file[m].conf
    BY <1>2, <1>3 DEF Alike
  <2>2. d \in Of(m) /\ TaskDrifts(m, d)
    BY <1>3, DriftTasks
  <2>3. CASE tasks[d].stage \in {"begun", "resuming", "sending"}
    BY <1>1, <2>1, <2>2, <2>3 DEF Replays
  <2>4. CASE Early(d)
    <3>1. Calm(m) /\ file[m] \in Entry
      BY <1>1, <2>2, <2>4, CalmWhileEarly, MessageFacts DEF Steady
    <3>2. ~InDoubt(file[m])
      BY <2>1, <3>1, EntryNumbers DEF InDoubt
    <3> QED
      BY <3>1, <3>2, <2>1 DEF Told, Recent
  <2> QED
    BY <1>3, <2>2, <2>3, <2>4 DEF TaskDrifts, Openings
<1>4. ASSUME NEW d \in Of(m)', tasks'[d].stage = "claimed" PROVE Recent(m, tasks'[d].i + 1)
  <2>1. d \in Of(m) /\ tasks'[d] = tasks[d]
    BY <1>4, DriftTasks DEF TaskDrifts, Openings
  <2> QED
    BY <1>1, <1>4, <2>1 DEF Replays
<1>5. visible'[m] = [i \in 1..Len(visible'[m]) |-> i]
  BY <1>1, DriftChannel DEF Replays
<1>6. ASSUME NEW d \in Of(m)' PROVE Flight(m, tasks[d])'
  <2>1. d \in Of(m) => Flight(m, tasks[d]) /\ TaskDrifts(m, d)
    BY <1>1, DriftTasks DEF Replays
  <2>2. d \notin Of(m) => tasks'[d].post = 0
    BY DriftTasks
  <2> QED
    BY <2>1, <2>2, DriftChannel DEF Flight, TaskDrifts
<1>7. Out(m)' = Out(m) /\ Born(m)' = Born(m) /\ now' = now
  BY DriftChannel
<1>8. \A i : Recent(m, i)' <=> Recent(m, i)
  BY <1>7 DEF Recent
<1> QED
  BY <1>2, <1>3, <1>4, <1>5, <1>6, <1>7 DEF Alike, Recent

LEMMA DriftLedger ==
    ASSUME Typed, Typed', NEW m \in Ids, Ledger(m), Drifts(m) PROVE Ledger(m)'
  BY DriftTimed, DriftCursor, DriftOpening, DriftPosters, DriftStamps, DriftTold, DriftHolder, DriftStale,
     DriftReplays DEF Ledger
-------------------------------------------------------------------------------
\* Time passes only where nobody is about to post or to record.
LEMMA TickLedger ==
    ASSUME Typed, ChannelTrue, TasksTrue, NEW m \in Ids, Ledger(m), Tick PROVE Ledger(m)'
<1>1. /\ now' = now + 1 /\ now \in Nat
      /\ file' = file /\ cached' = cached /\ proc' = proc /\ tasks' = tasks /\ visible' = visible
      /\ nonceAt' = nonceAt /\ spent' = spent /\ Of(m)' = Of(m) /\ Shown(m)' = Shown(m)
      /\ Out(m)' = Out(m)
  BY MessageFacts DEF Tick, Of, Tasks, Shown, Out
<1>2. \A d \in Of(m) :
         /\ tasks[d].stage \notin {"doubtful", "resuming", "begun", "sending", "claimed", "answered", "abandoning"}
         /\ ~(tasks[d].stage = "reserved" /\ m \in Courses)
         /\ tasks[d].stage = "posting" => now - tasks[d].at < PostTimeout
  BY DEF Tick, Of
<1>0. \A i \in Out(m) : Born(m)[i] \in Int /\ Born(m)'[i] \in Int /\ Born(m)[i] =< Born(m)'[i]
  <2>1. Out(m) \subseteq 1..Parts(m) /\ Born(m) \in [1..Parts(m) -> Int]
    BY OutFacts, MessageFacts
  <2>2. \A i \in 1..Parts(m) : /\ Born(m)[i] = IF i \in Shown(m) THEN nonceAt[m][i] ELSE now
                               /\ Born(m)'[i] = IF i \in Shown(m) THEN nonceAt[m][i] ELSE now + 1
    BY <1>1 DEF Born
  <2> QED
    BY <1>1, <2>1, <2>2
<1>3. Timed(m)'
  <2>1. \A e \in Entry : Fits(e) => Fits(e)'
    BY <1>1, EntryNumbers DEF Fits
  <2>2. Fits(file[m])' /\ \A p \in Procs : Fits(cached[p][m])'
    BY <1>1, <2>1, MessageFacts DEF Ledger, Timed, Fits
  <2>3. \A i \in 1..Parts(m) : nonceAt[m][i] =< now' /\ (i \in Shown(m) => nonceAt[m][i] # Never)
    <3>1. \A i \in 1..Parts(m) : nonceAt[m][i] \in Int
      BY MessageFacts
    <3> QED
      BY <1>1, <3>1 DEF Ledger, Timed
  <2>4. \A d \in Of(m) : tasks[d].stage = "posting" => tasks[d].at =< now' /\ now' - tasks[d].at =< PostTimeout
    BY <1>1, <1>2, MessageFacts, DiscordConstants DEF Ledger, Timed
  <2>5. \A d \in Of(m) : tasks[d].post # 0 =>
           tasks[d].at =< now' /\ tasks[d].stage \in {"posting", "abandoning", "done"}
    BY <1>1, MessageFacts DEF Ledger, Timed
  <2> QED
    BY <1>1, <2>2, <2>3, <2>4, <2>5 DEF Timed
<1>4. Cursor(m)' /\ Opening(m)' /\ Posters(m)'
  BY <1>1 DEF Ledger, Cursor, Opening, Posters, Past
<1>5. Calm(m)' = Calm(m) /\ Steady(m)' = Steady(m)
  BY <1>1 DEF Calm, Steady, Twice, Early
<1>6. Stamps(m)'
  <2>1. ASSUME NEW d \in Of(m), tasks[d].stage = "posting", tasks[d].i + 2 \in Out(m)
        PROVE  Born(m)'[tasks[d].i + 2] >= tasks[d].at
    <3>1. Born(m)[tasks[d].i + 2] >= tasks[d].at /\ tasks[d].at \in Nat
      BY <2>1, MessageFacts DEF Ledger, Stamps
    <3> QED
      BY <1>0, <2>1, <3>1
  <2> QED
    BY <1>1, <1>2, <2>1 DEF Stamps
<1>d. ASSUME NEW e \in Entry
      PROVE  (Doubted(m, e) => Doubted(m, e)') /\ (Dated(m, e) => Dated(m, e)')
  <2>1. e.since \in Int /\ DoubtSince(e) \in Int
    BY EntryNumbers
  <2>2. Doubted(m, e) => Doubted(m, e)'
    BY <1>0, <1>1, <2>1 DEF Doubted, Dates
  <2>3. Dated(m, e) => Dated(m, e)'
    BY <1>0, <1>1, <2>1 DEF Dated, Dates
  <2> QED
    BY <2>2, <2>3
<1>e. /\ Doubted(m, file[m]) => Doubted(m, file[m])'
      /\ Dated(m, file[m]) => Dated(m, file[m])'
      /\ \A p \in Procs : /\ Doubted(m, cached[p][m]) => Doubted(m, cached[p][m])'
                          /\ Dated(m, cached[p][m]) => Dated(m, cached[p][m])'
  <2>1. file[m] \in Entry /\ \A p \in Procs : cached[p][m] \in Entry
    BY MessageFacts
  <2>2. /\ Doubted(m, file[m]) => Doubted(m, file[m])'
        /\ Dated(m, file[m]) => Dated(m, file[m])'
    BY <1>1, <1>d, <2>1 DEF Doubted, Dated, Dates
  <2>3. ASSUME NEW p \in Procs
        PROVE  /\ Doubted(m, cached[p][m]) => Doubted(m, cached[p][m])'
               /\ Dated(m, cached[p][m]) => Dated(m, cached[p][m])'
    BY <1>1, <1>d, <2>1 DEF Doubted, Dated, Dates
  <2> QED
    BY <2>2, <2>3
<1>7. Told(m)' /\ Holder(m)'
  <2>1. Told(m)'
    <3> SUFFICES ASSUME Calm(m)
                 PROVE  /\ Doubted(m, file[m])' /\ Dated(m, file[m])'
                        /\ file[m].state = "replying" /\ file[m].conf + 1 \in Out(m) => InDoubt(file[m])
                        /\ \A p \in Procs : Doubted(m, cached[p][m])'
                        /\ (\A d \in Of(m) : Early(d)) => file[m].state = "none"
      BY <1>1, <1>5 DEF Told, Early
    <3> QED
      BY <1>e DEF Ledger, Told
  <2>2. Holder(m)'
    BY <1>1, <1>5 DEF Ledger, Holder, Early
  <2> QED
    BY <2>1, <2>2
<1>8. Stale(m)'
  <2> SUFFICES ASSUME Calm(m), spent["switches"] = 0, m \in Courses
               PROVE  \A p \in Procs : Alive(p) /\ proc[p].prepared => Dated(m, cached[p][m])'
    BY <1>1, <1>2, <1>5 DEF Stale, Alive
  <2> QED
    BY <1>e DEF Ledger, Stale
<1>9. Replays(m)'
  <2>1. \A d \in Of(m) : Flight(m, tasks[d]) => Flight(m, tasks[d])'
    BY <1>1 DEF Flight
  <2> QED
    BY <1>1, <1>2, <1>5, <2>1 DEF Ledger, Replays
<1> QED
  BY <1>3, <1>4, <1>6, <1>7, <1>8, <1>9 DEF Ledger

\* What the hand-over of a POST changes in the channel: its chunk is out.
LEMMA PostShows ==
    ASSUME Typed, ChannelTrue, TasksTrue, NEW m \in Ids, NEW d, Posts(m, d), tasks[d].i + 1 =< Parts(m)
    PROVE  /\ tasks[d].i + 1 \in 1..Parts(m) /\ Out(m) \subseteq 1..Parts(m)
           /\ \A j \in 1..Parts(m) : \/ Born(m)'[j] = Born(m)[j] /\ (j \in Out(m)' <=> j \in Out(m))
                                     \/ Born(m)'[j] = now /\ j = tasks[d].i + 1 /\ j \in Out(m)'
           /\ Out(m)' \subseteq Out(m) \cup {tasks[d].i + 1}
           /\ Shown(m)' = Shown(m) /\ visible'[m] = visible[m] /\ nonceAt'[m] = nonceAt[m]
<1> DEFINE i == tasks[d].i + 1
           posts == {tasks[b].post : b \in Of(m)}
           after == {tasks'[b].post : b \in Of(m)'}
<1>1. d \in Of(m) /\ tasks[d].i \in Nat /\ Parts(m) \in Nat
  BY MessageFacts, PartsOne DEF Posts
<1>2. i \in 1..Parts(m) /\ i # 0
  BY <1>1
<1>3. Out(m) \subseteq 1..Parts(m) /\ Shown(m) \subseteq Out(m)
  BY OutFacts
<1>4. Shown(m)' = Shown(m) /\ visible'[m] = visible[m] /\ nonceAt'[m] = nonceAt[m] /\ now' = now
  BY DEF Posts, SameChannel, Shown
<1>5. after \ {0} = (posts \ {0}) \cup {i}
  <2>1. /\ Of(m)' = Of(m) /\ d \in Of(m) /\ \A b \in Of(m) : b # d => tasks'[b].post = tasks[b].post
        /\ tasks[d].post = 0 /\ tasks'[d].post = i
    BY DEF Posts
  <2> HIDE DEF i
  <2> QED
    BY <1>2, <2>1
<1>6. Out(m)' = Out(m) \cup {i}
  BY <1>4, <1>5 DEF Out
<1>7. \A j \in 1..Parts(m) : Born(m)'[j] = Born(m)[j] /\ (j \notin Shown(m) => Born(m)[j] = now)
  BY <1>4 DEF Born
<1> HIDE DEF i, posts, after
<1>8. \A j \in 1..Parts(m) : \/ Born(m)'[j] = Born(m)[j] /\ (j \in Out(m)' <=> j \in Out(m))
                             \/ Born(m)'[j] = now /\ j = i /\ j \in Out(m)'
  BY <1>3, <1>6, <1>7
<1> QED
  BY <1>2, <1>3, <1>4, <1>6, <1>8 DEF i

\* The task that posts, and the others of the message.
LEMMA PostTasks ==
    ASSUME Typed, NEW m \in Ids, NEW d, Posts(m, d)
    PROVE  /\ d \in Of(m) /\ Of(m)' = Of(m) /\ tasks[d].stage = "claimed" /\ tasks'[d].stage = "posting"
           /\ tasks'[d].i = tasks[d].i /\ tasks'[d].p = tasks[d].p /\ tasks'[d].at = now
           /\ \A b \in Of(m) : b # d => tasks'[b] = tasks[b]
           /\ \A b \in Of(m) : Early(b)' <=> Early(b)
           /\ Calm(m)' <=> Calm(m)
           /\ Steady(m)' <=> Steady(m)
           /\ now' = now /\ spent' = spent /\ FileDrifts(m) /\ Alike(file'[m], file[m])
<1>1. /\ d \in Of(m) /\ Of(m)' = Of(m) /\ tasks[d].stage = "claimed" /\ tasks'[d].stage = "posting"
      /\ tasks'[d].i = tasks[d].i /\ tasks'[d].p = tasks[d].p /\ tasks'[d].at = now
      /\ \A b \in Of(m) : b # d => tasks'[b] = tasks[b]
      /\ now' = now /\ spent' = spent /\ FileDrifts(m)
  BY DEF Posts
<1>2. \A b \in Of(m) : Early(b)' <=> Early(b)
  BY <1>1 DEF Early
<1>3. Calm(m)' <=> Calm(m)
  BY <1>1, <1>2 DEF Calm
<1>4. Steady(m)' <=> Steady(m)
  BY <1>1 DEF Steady, Twice
<1> QED
  BY <1>1, <1>2, <1>3, <1>4, FileAlike

LEMMA PostTimed ==
    ASSUME Typed, ChannelTrue, TasksTrue, NEW m \in Ids, NEW d, Posts(m, d), tasks[d].i + 1 =< Parts(m), Timed(m)
    PROVE  Timed(m)'
<1>1. now' = now /\ now \in Nat /\ Fits(file[m]) /\ \A p \in Procs : Fits(cached[p][m])
  BY MessageFacts, PostTasks DEF Timed
<1>2. Fits(file'[m]) /\ Fits(NoEntry)
  BY <1>1, PostTasks, AlikeKeeps, DiscordConstants DEF Fits, NoEntry, Never
<1>3. Fits(file[m])' /\ \A p \in Procs : Fits(cached[p][m])'
  BY <1>1, <1>2 DEF Fits, Posts, CopyDrifts
<1>4. \A j \in 1..Parts(m) : nonceAt'[m][j] =< now' /\ (j \in Shown(m)' => nonceAt'[m][j] # Never)
  BY <1>1, PostShows DEF Timed
<1>6. ASSUME NEW b \in Of(m)', tasks'[b].post # 0
      PROVE  tasks'[b].at =< now' /\ tasks'[b].stage \in {"posting", "abandoning", "done"}
  BY <1>1, <1>6, PostTasks DEF Timed
<1>5. ASSUME NEW b \in Of(m)', tasks'[b].stage = "posting"
      PROVE  tasks'[b].at =< now' /\ now' - tasks'[b].at =< PostTimeout
  <2>1. CASE b = d
    <3>1. PostTimeout \in Nat
      BY DiscordConstants
    <3> QED
      BY <1>1, <2>1, <3>1, PostTasks
  <2>2. CASE b # d
    BY <1>1, <1>5, <2>2, PostTasks DEF Timed
  <2> QED
    BY <2>1, <2>2
<1> QED
  BY <1>3, <1>4, <1>5, <1>6 DEF Timed

LEMMA PostCursor ==
    ASSUME Typed, ChannelTrue, TasksTrue, NEW m \in Ids, NEW d, Posts(m, d), tasks[d].i + 1 =< Parts(m), Cursor(m)
    PROVE  Cursor(m)'
<1> DEFINE f == file[m]
           g == file'[m]
<1>1. d \in Of(m) /\ tasks[d].stage = "claimed" /\ tasks[d].i \in Nat /\ Of(m)' = Of(m)
      /\ \A b \in Of(m) : tasks'[b].i = tasks[b].i
  BY PostTasks, MessageFacts
<1>2. Alike(g, f) /\ f.conf \in Nat /\ f.state \notin {"none", "reserved"}
  BY <1>1, PostTasks, MessageFacts, EntryNumbers DEF Cursor, Openings
<1>3. g.state \notin {"none", "reserved"} /\ g.conf = f.conf /\ (g.state # "completed" => f.state # "completed")
  BY <1>2 DEF Alike
<1>4. \A p \in Procs : cached'[p][m] = cached[p][m] \/ cached'[p][m] = g \/ cached'[p][m] = NoEntry
  BY DEF Posts, CopyDrifts
<1>5. ASSUME g.state # "completed"
      PROVE  /\ \A p \in Procs : cached'[p][m].conf =< g.conf
             /\ \A b \in Of(m)' : tasks'[b].i =< g.conf
             /\ Out(m)' \subseteq 1..(g.conf + 1)
  <2>1. /\ \A p \in Procs : cached[p][m].conf =< f.conf
        /\ \A b \in Of(m) : tasks[b].i =< f.conf
        /\ Out(m) \subseteq 1..(f.conf + 1)
    BY <1>3, <1>5 DEF Cursor
  <2>2. tasks[d].i + 1 \in 1..(f.conf + 1)
    BY <1>1, <1>2, <2>1
  <2>3. Out(m)' \subseteq 1..(f.conf + 1)
    BY <2>1, <2>2, PostShows
  <2>4. NoEntry.conf = 0
    BY DEF NoEntry
  <2> HIDE DEF f, g
  <2> QED
    BY <1>1, <1>2, <1>3, <1>4, <2>1, <2>3, <2>4
<1> QED
  BY <1>3, <1>5 DEF Cursor

LEMMA PostOpening == ASSUME Typed, NEW m \in Ids, NEW d, Posts(m, d), Opening(m) PROVE Opening(m)'
<1> SUFFICES ASSUME NEW b \in Of(m)', m \in Messages, tasks'[b].stage \in Openings PROVE FALSE
  BY DEF Opening
<1>1. b \in Of(m) /\ b # d /\ tasks'[b] = tasks[b] /\ d \in Of(m) /\ tasks[d].stage = "claimed"
  BY PostTasks DEF Openings
<1> QED
  BY <1>1 DEF Opening

LEMMA PostPosters ==
    ASSUME Typed, ChannelTrue, TasksTrue, NEW m \in Ids, NEW d, Posts(m, d), tasks[d].i + 1 =< Parts(m), Posters(m)
    PROVE  Posters(m)'
<1> SUFFICES ASSUME NEW j \in Out(m)' PROVE \E b \in Of(m)' : Past(tasks'[b], j)
  BY DEF Posters
<1>0. d \in Of(m) /\ Of(m)' = Of(m) /\ tasks[d].i \in Nat /\ Out(m) \subseteq Nat
  BY PostTasks, MessageFacts, PostShows
<1>1. CASE j \in Out(m)
  <2>1. PICK b \in Of(m) : Past(tasks[b], j)
    BY <1>1 DEF Posters
  <2>2. CASE b # d
    BY <2>1, <2>2, PostTasks
  <2>3. CASE b = d
    <3>1. tasks[d].i >= j /\ j \in Nat
      BY <1>0, <1>1, <2>1, <2>3, PostTasks DEF Past
    <3>2. Past(tasks'[d], j)
      BY <3>1, <1>0, PostTasks DEF Past
    <3> QED
      BY <3>2, <1>0
  <2> QED
    BY <2>2, <2>3
<1>2. CASE j = tasks[d].i + 1
  <2>1. Past(tasks'[d], j)
    BY <1>0, <1>2, PostTasks DEF Past
  <2> QED
    BY <2>1, <1>0
<1> QED
  BY <1>1, <1>2, PostShows

LEMMA PostStamps ==
    ASSUME Typed, ChannelTrue, TasksTrue, NEW m \in Ids, NEW d, Posts(m, d), tasks[d].i + 1 =< Parts(m), Stamps(m), Timed(m)
    PROVE  Stamps(m)'
<1>1. /\ now \in Nat /\ now' = now /\ Of(m)' = Of(m) /\ d \in Of(m)
      /\ \A b \in Of(m) : tasks[b].at \in Nat /\ tasks[b].i \in Nat
      /\ \A b \in Of(m) : b # d => tasks'[b] = tasks[b]
      /\ tasks[d].stage = "claimed" /\ tasks'[d].stage = "posting" /\ tasks'[d].at = now
      /\ tasks'[d].i = tasks[d].i
  BY MessageFacts, PostTasks
<1>2. \A j \in Out(m)' : Born(m)'[j] = now \/ (Born(m)'[j] = Born(m)[j] /\ j \in Out(m))
  BY PostShows
<1>3. \A j \in Out(m)' : j # tasks[d].i + 1 => Born(m)'[j] = Born(m)[j] /\ j \in Out(m)
  BY PostShows
<1> SUFFICES ASSUME NEW b \in Of(m)
             PROVE  /\ tasks'[b].stage = "reserved" /\ m \in Courses /\ 1 \in Out(m)' => Born(m)'[1] >= now
                    /\ tasks'[b].stage = "claimed" /\ tasks'[b].i + 2 \in Out(m)' =>
                          Born(m)'[tasks'[b].i + 2] >= now
                    /\ tasks'[b].stage = "posting" /\ tasks'[b].i + 2 \in Out(m)' =>
                          Born(m)'[tasks'[b].i + 2] >= tasks'[b].at
                    /\ tasks'[b].stage = "answered" /\ tasks'[b].i + 2 \in Out(m)' =>
                          now - Born(m)'[tasks'[b].i + 2] =< PostTimeout
  BY <1>1 DEF Stamps
<1>4. CASE b = d
  <2>1. tasks[d].i + 2 # tasks[d].i + 1
    BY <1>1
  <2> QED
    BY <1>1, <1>3, <1>4, <2>1 DEF Stamps
<1>5. CASE b # d
  <2>1. tasks[b].stage = "posting" => tasks[b].at =< now
    BY DEF Timed
  <2>2. PostTimeout \in Nat
    BY DiscordConstants
  <2> QED
    BY <1>1, <1>2, <1>5, <2>1, <2>2 DEF Stamps
<1> QED
  BY <1>4, <1>5

LEMMA PostDates ==
    ASSUME Typed, ChannelTrue, TasksTrue, NEW m \in Ids, NEW d, Posts(m, d), tasks[d].i + 1 =< Parts(m),
           NEW e \in Entry, Fits(e)
    PROVE  /\ Doubted(m, e) /\ InDoubt(e) /\ e.conf + 1 \in Out(m)' => DoubtSince(e) =< Born(m)'[e.conf + 1]
           /\ Dated(m, e) /\ e.state = "partial" /\ e.since # Never /\ e.conf + 1 \in Out(m)'
                 => e.since =< Born(m)'[e.conf + 1]
<1>1. /\ e.conf \in Nat /\ e.since \in Int /\ e.upd \in Int /\ DoubtSince(e) \in Int /\ now \in Nat
      /\ DoubtSince(e) =< now /\ e.since =< now
  BY EntryNumbers, MessageFacts DEF Fits, DoubtSince
<1>2. e.conf + 1 \in Out(m)' =>
         \/ Born(m)'[e.conf + 1] = Born(m)[e.conf + 1] /\ e.conf + 1 \in Out(m)
         \/ Born(m)'[e.conf + 1] = now
  BY PostShows
<1> QED
  BY <1>1, <1>2 DEF Doubted, Dated, Dates

\* The task that posts is the first one: the file shows its chunk in doubt.
LEMMA PostFirst ==
    ASSUME Typed, NEW m \in Ids, NEW d, Posts(m, d), Holder(m), Told(m), Calm(m)
    PROVE  LET f == file[m]  c == cached[tasks[d].p][m] IN
           /\ f.conf = tasks[d].i /\ f.state \in {"replying", "partial"} /\ (f.state = "replying" => InDoubt(f))
           /\ ~Lost(f) /\ c.state \in {"replying", "partial"} /\ ~Lost(c)
           /\ InDoubt(f) /\ f.since = Never => InDoubt(c) /\ c.since = Never /\ c.upd = f.upd
           /\ \A b \in Of(m) : ~Early(b) => b = d
           /\ cached'[tasks[d].p][m] \in {c, file'[m]}
<1>1. d \in Of(m) /\ tasks[d].stage = "claimed" /\ ~Early(d) /\ tasks'[d].stage = "posting" /\ tasks[d].p \in Procs
  BY PostTasks, MessageFacts DEF Early
<1>2. cached'[tasks[d].p][m] \in {cached[tasks[d].p][m], file'[m]}
  BY <1>1 DEF Posts, CopyDrifts
<1>3. \A b \in Of(m) : ~Early(b) => b = d
  BY <1>1 DEF Calm
<1> QED
  BY <1>1, <1>2, <1>3 DEF Holder

LEMMA PostTold ==
    ASSUME Typed, Typed', ChannelTrue, TasksTrue, NEW m \in Ids, NEW d, Posts(m, d), tasks[d].i + 1 =< Parts(m),
           Timed(m), Told(m), Holder(m)
    PROVE  Told(m)'
<1> SUFFICES ASSUME Calm(m)
             PROVE  /\ Doubted(m, file[m])' /\ Dated(m, file[m])'
                    /\ file'[m].state = "replying" /\ file'[m].conf + 1 \in Out(m)' => InDoubt(file'[m])
                    /\ \A p \in Procs : Doubted(m, cached[p][m])'
                    /\ ~(\A b \in Of(m)' : Early(b)')
  BY PostTasks DEF Told
<1> DEFINE f == file[m]
           g == file'[m]
<1>1. /\ Doubted(m, f) /\ Dated(m, f) /\ Fits(f) /\ f \in Entry /\ g \in Entry /\ Alike(g, f)
      /\ \A p \in Procs : Doubted(m, cached[p][m]) /\ Fits(cached[p][m]) /\ cached[p][m] \in Entry
  BY PostTasks, MessageFacts DEF Told, Timed, Typed
<1>2. f.state \in {"replying", "partial"} /\ (f.state = "replying" => InDoubt(f)) /\ ~Lost(f)
  BY PostFirst
<1>3. Doubted(m, g) /\ Fits(g) /\ g.state = f.state /\ g.since = f.since /\ g.conf = f.conf /\ (InDoubt(g) <=> InDoubt(f))
  BY <1>1, <1>2, AlikeKeeps DEF Alike
<1>4. Dated(m, g)
  BY <1>1, <1>3 DEF Dated, Dates
<1>5. Doubted(m, file[m])' /\ Dated(m, file[m])'
  BY <1>1, <1>2, <1>3, <1>4, PostDates DEF Doubted, Dated, Dates, Lost
<1>6. ASSUME NEW p \in Procs PROVE Doubted(m, cached[p][m])'
  <2>1. ~InDoubt(NoEntry)
    BY DEF InDoubt, NoEntry
  <2>2. cached'[p][m] \in {cached[p][m], g, NoEntry}
    BY DEF Posts, CopyDrifts
  <2> QED
    BY <1>1, <1>3, <2>1, <2>2, PostDates DEF Doubted, Dates
<1>7. ~(\A b \in Of(m)' : Early(b)')
  BY PostTasks DEF Early
<1> QED
  BY <1>2, <1>3, <1>5, <1>6, <1>7

LEMMA PostHolder ==
    ASSUME Typed, NEW m \in Ids, NEW d, Posts(m, d), Told(m), Holder(m)
    PROVE  Holder(m)'
<1> SUFFICES ASSUME Calm(m), NEW b \in Of(m)'
             PROVE  LET f == file'[m]  c == cached'[tasks'[b].p][m]  t == tasks'[b] IN
                    /\ ~Early(b)' /\ t.stage # "done" /\ InDoubt(f) /\ f.since = Never =>
                          InDoubt(c) /\ c.since = Never /\ c.upd = f.upd
                    /\ t.stage \in {"claimed", "posting", "answered"} =>
                          f.conf = t.i /\ f.state \in {"replying", "partial"} /\ (f.state = "replying" => InDoubt(f))
                    /\ t.stage \in {"begun", "resuming", "sending", "claimed", "posting", "answered"} => ~Lost(f)
                    /\ t.stage = "claimed" => c.state \in {"replying", "partial"} /\ ~Lost(c)
  BY PostTasks DEF Holder
<1> DEFINE f == file[m]
           g == file'[m]
           c == cached[tasks[d].p][m]
           e == cached'[tasks[d].p][m]
<1>1. /\ f.conf = tasks[d].i /\ f.state \in {"replying", "partial"} /\ (f.state = "replying" => InDoubt(f))
      /\ ~Lost(f) /\ (InDoubt(f) /\ f.since = Never => InDoubt(c) /\ c.since = Never /\ c.upd = f.upd)
      /\ \A a \in Of(m) : ~Early(a) => a = d
      /\ e \in {c, g}
  BY PostFirst
<1>2. Alike(g, f) /\ (InDoubt(g) <=> InDoubt(f))
  BY PostTasks, AlikeKeeps
<1>3. tasks'[d].stage = "posting" /\ tasks'[d].i = tasks[d].i /\ tasks'[d].p = tasks[d].p
      /\ Of(m)' = Of(m) /\ (Early(b)' <=> Early(b))
  BY PostTasks
<1>4. CASE Early(b)
  BY <1>3, <1>4 DEF Early
<1>5. CASE b = d
  <2> HIDE DEF f, g, c, e
  <2>1. g.state = f.state /\ g.conf = f.conf /\ g.since = f.since /\ g.upd = f.upd
    BY <1>1, <1>2 DEF Alike
  <2>2. ~Lost(g)
    BY <1>1, <2>1 DEF Lost
  <2>3. InDoubt(g) /\ g.since = Never => InDoubt(e) /\ e.since = Never /\ e.upd = g.upd
    BY <1>1, <1>2, <2>1
  <2> QED
    BY <1>1, <1>2, <1>3, <1>5, <2>1, <2>2, <2>3 DEF g, e
<1> QED
  BY <1>1, <1>3, <1>4, <1>5

LEMMA PostStale ==
    ASSUME Typed, Typed', ChannelTrue, TasksTrue, Chosen', NEW m \in Ids, NEW d, Posts(m, d), tasks[d].i + 1 =< Parts(m),
           Timed(m), Told(m), Told(m)', Holder(m), Stale(m)
    PROVE  Stale(m)'
<1> SUFFICES ASSUME Calm(m), spent'["switches"] = 0, m \in Courses
             PROVE  /\ \A p \in Procs : Alive(p)' /\ proc'[p].prepared => Dated(m, cached[p][m])'
                    /\ \A b \in Of(m)' : tasks'[b].stage = "doubtful" =>
                          Dated(m, cached[tasks[b].p][m])' \/ (1 \in Out(m)' /\ Born(m)'[1] >= now')
  BY PostTasks DEF Stale
<1>1. /\ \A p \in Procs : Alive(p) /\ proc[p].prepared => Dated(m, cached[p][m])
      /\ \A b \in Of(m) : tasks[b].stage = "doubtful" =>
            Dated(m, cached[tasks[b].p][m]) \/ (1 \in Out(m) /\ Born(m)[1] >= now)
  BY PostTasks DEF Stale
<1>2. Dated(m, file[m])' /\ now' = now /\ now \in Nat
  BY PostTasks, MessageFacts DEF Told
<1>3. ASSUME NEW p \in Procs, Alive(p)', proc'[p].prepared PROVE Dated(m, cached[p][m])'
  <2> DEFINE c == cached[p][m]
  <2>1. p = tasks[d].p
    BY <1>3 DEF Chosen, Posts
  <2>2. cached'[p][m] = file'[m] \/ (cached'[p][m] = c /\ Dated(m, c))
    BY <1>1, <1>3, <2>1, PostFirst DEF Posts, CopyDrifts
  <2>3. CASE cached'[p][m] = file'[m]
    BY <1>2, <2>3 DEF Dated, Dates
  <2>4. CASE cached'[p][m] = c /\ Dated(m, c)
    <3>1. c \in Entry /\ Fits(c) /\ ~Lost(c)
      BY <2>1, PostFirst, MessageFacts DEF Timed
    <3> QED
      BY <2>4, <3>1, PostDates DEF Dated, Dates, Lost
  <2> QED
    BY <2>2, <2>3, <2>4
<1>4. ASSUME NEW b \in Of(m)', tasks'[b].stage = "doubtful"
      PROVE  Dated(m, cached[tasks[b].p][m])' \/ (1 \in Out(m)' /\ Born(m)'[1] >= now')
  <2> DEFINE c == cached[tasks[b].p][m]
             e == cached'[tasks'[b].p][m]
  <2>1. b \in Of(m) /\ b # d /\ tasks'[b] = tasks[b] /\ tasks[b].p \in Procs
    BY <1>4, PostTasks, MessageFacts
  <2>2. e \in {c, file'[m], NoEntry} /\ c \in Entry
    BY <2>1, MessageFacts DEF Posts, CopyDrifts
  <2>3. Parts(m) = 1 /\ c.conf \in Nat /\ Out(m) \subseteq 1..1
    BY <2>2, EntryNumbers, PostShows DEF Parts
  <2>4. CASE 1 \in Out(m)' /\ Born(m)'[1] = now
    BY <1>2, <2>4
  <2>5. CASE Born(m)'[1] = Born(m)[1] /\ (1 \in Out(m)' <=> 1 \in Out(m))
    <3>1. CASE 1 \in Out(m) /\ Born(m)[1] >= now
      BY <1>2, <2>5, <3>1
    <3>2. CASE Dated(m, c)
      <4>0. Out(m)' \subseteq {1}
        BY <2>3, PostShows
      <4>1. c.conf + 1 \in Out(m)' => c.conf = 0
        BY <2>3, <4>0
      <4>2. e = c => Dated(m, cached[tasks[b].p][m])'
        BY <2>5, <3>2, <4>1 DEF Dated, Dates
      <4>3. e = NoEntry => Dated(m, cached[tasks[b].p][m])'
        BY DEF Dated, NoEntry
      <4>4. e = file'[m] => Dated(m, cached[tasks[b].p][m])'
        BY <1>2 DEF Dated, Dates
      <4> QED
        BY <2>2, <4>2, <4>3, <4>4
    <3> QED
      BY <1>1, <1>4, <2>1, <3>1, <3>2
  <2>6. 1 \in 1..Parts(m)
    BY <2>3
  <2> QED
    BY <2>4, <2>5, <2>6, PostShows
<1> QED
  BY <1>3, <1>4

LEMMA PostReplays ==
    ASSUME Typed, ChannelTrue, TasksTrue, LongMemory, NEW m \in Ids, NEW d, Posts(m, d), tasks[d].i + 1 =< Parts(m),
           Timed(m), Replays(m)
    PROVE  Replays(m)'
<1> SUFFICES ASSUME Steady(m)
             PROVE  /\ \A b \in Of(m)' : /\ tasks'[b].stage \in {"begun", "resuming", "sending"}
                                         /\ file'[m].state = "replying" /\ file'[m].next = file'[m].conf
                                         => Recent(m, file[m].conf + 1)'
                    /\ \A b \in Of(m)' : tasks'[b].stage = "claimed" => Recent(m, tasks[b].i + 1)'
                    /\ \A b \in Of(m)' : Flight(m, tasks[b])'
                    /\ visible'[m] = [i \in 1..Len(visible'[m]) |-> i]
  BY PostTasks DEF Replays
<1>1. /\ Alike(file'[m], file[m]) /\ now \in Nat /\ now' = now
      /\ NonceMemory \in Nat /\ PostTimeout \in Nat /\ PostTimeout =< NonceMemory
  <2>1. NonceMemory \in Nat /\ PostTimeout \in Nat
    BY DiscordConstants
  <2>2. PostTimeout =< NonceMemory
    BY <2>1 DEF LongMemory
  <2> QED
    BY <2>1, <2>2, PostTasks, MessageFacts
<1>2. ASSUME NEW i, Recent(m, i) PROVE Recent(m, i)'
  <2> SUFFICES ASSUME i \in Out(m)' PROVE now - Born(m)'[i] + PostTimeout =< NonceMemory
    BY <1>1 DEF Recent
  <2>1. i \in 1..Parts(m)
    BY PostShows
  <2>2. \/ Born(m)'[i] = Born(m)[i] /\ i \in Out(m)
        \/ Born(m)'[i] = now
    BY <2>1, PostShows
  <2> QED
    BY <1>1, <1>2, <2>2 DEF Recent
<1>3. ASSUME NEW b \in Of(m)', tasks'[b].stage \in {"begun", "resuming", "sending"},
             file'[m].state = "replying", file'[m].next = file'[m].conf
      PROVE  Recent(m, file[m].conf + 1)'
  <2>1. b \in Of(m) /\ tasks'[b] = tasks[b] /\ file[m].state = "replying" /\ file[m].next = file[m].conf
        /\ file'[m].conf = file[m].conf
    BY <1>1, <1>3, PostTasks DEF Alike
  <2>2. Recent(m, file[m].conf + 1)
    BY <1>3, <2>1 DEF Replays
  <2> QED
    BY <1>2, <2>1, <2>2 DEF Recent
<1>4. ASSUME NEW b \in Of(m)', tasks'[b].stage = "claimed" PROVE Recent(m, tasks[b].i + 1)'
  <2>1. b \in Of(m) /\ tasks'[b] = tasks[b]
    BY <1>4, PostTasks
  <2>2. Recent(m, tasks[b].i + 1)
    BY <1>4, <2>1 DEF Replays
  <2> QED
    BY <1>2, <2>1, <2>2 DEF Recent
<1>5. visible'[m] = [i \in 1..Len(visible'[m]) |-> i]
  BY PostShows DEF Replays
<1>6. ASSUME NEW b \in Of(m)' PROVE Flight(m, tasks[b])'
  <2>1. CASE b # d
    <3>1. b \in Of(m) /\ tasks'[b] = tasks[b]
      BY <2>1, PostTasks
    <3>2. Flight(m, tasks[b])
      BY <3>1 DEF Replays
    <3> QED
      BY <3>1, <3>2, PostShows DEF Flight
  <2>2. CASE b = d
    <3> DEFINE i == tasks[d].i + 1
    <3>1. d \in Of(m) /\ tasks[d].stage = "claimed" /\ tasks'[d].post = i /\ tasks'[d].at = now
      BY PostTasks DEF Posts
    <3>2. i \in 1..Parts(m) /\ Recent(m, i)
      BY <3>1, PostShows DEF Replays
    <3> HIDE DEF i
    <3>3. i \in Shown(m) => now - nonceAt[m][i] + PostTimeout =< NonceMemory
      BY <3>2, OutFacts DEF Recent
    <3> QED
      BY <2>2, <3>1, <3>3, PostShows DEF Flight
  <2> QED
    BY <2>1, <2>2
<1> QED
  BY <1>3, <1>4, <1>5, <1>6

LEMMA PostLedger ==
    ASSUME Typed, Typed', ChannelTrue, TasksTrue, Chosen', LongMemory, NEW m \in Ids, NEW d, Posts(m, d), Ledger(m)
    PROVE  Ledger(m)'
<1>1. tasks[d].i + 1 =< Parts(m)
  BY PostTasks DEF TasksTrue, TaskTrue, Of
<1> QED
  BY <1>1, PostTimed, PostCursor, PostOpening, PostPosters, PostStamps, PostTold, PostHolder, PostStale,
     PostReplays DEF Ledger
-------------------------------------------------------------------------------
\* A POST that arrives: its chunk is out already, and only its nonce is seen anew.
LEMMA PrefixGrows ==
    ASSUME NEW s \in Seq(Nat), s = [k \in 1..Len(s) |-> k], NEW i \in Nat \ {0}, i \notin Range(s),
           1..(i - 1) \subseteq Range(s)
    PROVE  Append(s, i) = [k \in 1..Len(Append(s, i)) |-> k]
<1> DEFINE n == Len(s)
<1>1. n \in Nat /\ DOMAIN s = 1..n /\ \A k \in 1..n : s[k] = k
  BY LenProperties
<1>2. Range(s) = 1..n
  BY <1>1 DEF Range
<1>3. i = n + 1
  <2>1. i > n
    BY <1>1, <1>2
  <2>2. i - 1 =< n
    <3>1. i = 1 \/ i - 1 \in 1..(i - 1)
      OBVIOUS
    <3> QED
      BY <1>1, <1>2, <3>1
  <2> QED
    BY <1>1, <2>1, <2>2
<1>4. /\ Append(s, i) \in Seq(Nat) /\ Len(Append(s, i)) = n + 1
      /\ \A k \in 1..n : Append(s, i)[k] = s[k]
      /\ Append(s, i)[n + 1] = i /\ DOMAIN Append(s, i) = 1..(n + 1)
  BY AppendProperties, LenProperties
<1>5. \A k \in 1..(n + 1) : Append(s, i)[k] = k
  BY <1>1, <1>3, <1>4
<1>6. Append(s, i) = [k \in 1..(n + 1) |-> Append(s, i)[k]]
  <2> DEFINE t == Append(s, i)
  <2>1. t \in Seq(Nat) /\ Len(t) = n + 1
    BY <1>4
  <2> HIDE DEF t
  <2>2. t \in [1..(n + 1) -> Nat]
    BY <2>1, LenProperties
  <2>3. t = [k \in 1..(n + 1) |-> t[k]]
    BY <2>2
  <2> QED
    BY <2>3 DEF t
<1> QED
  BY <1>4, <1>5, <1>6

LEMMA LandFacts ==
    ASSUME Typed, ChannelTrue, TasksTrue, NEW m \in Ids, NEW d, Lands(m, d), Timed(m)
    PROVE  /\ d \in Of(m) /\ Of(m)' = Of(m) /\ Out(m)' = Out(m) /\ now' = now /\ spent' = spent
           /\ file' = file /\ cached' = cached /\ proc' = proc
           /\ \A b \in Of(m) : /\ tasks'[b].i = tasks[b].i /\ tasks'[b].p = tasks[b].p
                               /\ \/ tasks'[b] = tasks[b]
                                  \/ /\ b = d /\ tasks[b].stage = "posting" /\ tasks'[b].stage = "answered"
                                     /\ tasks'[b].post = 0
           /\ \A b \in Of(m) : Early(b)' <=> Early(b)
           /\ Calm(m)' <=> Calm(m)
           /\ Steady(m)' <=> Steady(m)
           /\ \A j \in 1..Parts(m) : /\ Born(m)[j] \in Int /\ Born(m)'[j] \in Int /\ Born(m)'[j] =< now
                                     /\ Born(m)[j] =< Born(m)'[j]
           /\ tasks[d].post \in 1..Parts(m) /\ 1..(tasks[d].post - 1) \subseteq Shown(m)
           /\ Shown(m)' = Shown(m) \cup {tasks[d].post}
<1> DEFINE i == tasks[d].post
           posts == {tasks[b].post : b \in Of(m)}
           after == {tasks'[b].post : b \in Of(m)'}
<1>1. /\ d \in Of(m) /\ Of(m)' = Of(m) /\ now' = now /\ spent' = spent
      /\ file' = file /\ cached' = cached /\ proc' = proc
      /\ \A b \in Of(m) : b # d => tasks'[b] = tasks[b]
      /\ i # 0
      /\ \/ tasks'[d] = tasks[d]
         \/ /\ tasks[d].stage = "posting" /\ tasks'[d].stage = "answered"
            /\ tasks'[d].i = tasks[d].i /\ tasks'[d].p = tasks[d].p /\ tasks'[d].post = 0
      /\ (SameChannel(m) /\ nonceAt[m][i] # Never) \/ Appears(m, i)
  BY DEF Lands
<1>2. \A b \in Of(m) : /\ tasks'[b].i = tasks[b].i /\ tasks'[b].p = tasks[b].p
                       /\ \/ tasks'[b] = tasks[b]
                          \/ /\ b = d /\ tasks[b].stage = "posting" /\ tasks'[b].stage = "answered"
                             /\ tasks'[b].post = 0
  BY <1>1
<1>3. \A b \in Of(m) : Early(b)' <=> Early(b)
  BY <1>2 DEF Early
<1>4. (Calm(m)' <=> Calm(m)) /\ (Steady(m)' <=> Steady(m))
  BY <1>1, <1>3 DEF Calm, Steady, Twice
<1>5. i \in 1..Parts(m) /\ 1..(i - 1) \subseteq Shown(m)
  <2>1. tasks[d].m = m /\ d \in Tasks /\ i \in Nat
    BY <1>1, MessageFacts
  <2>2. i =< Parts(m) /\ 1..(i - 1) \subseteq Shown(m)
    BY <1>1, <2>1 DEF TasksTrue, Flying
  <2> QED
    BY <1>1, <2>1, <2>2, OutFacts
<1>6. Shown(m)' = Shown(m) \cup {i}
  <2>1. CASE SameChannel(m) /\ nonceAt[m][i] # Never
    <3>1. i \in Shown(m)
      BY <1>5, <2>1 DEF ChannelTrue
    <3> QED
      BY <2>1, <3>1 DEF SameChannel, Shown
  <2>2. CASE Appears(m, i)
    <3>1. visible[m] \in Seq(Nat) /\ i \in Nat
      BY <1>5, MessageFacts
    <3> HIDE DEF i
    <3> QED
      BY <2>2, <3>1, RangeAppend DEF Appears, Shown
  <2> QED
    BY <1>1, <2>1, <2>2
<1>7. Out(m)' = Out(m)
  <2>1. i \in posts
    BY <1>1
  <2>2. \A b \in Of(m) : tasks'[b].post = tasks[b].post \/ (tasks[b].post = i /\ tasks'[b].post = 0)
    BY <1>2
  <2>3. (after \ {0}) \cup {i} = posts \ {0}
    <3> HIDE DEF i
    <3> QED
      BY <1>1, <2>1, <2>2
  <2> HIDE DEF posts, after
  <2>4. Shown(m)' \cup (after \ {0}) = Shown(m) \cup (posts \ {0})
    BY <1>6, <2>3
  <2> QED
    BY <2>4 DEF Out, posts, after
<1>8. ASSUME NEW j \in 1..Parts(m)
      PROVE  /\ Born(m)[j] \in Int /\ Born(m)'[j] \in Int /\ Born(m)'[j] =< now
             /\ Born(m)[j] =< Born(m)'[j]
  <2>1. Born(m)[j] \in Int /\ Born(m)[j] =< now /\ now \in Nat
    BY OutFacts, MessageFacts
  <2>2. Born(m)[j] = IF j \in Shown(m) THEN nonceAt[m][j] ELSE now
    BY DEF Born
  <2>3. Born(m)'[j] = IF j \in Shown(m)' THEN nonceAt'[m][j] ELSE now
    BY <1>1 DEF Born
  <2>4. nonceAt'[m][j] = nonceAt[m][j] \/ (j = i /\ nonceAt'[m][j] = now)
    BY <1>1 DEF SameChannel, Appears
  <2> HIDE DEF i
  <2>5. Born(m)'[j] = Born(m)[j] \/ Born(m)'[j] = now
    <3>1. CASE j # i
      BY <1>6, <2>2, <2>3, <2>4, <3>1
    <3>2. CASE j = i /\ nonceAt'[m][j] = now
      BY <1>6, <2>3, <3>2
    <3>3. CASE j = i /\ nonceAt'[m][j] = nonceAt[m][j]
      <4>1. j \in Shown(m)
        <5>1. CASE SameChannel(m) /\ nonceAt[m][i] # Never
          BY <3>3, <5>1 DEF ChannelTrue
        <5>2. CASE Appears(m, i) /\ j \notin Shown(m)
          <6>1. nonceAt[m][j] = now
            BY <3>3, <5>2 DEF Appears
          <6>2. now # Never
            BY <2>1 DEF Never
          <6> QED
            BY <6>1, <6>2 DEF ChannelTrue
        <5> QED
          BY <1>1, <5>1, <5>2 DEF i
      <4> QED
        BY <1>6, <2>2, <2>3, <3>3, <4>1
    <3> QED
      BY <2>4, <3>1, <3>2, <3>3
  <2> QED
    BY <2>1, <2>5
<1> QED
  BY <1>1, <1>2, <1>3, <1>4, <1>5, <1>6, <1>7, <1>8

LEMMA LandTimed ==
    ASSUME Typed, ChannelTrue, TasksTrue, NEW m \in Ids, NEW d, Lands(m, d), Timed(m)
    PROVE  Timed(m)'
<1>1. /\ now' = now /\ now \in Nat /\ file' = file /\ cached' = cached /\ Of(m)' = Of(m)
      /\ \A b \in Of(m) : \/ tasks'[b] = tasks[b]
                          \/ tasks'[b].stage = "answered" /\ tasks'[b].post = 0
      /\ Shown(m)' = Shown(m) \cup {tasks[d].post} /\ tasks[d].post \in 1..Parts(m)
  BY LandFacts, MessageFacts
<1>2. Fits(file[m])' /\ \A p \in Procs : Fits(cached[p][m])'
  BY <1>1 DEF Timed, Fits
<1>3. \A j \in 1..Parts(m) : nonceAt'[m][j] =< now' /\ (j \in Shown(m)' => nonceAt'[m][j] # Never)
  <2>1. CASE SameChannel(m) /\ nonceAt[m][tasks[d].post] # Never
    BY <1>1, <2>1 DEF Timed, SameChannel
  <2>2. CASE Appears(m, tasks[d].post)
    BY <1>1, <2>2 DEF Timed, Appears, Never
  <2> QED
    BY <2>1, <2>2 DEF Lands
<1>4. \A b \in Of(m)' : /\ tasks'[b].post # 0 =>
                              tasks'[b].at =< now' /\ tasks'[b].stage \in {"posting", "abandoning", "done"}
                        /\ tasks'[b].stage = "posting" =>
                              tasks'[b].at =< now' /\ now' - tasks'[b].at =< PostTimeout
  BY <1>1 DEF Timed
<1> QED
  BY <1>2, <1>3, <1>4 DEF Timed

LEMMA LandStamps ==
    ASSUME Typed, ChannelTrue, TasksTrue, NEW m \in Ids, NEW d, Lands(m, d), Timed(m), Stamps(m)
    PROVE  Stamps(m)'
<1>1. /\ now' = now /\ now \in Nat /\ Of(m)' = Of(m) /\ Out(m)' = Out(m) /\ Out(m) \subseteq 1..Parts(m)
      /\ \A j \in 1..Parts(m) : Born(m)[j] \in Int /\ Born(m)'[j] \in Int /\ Born(m)[j] =< Born(m)'[j]
      /\ PostTimeout \in Nat
  BY LandFacts, OutFacts, MessageFacts, DiscordConstants
<1> SUFFICES ASSUME NEW b \in Of(m)
             PROVE  /\ tasks'[b].stage = "reserved" /\ m \in Courses /\ 1 \in Out(m) => Born(m)'[1] >= now
                    /\ tasks'[b].stage = "claimed" /\ tasks'[b].i + 2 \in Out(m) =>
                          Born(m)'[tasks'[b].i + 2] >= now
                    /\ tasks'[b].stage = "posting" /\ tasks'[b].i + 2 \in Out(m) =>
                          Born(m)'[tasks'[b].i + 2] >= tasks'[b].at
                    /\ tasks'[b].stage = "answered" /\ tasks'[b].i + 2 \in Out(m) =>
                          now - Born(m)'[tasks'[b].i + 2] =< PostTimeout
  BY <1>1 DEF Stamps
<1>2. /\ tasks[b].stage = "reserved" /\ m \in Courses /\ 1 \in Out(m) => Born(m)[1] >= now
      /\ tasks[b].stage = "claimed" /\ tasks[b].i + 2 \in Out(m) => Born(m)[tasks[b].i + 2] >= now
      /\ tasks[b].stage = "posting" /\ tasks[b].i + 2 \in Out(m) => Born(m)[tasks[b].i + 2] >= tasks[b].at
      /\ tasks[b].stage = "answered" /\ tasks[b].i + 2 \in Out(m) => now - Born(m)[tasks[b].i + 2] =< PostTimeout
      /\ tasks[b].stage = "posting" => now - tasks[b].at =< PostTimeout
      /\ tasks[b].at \in Nat
  BY MessageFacts DEF Stamps, Timed
<1>3. CASE tasks'[b] = tasks[b]
  BY <1>1, <1>2, <1>3
<1>4. CASE tasks[b].stage = "posting" /\ tasks'[b].stage = "answered" /\ tasks'[b].i = tasks[b].i
  <2> DEFINE j == tasks[b].i + 2
  <2> SUFFICES ASSUME j \in Out(m) PROVE now - Born(m)'[j] =< PostTimeout
    BY <1>4
  <2>1. Born(m)[j] >= tasks[b].at /\ now - tasks[b].at =< PostTimeout /\ tasks[b].at \in Nat
    BY <1>2, <1>4
  <2>2. Born(m)[j] \in Int /\ Born(m)'[j] \in Int /\ Born(m)[j] =< Born(m)'[j]
    BY <1>1
  <2> HIDE DEF j
  <2> QED
    BY <1>1, <2>1, <2>2
<1> QED
  BY <1>3, <1>4, LandFacts

LEMMA LandDates ==
    ASSUME Typed, ChannelTrue, TasksTrue, NEW m \in Ids, NEW d, Lands(m, d), Timed(m), NEW e \in Entry
    PROVE  /\ Doubted(m, e) /\ InDoubt(e) /\ e.conf + 1 \in Out(m) => DoubtSince(e) =< Born(m)'[e.conf + 1]
           /\ Dated(m, e) /\ e.state = "partial" /\ e.conf + 1 \in Out(m)
                 => e.since # Never /\ e.since =< Born(m)'[e.conf + 1]
<1>1. /\ e.conf \in Nat /\ e.since \in Int /\ DoubtSince(e) \in Int
      /\ e.conf + 1 \in Out(m) => e.conf + 1 \in 1..Parts(m)
  BY EntryNumbers, OutFacts
<1>2. e.conf + 1 \in Out(m) => /\ Born(m)[e.conf + 1] \in Int /\ Born(m)'[e.conf + 1] \in Int
                               /\ Born(m)[e.conf + 1] =< Born(m)'[e.conf + 1]
  BY <1>1, LandFacts
<1> QED
  BY <1>1, <1>2 DEF Doubted, Dated, Dates

LEMMA LandTold ==
    ASSUME Typed, ChannelTrue, TasksTrue, NEW m \in Ids, NEW d, Lands(m, d), Timed(m), Told(m), Holder(m), Stale(m)
    PROVE  Told(m)' /\ Holder(m)' /\ Stale(m)'
<1>1. /\ now' = now /\ now \in Nat /\ Of(m)' = Of(m) /\ Out(m)' = Out(m) /\ (Calm(m)' <=> Calm(m))
      /\ file' = file /\ cached' = cached /\ proc' = proc /\ spent' = spent
      /\ \A b \in Of(m) : /\ tasks'[b].i = tasks[b].i /\ tasks'[b].p = tasks[b].p /\ tasks[b].p \in Procs
                          /\ \/ tasks'[b] = tasks[b]
                             \/ tasks[b].stage = "posting" /\ tasks'[b].stage = "answered"
      /\ \A b \in Of(m) : Early(b)' <=> Early(b)
  BY LandFacts, MessageFacts
<1>2. /\ file[m] \in Entry /\ \A p \in Procs : cached[p][m] \in Entry
  BY MessageFacts
<1>3. /\ Doubted(m, file[m]) => Doubted(m, file[m])'
      /\ Dated(m, file[m]) => Dated(m, file[m])'
  BY <1>1, <1>2, LandDates DEF Doubted, Dated, Dates
<1>4. ASSUME NEW p \in Procs
      PROVE  /\ Doubted(m, cached[p][m]) => Doubted(m, cached[p][m])'
             /\ Dated(m, cached[p][m]) => Dated(m, cached[p][m])'
  BY <1>1, <1>2, LandDates DEF Doubted, Dated, Dates
<1>5. Told(m)'
  BY <1>1, <1>3, <1>4 DEF Told
<1>6. Holder(m)'
  <2> SUFFICES ASSUME Calm(m), NEW b \in Of(m)
               PROVE  LET f == file[m]  c == cached[tasks[b].p][m]  t == tasks'[b] IN
                      /\ ~Early(b)' /\ t.stage # "done" /\ InDoubt(f) /\ f.since = Never =>
                            InDoubt(c) /\ c.since = Never /\ c.upd = f.upd
                      /\ t.stage \in {"claimed", "posting", "answered"} =>
                            f.conf = t.i /\ f.state \in {"replying", "partial"} /\ (f.state = "replying" => InDoubt(f))
                      /\ t.stage \in {"begun", "resuming", "sending", "claimed", "posting", "answered"} => ~Lost(f)
                      /\ t.stage = "claimed" => c.state \in {"replying", "partial"} /\ ~Lost(c)
    BY <1>1 DEF Holder
  <2> QED
    BY <1>1 DEF Holder
<1>7. Stale(m)'
  <2> SUFFICES ASSUME Calm(m), spent["switches"] = 0, m \in Courses
               PROVE  /\ \A p \in Procs : Alive(p)' /\ proc'[p].prepared => Dated(m, cached[p][m])'
                      /\ \A b \in Of(m)' : tasks'[b].stage = "doubtful" =>
                            Dated(m, cached[tasks[b].p][m])' \/ (1 \in Out(m)' /\ Born(m)'[1] >= now')
    BY <1>1 DEF Stale
  <2>1. \A p \in Procs : Alive(p)' /\ proc'[p].prepared => Dated(m, cached[p][m])'
    BY <1>1, <1>4 DEF Stale, Alive
  <2>2. ASSUME NEW b \in Of(m)', tasks'[b].stage = "doubtful"
        PROVE  Dated(m, cached[tasks[b].p][m])' \/ (1 \in Out(m)' /\ Born(m)'[1] >= now')
    <3>1. b \in Of(m) /\ tasks'[b] = tasks[b] /\ tasks[b].p \in Procs
      BY <1>1, <2>2
    <3>2. Dated(m, cached[tasks[b].p][m]) \/ (1 \in Out(m) /\ Born(m)[1] >= now)
      BY <2>2, <3>1 DEF Stale
    <3>3. 1 \in Out(m) /\ Born(m)[1] >= now => Born(m)'[1] >= now
      <4>1. 1 \in Out(m) => /\ Born(m)[1] \in Int /\ Born(m)'[1] \in Int /\ Born(m)[1] =< Born(m)'[1]
        BY LandFacts, OutFacts
      <4> QED
        BY <1>1, <4>1
    <3>4. Dated(m, cached[tasks[b].p][m]) => Dated(m, cached[tasks[b].p][m])'
      BY <1>1, <1>4, <3>1 DEF Dated, Dates
    <3> QED
      BY <1>1, <3>2, <3>3, <3>4
  <2> QED
    BY <2>1, <2>2
<1> QED
  BY <1>5, <1>6, <1>7

LEMMA LandReplays ==
    ASSUME Typed, ChannelTrue, TasksTrue, LongMemory, NEW m \in Ids, NEW d, Lands(m, d), Timed(m), Replays(m)
    PROVE  Replays(m)'
<1> DEFINE i == tasks[d].post
<1>1. /\ now' = now /\ now \in Nat /\ Of(m)' = Of(m) /\ Out(m)' = Out(m) /\ (Steady(m)' <=> Steady(m))
      /\ file' = file /\ cached' = cached /\ d \in Of(m)
      /\ \A b \in Of(m) : /\ tasks'[b].i = tasks[b].i
                          /\ \/ tasks'[b] = tasks[b]
                             \/ tasks'[b].stage = "answered" /\ tasks'[b].post = 0
      /\ i \in 1..Parts(m) /\ 1..(i - 1) \subseteq Shown(m) /\ Shown(m)' = Shown(m) \cup {i}
      /\ PostTimeout \in Nat /\ NonceMemory \in Nat
  BY LandFacts, MessageFacts, DiscordConstants
<1>2. PostTimeout =< NonceMemory
  BY <1>1 DEF LongMemory
<1> SUFFICES ASSUME Steady(m)
             PROVE  /\ \A b \in Of(m) : /\ tasks'[b].stage \in {"begun", "resuming", "sending"}
                                        /\ file[m].state = "replying" /\ file[m].next = file[m].conf
                                        => Recent(m, file[m].conf + 1)'
                    /\ \A b \in Of(m) : tasks'[b].stage = "claimed" => Recent(m, tasks[b].i + 1)'
                    /\ \A b \in Of(m) : Flight(m, tasks[b])'
                    /\ visible'[m] = [k \in 1..Len(visible'[m]) |-> k]
  BY <1>1 DEF Replays
<1>3. ASSUME NEW j, Recent(m, j), j \in Out(m) PROVE now - Born(m)'[j] + PostTimeout =< NonceMemory
  <2>1. /\ Born(m)[j] \in Int /\ Born(m)'[j] \in Int /\ Born(m)[j] =< Born(m)'[j]
    BY <1>3, LandFacts, OutFacts
  <2>2. now - Born(m)[j] + PostTimeout =< NonceMemory
    BY <1>3 DEF Recent
  <2> QED
    BY <1>1, <2>1, <2>2
<1>4. ASSUME NEW b \in Of(m), tasks'[b].stage \in {"begun", "resuming", "sending"},
             file[m].state = "replying", file[m].next = file[m].conf
      PROVE  Recent(m, file[m].conf + 1)'
  <2>1. Recent(m, file[m].conf + 1)
    BY <1>1, <1>4 DEF Replays
  <2> QED
    BY <1>1, <1>3, <2>1 DEF Recent
<1>5. ASSUME NEW b \in Of(m), tasks'[b].stage = "claimed" PROVE Recent(m, tasks[b].i + 1)'
  <2>1. Recent(m, tasks[b].i + 1)
    BY <1>1, <1>5 DEF Replays
  <2> QED
    BY <1>1, <1>3, <2>1 DEF Recent
<1>6. ASSUME NEW b \in Of(m) PROVE Flight(m, tasks[b])'
  <2> DEFINE k == tasks[b].post
             a == tasks[b].at
  <2>1. CASE tasks'[b].post = 0
    BY <2>1 DEF Flight
  <2>2. CASE tasks'[b] = tasks[b] /\ k # 0
    <3>1. a =< now /\ a \in Nat /\ k \in Nat
      BY <2>2, MessageFacts DEF Timed
    <3>2. k \in Shown(m) => a - nonceAt[m][k] + PostTimeout =< NonceMemory
      BY <2>2 DEF Replays, Flight
    <3> SUFFICES ASSUME k \in Shown(m)' PROVE a - nonceAt'[m][k] + PostTimeout =< NonceMemory
      BY <2>2 DEF Flight
    <3>3. k \in 1..Parts(m)
      BY <1>1, <3>1, OutFacts
    <3> HIDE DEF a, k, i
    <3>4. CASE nonceAt'[m][k] = now
      BY <1>1, <1>2, <3>1, <3>4
    <3>5. CASE nonceAt'[m][k] = nonceAt[m][k] /\ k \in Shown(m)
      BY <3>2, <3>5
    <3>6. CASE Appears(m, i)
      <4>1. k = i => nonceAt'[m][k] = now
        BY <3>3, <3>6 DEF Appears
      <4>2. k # i => nonceAt'[m][k] = nonceAt[m][k] /\ k \in Shown(m)
        BY <1>1, <3>3, <3>6 DEF Appears
      <4> QED
        BY <3>4, <3>5, <4>1, <4>2
    <3>7. CASE SameChannel(m)
      <4>1. Shown(m)' = Shown(m)
        BY <3>7 DEF SameChannel, Shown
      <4> QED
        BY <3>5, <3>7, <4>1 DEF SameChannel
    <3> QED
      BY <3>6, <3>7 DEF Lands, i
  <2> QED
    BY <1>1, <2>1, <2>2
<1>7. visible'[m] = [k \in 1..Len(visible'[m]) |-> k]
  <2>1. CASE SameChannel(m)
    BY <2>1 DEF SameChannel, Replays
  <2>2. CASE Appears(m, i)
    <3> DEFINE s == visible[m]
               n == nonceAt[m][i]
               a == tasks[d].at
    <3>1. s \in Seq(Nat) /\ n \in Int /\ a \in Nat
      BY <1>1, MessageFacts
    <3>2. i \notin Range(s)
      <4> SUFFICES ASSUME i \in Shown(m) PROVE FALSE
        BY DEF Shown
      <4>1. n # Never
        BY <1>1 DEF Timed
      <4>2. a - n + PostTimeout =< NonceMemory
        BY <1>1 DEF Replays, Flight, Lands
      <4>3. now - a =< PostTimeout
        BY DEF Lands
      <4>4. ~(n # Never /\ now - n =< NonceMemory)
        BY <2>2 DEF Appears
      <4> HIDE DEF n, a
      <4> QED
        BY <1>1, <3>1, <4>1, <4>2, <4>3, <4>4
    <3>3. 1..(i - 1) \subseteq Range(s) /\ i \in Nat \ {0}
      BY <1>1 DEF Shown
    <3>4. s = [k \in 1..Len(s) |-> k] /\ visible'[m] = Append(s, i)
      BY <2>2 DEF Appears, Replays
    <3> HIDE DEF i, s, n, a
    <3>5. Append(s, i) = [k \in 1..Len(Append(s, i)) |-> k]
      BY <3>1, <3>2, <3>3, <3>4, PrefixGrows
    <3> QED
      BY Zenon, <3>4, <3>5
  <2> QED
    BY <2>1, <2>2 DEF Lands
<1> QED
  BY <1>4, <1>5, <1>6, <1>7

LEMMA LandLedger ==
    ASSUME Typed, ChannelTrue, TasksTrue, LongMemory, NEW m \in Ids, NEW d, Lands(m, d), Ledger(m)
    PROVE  Ledger(m)'
<1>1. /\ Of(m)' = Of(m) /\ Out(m)' = Out(m) /\ file' = file /\ cached' = cached
      /\ \A b \in Of(m) : /\ tasks'[b].i = tasks[b].i /\ tasks'[b].p = tasks[b].p
                          /\ \/ tasks'[b] = tasks[b]
                             \/ tasks[b].stage = "posting" /\ tasks'[b].stage = "answered"
  BY LandFacts DEF Ledger
<1>2. Cursor(m)'
  BY <1>1 DEF Ledger, Cursor, Openings
<1>3. Opening(m)'
  <2> SUFFICES ASSUME NEW b \in Of(m), m \in Messages, tasks'[b].stage \in Openings
               PROVE  /\ file[m].state \in {"reserved", "partial"} /\ Out(m) = {}
                      /\ \A p \in Procs : cached[p][m].state \in {"none", "reserved", "partial"}
                      /\ \A a \in Of(m) : a # b => tasks'[a].stage \in {"queued", "admitted", "abandoning", "done"}
    BY <1>1 DEF Opening
  <2>1. tasks[b].stage \in Openings
    BY <1>1 DEF Openings
  <2>2. /\ file[m].state \in {"reserved", "partial"} /\ Out(m) = {}
        /\ \A p \in Procs : cached[p][m].state \in {"none", "reserved", "partial"}
        /\ \A a \in Of(m) : a # b => tasks[a].stage \in {"queued", "admitted", "abandoning", "done"}
    BY <2>1 DEF Ledger, Opening
  <2> QED
    BY <1>1, <2>2
<1>4. Posters(m)'
  <2>1. \A b \in Of(m) : \A j : Past(tasks[b], j) => Past(tasks'[b], j)
    BY <1>1 DEF Past
  <2> QED
    BY <1>1, <2>1 DEF Ledger, Posters
<1> QED
  BY <1>2, <1>3, <1>4, LandTimed, LandStamps, LandTold, LandReplays DEF Ledger

-------------------------------------------------------------------------------
\* A task that writes the entry.
LEMMA EnterFacts ==
    ASSUME Typed, NEW m \in Ids, NEW d, NEW t, Enters(m, d, t), ~Early(d) => t.stage \notin {"queued", "admitted", "doubtful"}
    PROVE  /\ d \in Of(m) /\ Of(m)' = Of(m) /\ tasks'[d] = t /\ t.p = tasks[d].p /\ t.p \in Procs
           /\ \A b \in Of(m) : b # d => tasks'[b] = tasks[b]
           /\ Out(m)' = Out(m) /\ Born(m)' = Born(m) /\ visible'[m] = visible[m]
           /\ Shown(m)' = Shown(m) /\ nonceAt'[m] = nonceAt[m] /\ t.post = tasks[d].post /\ t.at = tasks[d].at
           /\ \A b \in Of(m) : tasks'[b].post = tasks[b].post /\ tasks'[b].at = tasks[b].at
           /\ now' = now /\ spent' = spent /\ (Steady(m)' <=> Steady(m)) /\ (Calm(m)' => Calm(m))
           /\ cached'[t.p][m] = file'[m]
           /\ \A q \in Procs : q # t.p => cached'[q][m] = cached[q][m] /\ proc'[q] = proc[q]
           /\ \A q \in Procs : cached'[q][m] \in {cached[q][m], file'[m]}
<1>1. /\ d \in Of(m) /\ Of(m)' = Of(m) /\ tasks'[d] = t /\ t.p = tasks[d].p
      /\ \A b \in Of(m) : b # d => tasks'[b] = tasks[b]
      /\ visible'[m] = visible[m] /\ nonceAt'[m] = nonceAt[m] /\ now' = now /\ spent' = spent
      /\ t.post = tasks[d].post /\ t.at = tasks[d].at
      /\ cached'[t.p][m] = file'[m]
      /\ \A q \in Procs : q # t.p => cached'[q][m] = cached[q][m] /\ proc'[q] = proc[q]
  BY DEF Enters, SameChannel
<1>6. \A b \in Of(m) : tasks'[b].post = tasks[b].post /\ tasks'[b].at = tasks[b].at
  BY <1>1
<1>7. Shown(m)' = Shown(m) /\ Out(m)' = Out(m) /\ Born(m)' = Born(m)
  BY <1>1, <1>6, OutStays DEF Enters
<1>2. t.p \in Procs
  BY <1>1, MessageFacts
<1>3. Steady(m)' <=> Steady(m)
  BY <1>1 DEF Steady, Twice
<1>4. \A b \in Of(m) : ~Early(b) => ~Early(b)'
  BY <1>1 DEF Early
<1>5. Calm(m)' => Calm(m)
  BY <1>1, <1>4 DEF Calm
<1> QED
  BY <1>1, <1>2, <1>3, <1>5, <1>6, <1>7

\* A POST on its way is not touched by what is written.
LEMMA EnterFlights ==
    ASSUME Typed, NEW m \in Ids, NEW d, NEW t, Enters(m, d, t), Replays(m), Steady(m),
           ~Early(d) => t.stage \notin {"queued", "admitted", "doubtful"}
    PROVE  \A b \in Of(m)' : Flight(m, tasks[b])'
  BY EnterFacts DEF Flight, Replays

LEMMA EnterTimed ==
    ASSUME Typed, NEW m \in Ids, NEW d, NEW t, Enters(m, d, t), t.stage # "posting", Timed(m),
           ~Early(d) => t.stage \notin {"queued", "admitted", "doubtful"},
           tasks[d].stage \in {"posting", "abandoning", "done"} => t.stage \in {"abandoning", "done"}
    PROVE  Timed(m)'
<1>1. Fits(file[m])' /\ \A p \in Procs : Fits(cached[p][m])'
  BY EnterFacts DEF Enters, Timed, Fits
<1>2. \A b \in Of(m)' : tasks'[b].stage = "posting" => b \in Of(m) /\ tasks'[b] = tasks[b]
  BY EnterFacts
<1>3. ASSUME NEW b \in Of(m)', tasks'[b].post # 0
      PROVE  tasks'[b].at =< now' /\ tasks'[b].stage \in {"posting", "abandoning", "done"}
  <2>1. /\ b \in Of(m) /\ tasks[b].post # 0 /\ tasks'[b].at = tasks[b].at /\ now' = now
        /\ tasks'[b] = tasks[b] \/ (b = d /\ tasks'[b] = t)
    BY <1>3, EnterFacts
  <2>2. tasks[b].at =< now /\ tasks[b].stage \in {"posting", "abandoning", "done"}
    BY <2>1 DEF Timed
  <2> QED
    BY <2>1, <2>2
<1> QED
  BY <1>1, <1>2, <1>3, EnterFacts DEF Timed

\* What a write leaves of the copies: the doubts of the others, and what the
\* prepared ones say.
LEMMA EnterCopies ==
    ASSUME Typed, NEW m \in Ids, NEW d, NEW t, Enters(m, d, t), Told(m), Stale(m), Calm(m)',
           ~Early(d) => t.stage \notin {"queued", "admitted", "doubtful"},
           Doubted(m, file'[m]), Dated(m, file'[m])
    PROVE  /\ Doubted(m, file[m])' /\ Dated(m, file[m])' /\ \A p \in Procs : Doubted(m, cached[p][m])'
           /\ Stale(m)'
<1>1. /\ Born(m)' = Born(m) /\ Out(m)' = Out(m) /\ now' = now /\ Calm(m)
      /\ \A q \in Procs : cached'[q][m] \in {cached[q][m], file'[m]}
  BY EnterFacts
<1>2. Doubted(m, file[m])' /\ Dated(m, file[m])'
  BY <1>1 DEF Doubted, Dated, Dates
<1>3. \A p \in Procs : Doubted(m, cached[p][m])'
  BY <1>1 DEF Told, Doubted, Dates
<1>4. ASSUME spent'["switches"] = 0, m \in Courses, NEW p \in Procs, Alive(p)', proc'[p].prepared
      PROVE  Dated(m, cached[p][m])'
  <2>1. CASE p = t.p
    BY <1>2, <2>1, EnterFacts DEF Dated, Dates
  <2>2. CASE p # t.p
    <3>1. Alive(p) /\ proc[p].prepared /\ cached'[p][m] = cached[p][m] /\ spent["switches"] = 0
      BY <1>4, <2>2, EnterFacts DEF Alive
    <3>2. Dated(m, cached[p][m])
      BY <1>1, <1>4, <3>1 DEF Stale
    <3> QED
      BY <1>1, <3>1, <3>2 DEF Dated, Dates
  <2> QED
    BY <2>1, <2>2
<1>5. ASSUME spent'["switches"] = 0, m \in Courses, NEW b \in Of(m)', tasks'[b].stage = "doubtful"
      PROVE  Dated(m, cached[tasks[b].p][m])' \/ (1 \in Out(m)' /\ Born(m)'[1] >= now')
  <2>1. b \in Of(m) /\ (b # d => tasks'[b] = tasks[b]) /\ tasks'[d] = t /\ t.p \in Procs /\ tasks[b].p \in Procs
    BY EnterFacts, MessageFacts
  <2>2. CASE b = d
    BY <1>2, <2>1, <2>2, EnterFacts DEF Dated, Dates
  <2>3. CASE b # d
    <3>1. Dated(m, cached[tasks[b].p][m]) \/ (1 \in Out(m) /\ Born(m)[1] >= now)
      BY <1>1, <1>5, <2>1, <2>3, EnterFacts DEF Stale
    <3>2. cached'[tasks[b].p][m] \in {cached[tasks[b].p][m], file'[m]} /\ tasks'[b].p = tasks[b].p
      BY <1>1, <2>1, <2>3
    <3> QED
      BY <1>1, <1>2, <3>1, <3>2 DEF Dated, Dates
  <2> QED
    BY <2>2, <2>3
<1> QED
  BY <1>2, <1>3, <1>4, <1>5 DEF Stale

LEMMA ReservesLedger ==
    ASSUME Typed, RecordsTrue, TasksTrue, NEW m \in Ids, NEW d, NEW t, Reserves(m, d, t), Ledger(m)
    PROVE  Ledger(m)'
<1> DEFINE g == file'[m]
<1>1. Enters(m, d, t) /\ Early(d) /\ t.stage = "reserved" /\ t.i = tasks[d].i
      /\ file[m].state = "none" /\ g.state = "reserved" /\ g.conf = 0
  BY DEF Reserves
<1>2. /\ d \in Of(m) /\ Of(m)' = Of(m) /\ tasks'[d] = t /\ t.p = tasks[d].p /\ t.p \in Procs
      /\ \A b \in Of(m) : b # d => tasks'[b] = tasks[b]
      /\ Out(m)' = Out(m) /\ visible'[m] = visible[m] /\ now' = now
      /\ (Steady(m)' <=> Steady(m)) /\ (Calm(m)' => Calm(m))
      /\ \A q \in Procs : cached'[q][m] \in {cached[q][m], g}
  BY <1>1, EnterFacts
<1>3. file[m].conf = 0
  BY <1>1 DEF RecordsTrue, True
<1>4. /\ \A p \in Procs : cached[p][m].conf =< 0 /\ cached[p][m].state = "none"
      /\ \A b \in Of(m) : tasks[b].i =< 0 /\ tasks[b].stage \in {"queued", "admitted", "doubtful", "done"}
      /\ Out(m) = {}
  BY <1>1, <1>3 DEF Ledger, Cursor
<1>5. \A b \in Of(m) : tasks[b].stage = "doubtful" => m \in Courses
  BY DEF TasksTrue, TaskTrue, Of
<1>6. Timed(m)'
  BY <1>1, EnterTimed DEF Ledger, Early
<1>7. Cursor(m)'
  BY <1>1, <1>2, <1>4 DEF Cursor, Openings
<1>8. Opening(m)'
  BY <1>1, <1>2, <1>4, <1>5, DiscordConstants DEF Opening, Openings
<1>9. Posters(m)' /\ Stamps(m)'
  BY <1>2, <1>4 DEF Posters, Stamps
<1>10. Told(m)' /\ Stale(m)'
  BY <1>1, <1>2, <1>4 DEF Told, Stale, Doubted, Dated, Early
<1>11. Holder(m)'
  BY <1>1, <1>2, <1>4 DEF Holder, InDoubt, Early
<1>12. Replays(m)'
  <2>1. Steady(m) => \A b \in Of(m)' : Flight(m, tasks[b])'
    BY <1>1, EnterFlights DEF Ledger
  <2> QED
    BY <1>2, <1>4, <2>1 DEF Ledger, Replays, Recent
<1> QED
  BY <1>6, <1>7, <1>8, <1>9, <1>10, <1>11, <1>12 DEF Ledger

LEMMA ResumesLedger ==
    ASSUME Typed, NEW m \in Ids, NEW d, NEW t, Resumes(m, d, t), Ledger(m)
    PROVE  Ledger(m)'
<1> DEFINE f == file[m]
           g == file'[m]
<1>1. /\ Enters(m, d, t) /\ tasks[d].stage \in {"queued", "admitted", "doubtful", "reserved", "finished"}
      /\ t.stage \in {"begun", "resuming", "sending", "done"} /\ t.i =< f.conf
      /\ m \in Messages => tasks[d].stage = "finished" \/ Resumable(m)
      /\ f.state \in {"reserved", "replying", "partial"}
      /\ g.state = "replying" /\ g.conf = f.conf /\ g.next = f.conf
      /\ Steady(m) => Recent(m, f.conf + 1)
  BY DEF Resumes
<1>2. /\ d \in Of(m) /\ Of(m)' = Of(m) /\ tasks'[d] = t /\ t.p = tasks[d].p /\ t.p \in Procs
      /\ \A b \in Of(m) : b # d => tasks'[b] = tasks[b]
      /\ Out(m)' = Out(m) /\ Born(m)' = Born(m) /\ visible'[m] = visible[m] /\ now' = now
      /\ (Steady(m)' <=> Steady(m)) /\ (Calm(m)' => Calm(m))
      /\ \A q \in Procs : cached'[q][m] \in {cached[q][m], g}
  BY <1>1, EnterFacts
<1>3. ~InDoubt(g) /\ f.conf \in Nat
  <2>1. f.conf \in Nat
    BY MessageFacts, EntryNumbers
  <2> QED
    BY <1>1, <2>1 DEF InDoubt
<1>4. Timed(m)'
  BY <1>1, EnterTimed DEF Ledger
<1>5. Cursor(m)'
  <2>1. /\ \A p \in Procs : cached[p][m].conf =< f.conf
        /\ \A b \in Of(m) : tasks[b].i =< f.conf
        /\ Out(m) \subseteq 1..(f.conf + 1)
    BY <1>1 DEF Ledger, Cursor
  <2> HIDE DEF f, g
  <2>2. \A p \in Procs : cached'[p][m].conf =< g.conf
    BY <1>1, <1>2, <1>3, <2>1
  <2>3. \A b \in Of(m)' : tasks'[b].i =< g.conf
    BY <1>1, <1>2, <2>1
  <2> QED
    BY <1>1, <1>2, <2>1, <2>2, <2>3 DEF Cursor, g
<1>6. Opening(m)'
  <2> SUFFICES ASSUME NEW b \in Of(m)', m \in Messages, tasks'[b].stage \in Openings PROVE FALSE
    BY DEF Opening
  <2>1. b # d /\ b \in Of(m) /\ tasks[b].stage \in Openings
    BY <1>1, <1>2 DEF Openings
  <2>2. ~Resumable(m) /\ tasks[d].stage \in {"queued", "admitted", "abandoning", "done"}
    BY <1>2, <2>1 DEF Ledger, Opening, Resumable
  <2> QED
    BY <1>1, <2>2
<1>7. Posters(m)'
  BY <1>1, <1>2 DEF Ledger, Posters, Past
<1>8. Stamps(m)'
  BY <1>1, <1>2 DEF Ledger, Stamps
<1>9. ASSUME Calm(m)' PROVE /\ Out(m) = {} /\ ~Early(d)' /\ \A b \in Of(m) : b # d => Early(b)
  <2>1. ~Early(d)' /\ \A b \in Of(m) : ~Early(b) => ~Early(b)'
    BY <1>1, <1>2 DEF Early
  <2>2. \A b \in Of(m) : b # d => Early(b)
    BY <1>2, <1>9, <2>1 DEF Calm
  <2>3. ~Early(d)
    <3>1. PICK b \in Of(m) : ~Early(b)
      BY <1>1, <1>2, <1>9 DEF Ledger, Told
    <3> QED
      BY <2>2, <3>1
  <2>4. \A b \in Of(m) : tasks[b].stage \in {"queued", "admitted", "doubtful", "reserved", "finished"}
    BY <1>1, <2>2 DEF Early
  <2>5. Out(m) = {}
    BY <2>4 DEF Ledger, Posters, Past
  <2> QED
    BY <2>1, <2>2, <2>5
<1>10. Told(m)'
  <2> SUFFICES ASSUME Calm(m)'
               PROVE  /\ Doubted(m, file[m])' /\ Dated(m, file[m])'
                      /\ g.state = "replying" /\ g.conf + 1 \in Out(m)' => InDoubt(g)
                      /\ \A p \in Procs : Doubted(m, cached[p][m])'
                      /\ ~(\A b \in Of(m)' : Early(b)')
    BY DEF Told
  <2> QED
    BY <1>2, <1>9 DEF Doubted, Dated
<1>11. Stale(m)'
  BY <1>2, <1>9 DEF Stale, Dated
<1>12. Holder(m)'
  <2> SUFFICES ASSUME Calm(m)', NEW b \in Of(m)'
               PROVE  /\ ~InDoubt(g)
                      /\ tasks'[b].stage \notin {"claimed", "posting", "answered"}
                      /\ ~Lost(g)
    BY DEF Holder
  <2>1. b # d => tasks'[b].stage \in {"queued", "admitted", "doubtful"}
    BY <1>2, <1>9 DEF Early
  <2> QED
    BY <1>1, <1>2, <1>3, <2>1 DEF Lost
<1>13. Replays(m)'
  <2> SUFFICES ASSUME Steady(m)
               PROVE  /\ Recent(m, file[m].conf + 1)'
                      /\ \A b \in Of(m)' : tasks'[b].stage = "claimed" => Recent(m, tasks[b].i + 1)'
                      /\ visible'[m] = [i \in 1..Len(visible'[m]) |-> i]
    <3>1. Steady(m) => \A b \in Of(m)' : Flight(m, tasks[b])'
      BY <1>1, EnterFlights DEF Ledger, Early
    <3> QED
      BY <1>2, <3>1 DEF Replays
  <2>1. Recent(m, file[m].conf + 1)'
    BY <1>1, <1>2 DEF Recent
  <2>2. \A b \in Of(m)' : tasks'[b].stage = "claimed" => Recent(m, tasks[b].i + 1)'
    BY <1>1, <1>2 DEF Ledger, Replays, Recent
  <2> QED
    BY <1>2, <2>1, <2>2 DEF Ledger, Replays
<1> QED
  BY <1>4, <1>5, <1>6, <1>7, <1>8, <1>10, <1>11, <1>12, <1>13 DEF Ledger

LEMMA ClaimsLedger ==
    ASSUME Typed, NEW m \in Ids, NEW d, NEW t, Claims(m, d, t), Ledger(m)
    PROVE  Ledger(m)'
<1> DEFINE f == file[m]
           g == file'[m]
<1>1. /\ Enters(m, d, t) /\ tasks[d].stage = "sending" /\ t.stage = "claimed" /\ t.i = tasks[d].i
      /\ f.state = "replying" /\ f.conf = t.i /\ f.next = t.i
      /\ g.state = "replying" /\ g.conf = t.i /\ g.next = t.i + 1
  BY DEF Claims
<1>2. /\ d \in Of(m) /\ Of(m)' = Of(m) /\ tasks'[d] = t /\ t.p = tasks[d].p /\ t.p \in Procs
      /\ \A b \in Of(m) : b # d => tasks'[b] = tasks[b]
      /\ Out(m)' = Out(m) /\ Born(m)' = Born(m) /\ visible'[m] = visible[m] /\ now' = now
      /\ (Steady(m)' <=> Steady(m)) /\ (Calm(m)' => Calm(m)) /\ cached'[t.p][m] = g
      /\ \A q \in Procs : cached'[q][m] \in {cached[q][m], g}
  BY <1>1, EnterFacts
<1>3. InDoubt(g) /\ ~InDoubt(f) /\ f.conf \in Nat
  <2>1. f.conf \in Nat
    BY MessageFacts, EntryNumbers
  <2> QED
    BY <1>1, <2>1 DEF InDoubt
<1>4. Timed(m)'
  BY <1>1, EnterTimed DEF Ledger
<1>5. Cursor(m)' /\ Out(m) \subseteq 1..(t.i + 1)
  <2>1. /\ \A p \in Procs : cached[p][m].conf =< f.conf
        /\ \A b \in Of(m) : tasks[b].i =< f.conf
        /\ Out(m) \subseteq 1..(f.conf + 1)
    BY <1>1 DEF Ledger, Cursor
  <2> HIDE DEF f, g
  <2>2. \A p \in Procs : cached'[p][m].conf =< g.conf
    BY <1>1, <1>2, <1>3, <2>1
  <2>3. \A b \in Of(m)' : tasks'[b].i =< g.conf
    BY <1>1, <1>2, <2>1
  <2> QED
    BY <1>1, <1>2, <2>1, <2>2, <2>3 DEF Cursor, g
<1>6. Opening(m)'
  <2> SUFFICES ASSUME NEW b \in Of(m)', m \in Messages, tasks'[b].stage \in Openings PROVE FALSE
    BY DEF Opening
  <2>1. b # d /\ b \in Of(m) /\ tasks[b].stage \in Openings
    BY <1>1, <1>2 DEF Openings
  <2> QED
    BY <1>1, <1>2, <2>1 DEF Ledger, Opening
<1>7. Posters(m)'
  BY <1>1, <1>2 DEF Ledger, Posters, Past
<1>8. Stamps(m)'
  <2>1. t.i + 2 \notin Out(m)
    BY <1>1, <1>3, <1>5
  <2> QED
    BY <1>1, <1>2, <2>1 DEF Ledger, Stamps
<1>9. ASSUME Calm(m)' PROVE f.conf + 1 \notin Out(m) /\ \A b \in Of(m) : b # d => Early(b)
  <2>1. ~Early(d) /\ Calm(m)
    BY <1>1, <1>2, <1>9 DEF Early
  <2>2. f.conf + 1 \notin Out(m)
    BY <1>1, <1>3, <2>1 DEF Ledger, Told
  <2> QED
    BY <1>2, <2>1, <2>2 DEF Calm
<1>10. Told(m)'
  <2> SUFFICES ASSUME Calm(m)'
               PROVE  /\ Doubted(m, file[m])' /\ Dated(m, file[m])' /\ InDoubt(g)
                      /\ \A p \in Procs : Doubted(m, cached[p][m])'
                      /\ ~(\A b \in Of(m)' : Early(b)')
    BY DEF Told
  <2>1. Doubted(m, g) /\ Dated(m, g)
    BY <1>1, <1>9 DEF Doubted, Dated
  <2>2. ~(\A b \in Of(m)' : Early(b)')
    BY <1>1, <1>2 DEF Early
  <2> QED
    BY <1>1, <1>3, <2>1, <2>2, EnterCopies DEF Ledger
<1>11. Stale(m)'
  <2> SUFFICES ASSUME Calm(m)' PROVE Stale(m)'
    BY DEF Stale
  <2>1. Doubted(m, g) /\ Dated(m, g)
    BY <1>1, <1>9 DEF Doubted, Dated
  <2> QED
    BY <1>1, <2>1, EnterCopies DEF Ledger
<1>12. Holder(m)'
  <2> SUFFICES ASSUME Calm(m)', NEW b \in Of(m)'
               PROVE  LET c == cached'[tasks'[b].p][m] IN
                      /\ ~Early(b)' => c = g
                      /\ tasks'[b].stage \in {"claimed", "posting", "answered"} => g.conf = tasks'[b].i
                      /\ InDoubt(g) /\ g.state = "replying" /\ ~Lost(g)
    BY DEF Holder, Early
  <2>1. b # d => tasks'[b].stage \in {"queued", "admitted", "doubtful"}
    BY <1>2, <1>9 DEF Early
  <2> QED
    BY <1>1, <1>2, <1>3, <2>1 DEF Lost, Early
<1>13. Replays(m)'
  <2> SUFFICES ASSUME Steady(m)
               PROVE  /\ g.next # g.conf
                      /\ \A b \in Of(m)' : tasks'[b].stage = "claimed" => Recent(m, tasks[b].i + 1)'
                      /\ visible'[m] = [i \in 1..Len(visible'[m]) |-> i]
    <3>1. Steady(m) => \A b \in Of(m)' : Flight(m, tasks[b])'
      BY <1>1, EnterFlights DEF Ledger, Early
    <3> QED
      BY <1>2, <3>1 DEF Replays
  <2>1. Recent(m, t.i + 1)
    BY <1>1, <1>2 DEF Ledger, Replays
  <2>2. \A b \in Of(m)' : tasks'[b].stage = "claimed" => Recent(m, tasks'[b].i + 1)
    BY <1>1, <1>2, <2>1 DEF Ledger, Replays
  <2>3. g.next # g.conf
    BY <1>1, <1>3
  <2> QED
    BY <1>2, <2>2, <2>3 DEF Ledger, Replays, Recent
<1> QED
  BY <1>4, <1>5, <1>6, <1>7, <1>8, <1>10, <1>11, <1>12, <1>13 DEF Ledger

LEMMA ConfirmsLedger ==
    ASSUME Typed, ChannelTrue, TasksTrue, LongMemory, NEW m \in Ids, NEW d, NEW t, Confirms(m, d, t), Ledger(m)
    PROVE  Ledger(m)'
<1> DEFINE f == file[m]
           g == file'[m]
           i == tasks[d].i
<1>1. /\ Enters(m, d, t) /\ tasks[d].stage = "answered"
      /\ (t.stage = "done" /\ t.i = 0) \/ (t.stage \in {"sending", "abandoning"} /\ t.i = i + 1)
      /\ \/ g.state = "completed"
         \/ /\ f.state \in {"replying", "partial"} /\ f.conf =< i + 1
            /\ g.state = "replying" /\ g.next = g.conf /\ g.conf = i + 1
  BY DEF Confirms
<1>2. /\ d \in Of(m) /\ Of(m)' = Of(m) /\ tasks'[d] = t /\ t.p = tasks[d].p /\ t.p \in Procs
      /\ \A b \in Of(m) : b # d => tasks'[b] = tasks[b]
      /\ Out(m)' = Out(m) /\ Born(m)' = Born(m) /\ visible'[m] = visible[m] /\ now' = now
      /\ (Steady(m)' <=> Steady(m)) /\ (Calm(m)' => Calm(m))
      /\ \A q \in Procs : cached'[q][m] \in {cached[q][m], g}
  BY <1>1, EnterFacts
<1>3. i \in Nat /\ f.conf \in Nat /\ ~InDoubt(g)
  <2>1. i \in Nat /\ f.conf \in Nat
    BY <1>2, MessageFacts, EntryNumbers
  <2> QED
    BY <1>1, <2>1 DEF InDoubt
<1>4. Timed(m)'
  BY <1>1, EnterTimed DEF Ledger
<1>5. Cursor(m)'
  <2>1. /\ \A p \in Procs : cached[p][m].conf \in Nat
        /\ \A b \in Of(m) : tasks[b].i \in Nat
        /\ f.state # "completed" =>
              /\ \A p \in Procs : cached[p][m].conf =< f.conf
              /\ \A b \in Of(m) : tasks[b].i =< f.conf
              /\ Out(m) \subseteq 1..(f.conf + 1)
    BY MessageFacts, EntryNumbers DEF Ledger, Cursor
  <2> HIDE DEF f, g, i
  <2>2. g.state # "completed" => \A p \in Procs : cached'[p][m].conf =< g.conf
    BY <1>1, <1>2, <1>3, <2>1
  <2>3. g.state # "completed" => \A b \in Of(m)' : tasks'[b].i =< g.conf
    <3>1. t.i =< i + 1
      BY <1>1, <1>3
    <3> QED
      BY <1>1, <1>2, <1>3, <2>1, <3>1
  <2>4. g.state # "completed" => Out(m) \subseteq 1..(g.conf + 1)
    BY <1>1, <1>3, <2>1
  <2> QED
    BY <1>1, <1>2, <2>2, <2>3, <2>4 DEF Cursor, g
<1>6. Opening(m)'
  <2> SUFFICES ASSUME NEW b \in Of(m)', m \in Messages, tasks'[b].stage \in Openings PROVE FALSE
    BY DEF Opening
  <2>1. b # d /\ b \in Of(m) /\ tasks[b].stage \in Openings
    BY <1>1, <1>2 DEF Openings
  <2> QED
    BY <1>1, <1>2, <2>1 DEF Ledger, Opening
<1>7. Posters(m)'
  <2>1. ASSUME NEW j, Past(tasks[d], j) PROVE Past(t, j)
    BY <1>1, <2>1 DEF Past
  <2> QED
    BY <1>2, <2>1 DEF Ledger, Posters
<1>8. Stamps(m)'
  BY <1>1, <1>2 DEF Ledger, Stamps
<1>9. ASSUME Calm(m)' PROVE i + 2 \notin Out(m) /\ \A b \in Of(m) : b # d => Early(b)
  <2>1. \A b \in Of(m) : b # d => Early(b)
    BY <1>1, <1>2, <1>9 DEF Early, Calm
  <2>2. \A b \in Of(m) : ~Past(tasks[b], i + 2)
    BY <1>1, <1>3, <2>1 DEF Past, Early
  <2> QED
    BY <2>1, <2>2 DEF Ledger, Posters
<1>a. ASSUME Calm(m)' PROVE Doubted(m, g) /\ Dated(m, g) /\ (g.state = "replying" => g.conf + 1 \notin Out(m))
  <2>1. g.state = "replying" => g.conf + 1 = i + 2
    BY <1>1, <1>3
  <2> QED
    BY <1>1, <1>3, <1>9, <1>a, <2>1 DEF Doubted, Dated
<1>10. Told(m)'
  <2> SUFFICES ASSUME Calm(m)'
               PROVE  /\ Doubted(m, file[m])' /\ Dated(m, file[m])'
                      /\ g.state = "replying" => g.conf + 1 \notin Out(m)'
                      /\ \A p \in Procs : Doubted(m, cached[p][m])'
                      /\ ~(\A b \in Of(m)' : Early(b)')
    BY DEF Told
  <2>1. ~(\A b \in Of(m)' : Early(b)')
    BY <1>1, <1>2 DEF Early
  <2> QED
    BY <1>1, <1>2, <1>a, <2>1, EnterCopies DEF Ledger
<1>11. Stale(m)'
  <2> SUFFICES ASSUME Calm(m)' PROVE Stale(m)'
    BY DEF Stale
  <2> QED
    BY <1>1, <1>a, EnterCopies DEF Ledger
<1>12. Holder(m)'
  <2> SUFFICES ASSUME Calm(m)', NEW b \in Of(m)'
               PROVE  ~InDoubt(g) /\ tasks'[b].stage \notin {"claimed", "posting", "answered"} /\ ~Lost(g)
    BY DEF Holder
  <2>1. b # d => tasks'[b].stage \in {"queued", "admitted", "doubtful"}
    BY <1>2, <1>9 DEF Early
  <2> QED
    BY <1>1, <1>2, <1>3, <2>1 DEF Lost
<1>13. Replays(m)'
  <2> SUFFICES ASSUME Steady(m)
               PROVE  /\ g.state = "replying" => Recent(m, file[m].conf + 1)'
                      /\ \A b \in Of(m)' : tasks'[b].stage = "claimed" => Recent(m, tasks[b].i + 1)'
                      /\ visible'[m] = [k \in 1..Len(visible'[m]) |-> k]
    <3>1. Steady(m) => \A b \in Of(m)' : Flight(m, tasks[b])'
      BY <1>1, EnterFlights DEF Ledger, Early
    <3> QED
      BY <1>2, <3>1 DEF Replays
  <2>1. Recent(m, i + 2)
    <3> SUFFICES ASSUME i + 2 \in Out(m) PROVE now - Born(m)[i + 2] + PostTimeout =< NonceMemory
      BY DEF Recent
    <3>1. now - Born(m)[i + 2] =< PostTimeout
      BY <1>1, <1>2 DEF Ledger, Stamps
    <3>2. now \in Nat /\ PostTimeout \in Nat /\ NonceMemory \in Nat
      BY <1>2, MessageFacts, DiscordConstants
    <3>3. Born(m)[i + 2] \in Int
      <4>1. i + 2 \in 1..Parts(m)
        BY OutFacts
      <4> QED
        BY <4>1, MessageFacts
    <3> DEFINE n == Born(m)[i + 2]
    <3> HIDE DEF n
    <3>4. now - n =< PostTimeout /\ n \in Int
      BY <3>1, <3>3 DEF n
    <3>5. now - n + PostTimeout =< NonceMemory
      BY <3>2, <3>4 DEF LongMemory
    <3> QED
      BY <3>5 DEF n
  <2>2. g.state = "replying" => Recent(m, g.conf + 1)
    <3>1. g.state = "replying" => g.conf + 1 = i + 2
      BY <1>1, <1>3
    <3> QED
      BY <2>1, <3>1
  <2>3. \A b \in Of(m)' : tasks'[b].stage = "claimed" => Recent(m, tasks'[b].i + 1)
    BY <1>1, <1>2 DEF Ledger, Replays
  <2> QED
    BY <1>2, <2>2, <2>3 DEF Ledger, Replays, Recent
<1> QED
  BY <1>4, <1>5, <1>6, <1>7, <1>8, <1>10, <1>11, <1>12, <1>13 DEF Ledger

LEMMA GivesUpLedger ==
    ASSUME Typed, NEW m \in Ids, NEW d, NEW t, GivesUp(m, d, t), Ledger(m)
    PROVE  Ledger(m)'
<1> DEFINE f == file[m]
           g == file'[m]
<1>1. /\ Enters(m, d, t) /\ tasks[d].stage \in {"abandoning", "queued", "admitted"}
      /\ \/ t.stage = "done" /\ t.i = 0
         \/ t.stage = "doubtful" /\ t.i = tasks[d].i /\ m \in Courses /\ tasks[d].stage = "queued" /\ g.since # Never
      /\ f.state \in {"reserved", "replying", "partial"}
      /\ g.state = "partial" /\ g.conf = f.conf
      /\ (Calm(m) => Dated(m, file[m]))'
  BY DEF GivesUp
<1>0. ~Early(d) => t.stage \notin {"queued", "admitted", "doubtful"}
  BY <1>1 DEF Early
<1>2. /\ d \in Of(m) /\ Of(m)' = Of(m) /\ tasks'[d] = t /\ t.p = tasks[d].p /\ t.p \in Procs
      /\ \A b \in Of(m) : b # d => tasks'[b] = tasks[b]
      /\ Out(m)' = Out(m) /\ Born(m)' = Born(m) /\ visible'[m] = visible[m] /\ now' = now
      /\ (Steady(m)' <=> Steady(m)) /\ (Calm(m)' => Calm(m)) /\ cached'[t.p][m] = g
      /\ \A q \in Procs : q # t.p => cached'[q][m] = cached[q][m]
      /\ \A q \in Procs : cached'[q][m] \in {cached[q][m], g}
  BY <1>0, <1>1, EnterFacts
<1>3. ~InDoubt(g) /\ f.conf \in Nat
  <2>1. f.conf \in Nat
    BY MessageFacts, EntryNumbers
  <2> QED
    BY <1>1, <2>1 DEF InDoubt
<1>4. Timed(m)'
  BY <1>0, <1>1, EnterTimed DEF Ledger
<1>5. Cursor(m)'
  <2>1. /\ \A p \in Procs : cached[p][m].conf =< f.conf
        /\ \A b \in Of(m) : tasks[b].i =< f.conf
        /\ Out(m) \subseteq 1..(f.conf + 1)
    BY <1>1 DEF Ledger, Cursor
  <2> HIDE DEF f, g
  <2>2. \A p \in Procs : cached'[p][m].conf =< g.conf
    BY <1>1, <1>2, <1>3, <2>1
  <2>3. \A b \in Of(m)' : tasks'[b].i =< g.conf
    BY <1>1, <1>2, <1>3, <2>1
  <2> QED
    BY <1>1, <1>2, <2>1, <2>2, <2>3 DEF Cursor, g
<1>6. Opening(m)'
  <2> SUFFICES ASSUME NEW b \in Of(m)', m \in Messages, tasks'[b].stage \in Openings
               PROVE  /\ g.state \in {"reserved", "partial"} /\ Out(m)' = {}
                      /\ \A p \in Procs : cached'[p][m].state \in {"none", "reserved", "partial"}
                      /\ \A a \in Of(m)' : a # b => tasks'[a].stage \in {"queued", "admitted", "abandoning", "done"}
    BY DEF Opening
  <2>1. b # d /\ b \in Of(m) /\ tasks[b].stage \in Openings /\ t.stage = "done"
    BY <1>1, <1>2, DiscordConstants DEF Openings
  <2>2. /\ Out(m) = {}
        /\ \A p \in Procs : cached[p][m].state \in {"none", "reserved", "partial"}
        /\ \A a \in Of(m) : a # b => tasks[a].stage \in {"queued", "admitted", "abandoning", "done"}
    BY <2>1 DEF Ledger, Opening
  <2> QED
    BY <1>1, <1>2, <2>1, <2>2
<1>7. Posters(m)'
  <2>1. ASSUME NEW j, Past(tasks[d], j) PROVE Past(t, j)
    BY <1>1, <2>1 DEF Past
  <2> QED
    BY <1>2, <2>1 DEF Ledger, Posters
<1>8. Stamps(m)'
  BY <1>1, <1>2 DEF Ledger, Stamps
<1>9. ASSUME Calm(m)' PROVE Doubted(m, g) /\ Dated(m, g)
  BY <1>1, <1>2, <1>3, <1>9 DEF Doubted, Dated, Dates
<1>10. Told(m)'
  <2> SUFFICES ASSUME Calm(m)'
               PROVE  /\ Doubted(m, file[m])' /\ Dated(m, file[m])' /\ g.state # "replying"
                      /\ \A p \in Procs : Doubted(m, cached[p][m])'
                      /\ ~(\A b \in Of(m)' : Early(b)')
    BY DEF Told
  <2>1. PICK b \in Of(m) : ~Early(b)
    BY <1>1, <1>2 DEF Ledger, Told
  <2>2. b = d => t.stage = "done"
    BY <1>1, <2>1 DEF Early
  <2>3. b \in Of(m)' /\ ~Early(b)'
    BY <1>2, <2>1, <2>2 DEF Early
  <2> QED
    BY <1>0, <1>1, <1>9, <2>3, EnterCopies DEF Ledger
<1>11. Stale(m)'
  <2> SUFFICES ASSUME Calm(m)' PROVE Stale(m)'
    BY DEF Stale
  <2> QED
    BY <1>0, <1>1, <1>9, EnterCopies DEF Ledger
<1>12. Holder(m)'
  <2> SUFFICES ASSUME Calm(m)', NEW b \in Of(m)'
               PROVE  LET c == cached'[tasks'[b].p][m]  s == tasks'[b] IN
                      /\ s.stage \in {"claimed", "posting", "answered"} => g.conf = s.i
                      /\ s.stage \in {"begun", "resuming", "sending", "claimed", "posting", "answered"} => ~Lost(g)
                      /\ s.stage = "claimed" => c.state \in {"replying", "partial"} /\ ~Lost(c)
    BY <1>1, <1>3 DEF Holder
  <2>1. CASE b = d
    BY <1>1, <1>2, <2>1
  <2>2. CASE tasks'[b].stage \notin {"begun", "resuming", "sending", "claimed", "posting", "answered"}
    BY <2>2
  <2>3. CASE b # d /\ tasks'[b].stage \in {"begun", "resuming", "sending", "claimed", "posting", "answered"}
    <3>1. b \in Of(m) /\ tasks'[b] = tasks[b] /\ Calm(m) /\ tasks[b].p \in Procs
      BY <1>2, <2>3, MessageFacts
    <3>2. t.stage # "done"
      <4>1. t.stage = "done" => ~Early(d)' /\ ~Early(b)'
        BY <1>2, <2>3 DEF Early
      <4> QED
        BY <1>2, <2>3, <4>1 DEF Calm
    <3>3. ~Lost(g)
      BY <1>1, <3>2 DEF Lost
    <3>4. /\ tasks[b].stage \in {"claimed", "posting", "answered"} => f.conf = tasks[b].i
          /\ tasks[b].stage = "claimed" =>
                cached[tasks[b].p][m].state \in {"replying", "partial"} /\ ~Lost(cached[tasks[b].p][m])
      BY <3>1 DEF Ledger, Holder
    <3>5. cached'[tasks[b].p][m] \in {cached[tasks[b].p][m], g}
      BY <1>2, <3>1
    <3> QED
      BY <1>1, <3>1, <3>3, <3>4, <3>5
  <2> QED
    BY <2>1, <2>2, <2>3
<1>13. Replays(m)'
  <2> SUFFICES ASSUME Steady(m)
               PROVE  /\ g.state # "replying"
                      /\ \A b \in Of(m)' : tasks'[b].stage = "claimed" => Recent(m, tasks[b].i + 1)'
                      /\ visible'[m] = [k \in 1..Len(visible'[m]) |-> k]
    <3>1. Steady(m) => \A b \in Of(m)' : Flight(m, tasks[b])'
      BY <1>1, EnterFlights DEF Ledger, Early
    <3> QED
      BY <1>2, <3>1 DEF Replays
  <2>1. \A b \in Of(m)' : tasks'[b].stage = "claimed" => Recent(m, tasks'[b].i + 1)
    BY <1>1, <1>2 DEF Ledger, Replays
  <2> QED
    BY <1>1, <1>2, <2>1 DEF Ledger, Replays, Recent
<1> QED
  BY <1>4, <1>5, <1>6, <1>7, <1>8, <1>10, <1>11, <1>12, <1>13 DEF Ledger
-------------------------------------------------------------------------------
\* What a step of a task makes of the record, message by message.
LEMMA EnsureFacts ==
    ASSUME Typed, NEW p \in Procs, EnsureAuthoritative(p)
    PROVE  /\ \A q \in Procs : (q # p => proc'[q] = proc[q]) /\ (Alive(q)' <=> Alive(q))
           /\ \A q \in Procs : proc'[q].phase = proc[q].phase
           /\ proc'[p].prepared <=> Alive(p) /\ IsActive(p)
<1> DEFINE can == Alive(p) /\ IsActive(p)
           new == [proc[p] EXCEPT !.prepared = can]
<1>1. proc \in [Procs -> Process] /\ proc[p] \in Process /\ can \in BOOLEAN
  BY DEF Typed, Alive, IsActive
<1>2. proc' = [proc EXCEPT ![p] = new]
  BY DEF EnsureAuthoritative
<1>3. new.phase = proc[p].phase /\ (new.prepared <=> can)
  <2> HIDE DEF can
  <2> QED
    BY <1>1 DEF Process
<1> HIDE DEF new
<1>4. \A q \in Procs : (q # p => proc'[q] = proc[q]) /\ proc'[q].phase = proc[q].phase
  BY <1>1, <1>2, <1>3
<1>5. proc'[p].prepared <=> can
  BY <1>1, <1>2, <1>3
<1> QED
  BY <1>4, <1>5 DEF Alive

LEMMA FreshDrifts ==
    ASSUME Typed, NEW p \in Procs, NEW n \in Ids
    PROVE  Fresh(p)[n] = file[n] \/ Fresh(p)[n] = Recovered(file[n], p)
  BY DEF Fresh, Typed

LEMMA HappensSwitches ==
    ASSUME Typed, UNCHANGED spent \/ Happens("writes")
    PROVE  spent'["switches"] = spent["switches"]
<1>1. spent \in [Faults -> Nat] /\ "writes" \in Faults /\ "switches" \in Faults
  BY DEF Typed, Faults
<1>2. Happens("writes") => spent' = [spent EXCEPT !["writes"] = spent["writes"] + 1]
  BY Zenon DEF Happens
<1> QED
  BY <1>1, <1>2

\* A step that writes nothing.
Looks(p) ==
    \/ EnsureAuthoritative(p) /\ Refresh(p)
    \/ EnsureAuthoritative(p) /\ UNCHANGED <<file, cached>> /\ ~(Alive(p) /\ IsActive(p))
    \/ UNCHANGED <<file, cached, proc>>
Moves(d, t) ==
    /\ Go(d, t) /\ Follows(d, t) /\ Looks(tasks[d].p)
    /\ UNCHANGED spent \/ Happens("writes")
    /\ UNCHANGED <<now, selected, visible, nonceAt>>

LEMMA LooksDrift ==
    ASSUME Typed, NEW p \in Procs, Looks(p), NEW n \in Ids
    PROVE  FileDrifts(n) /\ \A q \in Procs : CopyDrifts(n, q)
<1>1. CASE EnsureAuthoritative(p) /\ Refresh(p)
  <2>1. /\ file' = Fresh(p) /\ cached' = [cached EXCEPT ![p] = Cache(p)] /\ cached \in [Procs -> [Ids -> Entry]]
    BY <1>1 DEF Refresh, Typed
  <2>2. FileDrifts(n)
    BY <2>1, FreshDrifts DEF FileDrifts
  <2>3. ASSUME NEW q \in Procs PROVE CopyDrifts(n, q)
    <3>1. CASE q = p
      <4>1. cached'[p] = Cache(p)
        BY <2>1
      <4>2. CASE proc[p].prepared
        <5>1. cached'[p][n] = cached[p][n]
          BY <4>1, <4>2 DEF Cache
        <5>2. Alive(p)' => Alive(p)
          BY <1>1, EnsureFacts
        <5> QED
          BY <3>1, <4>2, <5>1, <5>2 DEF CopyDrifts
      <4>3. CASE ~proc[p].prepared
        <5>1. cached'[p][n] = file'[n]
          BY <2>1, <4>1, <4>3 DEF Cache
        <5> QED
          BY <3>1, <5>1 DEF CopyDrifts
      <4> QED
        BY <4>2, <4>3
    <3>2. CASE q # p
      <4>1. cached'[q] = cached[q] /\ proc'[q] = proc[q] /\ (Alive(q)' <=> Alive(q))
        BY <1>1, <2>1, <3>2, EnsureFacts
      <4> QED
        BY <4>1 DEF CopyDrifts
    <3> QED
      BY <3>1, <3>2
  <2> QED
    BY <2>2, <2>3
<1>2. CASE EnsureAuthoritative(p) /\ UNCHANGED <<file, cached>> /\ ~(Alive(p) /\ IsActive(p))
  <2>1. ASSUME NEW q \in Procs PROVE CopyDrifts(n, q)
    <3>1. cached'[q][n] = cached[q][n]
      BY <1>2
    <3>2. Alive(q)' /\ proc'[q].prepared => Alive(q) /\ proc[q].prepared
      BY <1>2, EnsureFacts
    <3> QED
      BY <3>1, <3>2 DEF CopyDrifts
  <2> QED
    BY <1>2, <2>1 DEF FileDrifts
<1>3. CASE UNCHANGED <<file, cached, proc>>
  BY <1>3 DEF FileDrifts, CopyDrifts, Alive
<1> QED
  BY <1>1, <1>2, <1>3 DEF Looks

\* The tasks of a message when one task of another, or of it, moves on.
LEMMA GoOf ==
    ASSUME Typed, NEW d \in Tasks, NEW t, Follows(d, t), Go(d, t)
    PROVE  /\ \A n \in Ids : Of(n)' = Of(n)
           /\ d \in Of(tasks[d].m) /\ tasks'[d] = t
           /\ \A b \in Tasks : b # d => tasks'[b] = tasks[b]
           /\ \A n \in Ids \ {tasks[d].m} : TasksDrift(n)
<1>1. Tasks' = Tasks /\ \A b \in Tasks : tasks'[b] = IF b = d THEN t ELSE tasks[b]
  BY GoTasks
<1>2. \A b \in Tasks : tasks'[b].m = tasks[b].m
  BY <1>1 DEF Follows
<1>3. \A n \in Ids : Of(n)' = Of(n)
  BY <1>1, <1>2 DEF Of
<1>4. ASSUME NEW n \in Ids \ {tasks[d].m} PROVE TasksDrift(n)
  <2>1. \A b \in Of(n) : b \in Tasks /\ tasks'[b] = tasks[b]
    BY <1>1 DEF Of
  <2> QED
    BY <2>1, <1>3 DEF TasksDrift, TaskDrifts
<1> QED
  BY <1>1, <1>3, <1>4 DEF Of

LEMMA MovesDrift ==
    ASSUME Typed, NEW d \in Tasks, NEW t, Moves(d, t), TaskDrifts(tasks[d].m, d)
    PROVE  \A n \in Ids : Drifts(n)
<1> SUFFICES ASSUME NEW n \in Ids PROVE Drifts(n)
  OBVIOUS
<1>1. tasks[d].p \in Procs /\ tasks[d].m \in Ids
  BY TaskType
<1>2. FileDrifts(n) /\ \A q \in Procs : CopyDrifts(n, q)
  BY <1>1, LooksDrift DEF Moves
<1>3. TasksDrift(n)
  <2>1. CASE n # tasks[d].m
    BY <2>1, GoOf DEF Moves
  <2>2. CASE n = tasks[d].m
    <3>1. Of(n)' = Of(n) /\ \A b \in Of(n) : b # d => tasks'[b] = tasks[b]
      BY GoOf DEF Moves, Of
    <3> QED
      BY <2>2, <3>1 DEF TasksDrift, TaskDrifts
  <2> QED
    BY <2>1, <2>2
<1>4. SameChannel(n) /\ now' = now /\ spent'["switches"] = spent["switches"]
  BY HappensSwitches DEF Moves, SameChannel
<1> QED
  BY <1>2, <1>3, <1>4 DEF Drifts

\* A step that writes entry w: the other messages drift.
Base(p, m, w, b) ==
    \/ Puts(p, m, w) /\ b = Fresh(p)[m]
    \/ PutsAtOnce(p, m, w) /\ b = file[m]
LEMMA WritesEnter ==
    ASSUME Typed, RecordsTrue, Typed', NEW d \in Tasks, NEW t, NEW w \in Entry, Writes(d, t, w),
           NEW m \in Ids, m = tasks[d].m, True(m, w, Shown(m)), w.state # "none"
    PROVE  /\ \A n \in Ids \ {m} : Drifts(n)
           /\ \E b \in Entry : /\ b = file[m] \/ b = Recovered(file[m], tasks[d].p)
                               /\ Accepts(b, w) /\ file'[m] = Merged(b, w)
                               /\ w.state # "partial" => file'[m] = w
                               /\ Base(tasks[d].p, m, w, b)
           /\ Fits(file'[m]) /\ t.stage # "posting" => Enters(m, d, t)
           /\ UNCHANGED selected
<1> DEFINE p == tasks[d].p
<1>1. p \in Procs /\ m \in Ids
  BY TaskType
<1>2. /\ file \in [Ids -> Entry] /\ file' \in [Ids -> Entry] /\ cached \in [Procs -> [Ids -> Entry]]
  BY DEF Typed
<1>3. /\ cached' = [cached EXCEPT ![p] = file']
      /\ \A n \in Ids \ {m} : file'[n] = file[n] \/ file'[n] = Recovered(file[n], p)
  <2>1. CASE Puts(p, m, w)
    <3>1. \A n \in Ids \ {m} : file'[n] = Fresh(p)[n]
      BY <1>1, <2>1, PutsTrue
    <3> QED
      BY <1>1, <2>1, <3>1, FreshDrifts DEF Puts
  <2>2. CASE PutsAtOnce(p, m, w)
    <3>1. \A n \in Ids \ {m} : file'[n] = file[n]
      BY <1>1, <2>2, PutsAtOnceTrue
    <3> QED
      BY <2>2, <3>1 DEF PutsAtOnce
  <2> QED
    BY <2>1, <2>2 DEF Writes
<1>4. \A q \in Procs : q # p => cached'[q] = cached[q] /\ proc'[q] = proc[q]
  <2>1. \A q \in Procs : q # p => proc'[q] = proc[q]
    BY <1>1, EnsureFacts DEF Writes
  <2> QED
    BY <1>2, <1>3, <2>1
<1>5. cached'[p] = file'
  BY <1>1, <1>2, <1>3
<1>6. ASSUME NEW n \in Ids \ {m} PROVE Drifts(n)
  <2>1. FileDrifts(n)
    BY <1>1, <1>3 DEF FileDrifts
  <2>2. \A q \in Procs : CopyDrifts(n, q)
    BY <1>4, <1>5 DEF CopyDrifts, Alive
  <2>3. TasksDrift(n)
    BY GoOf DEF Writes
  <2> QED
    BY <2>1, <2>2, <2>3 DEF Drifts, Writes, SameChannel
<1>7. Fits(file'[m]) /\ t.stage # "posting" => Enters(m, d, t)
  <2>1. d \in Of(m) /\ Of(m)' = Of(m) /\ \A b \in Of(m) : tasks'[b] = IF b = d THEN t ELSE tasks[b]
    BY <1>1, GoOf DEF Writes, Of
  <2>2. t.p = p /\ file'[m] \in Entry /\ (t.stage # "posting" => t.post = tasks[d].post /\ t.at = tasks[d].at)
    BY <1>1, <1>2 DEF Writes, Follows
  <2> QED
    BY <1>4, <1>5, <2>1, <2>2 DEF Enters, Writes, SameChannel
<1>8. \E b \in Entry : /\ b = file[m] \/ b = Recovered(file[m], p)
                       /\ Accepts(b, w) /\ file'[m] = Merged(b, w) /\ (w.state # "partial" => file'[m] = w)
                       /\ Base(p, m, w, b)
  <2>1. CASE Puts(p, m, w)
    <3>1. Accepts(Fresh(p)[m], w) /\ Fresh(p)[m] \in Entry
      BY <1>1, <2>1, FreshTrue DEF Puts
    <3> QED
      BY <1>1, <2>1, <3>1, PutsTrue, FreshDrifts DEF Base
  <2>2. CASE PutsAtOnce(p, m, w)
    <3>1. Accepts(file[m], w) /\ file[m] \in Entry
      BY <1>1, <1>2, <2>2 DEF PutsAtOnce
    <3> QED
      BY <1>1, <2>2, <3>1, PutsAtOnceTrue DEF Base
  <2> QED
    BY <2>1, <2>2 DEF Writes
<1> QED
  BY <1>6, <1>7, <1>8 DEF Writes
-------------------------------------------------------------------------------
\* Every step is one of these.
Writer(m, d, t) ==
    Reserves(m, d, t) \/ Resumes(m, d, t) \/ Claims(m, d, t) \/ Confirms(m, d, t) \/ GivesUp(m, d, t)
Moved ==
    \/ \A n \in Ids : Drifts(n)
    \/ Tick
    \/ \E m \in Ids, d \in Tasks, t \in Task :
          /\ \A n \in Ids \ {m} : Drifts(n)
          /\ Writer(m, d, t) \/ Posts(m, d) \/ Lands(m, d)

LEMMA MovedLedgers ==
    ASSUME IInv, Typed', Chosen', LongMemory, \A n \in Ids : Ledger(n), Moved
    PROVE  \A n \in Ids : Ledger(n)'
<1>1. Typed /\ RecordsTrue /\ TasksTrue /\ ChannelTrue
  BY DEF IInv
<1>2. CASE \A n \in Ids : Drifts(n)
  BY <1>1, <1>2, DriftLedger
<1>3. CASE Tick
  BY <1>1, <1>3, TickLedger
<1>4. ASSUME NEW m \in Ids, NEW d \in Tasks, NEW t \in Task, \A n \in Ids \ {m} : Drifts(n),
             Writer(m, d, t) \/ Posts(m, d) \/ Lands(m, d)
      PROVE  \A n \in Ids : Ledger(n)'
  <2>1. \A n \in Ids \ {m} : Ledger(n)'
    BY <1>1, <1>4, DriftLedger
  <2>2. Ledger(m)'
    <3>1. CASE Reserves(m, d, t)
      BY <1>1, <3>1, ReservesLedger
    <3>2. CASE Resumes(m, d, t)
      BY <1>1, <3>2, ResumesLedger
    <3>3. CASE Claims(m, d, t)
      BY <1>1, <3>3, ClaimsLedger
    <3>4. CASE Confirms(m, d, t)
      BY <1>1, <3>4, ConfirmsLedger
    <3>5. CASE GivesUp(m, d, t)
      BY <1>1, <3>5, GivesUpLedger
    <3>6. CASE Posts(m, d)
      BY <1>1, <3>6, PostLedger
    <3>7. CASE Lands(m, d)
      BY <1>1, <3>7, LandLedger
    <3> QED
      BY <1>4, <3>1, <3>2, <3>3, <3>4, <3>5, <3>6, <3>7 DEF Writer
  <2> QED
    BY <2>1, <2>2
<1> QED
  BY <1>2, <1>3, <1>4 DEF Moved

\* What a task decides on: a copy of the entry, or the entry as it is loaded.
Copy(m, e) ==
    (\E q \in Procs : e = cached[q][m]) \/ e = file[m] \/ (\E q \in Procs : e = Recovered(file[m], q))
LEMMA CacheCopy ==
    ASSUME Typed, NEW p \in Procs, NEW m \in Ids PROVE Copy(m, Cache(p)[m]) /\ Copy(m, cached[p][m])
  BY FreshDrifts DEF Cache, Copy

LEMMA CopyFacts ==
    ASSUME IInv, NEW m \in Ids, Ledger(m), NEW e, Copy(m, e)
    PROVE  /\ e \in Entry /\ Fits(e) /\ True(m, e, Shown(m))
           /\ file[m].state # "completed" => e.conf =< file[m].conf
           /\ file[m].state = "none" => e.state = "none"
           /\ file[m].state = "reserved" => e.state # "replying"
           /\ e.state = "replying" => Resumable(m)
           /\ Calm(m) => Doubted(m, e)
<1>1. /\ Typed /\ RecordsTrue /\ Timed(m) /\ Cursor(m) /\ Told(m)
  BY DEF IInv, Ledger
<1>2. CASE \E q \in Procs : e = cached[q][m]
  <2>1. PICK q \in Procs : e = cached[q][m]
    BY <1>2
  <2> QED
    BY <1>1, <2>1 DEF Typed, RecordsTrue, Timed, Cursor, Told, Resumable
<1>3. /\ file[m] \in Entry /\ Fits(file[m]) /\ True(m, file[m], Shown(m)) /\ file[m].conf \in Nat
      /\ file[m].state = "replying" => Resumable(m)
      /\ Calm(m) => Doubted(m, file[m])
  BY <1>1, MessageFacts, EntryNumbers DEF RecordsTrue, Timed, Told, Resumable
<1>4. CASE e = file[m]
  BY <1>3, <1>4
<1>5. CASE \E q \in Procs : e = Recovered(file[m], q)
  <2>1. PICK q \in Procs : e = Recovered(file[m], q)
    BY <1>5
  <2>2. Alike(e, file[m]) /\ e \in Entry /\ True(m, e, Shown(m)) /\ (file[m].state = "none" => e.state = "none")
    BY <1>3, <2>1, RecoveredAlike, RecoveredTrue
  <2>3. file[m].state = "reserved" => e.state = "partial"
    <3>1. file[m] \in Entry /\ (file[m].state = "reserved" => Recovered(file[m], q).state = "partial")
      <4> DEFINE yes == TRUE
      <4>1. file[m].state = "reserved" =>
               Recovered(file[m], q) = [file[m] EXCEPT !.state = "partial", !.owner = q, !.known = yes]
        BY DEF Recovered
      <4> HIDE DEF yes
      <4> QED
        BY <1>3, <4>1 DEF Entry
    <3> QED
      BY <2>1, <3>1
  <2>4. Fits(e) /\ (Calm(m) => Doubted(m, e))
    BY <1>3, <2>2, AlikeKeeps
  <2>5. e.conf =< file[m].conf
    BY <1>3, <2>2 DEF Alike
  <2>6. e.state = "replying" => Resumable(m)
    BY <1>3, <2>2 DEF Alike
  <2> QED
    BY <2>2, <2>3, <2>4, <2>5, <2>6
<1> QED
  BY <1>2, <1>4, <1>5 DEF Copy

\* What the file accepts of a reply that is taken up again, or of the next claim.
LEMMA AcceptsAgain ==
    ASSUME NEW f \in Entry, NEW b \in Entry, NEW w \in Entry, Alike(b, f), Accepts(b, w),
           w.state = "replying", w.next = w.conf, f.state # "completed" => w.conf =< f.conf,
           f.state = "replying" => f.conf =< f.next, f.state = "reserved" => f.conf = 0
    PROVE  f.state \in {"reserved", "replying", "partial"} /\ w.conf = f.conf
<1>1. /\ f.conf \in Nat /\ f.next \in Nat /\ w.conf \in Nat /\ w.next \in Nat
      /\ b.conf = f.conf /\ b.next = f.next /\ (b.state = f.state \/ (f.state = "reserved" /\ b.state = "partial"))
  BY EntryNumbers DEF Alike
<1>2. \/ b.state = "reserved"
      \/ b.state = "replying" /\ Advances(b, w)
      \/ b.state = "partial" /\ w.conf = b.conf
  BY DEF Accepts
<1>3. CASE b.state = "replying" /\ Advances(b, w)
  <2>1. \/ w.next = f.next + 1 /\ w.conf = f.conf
        \/ w.next = f.next /\ w.conf = f.conf + 1
        \/ w.conf = f.conf
    BY <1>1, <1>3 DEF Advances
  <2>2. f.state = "replying"
    BY <1>1, <1>3
  <2> QED
    BY <1>1, <2>1, <2>2
<1>4. CASE b.state = "reserved"
  BY <1>1, <1>4
<1>5. CASE b.state = "partial" /\ w.conf = b.conf
  BY <1>1, <1>5
<1> QED
  BY <1>2, <1>3, <1>4, <1>5

LEMMA AcceptsNext ==
    ASSUME NEW f \in Entry, NEW b \in Entry, NEW w \in Entry, Alike(b, f), Accepts(b, w),
           w.state = "replying", w.next = w.conf + 1, f.state # "completed" => w.conf =< f.conf,
           f.state # "reserved"
    PROVE  f.state = "replying" /\ f.conf = w.conf /\ f.next = w.conf
<1>1. /\ f.conf \in Nat /\ f.next \in Nat /\ w.conf \in Nat /\ w.next \in Nat
      /\ b.conf = f.conf /\ b.next = f.next /\ b.state = f.state
  BY EntryNumbers DEF Alike
<1>2. \/ b.state = "replying" /\ Advances(b, w)
      \/ b.state = "partial" /\ w.next = b.conf /\ w.conf = b.conf
  BY <1>1 DEF Accepts
<1>3. f.state # "completed"
  BY <1>1, <1>2
<1>4. ~(w.next = f.conf /\ w.conf = f.conf)
  BY <1>1
<1>5. /\ b.state = "replying"
      /\ \/ w.next = f.next + 1 /\ w.conf = f.conf
         \/ w.next = f.next /\ w.conf = f.conf + 1
  BY <1>1, <1>2, <1>4 DEF Advances
<1> QED
  BY <1>1, <1>3, <1>5

\* A reply begun or taken up again.
LEMMA ResumesMoved ==
    ASSUME IInv, Typed', NEW d \in Tasks, NEW t, NEW w \in Entry, Writes(d, t, w), Ledger(tasks[d].m),
           True(tasks[d].m, w, Shown(tasks[d].m)), Fits(w), w.state = "replying", w.next = w.conf,
           file[tasks[d].m].state # "completed" => w.conf =< file[tasks[d].m].conf,
           tasks[d].stage \in {"queued", "admitted", "doubtful", "reserved", "finished"},
           \/ t.stage \in {"resuming", "sending"} /\ t.i = w.conf
           \/ t.stage = "done" /\ t.i = 0
           \/ t.stage = "begun" /\ t.i = tasks[d].i,
           tasks[d].m \in Messages => tasks[d].stage = "finished" \/ Resumable(tasks[d].m),
           Steady(tasks[d].m) /\ w.conf = file[tasks[d].m].conf => Recent(tasks[d].m, w.conf + 1)
    PROVE  Moved
<1>0. PICK m \in Ids : m = tasks[d].m
  BY StepFacts
<1> USE <1>0
<1> DEFINE f == file[m]
<1>1. Typed /\ RecordsTrue /\ m \in Ids /\ f \in Entry /\ w.state # "none" /\ tasks[d].p \in Procs
      /\ d \in Of(m) /\ t \in Task
  BY TaskType, MessageFacts DEF IInv, Of, Writes, Follows
<1>2. PICK b \in Entry : (b = f \/ b = Recovered(f, tasks[d].p)) /\ Accepts(b, w)
  BY <1>1, WritesEnter
<1>3. /\ file'[m] = w /\ Enters(m, d, t) /\ \A n \in Ids \ {m} : Drifts(n)
  <2>1. t.stage # "posting"
    OBVIOUS
  <2> QED
    BY <1>1, <2>1, WritesEnter
<1>4. Alike(b, f)
  BY <1>1, <1>2, RecoveredAlike DEF Alike
<1>5. (f.state = "replying" => f.conf =< f.next) /\ (f.state = "reserved" => f.conf = 0)
  BY <1>1 DEF RecordsTrue, True
<1>6. f.state \in {"reserved", "replying", "partial"} /\ w.conf = f.conf
  <2> HIDE DEF f
  <2> QED
    BY <1>1, <1>2, <1>4, <1>5, AcceptsAgain DEF f
<1>7. t.i =< f.conf
  <2>1. tasks[d].i =< f.conf /\ f.conf \in Nat
    BY <1>1, <1>6, EntryNumbers DEF Ledger, Cursor
  <2> QED
    BY <1>6, <2>1
<1>8. Resumes(m, d, t)
  BY <1>3, <1>6, <1>7 DEF Resumes
<1> QED
  BY <1>1, <1>3, <1>8 DEF Moved, Writer
-------------------------------------------------------------------------------
\* The entries the calls write, field by field.
LEMMA ReservationFields ==
    ASSUME Typed, NEW e \in Entry, Fits(e), NEW p \in Procs, ReserveWrites(e)
    PROVE  LET w == Reservation(e, p, now) IN
           /\ e.state = "none" => w.state = "reserved" /\ w.conf = 0 /\ Fits(w)
           /\ e.state # "none" /\ Replayable(e, now) =>
                 w.state = "replying" /\ w.conf = e.conf /\ w.next = e.conf /\ Fits(w)
           /\ e.state # "none" /\ ~Replayable(e, now) =>
                 w.state = "partial" /\ w.conf = e.conf /\ w.since = DoubtSince(e) /\ w.upd =< now
<1> DEFINE w == Reservation(e, p, now)
<1>1. /\ e.conf \in Nat /\ e.upd \in Int /\ e.since \in Int /\ DoubtSince(e) \in Int /\ now \in Nat
      /\ DoubtSince(e) =< now
  BY EntryNumbers, DiscordConstants DEF Fits, DoubtSince, Typed
<1>2. CASE e.state = "none"
  <2>1. w = [NoEntry EXCEPT !.state = "reserved", !.owner = p, !.upd = now]
    BY <1>2 DEF Reservation
  <2>2. w.state = "reserved" /\ w.conf = 0 /\ w.upd = now /\ w.since = Never
    <3> HIDE DEF w
    <3> QED
      BY <2>1 DEF NoEntry
  <2> HIDE DEF w
  <2> QED
    BY <1>1, <1>2, <2>2 DEF Fits, Never, w
<1>3. CASE e.state # "none" /\ Replayable(e, now)
  <2> DEFINE yes == TRUE
             since == DoubtSince(e)
  <2>1. w = [e EXCEPT !.owner = p, !.upd = now, !.next = e.conf, !.since = since, !.known = yes]
    BY <1>3 DEF Reservation
  <2> HIDE DEF yes, since, w
  <2>2. w.state = e.state /\ w.conf = e.conf /\ w.next = e.conf /\ w.upd = now /\ w.since = since
    BY <2>1 DEF Entry
  <2>3. e.state = "replying"
    BY <1>3 DEF ReserveWrites, InDoubt
  <2> QED
    BY <1>1, <1>3, <2>2, <2>3 DEF Fits, w, since
<1>4. CASE e.state # "none" /\ ~Replayable(e, now)
  <2> DEFINE since == DoubtSince(e)
             upd == Larger(now, since)
  <2>1. w = [e EXCEPT !.state = "partial", !.upd = upd, !.parts = 0, !.next = 0, !.since = since]
    BY <1>4 DEF Reservation
  <2>2. upd =< now
    BY <1>1 DEF Larger
  <2> HIDE DEF since, upd, w
  <2>3. w.state = "partial" /\ w.conf = e.conf /\ w.upd = upd /\ w.since = since
    BY <2>1 DEF Entry
  <2> QED
    BY <1>4, <2>2, <2>3 DEF w, since
<1> QED
  BY <1>2, <1>3, <1>4

LEMMA ReplyingFields ==
    ASSUME Typed, NEW e, NEW n
    PROVE  LET w == Replying(e, n, now) IN w.state = "replying" /\ w.conf = 0 /\ w.next = 0 /\ Fits(w)
<1> DEFINE w == Replying(e, n, now)
           yes == TRUE
<1>1. w = [NoEntry EXCEPT !.state = "replying", !.owner = e.owner, !.parts = n, !.upd = now, !.known = yes]
  BY DEF Replying
<1> HIDE DEF w, yes
<1>2. w.state = "replying" /\ w.conf = 0 /\ w.next = 0 /\ w.upd = now /\ w.since = Never
  BY <1>1 DEF NoEntry
<1>3. now \in Nat
  BY DiscordConstants DEF Typed
<1>4. Fits(w)
  BY <1>2, <1>3 DEF Fits, Never
<1> QED
  BY <1>2, <1>4 DEF w

LEMMA ClaimedFields ==
    ASSUME Typed, NEW e \in Entry, Fits(e), NEW i, CanClaim(e, i)
    PROVE  LET w == Claimed(e, i, now) IN
           w.state = "replying" /\ w.conf = e.conf /\ w.next = i /\ i = e.conf + 1 /\ Fits(w)
<1> DEFINE w == Claimed(e, i, now)
           upd == Larger(now, Larger(e.upd, e.since))
<1>1. /\ e.conf \in Nat /\ e.upd \in Int /\ e.since \in Int /\ now \in Nat /\ e.upd =< now /\ e.since =< now
      /\ e.state = "replying" /\ i = e.conf + 1
  BY EntryNumbers, DiscordConstants DEF Fits, Typed, CanClaim
<1>2. upd =< now
  BY <1>1 DEF Larger
<1>3. w = [e EXCEPT !.upd = upd, !.next = i]
  BY DEF Claimed
<1> HIDE DEF w, upd
<1>4. w.state = "replying" /\ w.conf = e.conf /\ w.next = i /\ w.upd = upd /\ w.since = e.since
  BY <1>1, <1>3 DEF Entry
<1>5. Fits(w)
  BY <1>1, <1>2, <1>4 DEF Fits
<1> QED
  BY <1>1, <1>4, <1>5 DEF w

LEMMA ConfirmedFields ==
    ASSUME Typed, NEW e \in Entry, NEW i \in Nat, CanConfirm(e, i)
    PROVE  LET w == Confirmed(e, i, now) IN
           /\ Fits(w) /\ i = e.conf + 1
           /\ w.state = "completed" \/ (w.state = "replying" /\ w.conf = i /\ w.next = i)
<1> DEFINE w == Confirmed(e, i, now)
           no == FALSE
<1>1. e.state = "replying" /\ i = e.conf + 1 /\ i = e.next /\ now \in Nat
  BY DiscordConstants DEF CanConfirm, Typed
<1>2. CASE i = e.parts
  <2>1. w = [NoEntry EXCEPT !.state = "completed", !.owner = e.owner, !.upd = now]
    BY <1>2 DEF Confirmed, Completed
  <2> HIDE DEF w
  <2>2. w.state = "completed" /\ w.upd = now /\ w.since = Never
    BY <2>1 DEF NoEntry
  <2>3. Fits(w)
    BY <1>1, <2>2 DEF Fits, Never
  <2> QED
    BY <1>1, <2>2, <2>3 DEF w
<1>3. CASE i # e.parts
  <2>1. w = [e EXCEPT !.upd = now, !.conf = i, !.since = Never, !.known = no]
    BY <1>3 DEF Confirmed
  <2> HIDE DEF w, no
  <2>2. w.state = "replying" /\ w.upd = now /\ w.since = Never /\ w.conf = i /\ w.next = i
    BY <1>1, <2>1 DEF Entry
  <2>3. Fits(w)
    BY <1>1, <2>2 DEF Fits, Never
  <2> QED
    BY <1>1, <2>2, <2>3 DEF w
<1> QED
  BY <1>2, <1>3

LEMMA GivenUpFields ==
    ASSUME NEW e \in Entry, NEW i, NEW t
    PROVE  LET w == GivenUp(e, i, t) IN
           /\ w.state = "partial" /\ w.upd = t /\ w.conf = Larger(e.conf, i)
           /\ w.since = IF e.since = Never /\ InDoubt(e) THEN e.upd ELSE e.since
<1> DEFINE w == GivenUp(e, i, t)
           conf == Larger(e.conf, i)
           since == IF e.since = Never /\ InDoubt(e) THEN e.upd ELSE e.since
           yes == TRUE
<1>1. w = [e EXCEPT !.state = "partial", !.upd = t, !.parts = 0, !.next = 0, !.conf = conf,
                    !.since = since, !.known = yes]
  BY DEF GivenUp
<1> HIDE DEF w, conf, since, yes
<1>2. w.state = "partial" /\ w.upd = t /\ w.conf = conf /\ w.since = since
  BY <1>1 DEF Entry
<1> QED
  BY <1>2 DEF w, conf, since

LEMMA ResumedFields ==
    ASSUME Typed, NEW e \in Entry, Fits(e), NEW p, NEW n
    PROVE  LET w == Resumed(e, p, n, now) IN
           w.state = "replying" /\ w.conf = e.conf /\ w.next = e.conf /\ Fits(w)
<1> DEFINE w == Resumed(e, p, n, now)
<1>1. w = [e EXCEPT !.state = "replying", !.owner = p, !.parts = n, !.upd = now, !.next = e.conf]
  BY DEF Resumed
<1>2. e.conf \in Nat /\ now \in Nat /\ e.since =< now
  BY EntryNumbers, DiscordConstants DEF Fits, Typed
<1> HIDE DEF w
<1>3. w.state = "replying" /\ w.upd = now /\ w.conf = e.conf /\ w.next = e.conf /\ w.since = e.since
  BY <1>1 DEF Entry
<1>4. Fits(w)
  BY <1>2, <1>3 DEF Fits
<1> QED
  BY <1>3, <1>4 DEF w

LEMMA MergedFields ==
    ASSUME Typed, NEW b \in Entry, NEW w \in Entry, w.state = "partial", Fits(b), w.upd =< now, w.since =< now
    PROVE  LET g == Merged(b, w) IN
           /\ g.state = "partial" /\ Fits(g) /\ g.conf = Larger(b.conf, w.conf)
           /\ g.since = IF b.since # Never THEN b.since ELSE w.since
<1> DEFINE g == Merged(b, w)
           since == IF b.since # Never THEN b.since ELSE w.since
           upd == Larger(w.upd, since)
           conf == Larger(b.conf, w.conf)
           known == IF b.state = "partial" THEN b.known ELSE w.known
<1>1. g = [w EXCEPT !.since = since, !.upd = upd, !.conf = conf, !.known = known]
  BY DEF Merged
<1>2. since =< now /\ since \in Int /\ w.upd \in Int /\ now \in Nat
  BY EntryNumbers, DiscordConstants DEF Fits, Typed
<1>3. upd =< now
  <2> HIDE DEF since
  <2> QED
    BY <1>2 DEF Larger
<1> HIDE DEF g, since, upd, conf, known
<1>4. g.state = "partial" /\ g.since = since /\ g.upd = upd /\ g.conf = conf
  BY <1>1 DEF Entry
<1>5. Fits(g)
  BY <1>2, <1>3, <1>4 DEF Fits
<1> QED
  BY <1>4, <1>5 DEF g, since, conf
-------------------------------------------------------------------------------
\* Every step of a task is one of these.
LEMMA GoesMoved ==
    ASSUME Typed, NEW d \in Tasks, NEW t, Moves(d, t),
           \/ t.stage = "done" /\ t.i = 0
           \/ ~Early(d) /\ tasks[d].stage # "done" /\ t.stage = "abandoning" /\ t.i = tasks[d].i
           \/ tasks[d].stage = "queued" /\ t.stage = "admitted" /\ t.i = tasks[d].i
           \/ /\ tasks[d].stage = "queued" /\ tasks[d].m \in Courses /\ t.stage = "doubtful" /\ t.i = tasks[d].i
              /\ \/ Alive(tasks[d].p) /\ proc[tasks[d].p].prepared
                 \/ cached'[tasks[d].p][tasks[d].m] = file'[tasks[d].m]
           \/ /\ tasks[d].m \in Messages /\ tasks[d].stage \in Openings /\ t.stage \in Openings \ {"reserved"}
              /\ t.i = tasks[d].i
           \/ tasks[d].stage \in {"begun", "resuming"} /\ t.stage = "sending" /\ t.i \in {0, tasks[d].i}
           \/ /\ Early(d) /\ t.stage \in {"resuming", "sending"} /\ Resumable(tasks[d].m)
              /\ file[tasks[d].m].state # "completed" => t.i =< file[tasks[d].m].conf
    PROVE  Moved
<1>1. tasks'[d] = t /\ t.p = tasks[d].p /\ t.post = tasks[d].post /\ t.at = tasks[d].at
  <2>1. t.stage # "posting"
    BY DEF Openings
  <2> QED
    BY <2>1, GoOf DEF Moves, Follows
<1>2. TaskDrifts(tasks[d].m, d)
  BY <1>1 DEF TaskDrifts
<1> QED
  BY <1>2, MovesDrift DEF Moved

LEMMA LapseMoved ==
    ASSUME Typed, NEW d \in Tasks, NEW t, Lapse(d, t), Follows(d, t),
           \/ t.stage = "done" /\ t.i = 0
           \/ ~Early(d) /\ tasks[d].stage # "done" /\ t.stage = "abandoning" /\ t.i = tasks[d].i
    PROVE  Moved
<1>1. Moves(d, t)
  BY DEF Lapse, Moves, Looks, NoLoad
<1> QED
  BY <1>1, GoesMoved

LEMMA EndsGoes ==
    ASSUME Typed, NEW d \in Tasks
    PROVE  /\ Follows(d, Ended(d, "none")) /\ Ended(d, "none").stage = "done" /\ Ended(d, "none").i = 0
           /\ Follows(d, Ended(d, "retry")) /\ Ended(d, "retry").stage = "done" /\ Ended(d, "retry").i = 0
<1>1. "none" \in Results /\ "retry" \in Results
  BY DEF Results
<1> QED
  BY <1>1, EndedFollows

LEMMA AbandonGoes ==
    ASSUME Typed, NEW d \in Tasks
    PROVE  /\ Follows(d, At(d, "abandoning")) /\ At(d, "abandoning").stage = "abandoning"
           /\ At(d, "abandoning").i = tasks[d].i
           /\ Follows(d, Released(d, "abandoning")) /\ Released(d, "abandoning").stage = "abandoning"
           /\ Released(d, "abandoning").i = tasks[d].i
<1>1. "abandoning" \in Stages
  BY DEF Stages
<1> QED
  BY <1>1, AtFollows, ReleasedFollows

LEMMA HandleMessageMoved == ASSUME IInv, NEW d \in Tasks, HandleMessage(d) PROVE Moved
<1> DEFINE p == tasks[d].p
           t == At(d, "admitted")
<1>1. Typed /\ tasks[d].stage = "queued" /\ "admitted" \in Stages
  BY DEF IInv, HandleMessage, Stages
<1>2. CASE Lapse(d, Ended(d, "none"))
  BY <1>1, <1>2, EndsGoes, LapseMoved
<1>3. CASE /\ EnsureAuthoritative(p) /\ Refresh(p) /\ Go(d, t)
           /\ UNCHANGED <<selected, now, routed, visible, nonceAt, spent>>
  <2>1. Follows(d, t) /\ t.stage = "admitted" /\ t.i = tasks[d].i
    BY <1>1, AtFollows
  <2>2. Moves(d, t)
    BY <1>3, <2>1 DEF Moves, Looks
  <2> HIDE DEF t
  <2> QED
    BY <1>1, <2>1, <2>2, GoesMoved
<1> QED
  BY <1>2, <1>3 DEF HandleMessage

LEMMA PrepareMoved == ASSUME IInv, NEW d \in Tasks, Prepare(d) PROVE Moved
<1> DEFINE p == tasks[d].p
           Loaded == /\ EnsureAuthoritative(p) /\ Refresh(p)
                     /\ UNCHANGED <<selected, now, routed, visible, nonceAt, spent>>
<1>1. Typed /\ tasks[d].m \in Messages /\ {"abandoning", "preparing"} \subseteq Stages
  BY DEF IInv, Prepare, Stages
<1>2. CASE tasks[d].stage = "reserved" /\ Lapse(d, At(d, "abandoning"))
  BY <1>1, <1>2, AbandonGoes, LapseMoved DEF Early
<1>3. CASE tasks[d].stage = "resuming" /\ Lapse(d, Ended(d, "none"))
  BY <1>1, <1>3, EndsGoes, LapseMoved
<1>4. ASSUME NEW next \in {"preparing", "abandoning"}, Loaded, tasks[d].stage = "reserved", Go(d, At(d, next))
      PROVE  Moved
  <2> DEFINE t == At(d, next)
  <2>1. Follows(d, t) /\ t.stage = next /\ t.i = tasks[d].i
    BY <1>1, AtFollows
  <2>2. Moves(d, t)
    BY <1>4, <2>1 DEF Moves, Looks
  <2> HIDE DEF t
  <2>3. ~Early(d) /\ tasks[d].stage \in Openings /\ "preparing" \in Openings \ {"reserved"} /\ tasks[d].stage # "done"
    BY <1>4 DEF Early, Openings
  <2> QED
    BY <1>1, <1>4, <2>1, <2>2, <2>3, GoesMoved
<1>5. CASE Loaded /\ tasks[d].stage = "resuming" /\ Go(d, SendDurableReply(d, tasks[d].i))
  <2> DEFINE t == SendDurableReply(d, tasks[d].i)
  <2>1. tasks[d].i \in 0..Chunks
    BY <1>1, TaskType
  <2>2. Follows(d, t) /\ ((t.stage = "done" /\ t.i = 0) \/ (t.stage = "sending" /\ t.i = tasks[d].i))
    BY <1>1, <2>1, SendFollows
  <2>3. Moves(d, t)
    BY <1>5, <2>2 DEF Moves, Looks
  <2> HIDE DEF t
  <2> QED
    BY <1>1, <1>5, <2>2, <2>3, GoesMoved
<1> QED
  BY <1>2, <1>3, <1>4, <1>5 DEF Prepare

LEMMA DispatchMoved == ASSUME IInv, NEW d \in Tasks, Dispatch(d) PROVE Moved
<1> DEFINE p == tasks[d].p
           t == At(d, "awaiting")
<1>1. Typed /\ tasks[d].stage = "preparing" /\ tasks[d].m \in Messages /\ "awaiting" \in Stages
  BY StepFacts DEF Dispatch, TaskTrue, Stages
<1>2. CASE Lapse(d, At(d, "abandoning"))
  BY <1>1, <1>2, AbandonGoes, LapseMoved DEF Early
<1>3. CASE /\ EnsureAuthoritative(p) /\ Refresh(p) /\ Go(d, t)
           /\ UNCHANGED <<selected, now, visible, nonceAt, spent>>
  <2>1. Follows(d, t) /\ t.stage = "awaiting" /\ t.i = tasks[d].i
    BY <1>1, AtFollows
  <2>2. Moves(d, t)
    BY <1>3, <2>1 DEF Moves, Looks
  <2> HIDE DEF t
  <2>3. tasks[d].stage \in Openings /\ "awaiting" \in Openings \ {"reserved"}
    BY <1>1 DEF Openings
  <2> QED
    BY <1>1, <2>1, <2>2, <2>3, GoesMoved
<1> QED
  BY <1>2, <1>3 DEF Dispatch

LEMMA FinishMoved == ASSUME IInv, NEW d \in Tasks, Finish(d) PROVE Moved
<1> DEFINE p == tasks[d].p
           t == Released(d, "finished")
<1>1. Typed /\ tasks[d].stage = "awaiting" /\ tasks[d].m \in Messages /\ "finished" \in Stages
  BY StepFacts DEF Finish, TaskTrue, Stages
<1>2. CASE Lapse(d, Released(d, "abandoning"))
  BY <1>1, <1>2, AbandonGoes, LapseMoved DEF Early
<1>3. CASE /\ EnsureAuthoritative(p) /\ Refresh(p) /\ Go(d, t)
           /\ UNCHANGED <<selected, now, routed, visible, nonceAt, spent>>
  <2>1. Follows(d, t) /\ t.stage = "finished" /\ t.i = tasks[d].i
    BY <1>1, ReleasedFollows
  <2>2. Moves(d, t)
    BY <1>3, <2>1 DEF Moves, Looks
  <2> HIDE DEF t
  <2>3. tasks[d].stage \in Openings /\ "finished" \in Openings \ {"reserved"}
    BY <1>1 DEF Openings
  <2> QED
    BY <1>1, <2>1, <2>2, <2>3, GoesMoved
<1> QED
  BY <1>2, <1>3 DEF Finish

LEMMA StartReplyMoved == ASSUME IInv, NEW d \in Tasks, StartReply(d) PROVE Moved
<1> DEFINE t == IF IsLifecycleCurrent(d) THEN SendDurableReply(d, 0) ELSE At(d, "abandoning")
<1>1. Typed /\ 0 \in 0..Chunks /\ tasks[d].stage = "begun"
  BY DiscordConstants DEF IInv, StartReply
<1>2. /\ Follows(d, t)
      /\ \/ t.stage = "done" /\ t.i = 0
         \/ t.stage = "sending" /\ t.i = 0
         \/ t.stage = "abandoning" /\ t.i = tasks[d].i
  BY <1>1, SendFollows, AbandonGoes
<1>3. Moves(d, t)
  BY <1>2 DEF StartReply, Moves, Looks
<1> HIDE DEF t
<1> QED
  BY <1>1, <1>2, <1>3, GoesMoved DEF Early

LEMMA BeginReplyMoved ==
    ASSUME IInv, Typed', \A n \in Ids : Ledger(n), NEW d \in Tasks, BeginReply(d) PROVE Moved
<1>0. PICK m \in Ids : m = tasks[d].m
  BY StepFacts
<1> USE <1>0
<1> DEFINE p == tasks[d].p
           e == Cache(p)[m]
           w == Replying(e, Chunks, now)
           want == e.state = "reserved"
<1>1. /\ tasks[d].stage = "finished" /\ m \in Messages /\ m \in Ids /\ p \in Procs /\ now \in 0..MaxTime
      /\ "begun" \in Stages /\ e \in Entry /\ Typed /\ d \in Of(m)
  BY StepFacts DEF BeginReply, TaskTrue, Stages, Of
<1>2. Parts(m) = Chunks
  BY <1>1, DiscordConstants DEF Parts
<1>3. /\ w \in Entry /\ True(m, w, Shown(m)) /\ w.state = "replying" /\ w.conf = 0 /\ w.next = 0 /\ Fits(w)
  BY <1>1, <1>2, ReplyingTrue, ReplyingFields
<1>4. CASE Lapse(d, At(d, "abandoning"))
  BY <1>1, <1>4, AbandonGoes, LapseMoved DEF Early
<1>5. CASE /\ EnsureAuthoritative(p) /\ Record(p, m, want, w) /\ UNCHANGED spent
           /\ Go(d, IF Written(p, m, want, w) THEN At(d, "begun") ELSE Ended(d, "none"))
           /\ UNCHANGED <<selected, now, routed, visible, nonceAt>>
  <2>1. CASE Written(p, m, want, w) /\ want /\ Puts(p, m, w)
    <3> DEFINE t == At(d, "begun")
    <3>1. Follows(d, t) /\ t.stage = "begun" /\ t.i = tasks[d].i
      BY <1>1, AtFollows
    <3>2. Writes(d, t, w)
      BY <1>5, <2>1, <3>1 DEF Writes
    <3>3. file[m].conf \in Nat /\ Ledger(m)
      BY <1>1, MessageFacts, EntryNumbers
    <3>4. Recent(m, w.conf + 1)
      <4>1. Out(m) = {}
        BY <1>1, <3>3 DEF Ledger, Opening, Openings
      <4> QED
        BY <4>1 DEF Recent
    <3> HIDE DEF w, t
    <3> QED
      BY <1>1, <1>3, <3>1, <3>2, <3>3, <3>4, ResumesMoved
  <2>2. CASE ~Written(p, m, want, w) /\ Refresh(p)
    <3>1. Moves(d, Ended(d, "none"))
      BY <1>1, <1>5, <2>2, EndsGoes DEF Moves, Looks
    <3> QED
      BY <1>1, <3>1, EndsGoes, GoesMoved
  <2> QED
    BY Zenon, <2>1, <2>2, <1>1, <1>5, RecordSplits
<1>6. CASE /\ EnsureAuthoritative(p) /\ WriteFails(p) /\ Go(d, Ended(d, "none"))
           /\ UNCHANGED <<selected, now, routed, visible, nonceAt>>
  <2>1. Moves(d, Ended(d, "none"))
    BY <1>1, <1>6, EndsGoes DEF Moves, Looks, WriteFails
  <2> QED
    BY <1>1, <2>1, EndsGoes, GoesMoved
<1> QED
  BY <1>4, <1>5, <1>6 DEF BeginReply

LEMMA ClaimChunkMoved ==
    ASSUME IInv, Typed', \A n \in Ids : Ledger(n), NEW d \in Tasks, ClaimChunk(d) PROVE Moved
<1>0. PICK m \in Ids : m = tasks[d].m
  BY StepFacts
<1> USE <1>0
<1> DEFINE p == tasks[d].p
           f == file[m]
           e == Cache(p)[m]
           i == tasks[d].i + 1
           w == Claimed(e, i, now)
           want == CanClaim(e, i)
           t == At(d, "claimed")
           u == At(d, "abandoning")
<1>1. /\ tasks[d].stage = "sending" /\ m \in Ids /\ p \in Procs /\ now \in 0..MaxTime /\ tasks[d].i \in 0..Chunks
      /\ "claimed" \in Stages /\ e \in Entry /\ True(m, e, Shown(m)) /\ Typed /\ d \in Of(m) /\ f \in Entry
      /\ Ledger(m) /\ RecordsTrue
  BY StepFacts, MessageFacts DEF ClaimChunk, Stages, Of
<1>2. /\ Follows(d, u) /\ u.stage = "abandoning" /\ u.i = tasks[d].i
      /\ Follows(d, t) /\ t.stage = "claimed" /\ t.i = tasks[d].i
  BY <1>1, AbandonGoes, AtFollows
<1>3. CASE Lapse(d, u)
  BY <1>1, <1>2, <1>3, LapseMoved DEF Early
<1>4. CASE /\ EnsureAuthoritative(p) /\ Record(p, m, want, w) /\ UNCHANGED spent
           /\ Go(d, At(d, IF Written(p, m, want, w) THEN "claimed" ELSE "abandoning"))
           /\ UNCHANGED <<selected, now, routed, visible, nonceAt>>
  <2>1. CASE Written(p, m, want, w) /\ want /\ Puts(p, m, w)
    <3>1. Writes(d, t, w)
      BY <1>2, <1>4, <2>1 DEF Writes
    <3>2. Copy(m, e)
      BY <1>1, CacheCopy
    <3>3. Fits(e) /\ (f.state # "completed" => e.conf =< f.conf)
      <4> HIDE DEF e
      <4> QED
        BY <1>1, <3>2, CopyFacts
    <3>4. w.state = "replying" /\ w.conf = e.conf /\ w.next = i /\ i = e.conf + 1 /\ Fits(w)
      <4> HIDE DEF e, i
      <4> QED
        BY <1>1, <2>1, <3>3, ClaimedFields
    <3>5. i \in Nat
      BY <1>1
    <3>6. w \in Entry /\ True(m, w, Shown(m))
      <4> HIDE DEF e, i
      <4> QED
        BY <1>1, <2>1, <3>5, ClaimedTrue
    <3> HIDE DEF w, e, t
    <3>7. PICK b \in Entry : (b = f \/ b = Recovered(f, p)) /\ Accepts(b, w)
      BY <1>1, <3>1, <3>4, <3>6, WritesEnter
    <3>8. Alike(b, f)
      BY <1>1, <3>7, RecoveredAlike DEF Alike
    <3>9. f.state # "reserved"
      BY <1>1 DEF Ledger, Cursor, Openings
    <3>10. f.state = "replying" /\ f.conf = w.conf /\ f.next = w.conf
      <4>1. w.next = w.conf + 1
        BY <3>4
      <4> HIDE DEF f, i
      <4> QED
        BY <1>1, <3>3, <3>4, <3>6, <3>7, <3>8, <3>9, <4>1, AcceptsNext
    <3>11. file'[m] = w /\ Enters(m, d, t) /\ \A n \in Ids \ {m} : Drifts(n)
      <4>1. t.stage # "posting"
        BY <1>2 DEF t
      <4> QED
        BY <1>1, <3>1, <3>4, <3>6, <4>1, WritesEnter
    <3>12. w.conf = tasks[d].i
      <4>1. e.conf \in Nat /\ tasks[d].i \in Nat
        BY <1>1, EntryNumbers
      <4> QED
        BY <4>1, <3>4
    <3>13. Claims(m, d, t)
      BY <1>1, <1>2, <3>4, <3>10, <3>11, <3>12 DEF Claims
    <3>14. t \in Task
      BY <1>2 DEF Follows
    <3> QED
      BY <1>1, <3>11, <3>13, <3>14 DEF Moved, Writer
  <2>2. CASE ~Written(p, m, want, w) /\ Refresh(p)
    <3>1. Moves(d, u)
      BY <1>1, <1>2, <1>4, <2>2 DEF Moves, Looks
    <3> QED
      BY <1>1, <1>2, <3>1, GoesMoved DEF Early
  <2> QED
    BY Zenon, <2>1, <2>2, <1>1, <1>4, RecordSplits
<1>5. CASE /\ EnsureAuthoritative(p) /\ WriteFails(p) /\ Go(d, u)
           /\ UNCHANGED <<selected, now, routed, visible, nonceAt>>
  <2> HIDE DEF u
  <2>1. Moves(d, u)
    BY <1>1, <1>2, <1>5 DEF Moves, Looks, WriteFails
  <2> QED
    BY <1>1, <1>2, <2>1, GoesMoved DEF Early
<1> QED
  BY <1>3, <1>4, <1>5 DEF ClaimChunk

LEMMA SendReplyMoved ==
    ASSUME IInv, \A n \in Ids : Ledger(n), NEW d \in Tasks, SendReply(d) PROVE Moved
<1>0. PICK m \in Ids : m = tasks[d].m
  BY StepFacts
<1> USE <1>0
<1> DEFINE p == tasks[d].p
           i == tasks[d].i + 1
           t == [At(d, "posting") EXCEPT !.post = i, !.at = now]
<1>1. /\ tasks[d].stage = "claimed" /\ m \in Ids /\ p \in Procs /\ Typed /\ TaskTrue(tasks[d], Shown(m))
      /\ tasks[d].i \in 0..Chunks /\ now \in 0..MaxTime /\ "posting" \in Stages /\ d \in Of(m)
      /\ Ledger(m) /\ tasks[d].post \in 0..Chunks
  <2>1. /\ tasks[d].stage = "claimed" /\ "posting" \in Stages
    BY Zenon DEF SendReply, Stages
  <2> QED
    BY <2>1, StepFacts, TaskType DEF Of
<1>2. i \in 0..Chunks
  <2>1. i \in 1..Parts(m)
    BY <1>1, PartsOne DEF TaskTrue
  <2> QED
    BY <2>1, PartsOne, DiscordConstants
<1>3. CASE Lapse(d, At(d, "abandoning"))
  BY <1>1, <1>3, AbandonGoes, LapseMoved DEF Early
<1>4. CASE /\ May(d) /\ EnsureAuthoritative(p) /\ Refresh(p) /\ Go(d, t)
           /\ UNCHANGED <<selected, now, routed, visible, nonceAt, spent>>
  <2>1. Follows(d, t) /\ t.stage = "posting" /\ t.i = tasks[d].i /\ t.at = now /\ t.post = i /\ t.p = p
    <3> DEFINE u == At(d, "posting")
    <3>1. /\ u \in Task /\ u.p = tasks[d].p /\ u.m = tasks[d].m /\ u.stage = "posting" /\ u.i = tasks[d].i
      BY <1>1, AtFollows DEF Follows
    <3>2. now \in Nat
      BY <1>1
    <3> HIDE DEF u, i
    <3>3. [u EXCEPT !.post = i, !.at = now] \in Task
      BY Zenon, <1>2, <3>1, <3>2 DEF Task
    <3>4. /\ [u EXCEPT !.post = i, !.at = now].p = tasks[d].p
          /\ [u EXCEPT !.post = i, !.at = now].m = tasks[d].m
          /\ [u EXCEPT !.post = i, !.at = now].stage = "posting"
          /\ [u EXCEPT !.post = i, !.at = now].i = tasks[d].i
          /\ [u EXCEPT !.post = i, !.at = now].post = i /\ [u EXCEPT !.post = i, !.at = now].at = now
      BY <3>1 DEF Task
    <3> QED
      BY <3>3, <3>4 DEF Follows, u
  <2> HIDE DEF t
  <2>2. \A n \in Ids : FileDrifts(n) /\ \A q \in Procs : CopyDrifts(n, q)
    BY <1>1, <1>4, LooksDrift DEF Looks
  <2>3. \A n \in Ids : SameChannel(n)
    BY <1>4 DEF SameChannel
  <2>4. /\ \A n \in Ids : Of(n)' = Of(n)
        /\ tasks'[d] = t /\ \A b \in Tasks : b # d => tasks'[b] = tasks[b]
        /\ \A n \in Ids \ {m} : TasksDrift(n)
    BY <1>1, <1>4, <2>1, GoOf
  <2>5. tasks[d].post = 0
    BY <1>1 DEF Ledger, Timed
  <2>6. Posts(m, d)
    <3>1. p = selected
      BY <1>4 DEF May, IsActive
    <3>2. \A b \in Of(m) : b # d => tasks'[b] = tasks[b]
      BY <2>4 DEF Of
    <3> QED
      BY <1>1, <1>4, <2>1, <2>2, <2>3, <2>4, <2>5, <3>1, <3>2 DEF Posts
  <2>7. \A n \in Ids \ {m} : Drifts(n)
    BY <1>4, <2>2, <2>3, <2>4 DEF Drifts
  <2>8. t \in Task
    BY <2>1 DEF Follows
  <2> QED
    BY Zenon, <1>1, <2>6, <2>7, <2>8 DEF Moved
<1> QED
  BY Zenon, <1>3, <1>4 DEF SendReply

LEMMA PostFailsMoved == ASSUME IInv, NEW d \in Tasks, PostFails(d) PROVE Moved
<1> DEFINE t == At(d, "abandoning")
<1>1. Typed /\ tasks[d].stage = "posting" /\ Follows(d, t) /\ t.stage = "abandoning" /\ t.i = tasks[d].i
  BY AbandonGoes DEF IInv, PostFails
<1>2. Moves(d, t)
  BY <1>1 DEF PostFails, Moves, Looks
<1> HIDE DEF t
<1> QED
  BY <1>1, <1>2, GoesMoved DEF Early

LEMMA ArrivesMoved ==
    ASSUME IInv, \A n \in Ids : Ledger(n), NEW d \in Tasks, Arrives(d) PROVE Moved
<1>0. PICK m \in Ids : m = tasks[d].m
  BY StepFacts
<1> USE <1>0
<1> DEFINE i == tasks[d].post
           t == [At(d, "answered") EXCEPT !.post = 0, !.at = 0]
           remembered == nonceAt[m][i] # Never /\ now - nonceAt[m][i] =< NonceMemory
<1>1. /\ m \in Ids /\ Typed /\ d \in Of(m) /\ Ledger(m) /\ ChannelTrue /\ TasksTrue
      /\ tasks[d] \in Task /\ "answered" \in Stages /\ i \in 0..Chunks /\ 0 \in 0..Chunks /\ 0 \in Nat
      /\ now \in 0..MaxTime
  BY StepFacts, TaskType, DiscordConstants DEF IInv, Of, Stages
<1>2. /\ i # 0 /\ now - tasks[d].at =< PostTimeout
      /\ IF remembered THEN UNCHANGED <<visible, nonceAt>>
         ELSE /\ visible' = [visible EXCEPT ![m] = Append(visible[m], i)]
              /\ nonceAt' = [nonceAt EXCEPT ![m] = [nonceAt[m] EXCEPT ![i] = now]]
      /\ tasks' = tasks \/ (tasks[d].stage = "posting" /\ Go(d, t))
      /\ UNCHANGED <<file, cached, proc, selected, now, routed, spent>>
  BY DEF Arrives
<1>3. i \in 1..Parts(m)
  <2>1. i \in Out(m)
    BY <1>1, <1>2 DEF Out
  <2> HIDE DEF i
  <2> QED
    BY <1>1, <2>1, OutFacts
<1>4. /\ visible \in [Ids -> Seq(Nat)] /\ \A n \in Ids : nonceAt[n] \in [1..Parts(n) -> Int]
      /\ nonceAt = [n \in Ids |-> nonceAt[n]]
  BY <1>1 DEF Typed
<1>5. t \in Task /\ t.p = tasks[d].p /\ t.m = m /\ t.stage = "answered" /\ t.i = tasks[d].i /\ t.post = 0
  <2> DEFINE u == At(d, "answered")
  <2>1. u \in Task /\ u.p = tasks[d].p /\ u.m = m /\ u.stage = "answered" /\ u.i = tasks[d].i
    BY <1>1, AtFollows DEF Follows
  <2> HIDE DEF u
  <2>2. /\ [u EXCEPT !.post = 0, !.at = 0] \in Task /\ [u EXCEPT !.post = 0, !.at = 0].p = tasks[d].p
        /\ [u EXCEPT !.post = 0, !.at = 0].m = m /\ [u EXCEPT !.post = 0, !.at = 0].stage = "answered"
        /\ [u EXCEPT !.post = 0, !.at = 0].i = tasks[d].i /\ [u EXCEPT !.post = 0, !.at = 0].post = 0
    BY Zenon, <1>1, <2>1 DEF Task
  <2> QED
    BY <2>2 DEF u
<1> HIDE DEF i
<1>6. \A n \in Ids \ {m} : SameChannel(n)
  <2> SUFFICES ASSUME NEW n \in Ids \ {m} PROVE visible'[n] = visible[n] /\ nonceAt'[n] = nonceAt[n]
    BY DEF SameChannel
  <2>1. CASE UNCHANGED <<visible, nonceAt>>
    BY <2>1
  <2>2. CASE /\ visible' = [visible EXCEPT ![m] = Append(visible[m], i)]
             /\ nonceAt' = [nonceAt EXCEPT ![m] = [nonceAt[m] EXCEPT ![i] = now]]
    BY <2>2, <1>4
  <2> QED
    BY <1>2, <2>1, <2>2
<1>7. (SameChannel(m) /\ nonceAt[m][i] # Never) \/ Appears(m, i)
  <2>1. CASE ~remembered
    <3> DEFINE f == nonceAt[m]
               new == [f EXCEPT ![i] = now]
    <3>1. f \in [1..Parts(m) -> Int]
      BY <1>1, <1>4
    <3>2. visible' = [visible EXCEPT ![m] = Append(visible[m], i)] /\ nonceAt' = [nonceAt EXCEPT ![m] = new]
      BY <1>2, <2>1
    <3>3. \A j \in 1..Parts(m) : new[j] = IF j = i THEN now ELSE f[j]
      <4> HIDE DEF f
      <4> QED
        BY <3>1, <1>3
    <3> HIDE DEF new
    <3>4. visible'[m] = Append(visible[m], i) /\ nonceAt'[m] = new
      BY <3>2, <1>4, <1>1
    <3> QED
      BY <2>1, <3>3, <3>4 DEF Appears
  <2>2. CASE remembered
    BY <1>2, <2>2 DEF SameChannel
  <2> QED
    BY <2>1, <2>2
<1> HIDE DEF remembered
<1>8. CASE tasks' = tasks
  <2>1. Of(m)' = Of(m) /\ \A n \in Ids : Of(n)' = Of(n)
    BY <1>8 DEF Of, Tasks
  <2>2. \A n \in Ids : TasksDrift(n)
    BY <1>8, <2>1 DEF TasksDrift, TaskDrifts
  <2>3. Lands(m, d)
    BY <1>1, <1>2, <1>7, <1>8, <2>1 DEF Lands, i
  <2>4. \A n \in Ids \ {m} : Drifts(n)
    BY <1>2, <1>6, <2>2 DEF Drifts, FileDrifts, CopyDrifts, Alive
  <2> QED
    BY Zenon, <1>1, <2>3, <2>4 DEF Moved
<1>9. CASE tasks[d].stage = "posting" /\ Go(d, t)
  <2> HIDE DEF t
  <2>1. Tasks' = Tasks /\ \A b \in Tasks : tasks'[b] = IF b = d THEN t ELSE tasks[b]
    <3>1. tasks \in Seq(Task) /\ d \in 1..Len(tasks) /\ tasks' = [tasks EXCEPT ![d] = t]
      BY <1>1, <1>9 DEF Typed, Tasks, Go
    <3> QED
      BY <1>5, <3>1, ExceptSeq DEF Tasks
  <2>2. \A n \in Ids : Of(n)' = Of(n)
    BY <1>5, <2>1 DEF Of
  <2>5. \A n \in Ids \ {m} : TasksDrift(n)
    <3> SUFFICES ASSUME NEW n \in Ids \ {m} PROVE TasksDrift(n)
      OBVIOUS
    <3>1. \A b \in Of(n) : b \in Tasks /\ tasks'[b] = tasks[b]
      BY <2>1 DEF Of
    <3> QED
      BY <2>2, <3>1 DEF TasksDrift, TaskDrifts
  <2>3. Lands(m, d)
    <3>1. tasks'[d] = t /\ \A b \in Of(m) : b # d => tasks'[b] = tasks[b]
      BY <1>1, <2>1 DEF Of
    <3>2. /\ tasks'[d].stage = "answered" /\ tasks'[d].i = tasks[d].i /\ tasks'[d].p = tasks[d].p
          /\ tasks'[d].post = 0
      BY <1>5, <3>1
    <3> QED
      BY <1>1, <1>2, <1>7, <1>9, <2>2, <3>1, <3>2 DEF Lands, i
  <2>4. \A n \in Ids \ {m} : Drifts(n)
    BY <1>2, <1>6, <2>5 DEF Drifts, FileDrifts, CopyDrifts, Alive
  <2> QED
    BY Zenon, <1>1, <2>3, <2>4 DEF Moved
<1> QED
  BY <1>2, <1>8, <1>9

LEMMA ConfirmChunkMoved ==
    ASSUME IInv, Typed', \A n \in Ids : Ledger(n), NEW d \in Tasks, ConfirmChunk(d) PROVE Moved
<1>0. PICK m \in Ids : m = tasks[d].m
  BY StepFacts
<1> USE <1>0
<1> DEFINE p == tasks[d].p
           f == file[m]
           e == cached[p][m]
           i == tasks[d].i + 1
           w == Confirmed(e, i, now)
           want == CanConfirm(e, i)
           t == IF ~IsLifecycleCurrent(d) THEN [At(d, "abandoning") EXCEPT !.i = i]
                ELSE IF i = Parts(m) THEN Ended(d, "delivered")
                ELSE [At(d, "sending") EXCEPT !.i = i]
           u == At(d, "abandoning")
<1>1. /\ tasks[d].stage = "answered" /\ m \in Ids /\ p \in Procs /\ now \in 0..MaxTime
      /\ tasks[d].i \in 0..Chunks /\ TaskTrue(tasks[d], Shown(m)) /\ Typed /\ RecordsTrue
      /\ {"sending", "abandoning"} \subseteq Stages /\ e \in Entry /\ True(m, e, Shown(m))
      /\ UNCHANGED <<proc, selected, now, routed, visible, nonceAt>> /\ "delivered" \in Results
      /\ d \in Of(m) /\ Ledger(m) /\ f \in Entry
  <2>1. /\ tasks[d].stage = "answered" /\ UNCHANGED <<proc, selected, now, routed, visible, nonceAt>>
    BY DEF ConfirmChunk
  <2>2. {"sending", "abandoning"} \subseteq Stages /\ "delivered" \in Results
    BY DEF Stages, Results
  <2> HIDE DEF i, w, want, t, u
  <2> QED
    BY <2>1, <2>2, StepFacts, MessageFacts DEF Of
<1>2. i \in 0..Chunks /\ i \in Nat
  BY <1>1, PartsOne, DiscordConstants DEF TaskTrue
<1>3. Follows(d, u) /\ u.stage = "abandoning" /\ u.i = tasks[d].i
  BY <1>1, AbandonGoes
<1>4. CASE /\ want /\ Accepts(file[m], w) /\ UNCHANGED spent
           /\ file' = [file EXCEPT ![m] = w] /\ cached' = [cached EXCEPT ![p] = file'] /\ Go(d, t)
  <2>1. 1..i \subseteq Shown(m)
    <3>1. 1..tasks[d].i \subseteq Shown(m) /\ i \in Shown(m)
      BY <1>1 DEF TaskTrue
    <3>2. 1..i = (1..tasks[d].i) \cup {i}
      <4> DEFINE k == tasks[d].i
      <4>1. k \in Nat /\ i = k + 1
        BY <1>1
      <4> HIDE DEF k, i
      <4>2. 1..i = (1..k) \cup {i}
        BY <4>1
      <4> QED
        BY <4>2 DEF k
    <3> QED
      BY Zenon, <3>1, <3>2
  <2>2. /\ w \in Entry /\ True(m, w, Shown(m)) /\ w.state # "none" /\ w.state # "partial"
        /\ Fits(w) /\ (w.state = "completed" \/ (w.state = "replying" /\ w.conf = i /\ w.next = i))
    <3>1. e.state # "none" /\ CanConfirm(e, i)
      BY <1>4 DEF CanConfirm
    <3> HIDE DEF i, e
    <3>2. w \in Entry /\ True(m, w, Shown(m))
      BY <1>1, <1>2, <3>1, <2>1, ConfirmedTrue
    <3>3. Fits(w) /\ (w.state = "completed" \/ (w.state = "replying" /\ w.conf = i /\ w.next = i))
      BY <1>1, <1>2, <3>1, ConfirmedFields
    <3> HIDE DEF w
    <3> QED
      BY <3>2, <3>3
  <2>3. /\ Follows(d, t)
        /\ (t.stage = "done" /\ t.i = 0) \/ (t.stage \in {"sending", "abandoning"} /\ t.i = i)
    <3>1. CASE t = Ended(d, "delivered")
      <4> HIDE DEF t
      <4> QED
        BY <1>1, <3>1, EndedFollows
    <3>2. ASSUME NEW stage \in {"abandoning", "sending"}, t = [At(d, stage) EXCEPT !.i = i]
          PROVE  Follows(d, t) /\ t.stage = stage /\ t.i = i
      <4> HIDE DEF t, i
      <4> QED
        BY <1>1, <1>2, <3>2, AtWith
    <3> QED
      BY <3>1, <3>2
  <2>4. PutsAtOnce(p, m, w)
    BY Zenon, <1>4, <2>2 DEF PutsAtOnce, Merged
  <2>5. Writes(d, t, w)
    BY Zenon, <1>1, <1>4, <2>3, <2>4 DEF Writes
  <2> HIDE DEF t, w, e
  <2>6. /\ file'[m] = w /\ Enters(m, d, t) /\ \A n \in Ids \ {m} : Drifts(n)
    <3>1. t.stage # "posting"
      BY <2>3
    <3> QED
      BY <1>1, <2>2, <2>5, <3>1, WritesEnter
  <2>7. Accepts(f, w)
    BY <1>4
  <2>8. w.state = "replying" => f.state \in {"replying", "partial"} /\ f.conf =< i
    <3> HAVE w.state = "replying"
    <3>1. f.state # "reserved" /\ (f.state # "completed" => tasks[d].i =< f.conf)
      BY <1>1 DEF Ledger, Cursor, Openings
    <3>2. f.conf \in Nat /\ f.next \in Nat /\ i \in Nat
      BY <1>1, <1>2, EntryNumbers
    <3>3. f.state = "replying" => f.conf =< f.next
      BY <1>1 DEF RecordsTrue, True
    <3>4. \/ f.state = "replying" /\ Advances(f, w)
          \/ f.state = "partial" /\ w.conf = f.conf
      BY <2>2, <2>7, <3>1 DEF Accepts
    <3> HIDE DEF f, i
    <3>5. CASE f.state = "replying" /\ Advances(f, w)
      BY <2>2, <3>2, <3>3, <3>5 DEF Advances
    <3>6. CASE f.state = "partial" /\ w.conf = f.conf
      BY <2>2, <3>2, <3>6
    <3> QED
      BY <3>4, <3>5, <3>6
  <2>9. Confirms(m, d, t)
    BY <1>1, <2>2, <2>3, <2>6, <2>8 DEF Confirms
  <2>10. t \in Task
    BY <2>3 DEF Follows
  <2> QED
    BY <1>1, <2>6, <2>9, <2>10 DEF Moved, Writer
<1>5. CASE (Happens("writes") \/ UNCHANGED spent) /\ Go(d, u) /\ NoLoad(p)
  <2> HIDE DEF u
  <2>1. Moves(d, u)
    BY <1>1, <1>3, <1>5 DEF Moves, Looks, NoLoad
  <2> QED
    BY <1>1, <1>3, <2>1, GoesMoved DEF Early
<1> QED
  BY <1>4, <1>5 DEF ConfirmChunk

\* An interrupted reply is written down as partial.
LEMMA RecordPartialMoved ==
    ASSUME IInv, Typed', \A n \in Ids : Ledger(n), NEW d \in Tasks, RecordPartial(d) PROVE Moved
<1>0. PICK m \in Ids : m = tasks[d].m
  BY StepFacts
<1> DEFINE p == tasks[d].p
           f == file[m]
           e == cached[p][m]
           w == GivenUp(e, tasks[d].i, now)
           t == Ended(d, "retry")
<1>1. /\ tasks[d].stage = "abandoning" /\ m \in Ids /\ p \in Procs /\ now \in 0..MaxTime
      /\ tasks[d].i \in 0..Chunks /\ TaskTrue(tasks[d], Shown(m)) /\ Typed /\ RecordsTrue
      /\ e \in Entry /\ True(m, e, Shown(m)) /\ Go(d, t) /\ d \in Of(m) /\ f \in Entry /\ Ledger(m)
      /\ UNCHANGED <<proc, selected, now, routed, visible, nonceAt>>
  BY <1>0, StepFacts, MessageFacts DEF RecordPartial, Of
<1>2. Follows(d, t) /\ t.stage = "done" /\ t.i = 0
  BY <1>1, EndsGoes
<1>3. CASE /\ CanGiveUp(e) /\ Accepts(f, w) /\ UNCHANGED spent
           /\ file' = [file EXCEPT ![m] = Merged(@, w)] /\ cached' = [cached EXCEPT ![p] = file']
  <2>1. /\ w \in Entry /\ True(m, w, Shown(m)) /\ w.state = "partial"
    BY <1>0, <1>1, GivenUpTrue DEF TaskTrue
  <2>2. /\ w.upd = now /\ w.conf = Larger(e.conf, tasks[d].i)
        /\ w.since = IF e.since = Never /\ InDoubt(e) THEN e.upd ELSE e.since
    BY <1>1, GivenUpFields
  <2>3. /\ Fits(e) /\ Fits(f) /\ Timed(m) /\ Cursor(m) /\ Told(m) /\ Holder(m)
    BY <1>1 DEF Ledger, Timed
  <2>4. /\ e.upd \in Nat /\ f.upd \in Nat /\ e.since \in Int /\ f.since \in Int /\ now \in Nat
        /\ e.upd =< now /\ e.since =< now /\ e.conf \in Nat /\ f.conf \in Nat /\ tasks[d].i \in Nat
        /\ f.upd # Never
    <3> HIDE DEF e, f
    <3>1. e.upd \in 0..MaxTime /\ f.upd \in 0..MaxTime /\ MaxTime \in Nat
      BY <1>1, DiscordConstants DEF Entry
    <3> QED
      BY <1>1, <2>3, <3>1, EntryNumbers DEF Fits, Never
  <2>5. PutsAtOnce(p, m, w)
    <3> HIDE DEF w
    <3> QED
      BY <1>0, <1>3 DEF PutsAtOnce
  <2>6. Writes(d, t, w)
    <3> HIDE DEF w, t
    <3> QED
      BY <1>0, <1>1, <1>2, <1>3, <2>5 DEF Writes
  <2>7. f.state \in {"reserved", "replying", "partial"}
    BY <1>1, <1>3, <2>1 DEF Accepts, Entry, States
  <2> HIDE DEF w, t, e
  <2>8. w.upd =< now /\ w.since =< now
    BY <2>2, <2>4
  <2>9. LET g == Merged(f, w) IN
        /\ g.state = "partial" /\ Fits(g) /\ g.conf = Larger(f.conf, w.conf)
        /\ g.since = IF f.since # Never THEN f.since ELSE w.since
    <3> HIDE DEF f
    <3> QED
      BY <1>1, <2>1, <2>3, <2>8, MergedFields
  <2>10. file'[m] = Merged(f, w) /\ \A n \in Ids \ {m} : Drifts(n)
    <3>1. file'[m] = Merged(f, w)
      BY <1>1, <1>3 DEF Typed, w, e
    <3>2. w.state # "none"
      BY <2>1
    <3> QED
      BY <1>0, <1>1, <2>1, <2>6, <3>1, <3>2, WritesEnter
  <2>11. Enters(m, d, t)
    <3>1. w.state # "none" /\ Fits(file'[m]) /\ t.stage # "posting"
      BY <1>2, <2>1, <2>9, <2>10 DEF t
    <3> QED
      BY <1>0, <1>1, <2>1, <2>6, <3>1, WritesEnter
  <2>12. file'[m].conf = f.conf
    <3>1. e.conf =< f.conf /\ tasks[d].i =< f.conf
      BY <1>1, <2>3, <2>7 DEF Cursor, e
    <3>2. w.conf =< f.conf /\ w.conf \in Nat
      BY <2>2, <2>4, <3>1 DEF Larger
    <3> HIDE DEF f
    <3> QED
      BY <2>4, <2>9, <2>10, <3>2 DEF Larger
  <2>13. (Calm(m) => Dated(m, file[m]))'
    <3>1. Calm(m)' => Calm(m)
      <4>1. Of(m)' = Of(m) /\ \A b \in Of(m) : b # d => tasks'[b] = tasks[b]
        BY <2>11 DEF Enters
      <4>2. tasks'[d] = t
        BY <2>11, <1>1 DEF Enters
      <4>3. \A b \in Of(m) : Early(b)' => Early(b)
        <5> TAKE b \in Of(m)
        <5>1. CASE b = d
          BY <1>2, <4>2, <5>1 DEF Early
        <5>2. CASE b # d
          BY <4>1, <5>2 DEF Early
        <5> QED
          BY <5>1, <5>2
      <4> QED
        BY <4>1, <4>3 DEF Calm
    <3>2. ASSUME Calm(m), f.conf + 1 \in Out(m)
          PROVE  file'[m].since # Never /\ file'[m].since =< Dates(m, f)
      <4>1. f.state # "reserved"
        BY <2>3, <3>2 DEF Cursor
      <4>2. CASE f.state = "partial"
        <5>1. f.since # Never /\ f.since =< Dates(m, f)
          BY <2>3, <3>2, <4>2 DEF Told, Dated
        <5> QED
          BY <2>9, <2>10, <5>1
      <4>3. CASE f.state = "replying"
        <5>1. InDoubt(f) /\ DoubtSince(f) =< Dates(m, f)
          BY <2>3, <3>2, <4>3 DEF Told, Doubted
        <5>2. CASE f.since # Never
          BY <2>9, <2>10, <5>1, <5>2 DEF DoubtSince
        <5>3. CASE f.since = Never
          <6>1. InDoubt(e) /\ e.since = Never /\ e.upd = f.upd
            BY <1>1, <2>3, <3>2, <5>1, <5>3 DEF Holder, Early, e
          <6>2. w.since = f.upd
            BY <2>2, <6>1
          <6> QED
            BY <2>4, <2>9, <2>10, <5>1, <5>3, <6>2 DEF DoubtSince
        <5> QED
          BY <5>2, <5>3
      <4> QED
        BY <2>7, <4>1, <4>2, <4>3
    <3>3. Out(m)' = Out(m) /\ Born(m)' = Born(m)
      <4>1. t.stage \notin {"queued", "admitted", "doubtful"}
        BY <1>2 DEF t
      <4> QED
        BY <1>1, <2>11, <4>1, EnterFacts
    <3>4. Dates(m, file[m])' = Dates(m, f)
      BY <2>12, <3>3 DEF Dates
    <3> QED
      BY <2>12, <3>1, <3>2, <3>3, <3>4 DEF Dated
  <2>14. GivesUp(m, d, t)
    BY <1>1, <1>2, <2>7, <2>9, <2>10, <2>11, <2>12, <2>13 DEF GivesUp
  <2>15. t \in Task
    BY <1>2 DEF Follows
  <2> QED
    BY <1>1, <2>10, <2>14, <2>15 DEF Moved, Writer
<1>4. CASE (Happens("writes") \/ UNCHANGED spent) /\ NoLoad(p)
  <2> HIDE DEF t
  <2>1. Moves(d, t)
    BY <1>1, <1>2, <1>4 DEF Moves, Looks, NoLoad
  <2> QED
    BY <1>1, <1>2, <2>1, GoesMoved
<1> QED
  BY <1>0, <1>3, <1>4 DEF RecordPartial

\* A reservation, of either kind of delivery.
LEMMA AnswersAre ==
    ASSUME NEW d
    PROVE  LET p == tasks[d].p  m == tasks[d].m  e == Cache(p)[m]  w == Reservation(e, p, now) IN
           /\ Written(p, m, ReserveWrites(e), w) =>
                 Answer(d) = IF e.state = "none" THEN "process"
                             ELSE IF Replayable(e, now) THEN "resume_reply" ELSE "duplicate"
           /\ ~Written(p, m, ReserveWrites(e), w) =>
                 \/ Answer(d) = "duplicate"
                 \/ Answer(d) = "resume_reply" /\ e.state = "replying"
<1> DEFINE p == tasks[d].p
           m == tasks[d].m
           e == Cache(p)[m]
           w == Reservation(e, p, now)
           wr == Accepts(Fresh(p)[m], w)
<1> SUFFICES
      /\ Written(p, m, ReserveWrites(e), w) =>
            Answer(d) = IF e.state = "none" THEN "process"
                        ELSE IF Replayable(e, now) THEN "resume_reply" ELSE "duplicate"
      /\ ~Written(p, m, ReserveWrites(e), w) =>
            \/ Answer(d) = "duplicate"
            \/ Answer(d) = "resume_reply" /\ e.state = "replying"
  OBVIOUS
<1>1. Answer(d) = IF ReserveWrites(e) /\ ~(TRUE /\ wr) THEN "duplicate" ELSE Decision(e, now)
  BY DEF Answer, Written
<1>2. Written(p, m, ReserveWrites(e), w) <=> ReserveWrites(e) /\ wr
  BY DEF Written
<1> HIDE DEF wr, e, w
<1>3. CASE ReserveWrites(e) /\ wr
  <2>1. Answer(d) = Decision(e, now)
    BY <1>1, <1>3
  <2>2. e.state # "none" => InDoubt(e) /\ e.state = "replying"
    BY <1>3 DEF ReserveWrites, InDoubt
  <2>3. e.state = "none" => Decision(e, now) = "process"
    BY Zenon DEF Decision
  <2>4. e.state # "none" => Decision(e, now) = IF Replayable(e, now) THEN "resume_reply" ELSE "duplicate"
    BY <2>2 DEF Decision
  <2> QED
    BY Zenon, <2>1, <2>3, <2>4, <1>2, <1>3
<1>4. CASE ReserveWrites(e) /\ ~wr
  BY <1>1, <1>2, <1>4
<1>5. CASE ~ReserveWrites(e)
  <2>1. Answer(d) = Decision(e, now)
    BY <1>1, <1>5
  <2>2. e.state # "none"
    BY <1>5 DEF ReserveWrites
  <2>3. Decision(e, now) = "duplicate" \/ (Decision(e, now) = "resume_reply" /\ e.state = "replying")
    BY <2>2 DEF Decision
  <2> QED
    BY Zenon, <2>1, <2>3, <1>2, <1>5
<1> QED
  BY Zenon, <1>3, <1>4, <1>5

LEMMA ReservationMoved ==
    ASSUME IInv, Typed', LongMemory, \A n \in Ids : Ledger(n), NEW d \in Tasks, NEW t, Follows(d, t),
           tasks[d].stage \in {"queued", "admitted"}, Alive(tasks[d].p),
           Answer(d) = "process" => t.stage = "reserved" /\ t.i = tasks[d].i,
           Answer(d) = "resume_reply" =>
              \/ t.stage = "done" /\ t.i = 0
              \/ t.stage \in {"resuming", "sending"} /\ t.i = Cache(tasks[d].p)[tasks[d].m].conf,
           Answer(d) = "duplicate" =>
              \/ t.stage = "done" /\ t.i = 0
              \/ t.stage = "doubtful" /\ t.i = tasks[d].i /\ tasks[d].stage = "queued" /\ tasks[d].m \in Courses,
           Go(d, t), EnsureAuthoritative(tasks[d].p),
           Record(tasks[d].p, tasks[d].m, ReserveWrites(Cache(tasks[d].p)[tasks[d].m]),
                  Reservation(Cache(tasks[d].p)[tasks[d].m], tasks[d].p, now)),
           UNCHANGED <<selected, now, routed, visible, nonceAt, spent>>
    PROVE  Moved
<1>0. PICK m \in Ids : m = tasks[d].m
  BY StepFacts
<1> DEFINE p == tasks[d].p
           f == file[m]
           e == Cache(p)[m]
           w == Reservation(e, p, now)
<1>1. /\ Typed /\ RecordsTrue /\ p \in Procs /\ now \in 0..MaxTime /\ e \in Entry /\ True(m, e, Shown(m))
      /\ d \in Of(m) /\ f \in Entry /\ Ledger(m) /\ Early(d) /\ t \in Task
      /\ ChannelTrue /\ TasksTrue
  BY <1>0, StepFacts, MessageFacts DEF Of, Early, Follows, IInv
<1>2. /\ Fits(e) /\ (f.state # "completed" => e.conf =< f.conf) /\ (e.state = "replying" => Resumable(m))
      /\ Calm(m) => Doubted(m, e)
  <2>1. Copy(m, e)
    BY <1>1, CacheCopy
  <2> HIDE DEF e
  <2> QED
    BY <1>1, <2>1, CopyFacts
<1>3. /\ Written(p, m, ReserveWrites(e), w) =>
            Answer(d) = IF e.state = "none" THEN "process"
                        ELSE IF Replayable(e, now) THEN "resume_reply" ELSE "duplicate"
      /\ ~Written(p, m, ReserveWrites(e), w) =>
            \/ Answer(d) = "duplicate"
            \/ Answer(d) = "resume_reply" /\ e.state = "replying"
  BY <1>0, AnswersAre
<1>4. Record(p, m, ReserveWrites(e), w)
  BY <1>0
<1>5. /\ Answer(d) = "resume_reply" =>
            (t.stage = "done" /\ t.i = 0) \/ (t.stage \in {"resuming", "sending"} /\ t.i = e.conf)
      /\ Answer(d) = "duplicate" =>
            (t.stage = "done" /\ t.i = 0)
            \/ (t.stage = "doubtful" /\ t.i = tasks[d].i /\ tasks[d].stage = "queued" /\ m \in Courses)
  BY <1>0
<1>6. CASE Written(p, m, ReserveWrites(e), w) /\ Puts(p, m, w)
  <2>1. ReserveWrites(e) /\ (e.state # "none" => InDoubt(e) /\ e.state = "replying")
    BY <1>6 DEF Written, ReserveWrites, InDoubt
  <2>2. Writes(d, t, w)
    BY <1>0, <1>6 DEF Writes
  <2>3. /\ w \in Entry /\ True(m, w, Shown(m))
        /\ e.state = "none" => w.state = "reserved"
        /\ e.state # "none" => w.state \in {"replying", "partial"}
    <3>1. ReserveWrites(e)
      BY <2>1
    <3> HIDE DEF e
    <3> QED
      BY <1>1, <3>1, ReservationTrue
  <2>4. /\ e.state = "none" => w.state = "reserved" /\ w.conf = 0 /\ Fits(w)
        /\ e.state # "none" /\ Replayable(e, now) =>
              w.state = "replying" /\ w.conf = e.conf /\ w.next = e.conf /\ Fits(w)
        /\ e.state # "none" /\ ~Replayable(e, now) =>
              w.state = "partial" /\ w.conf = e.conf /\ w.since = DoubtSince(e) /\ w.upd =< now
    <3> HIDE DEF e
    <3> QED
      BY <1>1, <1>2, <2>1, ReservationFields
  <2> HIDE DEF e, w
  <2>5. w.state # "none"
    BY <2>3
  <2>6. PICK b \in Entry : /\ b = f \/ b = Recovered(f, p)
                           /\ Accepts(b, w) /\ file'[m] = Merged(b, w)
                           /\ w.state # "partial" => file'[m] = w
    BY <1>0, <1>1, <2>2, <2>3, <2>5, WritesEnter
  <2>7. \A n \in Ids \ {m} : Drifts(n)
    BY <1>0, <1>1, <2>2, <2>3, <2>5, WritesEnter
  <2>8. Fits(file'[m]) => Enters(m, d, t)
    <3>1. t.stage # "posting"
      BY <1>3, <1>5, <1>6
    <3> QED
      BY <1>0, <1>1, <2>2, <2>3, <2>5, <3>1, WritesEnter
  <2>9. Alike(b, f)
    BY <1>1, <2>6, RecoveredAlike DEF Alike
  <2>10. CASE e.state = "none"
    <3>1. t.stage = "reserved" /\ t.i = tasks[d].i
      BY <1>3, <1>6, <2>10
    <3>2. f.state = "none"
      BY <2>4, <2>6, <2>9, <2>10 DEF Accepts, Alike
    <3>3. Reserves(m, d, t)
      BY <1>1, <2>4, <2>6, <2>8, <2>10, <3>1, <3>2 DEF Reserves
    <3> QED
      BY <1>1, <2>7, <3>3 DEF Moved, Writer
  <2>11. CASE e.state # "none" /\ Replayable(e, now)
    <3>1. Answer(d) = "resume_reply"
      BY <1>3, <1>6, <2>11
    <3>2. (t.stage = "done" /\ t.i = 0) \/ (t.stage \in {"resuming", "sending"} /\ t.i = w.conf)
      BY <1>5, <2>4, <2>11, <3>1
    <3>3. Resumable(m) /\ (f.state # "completed" => w.conf =< f.conf)
      BY <1>2, <2>1, <2>4, <2>11
    <3>4. Steady(m) => Recent(m, w.conf + 1)
      <4> SUFFICES ASSUME Steady(m), w.conf + 1 \in Out(m)
                   PROVE  now - Born(m)[w.conf + 1] + PostTimeout =< NonceMemory
        BY DEF Recent
      <4>1. Calm(m)
        BY <1>1, CalmWhileEarly DEF Steady
      <4>2. DoubtSince(e) =< Born(m)[w.conf + 1]
        BY <1>2, <2>1, <2>4, <2>11, <4>1 DEF Doubted, Dates
      <4>3. now - DoubtSince(e) =< ReplayWindow
        BY <2>11 DEF Replayable
      <4>4. Born(m)[w.conf + 1] \in Int /\ DoubtSince(e) \in Int /\ now \in Int
        <5>1. w.conf + 1 \in 1..Parts(m)
          BY <1>1, OutFacts
        <5>2. Born(m) \in [1..Parts(m) -> Int]
          BY <1>1, MessageFacts
        <5>3. now \in Int
          BY <1>1, MessageFacts
        <5> QED
          BY <1>1, <5>1, <5>2, <5>3, EntryNumbers
      <4>5. ReplayWindow + PostTimeout =< NonceMemory /\ NonceMemory \in Nat /\ ReplayWindow \in Nat /\ PostTimeout \in Nat
        BY DiscordConstants, DedupeConstants DEF LongMemory
      <4> DEFINE x == Born(m)[w.conf + 1]
                 y == DoubtSince(e)
      <4> HIDE DEF x, y
      <4>6. x \in Int /\ y \in Int /\ y =< x /\ now - y =< ReplayWindow
        BY <4>2, <4>3, <4>4 DEF x, y
      <4>7. now - x + PostTimeout =< NonceMemory
        BY <4>4, <4>5, <4>6
      <4> QED
        BY <4>7 DEF x
    <3> QED
      BY <1>0, <1>1, <2>2, <2>3, <2>4, <2>11, <3>2, <3>3, <3>4, ResumesMoved
  <2>12. CASE e.state # "none" /\ ~Replayable(e, now)
    <3>1. (t.stage = "done" /\ t.i = 0)
          \/ (t.stage = "doubtful" /\ t.i = tasks[d].i /\ tasks[d].stage = "queued" /\ m \in Courses)
      BY <1>3, <1>5, <1>6, <2>12
    <3>2. /\ w.state = "partial" /\ w.conf = e.conf /\ w.since = DoubtSince(e) /\ w.upd =< now
      BY <2>4, <2>12
    <3>3. f.state \in {"reserved", "replying", "partial"}
      BY <1>1, <2>6, <2>9, <3>2 DEF Accepts, Alike, Entry, States
    <3>4. /\ e.upd \in Nat /\ e.since \in Int /\ e.since =< now /\ e.upd =< now /\ e.conf \in Nat
          /\ f.conf \in Nat /\ DoubtSince(e) # Never /\ DoubtSince(e) =< now /\ DoubtSince(e) \in Int
      <4>1. e.upd \in 0..MaxTime /\ MaxTime \in Nat
        BY <1>1, DiscordConstants DEF Entry
      <4> HIDE DEF f
      <4> QED
        BY <1>1, <1>2, <4>1, EntryNumbers DEF Fits, Never, DoubtSince
    <3>5. Fits(b) /\ b.conf = f.conf /\ b.since = f.since
      BY <1>1, <2>9, AlikeKeeps DEF Alike, Ledger, Timed
    <3>6. /\ file'[m].state = "partial" /\ Fits(file'[m]) /\ file'[m].conf = Larger(f.conf, e.conf)
          /\ file'[m].since = IF f.since # Never THEN f.since ELSE DoubtSince(e)
      <4>1. w.upd =< now /\ w.since =< now
        BY <3>2, <3>4
      <4> HIDE DEF f
      <4> QED
        BY <1>1, <2>3, <2>6, <3>2, <3>5, <4>1, MergedFields
    <3>7. file'[m].conf = f.conf /\ file'[m].since # Never
      <4>1. e.conf =< f.conf
        BY <1>2, <3>3
      <4> QED
        BY <3>4, <3>6, <4>1 DEF Larger
    <3>8. Enters(m, d, t)
      BY <2>8, <3>6
    <3>9. (Calm(m) => Dated(m, file[m]))'
      <4>0. ~Early(d) => t.stage \notin {"queued", "admitted", "doubtful"}
        BY <1>1
      <4>1. /\ Out(m)' = Out(m) /\ Born(m)' = Born(m) /\ (Calm(m)' => Calm(m))
            /\ Of(m)' = Of(m) /\ tasks'[d] = t /\ \A a \in Of(m) : a # d => tasks'[a] = tasks[a]
        BY <1>1, <3>8, <4>0, EnterFacts
      <4>2. ASSUME Calm(m)', f.conf + 1 \in Out(m)
            PROVE  file'[m].since # Never /\ file'[m].since =< Dates(m, f)
        <5>1. Told(m) /\ Cursor(m) /\ Calm(m)
          BY <1>1, <4>1, <4>2 DEF Ledger
        <5>2. f.state # "reserved"
          BY <4>2, <5>1 DEF Cursor
        <5>3. CASE f.since # Never
          <6>1. CASE f.state = "partial"
            BY <3>6, <4>2, <5>1, <5>3, <6>1 DEF Told, Dated
          <6>2. CASE f.state = "replying"
            <7>1. InDoubt(f) /\ DoubtSince(f) =< Dates(m, f)
              BY <4>2, <5>1, <6>2 DEF Told, Doubted
            <7> QED
              BY <3>6, <5>3, <7>1 DEF DoubtSince
          <6> QED
            BY <3>3, <5>2, <6>1, <6>2
        <5>4. CASE f.since = Never /\ t.stage = "done"
          <6>1. Early(d)' = FALSE
            BY <4>1, <5>4 DEF Early
          <6>2. \A a \in Of(m) : a # d => Early(a)
            <7> SUFFICES ASSUME NEW a \in Of(m), a # d PROVE Early(a)
              OBVIOUS
            <7>1. Early(a)'
              BY <1>1, <4>1, <4>2, <6>1 DEF Calm
            <7>2. tasks'[a] = tasks[a]
              BY <4>1
            <7> QED
              BY <7>1, <7>2 DEF Early
          <6>3. f.state = "none"
            BY <1>1, <5>1, <6>2 DEF Told
          <6> QED
            BY <3>3, <6>3
        <5>5. CASE f.since = Never /\ t.stage = "doubtful"
          <6>1. m \in Courses
            BY <3>1, <5>5
          <6>2. f.conf = 0 /\ e.conf = 0
            <7>1. f.conf + 1 \in 1..1
              BY <1>1, <4>2, <6>1, OutFacts DEF Parts
            <7>2. e.conf =< f.conf
              BY <1>2, <3>3
            <7> HIDE DEF f
            <7> QED
              BY <3>4, <7>1, <7>2
          <6>3. DoubtSince(e) =< Dates(m, e)
            BY <1>2, <2>1, <2>12, <4>2, <5>1, <6>2 DEF Doubted
          <6> QED
            BY <3>6, <3>7, <5>5, <6>2, <6>3 DEF Dates
        <5> QED
          BY <3>1, <5>3, <5>4, <5>5
      <4>3. Dates(m, file[m])' = Dates(m, f)
        BY <3>7, <4>1 DEF Dates
      <4> QED
        BY <3>7, <4>1, <4>2, <4>3 DEF Dated
    <3>10. GivesUp(m, d, t)
      BY <1>1, <3>1, <3>3, <3>6, <3>7, <3>8, <3>9 DEF GivesUp
    <3> QED
      BY <1>1, <2>7, <3>10 DEF Moved, Writer
  <2> QED
    BY <2>10, <2>11, <2>12
<1>7. CASE ~Written(p, m, ReserveWrites(e), w) /\ Refresh(p)
  <2>1. Moves(d, t)
    BY <1>7 DEF Moves, Looks
  <2>2. Answer(d) = "duplicate" \/ (Answer(d) = "resume_reply" /\ e.state = "replying")
    BY <1>3, <1>7
  <2>3. (Alive(p) /\ proc[p].prepared) \/ cached'[p][m] = file'[m]
    <3>1. file' = Fresh(p) /\ cached'[p] = Cache(p)
      BY <1>1, <1>7 DEF Refresh, Typed
    <3> QED
      BY <3>1 DEF Cache
  <2> HIDE DEF e, w
  <2> QED
    BY <1>0, <1>1, <1>2, <1>5, <2>1, <2>2, <2>3, GoesMoved
<1> QED
  BY Zenon, <1>1, <1>4, <1>6, <1>7, RecordSplits

LEMMA RefreshHolds ==
    ASSUME Typed, NEW p \in Procs, Refresh(p), Alive(p), NEW m \in Ids
    PROVE  (Alive(p) /\ proc[p].prepared) \/ cached'[p][m] = file'[m]
<1>1. file' = Fresh(p) /\ cached'[p] = Cache(p)
  BY DEF Refresh, Typed
<1> QED
  BY <1>1 DEF Cache

LEMMA ReserveMoved ==
    ASSUME IInv, Typed', LongMemory, \A n \in Ids : Ledger(n), NEW d \in Tasks, Reserve(d) PROVE Moved
<1> DEFINE p == tasks[d].p
           m == tasks[d].m
           e == Cache(p)[m]
           w == Reservation(e, p, now)
           answer == IF ReserveWrites(e) /\ ~Written(p, m, TRUE, w) THEN "duplicate" ELSE Decision(e, now)
           t == CASE answer = "process" -> At(d, "reserved")
                  [] answer = "resume_reply" -> [At(d, "resuming") EXCEPT !.i = e.conf]
                  [] OTHER -> Ended(d, "none")
<1>1. /\ Typed /\ p \in Procs /\ m \in Ids /\ e \in Entry
      /\ tasks[d].stage = "admitted" /\ "reserved" \in Stages /\ "resuming" \in Stages
  BY StepFacts DEF Reserve, Stages
<1>2. Follows(d, Ended(d, "none")) /\ Ended(d, "none").stage = "done" /\ Ended(d, "none").i = 0
  BY <1>1, EndsGoes
<1>3. CASE Lapse(d, Ended(d, "none"))
  BY <1>1, <1>2, <1>3, LapseMoved
<1>4. e.conf \in 0..Chunks
  BY <1>1, EntryFacts
<1>5. /\ Follows(d, t)
      /\ answer = "process" => t.stage = "reserved" /\ t.i = tasks[d].i
      /\ answer = "resume_reply" => t.stage = "resuming" /\ t.i = e.conf
      /\ answer = "duplicate" => t.stage = "done" /\ t.i = 0
  <2>1. CASE answer = "process"
    <3>1. t = At(d, "reserved")
      BY Zenon, <2>1
    <3> HIDE DEF t
    <3>2. Follows(d, t) /\ t.stage = "reserved" /\ t.i = tasks[d].i
      BY <1>1, <3>1, AtFollows
    <3> QED
      BY Zenon, <2>1, <3>2
  <2>2. CASE answer = "resume_reply"
    <3>1. t = [At(d, "resuming") EXCEPT !.i = e.conf]
      BY Zenon, <2>2
    <3> HIDE DEF t, e
    <3>2. Follows(d, t) /\ t.stage = "resuming" /\ t.i = e.conf
      BY <1>1, <1>4, <3>1, AtWith
    <3> QED
      BY Zenon, <2>2, <3>2
  <2>3. CASE answer \notin {"process", "resume_reply"}
    <3>1. t = Ended(d, "none")
      BY Zenon, <2>3
    <3> HIDE DEF t
    <3> QED
      BY Zenon, <1>2, <2>3, <3>1
  <2> QED
    BY Zenon, <2>1, <2>2, <2>3
<1>6. CASE /\ May(d) /\ EnsureAuthoritative(p) /\ Record(p, m, ReserveWrites(e), w) /\ Go(d, t)
           /\ UNCHANGED <<selected, now, routed, visible, nonceAt, spent>>
  <2>1. Alive(p) /\ tasks[d].stage \in {"queued", "admitted"}
    BY <1>1, <1>6 DEF May, IsLifecycleCurrent
  <2>2. Answer(d) = answer
    BY DEF Answer
  <2>3. /\ Answer(d) = "process" => t.stage = "reserved" /\ t.i = tasks[d].i
        /\ Answer(d) = "resume_reply" =>
              \/ t.stage = "done" /\ t.i = 0
              \/ t.stage \in {"resuming", "sending"} /\ t.i = e.conf
        /\ Answer(d) = "duplicate" =>
              \/ t.stage = "done" /\ t.i = 0
              \/ t.stage = "doubtful" /\ t.i = tasks[d].i /\ tasks[d].stage = "queued" /\ m \in Courses
    <3> HIDE DEF t, answer
    <3> QED
      BY <1>5, <2>2
  <2> HIDE DEF t, answer
  <2> QED
    BY Zenon, <1>5, <1>6, <2>1, <2>3, ReservationMoved
<1>7. CASE /\ EnsureAuthoritative(p) /\ WriteFails(p) /\ Go(d, Ended(d, "none"))
           /\ UNCHANGED <<selected, now, routed, visible, nonceAt>>
  <2>1. Moves(d, Ended(d, "none"))
    BY <1>2, <1>7 DEF Moves, Looks, WriteFails
  <2> QED
    BY <1>1, <1>2, <2>1, GoesMoved
<1> QED
  BY Zenon, <1>3, <1>6, <1>7 DEF Reserve

LEMMA CourseReserveMoved ==
    ASSUME IInv, Typed', LongMemory, \A n \in Ids : Ledger(n), NEW d \in Tasks, CourseReserve(d) PROVE Moved
<1> DEFINE p == tasks[d].p
           m == tasks[d].m
           e == Cache(p)[m]
           w == Reservation(e, p, now)
           answer == IF ReserveWrites(e) /\ ~Written(p, m, TRUE, w) THEN "duplicate" ELSE Decision(e, now)
           t == CASE answer = "process" -> At(d, "reserved")
                  [] answer = "resume_reply" -> SendDurableReply(d, e.conf)
                  [] OTHER -> At(d, "doubtful")
           u == At(d, "doubtful")
<1>1. /\ Typed /\ p \in Procs /\ m \in Ids /\ e \in Entry /\ tasks[d].stage = "queued" /\ m \in Courses
      /\ {"reserved", "doubtful"} \subseteq Stages
  BY StepFacts DEF CourseReserve, Stages
<1>2. Follows(d, u) /\ u.stage = "doubtful" /\ u.i = tasks[d].i
  BY <1>1, AtFollows
<1>3. e.conf \in 0..Chunks
  BY <1>1, EntryFacts
<1>5. /\ Follows(d, t)
      /\ answer = "process" => t.stage = "reserved" /\ t.i = tasks[d].i
      /\ answer = "resume_reply" => (t.stage = "done" /\ t.i = 0) \/ (t.stage = "sending" /\ t.i = e.conf)
      /\ answer = "duplicate" => t.stage = "doubtful" /\ t.i = tasks[d].i
  <2>1. CASE answer = "process"
    <3>1. t = At(d, "reserved")
      BY Zenon, <2>1
    <3> HIDE DEF t
    <3>2. Follows(d, t) /\ t.stage = "reserved" /\ t.i = tasks[d].i
      BY <1>1, <3>1, AtFollows
    <3> QED
      BY Zenon, <2>1, <3>2
  <2>2. CASE answer = "resume_reply"
    <3>1. t = SendDurableReply(d, e.conf)
      BY Zenon, <2>2
    <3> HIDE DEF t, e
    <3>2. Follows(d, t) /\ ((t.stage = "done" /\ t.i = 0) \/ (t.stage = "sending" /\ t.i = e.conf))
      BY <1>1, <1>3, <3>1, SendFollows
    <3> QED
      BY Zenon, <2>2, <3>2
  <2>3. CASE answer \notin {"process", "resume_reply"}
    <3>1. t = u
      BY Zenon, <2>3
    <3> HIDE DEF t, u
    <3> QED
      BY Zenon, <1>2, <2>3, <3>1
  <2> QED
    BY Zenon, <2>1, <2>2, <2>3
<1>6. CASE /\ Alive(p) /\ EnsureAuthoritative(p) /\ Record(p, m, ReserveWrites(e), w) /\ Go(d, t)
           /\ UNCHANGED <<selected, now, routed, visible, nonceAt, spent>>
  <2>1. tasks[d].stage \in {"queued", "admitted"}
    BY <1>1
  <2>2. Answer(d) = answer
    BY DEF Answer
  <2>3. /\ Answer(d) = "process" => t.stage = "reserved" /\ t.i = tasks[d].i
        /\ Answer(d) = "resume_reply" =>
              \/ t.stage = "done" /\ t.i = 0
              \/ t.stage \in {"resuming", "sending"} /\ t.i = e.conf
        /\ Answer(d) = "duplicate" =>
              \/ t.stage = "done" /\ t.i = 0
              \/ t.stage = "doubtful" /\ t.i = tasks[d].i /\ tasks[d].stage = "queued" /\ m \in Courses
    <3> HIDE DEF t, answer
    <3> QED
      BY <1>1, <1>5, <2>2
  <2> HIDE DEF t, answer
  <2> QED
    BY Zenon, <1>5, <1>6, <2>1, <2>3, ReservationMoved
<1>7. CASE /\ Alive(p) /\ EnsureAuthoritative(p) /\ WriteFails(p) /\ Go(d, u)
           /\ UNCHANGED <<selected, now, routed, visible, nonceAt>>
  <2> HIDE DEF u
  <2>1. Moves(d, u)
    BY <1>2, <1>7 DEF Moves, Looks, WriteFails
  <2>2. (Alive(p) /\ proc[p].prepared) \/ cached'[p][m] = file'[m]
    BY <1>1, <1>7, RefreshHolds DEF WriteFails
  <2> QED
    BY <1>1, <1>2, <2>1, <2>2, GoesMoved
<1>8. CASE /\ NoLoad(p) /\ UNCHANGED <<proc, spent>> /\ Go(d, Ended(d, "retry"))
           /\ UNCHANGED <<selected, now, routed, visible, nonceAt>>
  <2>1. Follows(d, Ended(d, "retry")) /\ Ended(d, "retry").stage = "done" /\ Ended(d, "retry").i = 0
    BY <1>1, EndsGoes
  <2>2. Moves(d, Ended(d, "retry"))
    BY <1>8, <2>1 DEF Moves, Looks, NoLoad
  <2> QED
    BY <1>1, <2>1, <2>2, GoesMoved
<1> QED
  BY Zenon, <1>6, <1>7, <1>8 DEF CourseReserve

\* A course notice begun or resumed.
LEMMA CourseRecordMoved ==
    ASSUME IInv, Typed', \A n \in Ids : Ledger(n), NEW d \in Tasks, NEW w \in Entry, NEW start \in 0..Chunks,
           \E want \in BOOLEAN : CourseRecord(d, want, w, start),
           True(tasks[d].m, w, Shown(tasks[d].m)), Fits(w), w.state = "replying", w.next = w.conf, start = w.conf,
           file[tasks[d].m].state # "completed" => w.conf =< file[tasks[d].m].conf,
           tasks[d].stage \in {"doubtful", "reserved"}, tasks[d].m \in Courses,
           Steady(tasks[d].m) => Recent(tasks[d].m, w.conf + 1)
    PROVE  Moved
<1>0. PICK m \in Ids : m = tasks[d].m
  BY StepFacts
<1> USE <1>0
<1> DEFINE p == tasks[d].p
           t == SendDurableReply(d, start)
           u == Ended(d, "retry")
<1>5. PICK want \in BOOLEAN : CourseRecord(d, want, w, start)
  OBVIOUS
<1>1. /\ Follows(d, t) /\ ((t.stage = "done" /\ t.i = 0) \/ (t.stage = "sending" /\ t.i = w.conf))
      /\ Follows(d, u) /\ u.stage = "done" /\ u.i = 0
      /\ UNCHANGED <<proc, selected, now, routed, visible, nonceAt>>
      /\ Typed /\ Ledger(m) /\ m \notin Messages
  BY <1>5, StepFacts, SendFollows, EndsGoes, DiscordConstants DEF CourseRecord
<1>2. CASE /\ want /\ Accepts(file[m], w) /\ UNCHANGED spent /\ Go(d, t)
           /\ file' = [file EXCEPT ![m] = Merged(@, w)] /\ cached' = [cached EXCEPT ![p] = file']
  <2>1. Writes(d, t, w)
    BY <1>1, <1>2 DEF Writes, PutsAtOnce
  <2> HIDE DEF t
  <2> QED
    BY <1>1, <2>1, ResumesMoved
<1>3. CASE (UNCHANGED spent \/ Happens("writes")) /\ Go(d, u) /\ NoLoad(p)
  <2> HIDE DEF u
  <2>1. Moves(d, u)
    BY <1>1, <1>3 DEF Moves, Looks, NoLoad
  <2> QED
    BY <1>1, <2>1, GoesMoved
<1> QED
  BY <1>5, <1>2, <1>3 DEF CourseRecord

LEMMA CourseBeginMoved ==
    ASSUME IInv, Typed', LongMemory, \A n \in Ids : Ledger(n), NEW d \in Tasks, CourseBegin(d) PROVE Moved
<1> DEFINE p == tasks[d].p
           m == tasks[d].m
           e == cached[p][m]
           w == Replying(e, 1, now)
           f == file[m]
<1>1. /\ tasks[d].stage = "reserved" /\ m \in Courses /\ m \in Ids /\ now \in 0..MaxTime /\ e \in Entry
      /\ CourseRecord(d, e.state = "reserved", w, 0) /\ 0 \in 0..Chunks
      /\ Typed /\ f \in Entry /\ Ledger(m) /\ d \in Of(m)
  <2>1. tasks[d].stage = "reserved" /\ m \in Courses /\ CourseRecord(d, e.state = "reserved", w, 0)
    BY DEF CourseBegin
  <2>2. 0 \in 0..Chunks
    BY DiscordConstants
  <2> HIDE DEF w
  <2> QED
    BY <2>1, <2>2, StepFacts, MessageFacts DEF Of
<1>2. Parts(m) = 1
  BY <1>1 DEF Parts
<1>3. /\ w \in Entry /\ True(m, w, Shown(m)) /\ w.state = "replying" /\ w.conf = 0 /\ w.next = 0 /\ Fits(w)
  <2> HIDE DEF m, e
  <2>1. w = Replying(e, Parts(m), now)
    BY <1>2
  <2>2. w.state = "replying" /\ w.conf = 0 /\ w.next = 0 /\ Fits(w)
    BY <1>1, ReplyingFields
  <2> HIDE DEF w
  <2> QED
    BY <1>1, <2>1, <2>2, ReplyingTrue
<1>4. f.conf \in Nat
  BY <1>1, EntryNumbers
<1>5. Recent(m, 1)
  <2> SUFFICES ASSUME 1 \in Out(m) PROVE now - Born(m)[1] + PostTimeout =< NonceMemory
    BY DEF Recent
  <2>1. Born(m)[1] >= now
    BY <1>1 DEF Ledger, Stamps
  <2>2. Born(m)[1] \in Int /\ now \in Nat
    BY <1>1, <1>2, MessageFacts, DiscordConstants
  <2>3. NonceMemory \in Nat /\ PostTimeout \in Nat /\ PostTimeout + PostTimeout =< NonceMemory
    BY DiscordConstants DEF LongMemory
  <2> DEFINE x == Born(m)[1]
  <2> HIDE DEF x
  <2>4. x \in Int /\ x >= now
    BY <2>1, <2>2 DEF x
  <2>5. now - x + PostTimeout =< NonceMemory
    BY <2>2, <2>3, <2>4
  <2> QED
    BY <2>5 DEF x
<1>6. \E want \in BOOLEAN : CourseRecord(d, want, w, 0)
  <2> DEFINE want == e.state = "reserved"
  <2>1. want \in BOOLEAN /\ CourseRecord(d, want, w, 0)
    BY <1>1
  <2> HIDE DEF want, w
  <2> QED
    BY <2>1
<1> HIDE DEF w
<1>7. 0 = w.conf /\ w.next = w.conf /\ w.conf + 1 = 1
  BY <1>3
<1> QED
  BY <1>1, <1>3, <1>4, <1>5, <1>6, <1>7, CourseRecordMoved

LEMMA CourseResumeMoved ==
    ASSUME IInv, Typed', LongMemory, \A n \in Ids : Ledger(n), NEW d \in Tasks, CourseResume(d) PROVE Moved
<1> DEFINE p == tasks[d].p
           m == tasks[d].m
           e == cached[p][m]
           decision == Resumption(e, now)
           w == Resumed(e, p, 1, now)
           f == file[m]
<1>1. /\ tasks[d].stage = "doubtful" /\ m \in Courses /\ m \in Ids /\ p \in Procs /\ now \in 0..MaxTime
      /\ e \in Entry /\ True(m, e, Shown(m)) /\ Typed /\ f \in Entry /\ Ledger(m) /\ d \in Of(m)
      /\ Early(d)
  BY StepFacts, MessageFacts DEF CourseResume, TaskTrue, Of, Early
<1>2. CASE decision = "resumed" /\ CourseRecord(d, TRUE, w, e.conf)
  <2>1. Parts(m) = 1
    BY <1>1 DEF Parts
  <2>2. w \in Entry /\ True(m, w, Shown(m)) /\ w.state = "replying"
    BY <1>1, <2>1, ResumedTrue
  <2>3. Copy(m, e)
    BY <1>1, CacheCopy
  <2>4. Fits(e) /\ (f.state # "completed" => e.conf =< f.conf)
    <3> HIDE DEF e
    <3> QED
      BY <1>1, <2>3, CopyFacts
  <2>5. w.conf = e.conf /\ w.next = e.conf /\ Fits(w)
    <3> HIDE DEF e
    <3> QED
      BY <1>1, <2>4, ResumedFields
  <2>6. e.conf \in 0..Chunks
    BY <1>1, EntryFacts
  <2>7. e.since = Never \/ now - e.since =< ReplayWindow
    <3>1. e.state = "partial" /\ ~(~e.known \/ (e.since # Never /\ (now < e.since \/ now - e.since > ReplayWindow)))
      <4> HIDE DEF e
      <4> QED
        BY <1>2 DEF Resumption
    <3>2. e.since \in Int /\ now \in Int /\ ReplayWindow \in Int
      BY <1>1, EntryNumbers, DedupeConstants, MessageFacts
    <3> HIDE DEF e
    <3> QED
      BY <3>1, <3>2
  <2>8. e.state = "partial"
    <3> HIDE DEF e
    <3> QED
      BY <1>2 DEF Resumption
  <2>9. Steady(m) => Recent(m, e.conf + 1)
    <3> SUFFICES ASSUME Steady(m), e.conf + 1 \in Out(m)
                 PROVE  now - Born(m)[e.conf + 1] + PostTimeout =< NonceMemory
      BY DEF Recent
    <3>1. e.conf = 0
      <4>0. ChannelTrue /\ TasksTrue
        BY DEF IInv
      <4>1. e.conf + 1 \in 1..1
        BY <1>1, <2>1, <4>0, OutFacts
      <4> HIDE DEF e
      <4> QED
        BY <2>6, <4>1, DiscordConstants
    <3>2. Calm(m) /\ spent["switches"] = 0
      BY <1>1, CalmWhileEarly DEF Steady
    <3>3. Dated(m, e) \/ Born(m)[1] >= now
      BY <1>1, <3>2 DEF Ledger, Stale
    <3>4. (e.since # Never /\ e.since =< Born(m)[1]) \/ Born(m)[1] >= now
      BY <2>8, <3>1, <3>3 DEF Dated, Dates
    <3> DEFINE x == Born(m)[1]
               s == e.since
    <3>5. x \in Int /\ s \in Int /\ now \in Nat
      BY <1>1, <2>1, MessageFacts, EntryNumbers, DiscordConstants
    <3>6. /\ NonceMemory \in Nat /\ PostTimeout \in Nat /\ ReplayWindow \in Nat
          /\ ReplayWindow + PostTimeout =< NonceMemory
      BY DiscordConstants, DedupeConstants DEF LongMemory
    <3>7. e.conf + 1 = 1
      BY <3>1
    <3> HIDE DEF x, s, e
    <3>8. ((s # Never /\ s =< x) \/ x >= now) /\ (s = Never \/ now - s =< ReplayWindow)
      BY <2>7, <3>4 DEF x, s
    <3>9. now - x + PostTimeout =< NonceMemory
      BY <3>5, <3>6, <3>8
    <3> QED
      BY <3>7, <3>9 DEF x
  <2>10. \E want \in BOOLEAN : CourseRecord(d, want, w, e.conf)
    BY Zenon, <1>2
  <2> DEFINE start == e.conf
  <2> HIDE DEF w, start
  <2>11. /\ start \in 0..Chunks /\ \E want \in BOOLEAN : CourseRecord(d, want, w, start)
         /\ start = w.conf /\ w.next = w.conf
         /\ file[tasks[d].m].state # "completed" => w.conf =< file[tasks[d].m].conf
         /\ Steady(m) => Recent(m, w.conf + 1)
    BY Zenon, <2>4, <2>5, <2>6, <2>9, <2>10 DEF start
  <2>12. tasks[d].stage \in {"doubtful", "reserved"}
    BY <1>1
  <2> HIDE DEF e
  <2> QED
    BY <1>1, <2>2, <2>5, <2>11, <2>12, CourseRecordMoved
<1>3. CASE /\ decision # "resumed"
           /\ Go(d, Ended(d, IF decision = "not_partial" THEN "delivered" ELSE decision))
           /\ UNCHANGED <<file, cached, proc, selected, now, routed, visible, nonceAt, spent>>
  <2> DEFINE result == IF decision = "not_partial" THEN "delivered" ELSE decision
             t == Ended(d, result)
  <2>1. result \in Results
    <3>1. decision \in {"not_partial", "reconciliation_required", "resumed"}
      BY Zenon DEF Resumption
    <3> QED
      BY <1>3, <3>1 DEF Results
  <2>2. Follows(d, t) /\ t.stage = "done" /\ t.i = 0
    <3> HIDE DEF result
    <3> QED
      BY <1>1, <2>1, EndedFollows
  <2>3. Moves(d, t)
    BY Zenon, <1>3, <2>2 DEF Moves, Looks
  <2> HIDE DEF t
  <2> QED
    BY <1>1, <2>2, <2>3, GoesMoved
<1> QED
  BY Zenon, <1>2, <1>3 DEF CourseResume
-------------------------------------------------------------------------------
\* The environment leaves the record alone, or loads it.
LEMMA WorldMoved ==
    ASSUME Typed, Chosen, UNCHANGED <<file, cached, visible, nonceAt, now>>,
           \A q \in Procs : /\ Alive(q)' /\ proc'[q].prepared => Alive(q) /\ proc[q].prepared
                            /\ proc'[q].phase = "unborn" => proc[q].phase = "unborn"
                                                            /\ (proc'[q].prepared => proc[q].prepared),
           \A n \in Ids : TasksDrift(n), spent'["switches"] = spent["switches"]
    PROVE  Moved /\ (UNCHANGED selected => Chosen')
<1>1. ASSUME NEW n \in Ids PROVE Drifts(n)
  BY <1>1 DEF Drifts, FileDrifts, CopyDrifts, SameChannel
<1>2. UNCHANGED selected => Chosen'
  BY DEF Chosen
<1> QED
  BY <1>1, <1>2 DEF Moved

LEMMA SameTasksDrift == ASSUME UNCHANGED tasks, NEW n \in Ids PROVE TasksDrift(n)
<1>1. Of(n)' = Of(n)
  BY DEF Of, Tasks
<1> QED
  BY <1>1 DEF TasksDrift, TaskDrifts

LEMMA ConnectMoved == ASSUME IInv, Chosen, NEW p \in Procs, Connect(p) \/ Disconnect(p) PROVE Moved /\ Chosen'
<1> DEFINE yes == TRUE
           no == FALSE
<1>1. PICK ready \in BOOLEAN : proc' = [proc EXCEPT ![p].ready = ready]
  <2>1. CASE Connect(p)
    <3>1. yes \in BOOLEAN /\ proc' = [proc EXCEPT ![p].ready = yes]
      BY <2>1 DEF Connect
    <3> HIDE DEF yes
    <3> QED
      BY <3>1
  <2>2. CASE Disconnect(p)
    <3>1. no \in BOOLEAN /\ proc' = [proc EXCEPT ![p].ready = no]
      BY <2>2 DEF Disconnect
    <3> HIDE DEF no
    <3> QED
      BY <3>1
  <2> QED
    BY <2>1, <2>2
<1> DEFINE new == [proc[p] EXCEPT !.ready = ready]
<1>2. proc \in [Procs -> Process] /\ proc' = [proc EXCEPT ![p] = new] /\ Typed
  BY <1>1 DEF IInv, Typed
<1>3. new.phase = proc[p].phase /\ new.prepared = proc[p].prepared
  BY <1>2 DEF Process
<1> HIDE DEF new
<1>4. \A q \in Procs : proc'[q].phase = proc[q].phase /\ proc'[q].prepared = proc[q].prepared
  BY <1>2, <1>3
<1>5. UNCHANGED <<file, cached, selected, tasks, now, visible, nonceAt>> /\ spent'["switches"] = spent["switches"]
  BY <1>2, HappensCounts DEF Connect, Disconnect, Faults
<1> QED
  BY <1>2, <1>4, <1>5, SameTasksDrift, WorldMoved DEF Alive

LEMMA QuiesceMoved == ASSUME IInv, Chosen, NEW p \in Procs, Quiesce(p) PROVE Moved /\ Chosen'
<1> DEFINE new == [proc[p] EXCEPT !.phase = "quiescing"]
<1>1. proc \in [Procs -> Process] /\ proc' = [proc EXCEPT ![p] = new] /\ Typed /\ proc[p].phase = "running"
  BY DEF IInv, Typed, Quiesce
<1>2. new.phase = "quiescing" /\ new.prepared = proc[p].prepared
  BY <1>1 DEF Process
<1> HIDE DEF new
<1>3. \A q \in Procs : proc'[q] = IF q = p THEN new ELSE proc[q]
  BY <1>1
<1>4. UNCHANGED <<file, cached, selected, tasks, now, visible, nonceAt, spent>>
  BY DEF Quiesce
<1>5. \A q \in Procs : /\ Alive(q)' /\ proc'[q].prepared => Alive(q) /\ proc[q].prepared
                       /\ proc'[q].phase = "unborn" => proc[q].phase = "unborn"
                                                       /\ (proc'[q].prepared => proc[q].prepared)
  BY <1>1, <1>2, <1>3 DEF Alive
<1> QED
  BY <1>1, <1>4, <1>5, SameTasksDrift, WorldMoved

LEMMA SelectMoved == ASSUME IInv, Chosen, NEW p \in Procs, Select(p) PROVE Moved /\ Chosen'
<1>1. /\ UNCHANGED <<file, cached, proc, tasks, now, visible, nonceAt>> /\ selected' = p /\ Typed
      /\ IF Alive(selected) THEN Happens("switches") ELSE UNCHANGED spent
  BY DEF IInv, Select
<1>2. spent["switches"] \in Nat /\ "switches" \in Faults
  BY <1>1 DEF Typed, Faults
<1>3. Happens("switches") => spent'["switches"] = spent["switches"] + 1
  BY <1>1, <1>2, HappensCounts
<1>4. spent'["switches"] = 0 => ~Alive(selected) /\ spent["switches"] = 0
  BY <1>1, <1>2, <1>3
<1>5. ASSUME NEW n \in Ids PROVE Drifts(n)
  BY <1>1, <1>4, SameTasksDrift DEF Drifts, FileDrifts, CopyDrifts, SameChannel, Alive
<1>6. Chosen'
  BY <1>1, <1>4 DEF Chosen, Alive
<1> QED
  BY <1>5, <1>6 DEF Moved

LEMMA StartMoved == ASSUME IInv, Chosen, NEW p \in Procs, Start(p) PROVE Moved /\ Chosen'
<1> DEFINE yes == TRUE
           new == [proc[p] EXCEPT !.phase = "running", !.ready = yes]
           f == [m \in Ids |-> Recovered(file[m], p)]
<1>1. /\ Typed /\ proc \in [Procs -> Process] /\ cached \in [Procs -> [Ids -> Entry]]
      /\ proc[p].phase = "unborn" /\ ~proc[p].prepared
  BY DEF IInv, Typed, Start, Chosen
<1>2. proc' = [proc EXCEPT ![p] = new] /\ file' = f /\ cached' = [cached EXCEPT ![p] = f]
  BY Zenon, <1>1 DEF Start
<1>3. UNCHANGED <<selected, tasks, now, visible, nonceAt, spent>>
  BY DEF Start
<1> HIDE DEF yes
<1>4. new.phase = "running" /\ new.prepared = proc[p].prepared
  BY <1>1 DEF Process
<1> HIDE DEF new
<1>5. \A q \in Procs : proc'[q] = IF q = p THEN new ELSE proc[q]
  BY <1>1, <1>2
<1>6. \A m \in Ids : f[m] = Recovered(file[m], p)
  OBVIOUS
<1> HIDE DEF f
<1>7. \A q \in Procs : cached'[q] = IF q = p THEN f ELSE cached[q]
  BY <1>1, <1>2
<1>8. ASSUME NEW n \in Ids PROVE Drifts(n)
  <2>1. FileDrifts(n)
    BY <1>2, <1>6 DEF FileDrifts
  <2>2. ASSUME NEW q \in Procs PROVE CopyDrifts(n, q)
    <3>1. CASE q = p
      <4>1. cached'[q][n] = file'[n]
        BY <1>2, <1>7, <3>1
      <4> QED
        BY <4>1 DEF CopyDrifts
    <3>2. CASE q # p
      <4>1. cached'[q] = cached[q] /\ proc'[q] = proc[q]
        BY <1>5, <1>7, <3>2
      <4> QED
        BY <4>1 DEF CopyDrifts, Alive
    <3> QED
      BY <3>1, <3>2
  <2> QED
    BY <1>3, <2>1, <2>2, SameTasksDrift DEF Drifts, SameChannel
<1>9. Chosen'
  BY <1>1, <1>3, <1>4, <1>5 DEF Chosen, Alive
<1> QED
  BY <1>8, <1>9 DEF Moved

LEMMA NextEpochMoved ==
    ASSUME IInv, Chosen, NEW p \in Procs, NEW phase \in {"running", "stopped"}, NextEpoch(p, phase),
           Happens("configures") \/ UNCHANGED spent
    PROVE  Moved /\ Chosen'
<1> DEFINE no == FALSE
           new == [phase |-> phase, epoch |-> proc[p].epoch + 1, prepared |-> no, ready |-> no]
           moved(d) == IF d \in Active(p) THEN Released(d, "abandoning") ELSE tasks[d]
<1>1. /\ Typed /\ proc \in [Procs -> Process] /\ Len(tasks) \in Nat /\ Tasks = 1..Len(tasks)
  BY DEF IInv, Typed, Tasks
<1>2. /\ proc' = [proc EXCEPT ![p] = new] /\ tasks' = [d \in Tasks |-> moved(d)]
      /\ UNCHANGED <<file, cached, selected, now, visible, nonceAt>>
  BY DEF NextEpoch
<1>3. new.phase = phase /\ ~new.prepared
  OBVIOUS
<1> HIDE DEF new
<1>4. \A q \in Procs : proc'[q] = IF q = p THEN new ELSE proc[q]
  BY <1>1, <1>2
<1>5. spent'["switches"] = spent["switches"]
  BY <1>1, HappensCounts DEF Faults
<1>6. \A d \in Tasks : /\ moved(d).p = tasks[d].p /\ moved(d).m = tasks[d].m
                       /\ moved(d).post = tasks[d].post /\ moved(d).at = tasks[d].at
                       /\ moved(d) = tasks[d]
                          \/ (tasks[d].stage = "awaiting" /\ moved(d).stage = "abandoning" /\ moved(d).i = tasks[d].i)
  <2> SUFFICES ASSUME NEW d \in Tasks
               PROVE  /\ moved(d).p = tasks[d].p /\ moved(d).m = tasks[d].m
                      /\ moved(d).post = tasks[d].post /\ moved(d).at = tasks[d].at
                      /\ moved(d) = tasks[d]
                         \/ (tasks[d].stage = "awaiting" /\ moved(d).stage = "abandoning" /\ moved(d).i = tasks[d].i)
    OBVIOUS
  <2>1. CASE d \in Active(p)
    <3>1. "abandoning" \in Stages
      BY DEF Stages
    <3> QED
      BY <1>1, <2>1, <3>1, ReleasedFollows DEF Active, Follows
  <2>2. CASE d \notin Active(p)
    BY <2>2
  <2> QED
    BY <2>1, <2>2
<1> HIDE DEF moved
<1>7. Tasks' = Tasks /\ \A d \in Tasks : tasks'[d] = moved(d)
  <2>1. \A d \in Tasks : moved(d) \in Task
    BY <1>1, <1>6, TaskType, ReleasedFollows DEF moved, Active, Follows, Stages
  <2>2. tasks' \in [1..Len(tasks) -> Task] /\ \A d \in Tasks : tasks'[d] = moved(d)
    BY <1>1, <1>2, <2>1
  <2>3. Len(tasks') = Len(tasks)
    <3>1. tasks' \in [1..Len(tasks) -> Task] /\ Len(tasks) \in Nat
      BY <2>2, <1>1
    <3> QED
      BY <3>1
  <2> QED
    BY <2>2, <2>3 DEF Tasks
<1>8. ASSUME NEW n \in Ids PROVE TasksDrift(n)
  <2>1. Of(n)' = Of(n)
    BY <1>6, <1>7 DEF Of
  <2>2. ASSUME NEW d \in Of(n) PROVE TaskDrifts(n, d)
    <3>1. d \in Tasks /\ tasks'[d] = moved(d)
      BY <1>7 DEF Of
    <3> QED
      BY <1>6, <3>1 DEF TaskDrifts, Early
  <2> QED
    BY <2>1, <2>2 DEF TasksDrift
<1>9. \A q \in Procs : /\ Alive(q)' /\ proc'[q].prepared => Alive(q) /\ proc[q].prepared
                       /\ proc'[q].phase = "unborn" => proc[q].phase = "unborn"
                                                       /\ (proc'[q].prepared => proc[q].prepared)
  BY <1>3, <1>4 DEF Alive
<1> QED
  BY <1>1, <1>2, <1>5, <1>8, <1>9, WorldMoved

LEMMA CrashMoved == ASSUME IInv, Chosen, NEW p \in Procs, Crash(p) PROVE Moved /\ Chosen'
<1> DEFINE no == FALSE
           new == [proc[p] EXCEPT !.phase = "crashed", !.ready = no]
           moved(d) == IF tasks[d].p = p THEN Ended(d, tasks[d].result) ELSE tasks[d]
           empty == [m \in Ids |-> NoEntry]
<1>1. /\ Typed /\ proc \in [Procs -> Process] /\ Len(tasks) \in Nat /\ Tasks = 1..Len(tasks)
      /\ cached \in [Procs -> [Ids -> Entry]]
  BY DEF IInv, Typed, Tasks
<1>2. /\ proc' = [proc EXCEPT ![p] = new] /\ tasks' = [d \in Tasks |-> moved(d)]
      /\ cached' = [cached EXCEPT ![p] = empty] /\ Happens("crashes")
      /\ UNCHANGED <<file, selected, now, visible, nonceAt>>
  BY Zenon DEF Crash
<1> HIDE DEF no
<1>3. new.phase = "crashed"
  BY <1>1 DEF Process
<1>4. \A d \in Tasks : /\ moved(d) \in Task /\ moved(d).p = tasks[d].p /\ moved(d).m = tasks[d].m
                       /\ moved(d).post = tasks[d].post /\ moved(d).at = tasks[d].at
                       /\ IF tasks[d].p = p THEN moved(d).stage = "done" /\ moved(d).i = 0
                          ELSE moved(d) = tasks[d]
  <2> SUFFICES ASSUME NEW d \in Tasks
               PROVE  /\ moved(d) \in Task /\ moved(d).p = tasks[d].p /\ moved(d).m = tasks[d].m
                      /\ moved(d).post = tasks[d].post /\ moved(d).at = tasks[d].at
                      /\ IF tasks[d].p = p THEN moved(d).stage = "done" /\ moved(d).i = 0
                         ELSE moved(d) = tasks[d]
    OBVIOUS
  <2>1. CASE tasks[d].p = p
    BY <1>1, <2>1, EndedFollows, TaskType DEF Follows
  <2>2. CASE tasks[d].p # p
    BY <1>1, <2>2, TaskType
  <2> QED
    BY <2>1, <2>2
<1>5. \A m \in Ids : empty[m] = NoEntry
  OBVIOUS
<1> HIDE DEF new, moved, empty
<1>6. \A q \in Procs : proc'[q] = IF q = p THEN new ELSE proc[q]
  BY <1>1, <1>2
<1>7. \A q \in Procs : cached'[q] = IF q = p THEN empty ELSE cached[q]
  BY <1>1, <1>2
<1>8. Tasks' = Tasks /\ \A d \in Tasks : tasks'[d] = moved(d)
  <2>1. tasks' \in [1..Len(tasks) -> Task] /\ \A d \in Tasks : tasks'[d] = moved(d)
    BY <1>1, <1>2, <1>4
  <2>2. Len(tasks') = Len(tasks)
    <3>1. tasks' \in [1..Len(tasks) -> Task] /\ Len(tasks) \in Nat
      BY <2>1, <1>1
    <3> QED
      BY <3>1
  <2> QED
    BY <2>1, <2>2 DEF Tasks
<1>9. spent'["switches"] = spent["switches"]
  BY <1>1, <1>2, HappensCounts DEF Faults
<1>10. ASSUME NEW n \in Ids PROVE Drifts(n)
  <2>1. Of(n)' = Of(n)
    BY <1>4, <1>8 DEF Of
  <2>2. \A d \in Of(n) : d \in Tasks /\ tasks'[d] = moved(d)
    BY <1>8 DEF Of
  <2>3. TasksDrift(n)
    BY <1>4, <2>1, <2>2 DEF TasksDrift, TaskDrifts
  <2>4. ASSUME NEW q \in Procs PROVE CopyDrifts(n, q)
    <3>1. CASE q = p
      <4>1. cached'[q][n] = NoEntry /\ ~Alive(q)'
        BY <1>3, <1>5, <1>6, <1>7, <3>1 DEF Alive
      <4>2. \A d \in Of(n) : tasks[d].p = q => tasks'[d].stage = "done"
        BY <1>4, <2>2, <3>1
      <4> QED
        BY <4>1, <4>2 DEF CopyDrifts
    <3>2. CASE q # p
      <4>1. cached'[q] = cached[q] /\ proc'[q] = proc[q]
        BY <1>6, <1>7, <3>2
      <4> QED
        BY <4>1 DEF CopyDrifts, Alive
    <3> QED
      BY <3>1, <3>2
  <2> QED
    BY <1>2, <1>9, <2>3, <2>4 DEF Drifts, FileDrifts, SameChannel
<1>11. Chosen'
  BY <1>2, <1>3, <1>6, <1>9 DEF Chosen, Alive
<1> QED
  BY <1>10, <1>11 DEF Moved

LEMMA DeliverMoved == ASSUME IInv, Chosen, NEW p \in Procs, NEW m \in Ids, Deliver(p, m) PROVE Moved /\ Chosen'
<1> DEFINE t == [p |-> p, m |-> m, epoch |-> proc[p].epoch, stage |-> "queued",
                 i |-> 0, post |-> 0, at |-> 0, held |-> m \in Messages, result |-> "none"]
           k == Len(tasks) + 1
<1>1. /\ Typed /\ tasks \in Seq(Task) /\ Tasks = 1..Len(tasks) /\ Len(tasks) \in Nat
  BY DEF IInv, Typed, Tasks
<1>2. /\ tasks' = Append(tasks, t)
      /\ UNCHANGED <<file, cached, proc, selected, now, visible, nonceAt, spent>>
  BY DEF Deliver
<1>3. t.m = m /\ t.stage = "queued" /\ t.i = 0 /\ t.post = 0
  OBVIOUS
<1> HIDE DEF t
<1>4. /\ Len(tasks') = k /\ tasks'[k] = t /\ \A d \in Tasks : tasks'[d] = tasks[d]
  BY <1>1, <1>2
<1>5. Tasks' = Tasks \cup {k} /\ k \notin Tasks
  BY <1>1, <1>4 DEF Tasks
<1>6. ASSUME NEW n \in Ids PROVE TasksDrift(n)
  <2>1. Of(n) \subseteq Of(n)' /\ \A d \in Of(n)' : d \in Of(n) \/ d = k
    BY <1>4, <1>5 DEF Of
  <2>2. \A d \in Of(n) : d # k /\ tasks'[d] = tasks[d]
    BY <1>4, <1>5 DEF Of
  <2> HIDE DEF k
  <2> QED
    BY <1>3, <1>4, <2>1, <2>2 DEF TasksDrift, TaskDrifts
<1> QED
  BY <1>1, <1>2, <1>6, WorldMoved DEF Alive

\* Of the steps of a task only the check of its authority is about who is prepared.
Steps(d) ==
    /\ EnsureAuthoritative(tasks[d].p) \/ UNCHANGED proc
    /\ UNCHANGED spent \/ Happens("writes")
    /\ UNCHANGED selected
LEMMA LapseSteps == ASSUME NEW d, NEW t, Lapse(d, t) PROVE Steps(d)
  BY DEF Lapse, Steps
LEMMA MessageSteps ==
    ASSUME NEW d, HandleMessage(d) \/ Prepare(d) \/ Dispatch(d) \/ Finish(d) PROVE Steps(d)
  BY Zenon, LapseSteps DEF HandleMessage, Prepare, Dispatch, Finish, Steps
LEMMA RecordSteps ==
    ASSUME NEW d, Reserve(d) \/ BeginReply(d) \/ ClaimChunk(d) \/ CourseReserve(d) PROVE Steps(d)
<1>1. ASSUME Reserve(d) PROVE Steps(d)
  BY Zenon, <1>1, LapseSteps DEF Reserve, WriteFails, Steps
<1>2. ASSUME BeginReply(d) PROVE Steps(d)
  BY Zenon, <1>2, LapseSteps DEF BeginReply, WriteFails, Steps
<1>3. ASSUME ClaimChunk(d) PROVE Steps(d)
  BY Zenon, <1>3, LapseSteps DEF ClaimChunk, WriteFails, Steps
<1>4. ASSUME CourseReserve(d) PROVE Steps(d)
  BY Zenon, <1>4 DEF CourseReserve, WriteFails, Steps
<1> QED
  BY <1>1, <1>2, <1>3, <1>4
LEMMA OtherSteps ==
    ASSUME NEW d, \/ StartReply(d) \/ SendReply(d) \/ ConfirmChunk(d) \/ PostFails(d) \/ RecordPartial(d)
                  \/ CourseBegin(d) \/ CourseResume(d)
    PROVE  Steps(d)
<1>1. ASSUME StartReply(d) \/ SendReply(d) \/ PostFails(d) PROVE Steps(d)
  BY Zenon, <1>1, LapseSteps DEF StartReply, SendReply, PostFails, Steps
<1>2. ASSUME ConfirmChunk(d) PROVE Steps(d)
  BY Zenon, <1>2 DEF ConfirmChunk, Steps
<1>3. ASSUME RecordPartial(d) PROVE Steps(d)
  BY Zenon, <1>3 DEF RecordPartial, Steps
<1>4. ASSUME NEW want, NEW w, NEW start, CourseRecord(d, want, w, start) PROVE Steps(d)
  BY Zenon, <1>4 DEF CourseRecord, Steps
<1>5. ASSUME CourseBegin(d) \/ CourseResume(d) PROVE Steps(d)
  BY Zenon, <1>4, <1>5 DEF CourseBegin, CourseResume, Steps
<1> QED
  BY <1>1, <1>2, <1>3, <1>5

LEMMA StepsChosen == ASSUME Typed, Chosen, NEW d \in Tasks, Steps(d) PROVE Chosen'
<1> DEFINE p == tasks[d].p
<1>1. p \in Procs /\ spent'["switches"] = spent["switches"] /\ selected' = selected
  BY TaskType, HappensSwitches DEF Steps
<1>2. CASE EnsureAuthoritative(p)
  <2>1. /\ \A q \in Procs : (q # p => proc'[q] = proc[q]) /\ (Alive(q)' <=> Alive(q)) /\ proc'[q].phase = proc[q].phase
        /\ proc'[p].prepared => Alive(p) /\ p = selected
    BY <1>1, <1>2, EnsureFacts DEF IsActive
  <2> HIDE DEF p
  <2>2. spent'["switches"] = 0 => \A q \in Procs : Alive(q)' /\ proc'[q].prepared => q = selected
    BY <1>1, <2>1 DEF Chosen
  <2>3. \A q \in Procs : proc'[q].phase = "unborn" => ~proc'[q].prepared
    BY <1>1, <2>1 DEF Chosen, Alive
  <2> QED
    BY <1>1, <2>2, <2>3 DEF Chosen
<1>3. CASE UNCHANGED proc
  BY <1>1, <1>3 DEF Chosen, Alive
<1> QED
  BY <1>2, <1>3 DEF Steps

LEMMA TaskMoved ==
    ASSUME IInv, PInv, Typed', LongMemory, NEW d \in Tasks, TaskStep(d) PROVE Moved /\ Chosen'
<1>1. Chosen /\ (\A n \in Ids : Ledger(n)) /\ Typed
  BY DEF PInv, IInv
<1>2. Moved
  BY <1>1, HandleMessageMoved, ReserveMoved, PrepareMoved, DispatchMoved, FinishMoved, BeginReplyMoved,
     StartReplyMoved, ClaimChunkMoved, SendReplyMoved, ConfirmChunkMoved, PostFailsMoved, RecordPartialMoved,
     CourseReserveMoved, CourseBeginMoved, CourseResumeMoved DEF TaskStep
<1>3. Steps(d)
  BY MessageSteps, RecordSteps, OtherSteps DEF TaskStep
<1> QED
  BY <1>1, <1>2, <1>3, StepsChosen

LEMMA EnvironmentMoved ==
    ASSUME IInv, Chosen, \A n \in Ids : Ledger(n), Environment PROVE Moved /\ Chosen'
<1>1. ASSUME Tick PROVE Moved /\ Chosen'
  BY <1>1 DEF Tick, Moved, Chosen, Alive
<1>2. ASSUME NEW p \in Procs, Configure(p) \/ Stop(p) PROVE Moved /\ Chosen'
  BY <1>2, NextEpochMoved DEF Configure, Stop
<1>3. ASSUME NEW d \in Tasks, Arrives(d) PROVE Moved /\ Chosen'
  <2>1. UNCHANGED <<proc, selected, spent>>
    BY <1>3 DEF Arrives
  <2> QED
    BY <1>3, <2>1, ArrivesMoved DEF Chosen, Alive
<1> QED
  BY <1>1, <1>2, <1>3, ConnectMoved, QuiesceMoved, SelectMoved, StartMoved, CrashMoved, DeliverMoved DEF Environment

LEMMA StutterMoved == ASSUME IInv, Chosen, UNCHANGED vars PROVE Moved /\ Chosen'
<1>1. UNCHANGED <<file, cached, proc, selected, tasks, now, visible, nonceAt, spent>> /\ Typed
  BY DEF vars, IInv
<1> QED
  BY <1>1, SameTasksDrift, WorldMoved DEF Alive

LEMMA NextPInv == LongMemory => (IInv /\ PInv /\ [Next]_vars => PInv')
<1> SUFFICES ASSUME LongMemory, IInv, PInv, [Next]_vars PROVE PInv'
  OBVIOUS
<1>1. Typed' /\ Chosen /\ \A n \in Ids : Ledger(n)
  BY NextIInv DEF IInv, PInv
<1>2. Moved /\ Chosen'
  BY <1>1, TaskMoved, EnvironmentMoved, StutterMoved DEF Next
<1> QED
  BY <1>1, <1>2, MovedLedgers DEF PInv

LEMMA InitPInv == Init => PInv
<1> SUFFICES ASSUME Init PROVE PInv
  OBVIOUS
<1>1. /\ file = [m \in Ids |-> NoEntry] /\ cached = [p \in Procs |-> [m \in Ids |-> NoEntry]]
      /\ proc = [p \in Procs |-> [phase |-> "unborn", epoch |-> 0, prepared |-> FALSE, ready |-> FALSE]]
      /\ tasks = <<>> /\ now = 0 /\ visible = [m \in Ids |-> <<>>]
      /\ nonceAt = [m \in Ids |-> [i \in 1..Parts(m) |-> Never]]
  BY DEF Init
<1>2. \A p \in Procs : proc[p].phase = "unborn" /\ ~proc[p].prepared
  BY <1>1
<1>3. Chosen
  BY <1>2 DEF Chosen, Alive
<1>4. ASSUME NEW m \in Ids PROVE Ledger(m)
  <2>1. /\ Of(m) = {} /\ file[m] = NoEntry /\ (\A p \in Procs : cached[p][m] = NoEntry)
        /\ visible[m] = <<>> /\ \A i \in 1..Parts(m) : nonceAt[m][i] = Never
    BY <1>1 DEF Of, Tasks
  <2>2. Shown(m) = {} /\ Out(m) = {}
    BY <2>1 DEF Out, Shown, Range
  <2>3. /\ NoEntry.state = "none" /\ NoEntry.conf = 0 /\ NoEntry.upd = 0 /\ NoEntry.since = Never
        /\ ~InDoubt(NoEntry) /\ Fits(NoEntry)
    BY <1>1 DEF NoEntry, InDoubt, Fits, Never
  <2>4. Timed(m)
    BY <1>1, <2>1, <2>2, <2>3 DEF Timed, Never
  <2>5. Cursor(m) /\ Opening(m) /\ Posters(m) /\ Stamps(m)
    BY <2>1, <2>2, <2>3 DEF Cursor, Opening, Posters, Stamps
  <2>6. Told(m)
    BY <2>1, <2>2, <2>3 DEF Told, Doubted, Dated
  <2>7. Holder(m)
    BY <2>1 DEF Holder
  <2>8. Stale(m)
    BY <1>2, <2>1 DEF Stale, Alive
  <2>9. Replays(m)
    BY <2>1 DEF Replays
  <2> QED
    BY <2>4, <2>5, <2>6, <2>7, <2>8, <2>9 DEF Ledger
<1> QED
  BY <1>3, <1>4 DEF PInv

LEMMA TwoDeliveries ==
    ASSUME Typed, NEW m, Cardinality({d \in Tasks : tasks[d].m = m}) =< 2 PROVE Twice(m)
<1> SUFFICES ASSUME NEW a \in Of(m), NEW b \in Of(m), NEW c \in Of(m), a # b, b # c, a # c PROVE FALSE
  BY DEF Twice
<1>1. Of(m) \subseteq Tasks /\ IsFiniteSet(Tasks)
  <2>1. Len(tasks) \in Nat
    BY DEF Typed
  <2> QED
    BY <2>1, FS_Interval DEF Of, Tasks
<1>2. IsFiniteSet(Of(m))
  BY <1>1, FS_Subset
<1>3. IsFiniteSet({a}) /\ Cardinality({a}) = 1
  BY FS_Singleton
<1> DEFINE two == {a} \cup {b}
<1>4. IsFiniteSet(two) /\ Cardinality(two) = Cardinality({a}) + 1
  <2>1. b \notin {a}
    OBVIOUS
  <2> QED
    BY Zenon, <1>3, <2>1, FS_AddElement
<1>5. Cardinality(two \cup {c}) = Cardinality(two) + 1
  <2>1. c \notin two
    OBVIOUS
  <2> HIDE DEF two
  <2> QED
    BY Zenon, <1>4, <2>1, FS_AddElement
<1>6. two \cup {c} \subseteq Of(m)
  OBVIOUS
<1>7. Cardinality(two \cup {c}) =< Cardinality(Of(m)) /\ Cardinality(Of(m)) \in Nat
  BY <1>2, <1>6, FS_Subset, FS_CardinalityType
<1>8. Cardinality(Of(m)) =< 2
  BY DEF Of
<1> HIDE DEF two
<1> QED
  BY <1>3, <1>4, <1>5, <1>7, <1>8

(* What people see of a reply that was delivered at most twice (and of a      *)
(* notice that no living process handed over) is a prefix of it, whatever     *)
(* stops, crashes, hand-overs, late POSTs and failed writes there were, if    *)
(* Discord remembers a nonce for the replay window and the time a POST may    *)
(* take, and for the time two POSTs may take.                                 *)
THEOREM RepliesStayPrefixes ==
    ASSUME ReplayWindow + PostTimeout =< NonceMemory, PostTimeout + PostTimeout =< NonceMemory
    PROVE  Spec => []RepliesArePrefixes
<1>1. IInv /\ PInv => RepliesArePrefixes
  <2> SUFFICES ASSUME IInv, PInv, NEW m \in Ids,
                      Cardinality({d \in Tasks : tasks[d].m = m}) =< 2,
                      m \in Courses => spent.switches = 0
               PROVE  visible[m] = [i \in 1..Len(visible[m]) |-> i]
    BY DEF RepliesArePrefixes
  <2>1. Steady(m)
    BY TwoDeliveries DEF IInv, Steady
  <2> QED
    BY <2>1 DEF PInv, Ledger, Replays
<1>2. Init => PInv
  BY InitPInv
<1>3. IInv /\ PInv /\ [Next]_vars => PInv'
  BY NextPInv DEF LongMemory
<1> QED
  BY <1>1, <1>2, <1>3, Inductive, PTL DEF Spec
-------------------------------------------------------------------------------
(* The one-shot run.                                                          *)

Event == [end : BOOLEAN, n : 0 .. MaxSaid, ok : BOOLEAN]
Session == [proc : {"none", "alive", "exited", "closed"}, signal : Signals, said : 0 .. MaxSaid,
            queue : Seq(Event), ended : BOOLEAN, cancelled : BOOLEAN,
            killDue : BOOLEAN, reapDue : BOOLEAN]

\* The queue of a session of which f events have been read: the rest of what it
\* has said, in order, and its end behind that.
Pending(s, f) ==
    /\ f <= s.said
    /\ Len(s.queue) = (s.said - f) + (IF s.ended THEN 1 ELSE 0)
    /\ \A i \in 1 .. (s.said - f) : s.queue[i] = Said(f + i)
    /\ s.ended => s.queue[Len(s.queue)].end

\* A session whose child is not left alone.
Doomed(s) == s.ended /\ ChildAlive(s) /\ agent # "unreaped" => s.signal # "none"

\* What any step of a session does to what it says: it may say more and end, and
\* says nothing after its end.
Keeps(s, t) ==
    /\ t \in Session
    /\ t.said >= s.said
    /\ s.ended => t.ended /\ t.said = s.said
    /\ \A f \in Nat : Pending(s, f) => Pending(t, f)

Transcript ==
    LET s == session[attempt] IN
    /\ \A i \in 1 .. Len(forwarded) : forwarded[i] = i
    /\ Len(forwarded) <= s.said
    /\ pc = "merging" => Pending(s, Len(forwarded))
    /\ pc # "merging" /\ outcome.real => Len(forwarded) = s.said /\ s.ended

Children == \A a \in Attempts : Doomed(session[a]) /\ (a < attempt => session[a].ended)

\* Whatever is listed was dirty when the first snapshot was taken, or was written.
Workspace ==
    /\ baseline # <<>> => tree \subseteq baseline[1] \union written
    /\ baseline # <<>> /\ latest # <<>> => latest[1] \subseteq baseline[1] \union written
    /\ CountsOnlyWork

Reported ==
    /\ (report # <<>>) <=> (pc = "done")
    /\ outcome.ok => outcome.real
    /\ ReportIsGrounded

RunInv == RunTypeOK /\ Transcript /\ Children /\ Workspace /\ Reported

-----------------------------------------------------------------------------
(* The operators of a session, field by field *)

\* A signal changes nothing but the signal, and SIGKILL stays.
LEMMA KillFields ==
  ASSUME NEW s \in Session, NEW sig \in Signals
  PROVE  /\ Kill(s, sig) \in Session
         /\ Kill(s, sig).proc = s.proc /\ Kill(s, sig).said = s.said
         /\ Kill(s, sig).queue = s.queue /\ Kill(s, sig).ended = s.ended
         /\ Kill(s, sig).signal = IF ChildAlive(s) /\ s.signal # "kill" THEN sig ELSE s.signal
BY DEF Kill, Session, ChildAlive, Signals

\* A step that changes neither what was said nor the end keeps the session.
LEMMA QuietKeeps ==
  ASSUME NEW s \in Session, NEW t \in Session,
         t.said = s.said, t.queue = s.queue, t.ended = s.ended
  PROVE  Keeps(s, t)
BY DEF Keeps, Pending, Session

\* Keeping is transitive, so that a handler keeps what each of its calls keeps.
LEMMA KeepsKeeps ==
  ASSUME NEW r \in Session, NEW s \in Session, NEW t \in Session, Keeps(r, s), Keeps(s, t)
  PROVE  Keeps(r, t)
BY DEF Keeps, Session

\* An appended element leaves the elements before it in place.
LEMMA Appended ==
  ASSUME NEW q \in Seq(Event), NEW e \in Event
  PROVE  /\ Append(q, e) \in Seq(Event)
         /\ Len(Append(q, e)) = Len(q) + 1
         /\ \A i \in 1 .. Len(q) : Append(q, e)[i] = q[i]
         /\ Append(q, e)[Len(q) + 1] = e
OBVIOUS

\* An event joins the queue behind the others.
LEMMA EmitKeeps ==
  ASSUME NEW s \in Session, ~s.ended, s.said < MaxSaid
  PROVE  /\ Keeps(s, Emit(s))
         /\ Emit(s).proc = s.proc /\ Emit(s).signal = s.signal /\ Emit(s).ended = s.ended
<1> DEFINE e == Said(s.said + 1)
           t == Emit(s)
<1>1. s.said \in 0 .. MaxSaid /\ s.queue \in Seq(Event)
  BY DEF Session
<1>2. e \in Event /\ s.said + 1 \in 0 .. MaxSaid
  BY <1>1, RunAssumption DEF Event, Said
<1>3. /\ t.said = s.said + 1 /\ t.queue = Append(s.queue, e) /\ t.ended = s.ended
      /\ t.proc = s.proc /\ t.signal = s.signal /\ t.cancelled = s.cancelled
      /\ t.killDue = s.killDue /\ t.reapDue = s.reapDue
  BY DEF Emit, Session
<1>4. t \in Session
  <2>1. t = [s EXCEPT !.said = s.said + 1, !.queue = Append(s.queue, e)]
    BY DEF Emit, Session
  <2> HIDE DEF e, t
  <2> QED  BY <2>1, <1>1, <1>2, Appended DEF Session
<1>5. ASSUME NEW f \in Nat, Pending(s, f) PROVE Pending(t, f)
  <2> HIDE DEF t
  <2>1. Len(s.queue) = s.said - f /\ f <= s.said
    BY <1>5, <1>1 DEF Pending
  <2>2. \A i \in 1 .. (s.said - f) : s.queue[i] = Said(f + i)
    BY <1>5 DEF Pending
  <2>3. Len(t.queue) = s.said + 1 - f
    <3>1. Len(t.queue) = Len(s.queue) + 1
      BY <1>1, <1>2, <1>3, Appended
    <3> QED  BY <3>1, <2>1, <1>1
  <2>4. ASSUME NEW i \in 1 .. (s.said + 1 - f) PROVE t.queue[i] = Said(f + i)
    <3>1. CASE i <= s.said - f
      <4>1. i \in 1 .. Len(s.queue) /\ i \in 1 .. (s.said - f)
        BY <3>1, <2>1, <1>1
      <4> QED  BY <4>1, <2>2, <1>1, <1>2, <1>3, Appended
    <3>2. CASE i = s.said + 1 - f
      <4>1. i = Len(s.queue) + 1 /\ f + i = s.said + 1
        BY <3>2, <2>1, <1>1
      <4> QED  BY <4>1, <1>1, <1>2, <1>3, Appended
    <3>3. i <= s.said - f \/ i = s.said + 1 - f
      BY <1>1, <2>1
    <3> QED  BY <3>1, <3>2, <3>3
  <2>5. f <= s.said + 1 /\ t.said = s.said + 1 /\ ~t.ended
    BY <2>1, <1>1, <1>3
  <2>6. Len(t.queue) = (t.said - f) + 0
    BY <2>1, <2>3, <2>5, <1>1
  <2>7. \A i \in 1 .. (t.said - f) : t.queue[i] = Said(f + i)
    <3>1. t.said - f = s.said + 1 - f
      BY <1>1, <2>5
    <3> QED  BY <2>4, <3>1
  <2> QED  BY <2>5, <2>6, <2>7 DEF Pending
<1> QED  BY <1>1, <1>3, <1>4, <1>5 DEF Keeps

\* The end joins the queue once, and nothing follows it.
LEMMA EndKeeps ==
  ASSUME NEW s \in Session, NEW ok \in BOOLEAN
  PROVE  /\ Keeps(s, EmitEnd(s, ok))
         /\ EmitEnd(s, ok).ended
         /\ EmitEnd(s, ok).proc = s.proc /\ EmitEnd(s, ok).signal = s.signal
<1> DEFINE e == EndEvent(ok)
           t == EmitEnd(s, ok)
<1>1. s.said \in 0 .. MaxSaid /\ s.queue \in Seq(Event) /\ s.ended \in BOOLEAN
  BY DEF Session
<1>2. e \in Event /\ e.end
  BY RunAssumption DEF Event, EndEvent
<1>3. CASE s.ended
  BY <1>3, QuietKeeps DEF EmitEnd
<1>4. CASE ~s.ended
  <2>1. t = [s EXCEPT !.queue = Append(s.queue, e), !.ended = TRUE, !.killDue = FALSE]
    BY <1>4 DEF EmitEnd
  <2>2. /\ t.said = s.said /\ t.queue = Append(s.queue, e) /\ t.ended
        /\ t.proc = s.proc /\ t.signal = s.signal
    BY <2>1 DEF Session
  <2> HIDE DEF e, t
  <2>3. t \in Session
    BY <2>1, <1>1, <1>2, Appended DEF Session
  <2>4. ASSUME NEW f \in Nat, Pending(s, f) PROVE Pending(t, f)
    <3>1. Len(s.queue) = s.said - f /\ f <= s.said
      BY <2>4, <1>1, <1>4 DEF Pending
    <3>2. \A i \in 1 .. (s.said - f) : t.queue[i] = Said(f + i)
      <4>1. \A i \in 1 .. Len(s.queue) : t.queue[i] = s.queue[i]
        BY <2>2, <1>1, <1>2, Appended
      <4> QED  BY <4>1, <3>1, <2>4 DEF Pending
    <3>3. Len(t.queue) = s.said - f + 1 /\ t.queue[Len(t.queue)] = e
      BY <3>1, <2>2, <1>1, <1>2, Appended
    <3> QED  BY <3>1, <3>2, <3>3, <2>2, <1>2 DEF Pending
  <2>5. Keeps(s, t)
    BY <2>2, <2>3, <2>4, <1>1, <1>4 DEF Keeps
  <2> QED  BY <2>2, <2>5 DEF t
<1> QED  BY <1>1, <1>3, <1>4

\* A child that is reaped is told to go, if it is alive.
LEMMA ReapKeeps ==
  ASSUME NEW s \in Session, agent \in Agents, agent # "plain"
  PROVE  Keeps(s, Reap(s)) /\ Doomed(Reap(s)) /\ Reap(s).proc = s.proc
<1> DEFINE k == Kill(s, "term")
           t == Reap(s)
<1>1. agent \in {"reaped", "unreaped"}
  BY RunAssumption
<1>2. CASE agent = "reaped" /\ ChildAlive(s)
  <2>1. k \in Session /\ k.proc = s.proc /\ k.said = s.said /\ k.queue = s.queue /\ k.ended = s.ended
        /\ k.signal \in {"term", "kill"}
    BY <1>2, KillFields DEF Session, Signals
  <2>2. t = [k EXCEPT !.reapDue = TRUE]
    BY <1>2 DEF Reap
  <2> HIDE DEF k, t
  <2>3. t \in Session /\ t.proc = s.proc /\ t.said = s.said /\ t.queue = s.queue /\ t.ended = s.ended
        /\ t.signal = k.signal
    BY <2>1, <2>2 DEF Session
  <2>4. Keeps(s, t) /\ Doomed(t)
    BY <2>1, <2>3, QuietKeeps DEF Doomed
  <2> QED  BY <2>3, <2>4 DEF t
<1>3. CASE ~(agent = "reaped" /\ ChildAlive(s))
  BY <1>1, <1>3, QuietKeeps DEF Reap, Doomed
<1> QED  BY <1>2, <1>3

\* Whatever a line says, the session keeps its transcript and dooms its child.
LEMMA LineKeeps ==
  ASSUME NEW s \in Session, NEW line \in Understood \union {"none"}, agent \in Agents,
         line = "event" => s.said < MaxSaid, Doomed(s)
  PROVE  /\ Keeps(s, ProcessLine(s, line)) /\ Doomed(ProcessLine(s, line))
         /\ ProcessLine(s, line).proc = s.proc
<1>1. CASE s.ended \/ line = "none"
  BY <1>1, QuietKeeps DEF ProcessLine
<1>2. CASE ~s.ended /\ line = "event"
  <2>1. ProcessLine(s, line) = Emit(s)
    BY <1>2 DEF ProcessLine
  <2> QED  BY <1>2, <2>1, EmitKeeps DEF Doomed
<1>3. CASE ~s.ended /\ line \notin {"event", "none"}
  <2> DEFINE e == EmitEnd(s, line = "ok")
  <2>1. ProcessLine(s, line) = Reap(e)
    BY <1>3 DEF ProcessLine
  <2>2. Keeps(s, e) /\ e \in Session /\ e.proc = s.proc
    BY EndKeeps DEF Keeps
  <2>3. agent # "plain"
    BY <1>3 DEF Understood
  <2> HIDE DEF e
  <2>4. Keeps(e, Reap(e)) /\ Doomed(Reap(e)) /\ Reap(e).proc = e.proc /\ Reap(e) \in Session
    BY <2>2, <2>3, ReapKeeps DEF Keeps
  <2> QED  BY <2>1, <2>2, <2>4, KeepsKeeps
<1> QED  BY <1>1, <1>2, <1>3

\* A cancellation changes nothing of what is said.
LEMMA CancelKeeps ==
  ASSUME NEW s \in Session, Doomed(s)
  PROVE  Keeps(s, Cancel(s)) /\ Doomed(Cancel(s))
<1> DEFINE k == Kill(s, "term")
           t == Cancel(s)
<1>1. CASE s.ended \/ s.cancelled
  BY <1>1, QuietKeeps DEF Cancel
<1>2. CASE ~(s.ended \/ s.cancelled)
  <2>1. k \in Session /\ k.proc = s.proc /\ k.said = s.said /\ k.queue = s.queue /\ k.ended = s.ended
    BY KillFields DEF Signals
  <2>2. t = [k EXCEPT !.cancelled = TRUE, !.killDue = ChildAlive(s)] /\ ChildAlive(s) \in BOOLEAN
    BY <1>2 DEF Cancel, ChildAlive
  <2> HIDE DEF k, t
  <2>3. t \in Session /\ t.said = s.said /\ t.queue = s.queue /\ t.ended = s.ended
    BY <2>1, <2>2 DEF Session
  <2>4. Keeps(s, t) /\ Doomed(t)
    BY <1>2, <2>3, QuietKeeps DEF Doomed
  <2> QED  BY <2>4 DEF t
<1> QED  BY <1>1, <1>2

LEMMA Singleton ==
  ASSUME NEW S, NEW e \in S
  PROVE  <<e>> \in Seq(S) /\ Len(<<e>>) = 1 /\ <<e>>[1] = e
OBVIOUS

\* What spawn returns has said nothing yet.
LEMMA SpawnedSession ==
  ASSUME NEW s \in Spawn
  PROVE  s \in Session /\ Doomed(s) /\ Pending(s, 0) /\ s.said = 0
<1>1. 0 \in 0 .. MaxSaid
  BY RunAssumption
<1>2. CASE s = Spawned
  <2>1. s = [proc |-> "alive", signal |-> "none", said |-> 0, queue |-> <<>>, ended |-> FALSE,
             cancelled |-> FALSE, killDue |-> FALSE, reapDue |-> FALSE]
    BY <1>2 DEF Spawned, Unborn
  <2>2. s \in Session
    BY <1>1, <2>1 DEF Session, Signals
  <2> QED  BY <2>1, <2>2 DEF Doomed, Pending
<1>3. CASE s = EndedSession
  <2>1. s = [proc |-> "closed", signal |-> "none", said |-> 0, queue |-> <<EndEvent(FALSE)>>, ended |-> TRUE,
             cancelled |-> FALSE, killDue |-> FALSE, reapDue |-> FALSE]
    BY <1>3 DEF EndedSession, Unborn
  <2>2. EndEvent(FALSE) \in Event /\ EndEvent(FALSE).end
    BY <1>1 DEF EndEvent, Event
  <2> DEFINE q == <<EndEvent(FALSE)>>
  <2>3. q \in Seq(Event) /\ Len(q) = 1 /\ q[1].end
    BY <2>2, Singleton
  <2>4. s.said = 0 /\ s.queue = q /\ s.ended /\ s.proc = "closed"
    BY <2>1
  <2> HIDE DEF q
  <2>5. s \in Session
    BY <1>1, <2>1, <2>3 DEF Session, Signals, q
  <2>6. Pending(s, 0)
    <3>1. Len(s.queue) = 1 /\ s.queue[Len(s.queue)].end
      BY <2>3, <2>4
    <3>2. Len(s.queue) = (s.said - 0) + (IF s.ended THEN 1 ELSE 0) /\ 0 <= s.said
      BY <3>1, <2>4
    <3>3. \A i \in 1 .. (s.said - 0) : s.queue[i] = Said(0 + i)
      BY <2>4
    <3> QED  BY <3>1, <3>2, <3>3 DEF Pending
  <2> QED  BY <2>4, <2>5, <2>6 DEF Doomed, ChildAlive
<1> QED  BY <1>2, <1>3 DEF Spawn

-----------------------------------------------------------------------------
(* The steps of a session *)

SessionStep(a) ==
    Stdout(a) \/ Overflow(a) \/ SpawnError(a) \/ Exit(a) \/ Close(a) \/ KillDue(a)

rest == <<wiring, aborted, pc, attempt, forwarded, outcome, seen, work, report>>

\* Every step of a session or its child keeps the session and dooms its child.
LEMMA SessionMoves ==
  ASSUME NEW a \in Attempts, session[a] \in Session, agent \in Agents, Doomed(session[a]),
         SessionStep(a)
  PROVE  /\ UNCHANGED rest
         /\ \E t \in Session : /\ session' = [session EXCEPT ![a] = t]
                               /\ Keeps(session[a], t) /\ Doomed(t)
<1> DEFINE s == session[a]
<1>1. CASE Stdout(a)
  <2>1. PICK line \in Understood : /\ line = "event" => s.said < MaxSaid
                                   /\ session' = [session EXCEPT ![a] = ProcessLine(s, line)]
    BY <1>1 DEF Stdout, Set
  <2>2. Keeps(s, ProcessLine(s, line)) /\ Doomed(ProcessLine(s, line))
        /\ ProcessLine(s, line) \in Session
    BY <2>1, LineKeeps DEF Keeps
  <2> QED  BY <1>1, <2>1, <2>2 DEF Stdout, rest
<1>2. CASE Overflow(a)
  <2> DEFINE k == Kill(s, "kill")
             t == EmitEnd(k, FALSE)
  <2>1. k \in Session /\ k.said = s.said /\ k.queue = s.queue /\ k.ended = s.ended /\ k.proc = s.proc
        /\ (ChildAlive(s) => k.signal = "kill")
    BY KillFields DEF Signals
  <2>2. Keeps(s, k)
    BY <2>1, QuietKeeps
  <2>3. Keeps(k, t) /\ t \in Session /\ t.proc = k.proc /\ t.signal = k.signal
    BY <2>1, EndKeeps DEF Keeps
  <2>4. Keeps(s, t) /\ Doomed(t)
    <3> HIDE DEF k, t
    <3> QED  BY <2>1, <2>2, <2>3, KeepsKeeps DEF Doomed, ChildAlive
  <2> QED  BY <1>2, <2>3, <2>4 DEF Overflow, Set, rest
<1>3. CASE SpawnError(a)
  <2> DEFINE e == EmitEnd(s, FALSE)
             t == [e EXCEPT !.proc = "closed"]
  <2>1. Keeps(s, e) /\ e \in Session
    BY EndKeeps DEF Keeps
  <2>2. t \in Session /\ t.said = e.said /\ t.queue = e.queue /\ t.ended = e.ended /\ t.proc = "closed"
    <3> HIDE DEF e
    <3> QED  BY <2>1 DEF Session
  <2>3. Keeps(s, t) /\ Doomed(t)
    <3> HIDE DEF e, t
    <3> QED  BY <2>1, <2>2, QuietKeeps, KeepsKeeps DEF Doomed, ChildAlive
  <2> QED  BY <1>3, <2>2, <2>3 DEF SpawnError, Set, rest
<1>4. CASE Exit(a)
  <2> DEFINE t == [s EXCEPT !.proc = "exited"]
  <2>1. t \in Session /\ t.said = s.said /\ t.queue = s.queue /\ t.ended = s.ended /\ t.proc = "exited"
    BY DEF Session
  <2>2. Keeps(s, t) /\ Doomed(t)
    <3> HIDE DEF t
    <3> QED  BY <2>1, QuietKeeps DEF Doomed, ChildAlive
  <2> QED  BY <1>4, <2>1, <2>2 DEF Exit, Set, rest
<1>5. CASE Close(a)
  <2>1. PICK success \in BOOLEAN, line \in Understood \union {"none"} :
           /\ line = "event" => s.said < MaxSaid
           /\ session' = [session EXCEPT ![a] = [EmitEnd(ProcessLine(s, line), success)
                                 EXCEPT !.proc = "closed", !.signal = "none", !.reapDue = FALSE]]
    BY <1>5 DEF Close, Set
  <2> DEFINE p == ProcessLine(s, line)
             e == EmitEnd(p, success)
             t == [e EXCEPT !.proc = "closed", !.signal = "none", !.reapDue = FALSE]
  <2>2. Keeps(s, p) /\ p \in Session
    BY <2>1, LineKeeps DEF Keeps
  <2>3. Keeps(p, e) /\ e \in Session
    <3> HIDE DEF p
    <3> QED  BY <2>2, EndKeeps DEF Keeps
  <2>4. t \in Session /\ t.said = e.said /\ t.queue = e.queue /\ t.ended = e.ended /\ t.proc = "closed"
    <3> HIDE DEF e
    <3> QED  BY <2>3 DEF Session, Signals
  <2>5. Keeps(s, t) /\ Doomed(t)
    <3> HIDE DEF p, e, t
    <3> QED  BY <2>2, <2>3, <2>4, QuietKeeps, KeepsKeeps DEF Doomed, ChildAlive
  <2> QED  BY <1>5, <2>1, <2>4, <2>5 DEF Close, rest
<1>6. CASE KillDue(a)
  <2> DEFINE k == Kill(s, "kill")
             t == [k EXCEPT !.killDue = FALSE, !.reapDue = FALSE]
  <2>1. k \in Session /\ k.said = s.said /\ k.queue = s.queue /\ k.ended = s.ended /\ k.proc = s.proc
        /\ (ChildAlive(s) => k.signal = "kill")
    BY KillFields DEF Signals
  <2>2. /\ t \in Session /\ t.said = s.said /\ t.queue = s.queue /\ t.ended = s.ended /\ t.proc = s.proc
        /\ t.signal = k.signal
    <3> HIDE DEF k
    <3> QED  BY <2>1 DEF Session
  <2>3. Keeps(s, t) /\ Doomed(t)
    <3> HIDE DEF k, t
    <3> QED  BY <2>1, <2>2, QuietKeeps DEF Doomed, ChildAlive
  <2> QED  BY <1>6, <2>2, <2>3 DEF KillDue, Set, rest
<1> QED  BY <1>1, <1>2, <1>3, <1>4, <1>5, <1>6 DEF SessionStep

-----------------------------------------------------------------------------
(* The invariant *)

Verdict == {"pass", "fail", "verify", "skipped"}
Snapshots == {<<>>} \union {<<fs>> : fs \in SUBSET Files}

\* The types of all but the sessions and their transcript.
RunTyped ==
    /\ agent \in Agents /\ watches \in BOOLEAN /\ verifies \in BOOLEAN /\ aborted \in BOOLEAN
    /\ pc \in {"merging", "verifying", "done"}
    /\ attempt \in Attempts
    /\ outcome \in [real : BOOLEAN, ok : BOOLEAN]
    /\ tree \subseteq Files /\ written \subseteq Files
    /\ baseline \in Snapshots /\ latest \in Snapshots
    /\ report \in {<<>>} \union {<<r>> : r \in [ok : BOOLEAN, verdict : Verdict, files : SUBSET Files]}

LEMMA TypeParts ==
  RunTypeOK <=> RunTyped /\ session \in [Attempts -> Session] /\ forwarded \in Seq(1 .. MaxSaid)
BY DEF RunTypeOK, RunTyped, Session, Event, Snapshots, Verdict

LEMMA TypePartsNext ==
  RunTypeOK' <=> RunTyped' /\ session' \in [Attempts -> Session] /\ (forwarded \in Seq(1 .. MaxSaid))'
BY DEF RunTypeOK, RunTyped, Session, Event, Snapshots, Verdict

\* A step of one session keeps the transcript of the attempt and every child.
LEMMA SessionKept ==
  ASSUME RunTypeOK, Transcript, Children, NEW a \in Attempts, NEW t \in Session,
         session' = [session EXCEPT ![a] = t], Keeps(session[a], t), Doomed(t),
         UNCHANGED <<agent, attempt, forwarded, outcome>>, pc' = "merging" <=> pc = "merging"
  PROVE  session' \in [Attempts -> Session] /\ Transcript' /\ Children'
<1>1. session \in [Attempts -> Session] /\ attempt \in Attempts /\ forwarded \in Seq(1 .. MaxSaid)
  BY TypeParts DEF RunTyped
<1>2. session' \in [Attempts -> Session]
  BY <1>1
<1>3. \A b \in Attempts : Keeps(session[b], session'[b])
  BY <1>1, QuietKeeps
<1>4. Transcript'
  <2> DEFINE s == session[attempt]
             u == session'[attempt]
  <2>1. Keeps(s, u) /\ s \in Session /\ u \in Session
    BY <1>1, <1>2, <1>3
  <2>2. Len(forwarded) \in Nat
    BY <1>1
  <2> HIDE DEF s, u
  <2>3. Len(forwarded) <= s.said => Len(forwarded) <= u.said
    BY <2>1, <2>2 DEF Keeps, Session
  <2>4. Pending(s, Len(forwarded)) => Pending(u, Len(forwarded))
    BY <2>1, <2>2 DEF Keeps
  <2>5. Len(forwarded) = s.said /\ s.ended => Len(forwarded) = u.said /\ u.ended
    BY <2>1 DEF Keeps
  <2> QED  BY <2>3, <2>4, <2>5 DEF Transcript, s, u
<1>5. Children'
  <2>1. ASSUME NEW b \in Attempts PROVE Doomed(session[b])'
    BY <1>1 DEF Children, Doomed
  <2>2. ASSUME NEW b \in Attempts, b < attempt PROVE session'[b].ended
    BY <2>2, <1>3 DEF Children, Keeps
  <2> QED  BY <2>1, <2>2 DEF Children, Doomed
<1> QED  BY <1>2, <1>4, <1>5

LEMMA SessionIInv == ASSUME RunInv, NEW a \in Attempts, SessionStep(a) PROVE RunInv'
<1>1. RunTypeOK /\ Transcript /\ Children /\ session[a] \in Session /\ agent \in Agents /\ Doomed(session[a])
  BY TypeParts DEF RunInv, Children, RunTyped
<1>2. PICK t \in Session : /\ session' = [session EXCEPT ![a] = t]
                           /\ Keeps(session[a], t) /\ Doomed(t)
  BY <1>1, SessionMoves
<1>3. UNCHANGED rest
  BY <1>1, SessionMoves
<1>4. session' \in [Attempts -> Session] /\ Transcript' /\ Children'
  BY <1>1, <1>2, <1>3, SessionKept DEF rest, wiring
<1>5. RunTyped' /\ (forwarded \in Seq(1 .. MaxSaid))'
  BY <1>1, <1>3, TypeParts DEF RunTyped, rest, wiring, seen, work
<1>6. Workspace' /\ Reported'
  BY <1>3 DEF RunInv, Workspace, CountsOnlyWork, Reported, ReportIsGrounded, rest, wiring,
     seen, work
<1>7. RunTypeOK'
  BY <1>4, <1>5, TypePartsNext
<1> QED  BY <1>4, <1>6, <1>7 DEF RunInv

\* An interruption cancels the session of an attempt that listens.
LEMMA AbortIInv == ASSUME RunInv, Abort PROVE RunInv'
<1> DEFINE s == session[attempt]
           t == IF pc = "merging" THEN Cancel(s) ELSE s
<1>1. /\ RunTypeOK /\ Transcript /\ Children /\ s \in Session /\ attempt \in Attempts
      /\ Doomed(s)
  BY TypeParts DEF RunInv, Children, RunTyped
<1>2. Keeps(s, t) /\ Doomed(t) /\ t \in Session
  BY <1>1, CancelKeeps, QuietKeeps DEF Keeps
<1>3. session' = [session EXCEPT ![attempt] = t]
  BY DEF Abort, Set
<1>4. session' \in [Attempts -> Session] /\ Transcript' /\ Children'
  <2> HIDE DEF s, t
  <2>1. UNCHANGED <<agent, attempt, forwarded, outcome>> /\ pc' = pc
    BY DEF Abort, wiring
  <2> QED  BY <1>1, <1>2, <1>3, <2>1, SessionKept DEF s
<1>5. RunTyped' /\ (forwarded \in Seq(1 .. MaxSaid))'
  BY <1>1, TypeParts DEF RunTyped, Abort, wiring, seen, work
<1>6. Workspace' /\ Reported'
  BY DEF Abort, RunInv, Workspace, CountsOnlyWork, Reported, ReportIsGrounded, wiring,
     seen, work
<1>7. RunTypeOK'
  BY <1>4, <1>5, TypePartsNext
<1> QED  BY <1>4, <1>6, <1>7 DEF RunInv

\* A new snapshot lists only what was dirty at the first one or was written since.
LEMMA PollIInv == ASSUME RunInv, Poll PROVE RunInv'
<1>1. Transcript' /\ Children'
  BY DEF Poll, RunInv, Transcript, Children, Doomed, wiring
<1>2. <<tree>> \in Snapshots
  BY TypeParts DEF RunInv, RunTyped, Snapshots
<1>3. RunTyped' /\ (forwarded \in Seq(1 .. MaxSaid))' /\ session' \in [Attempts -> Session]
  BY <1>2, TypeParts DEF RunInv, RunTyped, Poll, wiring, work
<1>4. <<tree>> # <<>> /\ <<tree>>[1] = tree
  OBVIOUS
<1>5. report = <<>> /\ report' = <<>>
  BY DEF Poll, RunInv, Reported
<1>6. Workspace'
  BY <1>4, <1>5 DEF Poll, RunInv, Workspace, CountsOnlyWork, work
<1>7. Reported'
  BY DEF Poll, RunInv, Reported, ReportIsGrounded, wiring
<1> QED  BY <1>1, <1>3, <1>6, <1>7, TypePartsNext DEF RunInv

\* A made-up end is no session's own end.
LEMMA BreakIInv == ASSUME RunInv, StreamBreaks PROVE RunInv'
<1>1. Transcript' /\ Children'
  BY DEF StreamBreaks, RunInv, Transcript, Children, Doomed, wiring
<1>2. RunTyped' /\ (forwarded \in Seq(1 .. MaxSaid))' /\ session' \in [Attempts -> Session]
  BY TypeParts DEF RunInv, RunTyped, StreamBreaks, wiring, seen, work
<1>3. Workspace'
  BY DEF StreamBreaks, RunInv, Workspace, CountsOnlyWork, seen, work
<1>4. Reported'
  BY DEF StreamBreaks, RunInv, Reported, ReportIsGrounded, wiring
<1> QED  BY <1>1, <1>2, <1>3, <1>4, TypePartsNext DEF RunInv

\* A child's write is on record with the file it touches.
LEMMA WriteIInv == ASSUME RunInv, NEW a \in Attempts, Write(a) PROVE RunInv'
<1>1. PICK f \in Files : /\ tree' = IF f \in tree THEN tree \ {f} ELSE tree \union {f}
                         /\ written' = written \union {f}
  BY DEF Write
<1>2. Transcript' /\ Children'
  BY DEF Write, RunInv, Transcript, Children, Doomed, wiring
<1>3. RunTyped' /\ (forwarded \in Seq(1 .. MaxSaid))' /\ session' \in [Attempts -> Session]
  BY <1>1, TypeParts DEF RunInv, RunTyped, Write, wiring, seen
<1>4. report = <<>> /\ report' = <<>>
  BY DEF Write, RunInv, Reported
<1>5. Workspace'
  BY <1>1, <1>4 DEF Write, RunInv, Workspace, CountsOnlyWork, seen
<1>6. Reported'
  BY DEF Write, RunInv, Reported, ReportIsGrounded, wiring
<1> QED  BY <1>2, <1>3, <1>5, <1>6, TypePartsNext DEF RunInv

\* The head of the queue is the next thing said, or the end behind the last one.
LEMMA FrontOfQueue ==
  ASSUME NEW s \in Session, NEW f \in Nat, Pending(s, f), s.queue # <<>>
  PROVE  /\ Head(s.queue) \in Event
         /\ Head(s.queue).end => f = s.said /\ s.ended
         /\ ~Head(s.queue).end => /\ f + 1 \in 1 .. MaxSaid /\ Head(s.queue) = Said(f + 1)
                                  /\ f < s.said
<1> DEFINE q == s.queue
<1>1. q \in Seq(Event) /\ s.said \in 0 .. MaxSaid /\ s.ended \in BOOLEAN
  BY DEF Session
<1>2. Len(q) \in Nat \ {0} /\ Head(q) = q[1] /\ q[1] \in Event
  <2> HIDE DEF q
  <2> QED  BY <1>1 DEF q
<1>3. CASE f < s.said
  <2>1. q[1] = Said(f + 1)
    <3>1. 1 \in 1 .. (s.said - f)
      BY <1>1, <1>3
    <3> QED  BY <3>1 DEF Pending
  <2>2. ~q[1].end
    BY <2>1 DEF Said
  <2>3. f + 1 \in 1 .. MaxSaid
    BY <1>1, <1>3, RunAssumption
  <2> HIDE DEF q
  <2> QED  BY <1>2, <1>3, <2>1, <2>2, <2>3 DEF q
<1>4. CASE f = s.said
  <2>1. s.ended /\ Len(q) = 1
    BY <1>1, <1>2, <1>4 DEF Pending
  <2>2. q[1].end
    BY <2>1 DEF Pending
  <2> QED  BY <1>2, <1>4, <2>1, <2>2
<1> QED  BY <1>1, <1>3, <1>4 DEF Pending

\* Reading an event leaves the rest of the queue pending.
LEMMA TailOfQueue ==
  ASSUME NEW s \in Session, NEW f \in Nat, Pending(s, f), f < s.said, NEW u \in Session,
         u.said = s.said, u.ended = s.ended, u.queue = Tail(s.queue)
  PROVE  Pending(u, f + 1)
<1> DEFINE q == s.queue
           r == Tail(q)
<1>1. q \in Seq(Event) /\ s.said \in 0 .. MaxSaid /\ s.ended \in BOOLEAN
  BY DEF Session
<1>2. Len(q) = (s.said - f) + (IF s.ended THEN 1 ELSE 0) /\ s.said \in Nat
  BY <1>1, RunAssumption DEF Pending
<1>3. Len(q) \in Nat \ {0}
  BY <1>1, <1>2
<1>4. Len(r) = Len(q) - 1 /\ \A i \in 1 .. (Len(q) - 1) : r[i] = q[i + 1]
  <2> HIDE DEF q
  <2> QED  BY <1>1, <1>3 DEF q
<1>5. Len(u.queue) = (u.said - (f + 1)) + (IF u.ended THEN 1 ELSE 0)
  BY <1>1, <1>2, <1>4
<1>6. ASSUME NEW i \in 1 .. (u.said - (f + 1)) PROVE u.queue[i] = Said((f + 1) + i)
  <2>1. i \in 1 .. (Len(q) - 1) /\ i + 1 \in 1 .. (s.said - f) /\ (f + 1) + i = f + (i + 1)
    BY <1>2
  <2> QED  BY <2>1, <1>4 DEF Pending
<1>7. ASSUME u.ended PROVE u.queue[Len(u.queue)].end
  <2>1. Len(q) - 1 \in 1 .. (Len(q) - 1) /\ q[Len(q)].end
    BY <1>2, <1>7 DEF Pending
  <2>2. u.queue[Len(u.queue)] = q[Len(q)]
    BY <2>1, <1>3, <1>4
  <2> QED  BY <2>1, <2>2
<1> QED  BY <1>1, <1>2, <1>5, <1>6, <1>7 DEF Pending

LEMMA TakeIInv == ASSUME RunInv, Take PROVE RunInv'
<1> DEFINE s == session[attempt]
           f == Len(forwarded)
           e == Head(s.queue)
           u == [s EXCEPT !.queue = Tail(@)]
<1>1. /\ session \in [Attempts -> Session] /\ attempt \in Attempts /\ forwarded \in Seq(1 .. MaxSaid)
      /\ RunTyped /\ s \in Session /\ f \in Nat
  BY TypeParts DEF RunInv, RunTyped
<1>2. Pending(s, f) /\ s.queue # <<>> /\ session' = [session EXCEPT ![attempt] = u]
      /\ attempt' = attempt /\ agent' = agent /\ pc = "merging"
  BY DEF Take, Set, RunInv, Transcript, wiring
<1>3. /\ u \in Session /\ u.said = s.said /\ u.ended = s.ended /\ u.queue = Tail(s.queue)
      /\ u.proc = s.proc /\ u.signal = s.signal
  <2>1. s.queue \in Seq(Event)
    BY <1>1 DEF Session
  <2>2. Tail(s.queue) \in Seq(Event)
    BY <2>1, <1>2
  <2> HIDE DEF s
  <2> QED  BY <1>1, <2>2 DEF Session
<1>4. session' \in [Attempts -> Session] /\ session'[attempt'] = u
  BY <1>1, <1>2, <1>3
<1>5. Children'
  <2>1. \A a \in Attempts : /\ session'[a].ended = session[a].ended
                             /\ session'[a].proc = session[a].proc
                             /\ session'[a].signal = session[a].signal
    BY <1>1, <1>2, <1>3
  <2> QED  BY <1>2, <2>1 DEF RunInv, Children, Doomed, ChildAlive
<1>6. Workspace'
  BY DEF Take, RunInv, Workspace, CountsOnlyWork, seen, work
<1>7. CASE e.end
  <2>1. e \in Event /\ f = s.said /\ s.ended
    BY <1>1, <1>2, <1>7, FrontOfQueue
  <2>2. pc' = "verifying" /\ outcome' = [real |-> TRUE, ok |-> e.ok] /\ forwarded' = forwarded
    BY <1>7 DEF Take
  <2>3. Transcript'
    BY <1>1, <1>3, <1>4, <2>1, <2>2 DEF RunInv, Transcript, Session
  <2>4. e.ok \in BOOLEAN
    BY <2>1 DEF Event
  <2> HIDE DEF e
  <2>5. RunTyped' /\ (forwarded \in Seq(1 .. MaxSaid))'
    BY <1>1, <2>2, <2>4 DEF RunTyped, Take, wiring, seen, work
  <2>6. Reported'
    BY <1>2, <2>2 DEF Take, RunInv, Reported, ReportIsGrounded, wiring
  <2> QED  BY <1>4, <1>5, <1>6, <2>3, <2>5, <2>6, TypePartsNext DEF RunInv
<1>8. CASE ~e.end
  <2>1. f + 1 \in 1 .. MaxSaid /\ e = Said(f + 1) /\ f < s.said
    BY <1>1, <1>2, <1>8, FrontOfQueue
  <2>2. forwarded' = Append(forwarded, f + 1) /\ pc' = pc /\ outcome' = outcome
    BY <1>8, <2>1 DEF Take, Said
  <2>3. /\ Len(forwarded') = f + 1 /\ (forwarded \in Seq(1 .. MaxSaid))'
        /\ \A i \in 1 .. (f + 1) : forwarded'[i] = IF i = f + 1 THEN f + 1 ELSE forwarded[i]
    <3> HIDE DEF s, e, u
    <3> QED  BY <1>1, <2>1, <2>2
  <2>4. Pending(u, f + 1)
    <3> HIDE DEF s, f, u, e
    <3> QED  BY <1>1, <1>2, <1>3, <2>1, TailOfQueue
  <2>5. Transcript'
    <3>1. \A i \in 1 .. f : forwarded[i] = i
      BY DEF RunInv, Transcript
    <3>2. \A i \in 1 .. (f + 1) : forwarded'[i] = i
      BY <1>1, <2>3, <3>1
    <3>3. Len(forwarded') = f + 1 /\ f + 1 <= u.said
      BY <2>3, <2>4 DEF Pending
    <3> HIDE DEF s, f, u, e
    <3> QED  BY <1>2, <1>4, <2>2, <2>4, <3>2, <3>3 DEF Transcript
  <2>6. RunTyped'
    BY <1>1, <2>2 DEF RunTyped, Take, wiring, seen, work
  <2>7. Reported'
    BY <2>2 DEF Take, RunInv, Reported, ReportIsGrounded, wiring
  <2> QED  BY <1>4, <1>5, <1>6, <2>3, <2>5, <2>6, <2>7, TypePartsNext DEF RunInv
<1> QED  BY <1>7, <1>8

\* A verdict repeats the attempt with a session of its own, or ends the run with
\* a report of what this attempt came to.
LEMMA VerifiedIInv ==
    ASSUME RunInv, NEW verdict \in Verdicts, Verified(verdict)
    PROVE  RunInv'
<1> DEFINE s == session[attempt]
<1>1. /\ session \in [Attempts -> Session] /\ attempt \in Attempts /\ forwarded \in Seq(1 .. MaxSaid)
      /\ RunTyped /\ s \in Session /\ Doomed(s) /\ RunTypeOK /\ Transcript /\ Children
  BY TypeParts DEF RunInv, RunTyped, Children
<1>2. pc = "verifying" /\ report = <<>> /\ latest' = <<>>
      /\ UNCHANGED <<wiring, aborted, baseline, work>>
  BY DEF Verified, RunInv, Reported
<1>3. <<>> \in Snapshots /\ latest' \in Snapshots
  BY <1>2 DEF Snapshots
<1>4. CASE CanRetry(verdict)
  <2>1. outcome.real /\ attempt + 1 \in Attempts /\ TornDown = s
    BY <1>1, <1>4, RunAssumption DEF CanRetry, Attempts, TornDown
  <2>2. PICK n \in Spawn : session' = [session EXCEPT ![attempt] = s, ![attempt + 1] = n]
    BY <1>4, <2>1 DEF Verified
  <2>3. /\ pc' = "merging" /\ attempt' = attempt + 1 /\ forwarded' = <<>> /\ report' = report
        /\ outcome' = [real |-> FALSE, ok |-> FALSE]
    BY <1>4 DEF Verified
  <2>4. n \in Session /\ Doomed(n) /\ Pending(n, 0) /\ n.said = 0
    BY SpawnedSession
  <2>5. session' \in [Attempts -> Session] /\ session'[attempt'] = n
        /\ \A a \in Attempts : a # attempt + 1 => session'[a] = session[a]
    <3> HIDE DEF s
    <3> QED  BY <1>1, <2>1, <2>2, <2>3, <2>4 DEF s
  <2>6. Transcript'
    <3>1. Len(forwarded') = 0
      BY <2>3
    <3> QED  BY <2>3, <2>4, <2>5, <3>1 DEF Transcript
  <2>7. Children'
    <3>1. s.ended
      BY <1>2, <2>1 DEF RunInv, Transcript
    <3>2. ASSUME NEW a \in Attempts PROVE Doomed(session[a])'
      BY <1>1, <1>2, <2>4, <2>5, <2>3 DEF Children, Doomed, wiring
    <3>3. ASSUME NEW a \in Attempts, a < attempt' PROVE session'[a].ended
      <4>1. a < attempt \/ a = attempt
        BY <1>1, <2>3, <3>3, RunAssumption DEF Attempts
      <4>2. session'[a] = session[a]
        BY <2>3, <2>5, <3>3, <1>1, RunAssumption DEF Attempts
      <4> QED  BY <4>1, <4>2, <3>1, <1>1 DEF Children
    <3> QED  BY <3>2, <3>3 DEF Children
  <2>8. RunTyped'
    BY <1>1, <1>2, <1>3, <2>1, <2>3 DEF RunTyped, wiring, work
  <2>9. (forwarded \in Seq(1 .. MaxSaid))'
    BY <2>3
  <2>10. Workspace' /\ Reported'
    BY <1>2, <2>3 DEF RunInv, Workspace, CountsOnlyWork, Reported, ReportIsGrounded,
       wiring, work
  <2> QED  BY <2>5, <2>6, <2>7, <2>8, <2>9, <2>10, TypePartsNext DEF RunInv
<1>5. CASE ~CanRetry(verdict)
  <2> DEFINE t == TornDown
             r == [ok |-> outcome.ok, verdict |-> verdict, files |-> Changes]
  <2>1. Keeps(s, t) /\ Doomed(t) /\ t \in Session
    BY <1>1, CancelKeeps, QuietKeeps DEF TornDown, Keeps
  <2>2. /\ session' = [session EXCEPT ![attempt] = t] /\ pc' = "done" /\ report' = <<r>>
        /\ UNCHANGED <<attempt, forwarded, outcome>>
    BY <1>5 DEF Verified, Set
  <2>3. session' \in [Attempts -> Session] /\ Transcript' /\ Children'
    <3>1. UNCHANGED <<agent, attempt, forwarded, outcome>> /\ (pc' = "merging" <=> pc = "merging")
      BY <1>2, <2>2 DEF wiring
    <3> HIDE DEF s, t
    <3> QED  BY <1>1, <2>1, <2>2, <3>1, SessionKept DEF s
  <2>4. Changes \subseteq Files /\ (baseline # <<>> => Changes \subseteq written)
    <3>1. ASSUME latest # <<>> PROVE latest[1] \subseteq Files
      BY <1>1, <3>1 DEF RunTyped, Snapshots
    <3> QED  BY <3>1 DEF Changes, RunInv, Workspace
  <2>5. verdict \in Verdict /\ (verdict = "skipped" <=> ~verifies)
    BY <1>1 DEF Verdicts, Verdict, RunTyped
  <2>6. outcome.ok \in BOOLEAN /\ (outcome.ok => outcome.real)
    BY <1>1 DEF RunTyped, RunInv, Reported
  <2>7. /\ r \in [ok : BOOLEAN, verdict : Verdict, files : SUBSET Files]
        /\ r.ok = outcome.ok /\ r.verdict = verdict /\ r.files = Changes
    BY <2>4, <2>5, <2>6
  <2>8. <<r>> # <<>> /\ <<r>>[1] = r
    OBVIOUS
  <2>9. verdict = "fail" => ~outcome.real \/ aborted \/ attempt = MaxRetries + 1
    BY <1>1, <1>5, RunAssumption DEF CanRetry, Attempts
  <2> HIDE DEF r, s, t
  <2>10. RunTyped' /\ (forwarded \in Seq(1 .. MaxSaid))'
    BY <1>1, <1>2, <1>3, <2>2, <2>7 DEF RunTyped, wiring, work
  <2>11. Workspace'
    BY <1>2, <2>2, <2>4, <2>7, <2>8 DEF RunInv, Workspace, CountsOnlyWork, work
  <2>12. Reported'
    BY <1>2, <2>2, <2>5, <2>6, <2>7, <2>8, <2>9 DEF Reported, ReportIsGrounded, wiring
  <2> QED  BY <2>3, <2>10, <2>11, <2>12, TypePartsNext DEF RunInv
<1> QED  BY <1>4, <1>5

\* A run that begins has one session, of which nothing has been read.
LEMMA RunInvInit == RunInit => RunInv
<1> SUFFICES ASSUME RunInit PROVE RunInv
  OBVIOUS
<1>1. PICK s \in Spawn : session = [a \in Attempts |->
           IF a > 1 THEN Unborn ELSE IF aborted THEN Cancel(s) ELSE s]
  BY DEF RunInit
<1> DEFINE first == IF aborted THEN Cancel(s) ELSE s
<1>2. s \in Session /\ Doomed(s) /\ Pending(s, 0)
  BY SpawnedSession
<1>3. first \in Session /\ Doomed(first) /\ Pending(first, 0)
  BY <1>2, CancelKeeps DEF Keeps
<1>4. Unborn \in Session /\ Doomed(Unborn)
  BY RunAssumption DEF Unborn, Session, Signals, Doomed
<1>5. 1 \in Attempts /\ attempt = 1 /\ \A a \in Attempts : ~(a > 1) <=> a = 1
  BY RunAssumption DEF RunInit, Attempts
<1> HIDE DEF first
<1>6. session \in [Attempts -> Session] /\ session[1] = first
      /\ \A a \in Attempts : session[a] = IF a > 1 THEN Unborn ELSE first
  BY <1>1, <1>3, <1>4, <1>5 DEF first
<1>7. Transcript
  BY <1>3, <1>5, <1>6 DEF RunInit, Transcript, Pending
<1>8. Children
  <2>1. \A a \in Attempts : ~(a < attempt)
    BY <1>5, RunAssumption DEF Attempts
  <2>2. \A a \in Attempts : session[a] \in {first, Unborn}
    BY <1>6
  <2> QED  BY <1>3, <1>4, <2>1, <2>2 DEF Children
<1>9. RunTyped /\ forwarded \in Seq(1 .. MaxSaid)
  BY <1>5 DEF RunInit, RunTyped, Snapshots
<1>10. Workspace /\ Reported
  BY DEF RunInit, Workspace, CountsOnlyWork, Reported, ReportIsGrounded
<1> QED  BY <1>6, <1>7, <1>8, <1>9, <1>10, TypeParts DEF RunInv

LEMMA RunInvNext == RunInv /\ [RunNext]_runVars => RunInv'
<1> SUFFICES ASSUME RunInv, [RunNext]_runVars PROVE RunInv'
  OBVIOUS
<1>1. CASE UNCHANGED runVars
  <2>0. /\ UNCHANGED <<agent, watches, verifies, aborted, pc, attempt, session, forwarded>>
        /\ UNCHANGED <<outcome, tree, baseline, latest, report, written>>
    BY <1>1 DEF runVars, wiring, work, seen
  <2>1. RunTypeOK' /\ Transcript'
    <3>1. RunTypeOK'
      BY <2>0, ZenonT(20) DEF RunInv, RunTypeOK
    <3>2. Transcript'
      BY <2>0, ZenonT(20) DEF RunInv, Transcript, Pending
    <3> QED  BY <3>1, <3>2
  <2>2. Children' /\ Workspace'
    <3>1. UNCHANGED <<agent, attempt, session, tree, baseline, latest, written, report>>
      BY <1>1 DEF runVars, wiring, work, seen
    <3> QED  BY <3>1 DEF RunInv, Children, Doomed, Workspace, CountsOnlyWork
  <2>3. Reported'
    BY <1>1 DEF RunInv, runVars, wiring, work, seen, Reported, ReportIsGrounded
  <2> QED  BY <2>1, <2>2, <2>3 DEF RunInv
<1>2. ASSUME NEW a \in Attempts, SessionStep(a) PROVE RunInv'
  BY <1>2, SessionIInv
<1>3. CASE Abort \/ Take \/ Poll \/ StreamBreaks
  BY <1>3, AbortIInv, TakeIInv, PollIInv, BreakIInv
<1>4. ASSUME NEW verdict \in Verdicts, Verified(verdict) PROVE RunInv'
  BY <1>4, VerifiedIInv
<1>5. ASSUME NEW a \in Attempts, Write(a) PROVE RunInv'
  BY <1>5, WriteIInv
<1> QED  BY <1>1, <1>2, <1>3, <1>4, <1>5 DEF RunNext, SessionStep

LEMMA RunInductive == RunSpec => []RunInv
BY RunInvInit, RunInvNext, PTL DEF RunSpec

\* What was forwarded is what the session said, all of it once its end is seen.
THEOREM TranscriptAlwaysWhole == RunSpec => []TranscriptIsWhole
<1>1. RunInv => TranscriptIsWhole
  BY DEF RunInv, Transcript, TranscriptIsWhole
<1> QED  BY <1>1, RunInductive, PTL

\* The report counts only what the children wrote and claims only what was seen.
THEOREM ReportAlwaysTrue == RunSpec => [](CountsOnlyWork /\ ReportIsGrounded)
<1>1. RunInv => CountsOnlyWork /\ ReportIsGrounded
  BY DEF RunInv, Workspace, Reported
<1> QED  BY <1>1, RunInductive, PTL

\* All of it: what a run tells and leaves behind is true, whatever its children do
\* and whenever it is interrupted.
THEOREM RunsAreHonest == RunSpec => []HonestRun
<1>1. RunInv => EndedChildIsDoomed /\ EarlierSessionsAreOver
  BY DEF RunInv, Children, Doomed, EndedChildIsDoomed, EarlierSessionsAreOver
<1>2. RunInv => RunTypeOK /\ TranscriptIsWhole /\ CountsOnlyWork /\ ReportIsGrounded
  BY DEF RunInv, Transcript, TranscriptIsWhole, Workspace, Reported
<1> QED  BY <1>1, <1>2, RunInductive, PTL DEF HonestRun
=============================================================================
