------------------------- MODULE ChatAndRadio_proofs -------------------------
(***************************************************************************)
(* The two parts that speak to the user.                                   *)
(*                                                                         *)
(* The chat turn: for any number of turns, whatever they carry, offer and  *)
(* are answered, a turn ends once and keeps what it should, it does only   *)
(* what was disclosed and approved, and begins nothing once it is          *)
(* cancelled.                                                              *)
(*                                                                         *)
(* The radio DJ: for any number of activities, tracks, requests and        *)
(* operations under way, replacements share one attempt, and an utterance  *)
(* belongs to the current run, names a track that has played and leaves    *)
(* the floor to the user.                                                  *)
(***************************************************************************)
EXTENDS ChatTurn, RadioDj, DataInduction

Endings == {"finish", "error", "cancelled"}
Places == Stages \cup {"compacting", "recalling", "streaming", "running", "saving"}
          \cup {"idle", "pausing", "tools", "approval", "storing", "logging", "done"}
Dues == Workloads \cup {"approval"}
Entry == [state : {"none", "streaming", "cancelling", "finished", "errored"}, live : BOOLEAN, aborted : BOOLEAN]
Wire == [usage : Nat, end : {"none", "finish", "error", "cancelled"}, late : BOOLEAN, open : Int]
Progress == [rounds : Nat, asked : Nat, utterances : Nat, control : BOOLEAN,
             speaking : BOOLEAN, retried : BOOLEAN, native : Nat, denied : BOOLEAN]
Plan == [list : Seq(Workloads), allow : BOOLEAN, holds : SUBSET Consents]
Role == [at : {"idle", "approval", "auth", "calling"}, tries : Nat, stale : BOOLEAN]
Kept == [saved : Nat, logged : Nat]

\* The variables of one turn have their types.
Typed(t) ==
    /\ channel[t] \in {"private", "discord"} /\ profile[t] \in Profiles
    /\ turn[t] \in Entry /\ pc[t] \in Places /\ wire[t] \in Wire /\ prog[t] \in Progress
    /\ queue[t] \in Seq(Kinds) /\ answer[t] \in {"none", "waiting", "approve", "reject"}
    /\ plan[t] \in [Who -> Plan] /\ role[t] \in Role
    /\ native[t] \in {"idle", "auth", "running", "answered"}
    /\ due[t] \in [Dues -> Int] /\ kept[t] \in Kept

\* Where a turn is in its life agrees with what the client was told and with the map.
Life(t) ==
    /\ turn[t].state = "none" <=> pc[t] = "idle"
    /\ turn[t].live <=> pc[t] \notin {"idle", "done"}
    /\ pc[t] = "done" => Ended(t)
    /\ wire[t].usage = IF Ended(t) THEN 1 ELSE 0
    /\ wire[t].end \in {"finish", "cancelled"} => pc[t] = "done"
    /\ pc[t] = "idle" => /\ ~Ended(t) /\ role[t].at = "idle" /\ native[t] = "idle"
                         /\ \A who \in Who : plan[t][who] = NoPlan

\* A call is being handled.
Queued(t) == pc[t] \in {"approval", "tool", "running", "storing"} => queue[t] # <<>>

\* The tool calls announced and not closed: the one being handled, or the provider's own.
Announced(t) ==
    IF pc[t] \in {"approval", "tool", "running", "storing"} \/ (pc[t] = "streaming" /\ native[t] # "idle")
    THEN 1 ELSE 0
Opened(t) ==
    /\ native[t] # "idle" \/ prog[t].denied => pc[t] \in {"streaming", "done"}
    /\ pc[t] # "done" /\ ~prog[t].denied => wire[t].open = Announced(t)
    /\ wire[t].end = "finish" => wire[t].open = 0

\* Every request to the provider is paid for by something that happens so often at most.
Flag(b) == IF b THEN 1 ELSE 0
Afforded(t) ==
    /\ prog[t].asked <= MaxToolRounds + MaxUtterances + 2
    /\ pc[t] \notin {"save", "saving", "logging", "done"} =>
           /\ prog[t].rounds <= MaxToolRounds /\ prog[t].utterances < MaxUtterances
           /\ prog[t].asked <= prog[t].rounds + prog[t].utterances + Flag(prog[t].retried)
                               + Flag(prog[t].control) + Flag(pc[t] = "streaming")

\* The save processes in two ways, disclosed one after the other: the first is accepted.
Halfway(t, p) == pc[t] = "save" /\ p.list = <<"embedding">> /\ due[t]["memory_llm"] >= 1

\* A plan is of who is asking, and one that allows discloses all that is asked for.
PlanFits(t, who) ==
    plan[t][who] # NoPlan =>
        /\ profile[t] # "none" /\ Asking(t, who)
        /\ plan[t][who].allow => \/ plan[t][who].list = Ops(t, who)
                                 \/ who = "main" /\ Halfway(t, plan[t][who])
Planned(t) == \A who \in Who : PlanFits(t, who)

\* What was disclosed or approved and has not begun is still there to begin.
Approved(t) ==
    (pc[t] = "approval" /\ answer[t] = "approve") \/ (pc[t] = "tool" /\ Head(queue[t]) = "gated")
Covered(t) ==
    /\ \A w \in Dues : due[t][w] >= 0
    /\ Approved(t) => due[t]["approval"] >= 1

\* What was kept of a turn is what its place says.
Times(t) == IF channel[t] = "discord" THEN 0 ELSE 1
Memorised(t) ==
    /\ pc[t] \in {"save", "saving", "logging"} => channel[t] # "discord"
    /\ pc[t] \notin {"saving", "logging", "done"} => kept[t].saved = 0
    /\ pc[t] \notin {"logging", "done"} => kept[t].logged = 0
    /\ pc[t] \in {"saving", "logging"} => kept[t].saved = 1
    /\ pc[t] = "logging" => kept[t].logged = 1
    /\ kept[t].saved <= Times(t) /\ kept[t].logged <= Times(t)
    /\ wire[t].end = "finish" => kept[t].saved = Times(t) /\ kept[t].logged = Times(t)
    /\ wire[t].end = "cancelled" => kept[t].saved = 0 /\ kept[t].logged = 0

TurnInv(t) ==
    /\ Life(t) /\ Queued(t) /\ Opened(t) /\ Afforded(t)
    /\ Planned(t) /\ Covered(t) /\ Memorised(t)

\* A consent a plan holds is reserved for it alone and not spent; a spent one is never
\* free again.
Reserved ==
    /\ \A c \in Consents : spent[c] <= 1 /\ (spent[c] > 0 => c \in taken)
    /\ \A t \in Turns, who \in Who : \A c \in plan[t][who].holds : c \in taken /\ spent[c] = 0
    /\ \A t, u \in Turns, who, x \in Who :
           <<t, who>> # <<u, x>> => plan[t][who].holds \cap plan[u][x].holds = {}

IInv == TypeOK /\ (\A t \in Turns : TurnInv(t)) /\ Reserved

\* The step is one of the turn t, at every variable that turns have.
OneTurn(t) ==
    /\ channel' = [channel EXCEPT ![t] = channel'[t]] /\ profile' = [profile EXCEPT ![t] = profile'[t]]
    /\ turn' = [turn EXCEPT ![t] = turn'[t]] /\ pc' = [pc EXCEPT ![t] = pc'[t]]
    /\ wire' = [wire EXCEPT ![t] = wire'[t]] /\ prog' = [prog EXCEPT ![t] = prog'[t]]
    /\ queue' = [queue EXCEPT ![t] = queue'[t]] /\ answer' = [answer EXCEPT ![t] = answer'[t]]
    /\ plan' = [plan EXCEPT ![t] = plan'[t]] /\ role' = [role EXCEPT ![t] = role'[t]]
    /\ native' = [native EXCEPT ![t] = native'[t]] /\ due' = [due EXCEPT ![t] = due'[t]]
    /\ kept' = [kept EXCEPT ![t] = kept'[t]]

Good(t) == OneTurn(t) /\ Typed(t)' /\ TurnInv(t)'

-----------------------------------------------------------------------------
(* Types, and the turns a step is not about *)

\* The places are those of the type invariant.
LEMMA PlacesAre ==
    Places = Stages \cup {Busy[s] : s \in Stages}
             \cup {"idle", "pausing", "tools", "approval", "storing", "logging", "done"}
BY DEF Places, Stages, Busy

LEMMA TypedAll == ASSUME TypeOK, NEW t \in Turns PROVE Typed(t)
BY PlacesAre DEF TypeOK, Typed, Entry, Wire, Progress, Plan, Role, Kept, Dues

\* The variables turns have, as functions.
Functional ==
    /\ channel \in [Turns -> {"private", "discord"}] /\ profile \in [Turns -> Profiles]
    /\ turn \in [Turns -> Entry] /\ pc \in [Turns -> Places] /\ wire \in [Turns -> Wire]
    /\ prog \in [Turns -> Progress] /\ queue \in [Turns -> Seq(Kinds)]
    /\ answer \in [Turns -> {"none", "waiting", "approve", "reject"}]
    /\ plan \in [Turns -> [Who -> Plan]] /\ role \in [Turns -> Role]
    /\ native \in [Turns -> {"idle", "auth", "running", "answered"}]
    /\ due \in [Turns -> [Dues -> Int]] /\ kept \in [Turns -> Kept]

LEMMA TypeParts == TypeOK <=> Functional /\ taken \subseteq Consents /\ spent \in [Consents -> Nat]
BY PlacesAre DEF TypeOK, Functional, Entry, Wire, Progress, Plan, Role, Kept, Dues

LEMMA TypePartsNext == TypeOK' <=> Functional' /\ (taken \subseteq Consents)' /\ (spent \in [Consents -> Nat])'
BY PlacesAre DEF TypeOK, Functional, Entry, Wire, Progress, Plan, Role, Kept, Dues

LEMMA FunctionalKept ==
    ASSUME Functional, NEW t \in Turns, OneTurn(t), Typed(t)'
    PROVE  Functional'
<1>1. /\ channel' \in [Turns -> {"private", "discord"}] /\ profile' \in [Turns -> Profiles]
      /\ turn' \in [Turns -> Entry] /\ pc' \in [Turns -> Places] /\ wire' \in [Turns -> Wire]
  BY DEF Functional, OneTurn, Typed
<1>2. /\ prog' \in [Turns -> Progress] /\ queue' \in [Turns -> Seq(Kinds)]
      /\ answer' \in [Turns -> {"none", "waiting", "approve", "reject"}]
      /\ native' \in [Turns -> {"idle", "auth", "running", "answered"}]
  BY DEF Functional, OneTurn, Typed
<1>3. /\ plan' \in [Turns -> [Who -> Plan]] /\ role' \in [Turns -> Role]
      /\ due' \in [Turns -> [Dues -> Int]] /\ kept' \in [Turns -> Kept]
  BY DEF Functional, OneTurn, Typed
<1> QED
  BY <1>1, <1>2, <1>3 DEF Functional

\* A step of one turn leaves the others as they are.
LEMMA OthersKept ==
    ASSUME Functional, NEW t \in Turns, OneTurn(t), NEW u \in Turns, u # t, TurnInv(u)
    PROVE  TurnInv(u)' /\ plan'[u] = plan[u]
<1>1. /\ channel'[u] = channel[u] /\ profile'[u] = profile[u] /\ turn'[u] = turn[u] /\ pc'[u] = pc[u]
      /\ wire'[u] = wire[u] /\ prog'[u] = prog[u] /\ queue'[u] = queue[u] /\ answer'[u] = answer[u]
  BY DEF Functional, OneTurn
<1>2. /\ plan'[u] = plan[u] /\ role'[u] = role[u] /\ native'[u] = native[u] /\ due'[u] = due[u]
      /\ kept'[u] = kept[u]
  BY DEF Functional, OneTurn
<1>3. Life(u)' /\ Queued(u)' /\ Opened(u)' /\ Afforded(u)'
  BY <1>1, <1>2 DEF TurnInv, Life, Queued, Opened, Afforded, Announced, Ended
<1>4. Planned(u)'
  BY <1>1, <1>2 DEF TurnInv, Planned, PlanFits, Asking, Ops, Halfway
<1>5. Covered(u)' /\ Memorised(u)'
  BY <1>1, <1>2 DEF TurnInv, Covered, Approved, Memorised, Times
<1> QED
  BY <1>2, <1>3, <1>4, <1>5 DEF TurnInv

-----------------------------------------------------------------------------
(* What a cancellation, an answer and the memory model do *)

LEMMA TypedOne == ASSUME Functional, NEW t \in Turns PROVE Typed(t)
BY DEF Functional, Typed

\* What changes neither the place of a turn nor what was begun for it keeps the rest.
Placed(t) ==
    /\ channel'[t] = channel[t] /\ profile'[t] = profile[t] /\ pc'[t] = pc[t] /\ queue'[t] = queue[t]
    /\ prog'[t] = prog[t] /\ kept'[t] = kept[t] /\ native'[t] = native[t]
    /\ wire'[t].end = wire[t].end /\ wire'[t].usage = wire[t].usage /\ wire'[t].open = wire[t].open

LEMMA PlacedKeeps ==
    ASSUME NEW t \in Turns, TurnInv(t), Placed(t)
    PROVE  Queued(t)' /\ Opened(t)' /\ Afforded(t)' /\ Memorised(t)'
BY DEF Placed, TurnInv, Queued, Opened, Announced, Afforded, Memorised, Times, Ended

LEMMA CancelGood ==
    ASSUME Functional, NEW t \in Turns, TurnInv(t), UNCHANGED request, Cancel(t)
    PROVE  Good(t)
<1>0. Typed(t)
  BY TypedOne
<1>a. /\ turn'[t] = [turn[t] EXCEPT !.state = "cancelling", !.aborted = TRUE]
      /\ answer'[t] = IF answer[t] = "waiting" THEN "reject" ELSE answer[t]
      /\ turn[t].live /\ turn[t].state = "streaming" /\ turn[t] \in Entry
  BY <1>0 DEF Cancel, Functional, Typed
<1>1. /\ turn'[t].state = "cancelling" /\ turn'[t].live /\ turn'[t] \in Entry
      /\ answer'[t] \in {"none", "waiting", "approve", "reject"}
      /\ answer'[t] = "approve" => answer[t] = "approve"
  BY <1>0, <1>a DEF Entry, Typed
<1>2. OneTurn(t)
  BY DEF Cancel, Functional, OneTurn, request
<1>3. Typed(t)'
  BY <1>0, <1>1 DEF Typed, Cancel, request
<1>4. Placed(t)
  BY DEF Placed, Cancel, request
<1>5. Life(t)'
  BY <1>1, <1>a DEF Cancel, TurnInv, Life, Ended
<1>6. Planned(t)'
  BY DEF Cancel, request, TurnInv, Planned, PlanFits, Asking, Ops, Halfway
<1>7. Covered(t)'
  BY <1>1 DEF Cancel, request, TurnInv, Covered, Approved
<1> QED
  BY <1>2, <1>3, <1>4, <1>5, <1>6, <1>7, PlacedKeeps DEF Good, TurnInv

LEMMA ApproveGood ==
    ASSUME Functional, NEW t \in Turns, TurnInv(t), UNCHANGED request,
           NEW decision \in {"approve", "reject"}, Approve(t, decision)
    PROVE  Good(t)
<1>0. Typed(t)
  BY TypedOne
<1>1. /\ answer'[t] = decision
      /\ due'[t] = IF decision = "approve" THEN [due[t] EXCEPT !["approval"] = @ + 1] ELSE due[t]
  BY DEF Approve, Functional
<1>2. OneTurn(t)
  BY DEF Approve, Functional, OneTurn, request, said
<1>3. "approval" \in Dues
  BY DEF Dues
<1>4. Typed(t)'
  BY <1>0, <1>1, <1>3 DEF Typed, Approve, request, said
<1>5. Placed(t)
  BY DEF Placed, Approve, request, said
<1>6. Life(t)'
  BY DEF Approve, TurnInv, Life, Ended, said
<1>7. /\ \A w \in Dues : due'[t][w] >= due[t][w]
      /\ decision = "approve" => due'[t]["approval"] = due[t]["approval"] + 1
  BY <1>0, <1>1, <1>3 DEF Typed
<1>8. /\ \A w \in Dues : due[t][w] \in Int /\ due'[t][w] \in Int
      /\ \A w \in Dues : due[t][w] >= 0
  BY <1>0, <1>4 DEF Typed, TurnInv, Covered
<1>9. due[t]["memory_llm"] >= 1 => due'[t]["memory_llm"] >= 1
  <2>1. "memory_llm" \in Dues
    BY DEF Dues, Workloads
  <2> QED
    BY <1>7, <1>8, <2>1
<1>10. Planned(t)'
  BY <1>9 DEF Approve, request, said, TurnInv, Planned, PlanFits, Asking, Ops, Halfway
<1>11. \A w \in Dues : due'[t][w] >= 0
  BY <1>7, <1>8
<1>12. Approved(t)' => due'[t]["approval"] >= 1
  BY <1>1, <1>3, <1>7, <1>8 DEF TurnInv, Covered, Approved, Approve
<1> QED
  BY <1>2, <1>4, <1>5, <1>6, <1>10, <1>11, <1>12, PlacedKeeps DEF Good, TurnInv, Covered

\* Steps of the memory model's request that start, settle or end it.
LEMMA RoleGood ==
    ASSUME Functional, NEW t \in Turns, TurnInv(t), UNCHANGED request,
           RoleAsks(t) \/ RoleEnds(t) \/ \E approved \in BOOLEAN : RoleApproval(t, approved)
    PROVE  Good(t)
<1>0. Typed(t)
  BY TypedOne
<1>1. /\ UNCHANGED <<said, pc, prog, own, plan, native, taken, spent, due, kept>>
      /\ role' = [role EXCEPT ![t] = role'[t]]
  BY DEF RoleAsks, RoleEnds, RoleApproval, Functional
<1>2. role'[t] \in Role
  <2>1. CASE RoleAsks(t)
    <3> DEFINE at == IF profile[t] = "none" THEN "approval" ELSE "auth"
               tries == role[t].tries + 1
    <3>1. role'[t] = [role[t] EXCEPT !.at = at, !.tries = tries]
      BY <2>1 DEF RoleAsks, Functional
    <3>2. at \in {"approval", "auth"} /\ tries \in Nat
      BY <1>0 DEF Typed, Role
    <3> HIDE DEF at, tries
    <3> QED
      BY <1>0, <3>1, <3>2 DEF Typed, Role
  <2>2. CASE RoleEnds(t)
    BY <1>0, <2>2 DEF RoleEnds, Functional, Typed, Role
  <2>3. ASSUME NEW approved \in BOOLEAN, RoleApproval(t, approved) PROVE role'[t] \in Role
    <3> DEFINE at == IF approved THEN "calling" ELSE "idle"
               tries == IF approved THEN role[t].tries ELSE 2
    <3>1. role'[t] = [role[t] EXCEPT !.at = at, !.tries = tries]
      BY <2>3 DEF RoleApproval, Functional
    <3>2. at \in {"calling", "idle"} /\ tries \in Nat
      BY <1>0 DEF Typed, Role
    <3> HIDE DEF at, tries
    <3> QED
      BY <1>0, <3>1, <3>2 DEF Typed, Role
  <2> QED
    BY <2>1, <2>2, <2>3
<1>3. role[t].at # "auth" /\ pc[t] # "idle"
  BY <1>0 DEF RoleAsks, RoleEnds, RoleApproval, TurnInv, Life
<1>4. OneTurn(t)
  BY <1>1 DEF Functional, OneTurn, request, said, own
<1>5. Typed(t)'
  BY <1>0, <1>1, <1>2 DEF Typed, request, said, own
<1>6. Placed(t)
  BY <1>1 DEF Placed, request, said, own
<1>7. Life(t)'
  BY <1>1, <1>3 DEF TurnInv, Life, Ended, said, own
<1>8. Planned(t)'
  BY <1>1, <1>3 DEF request, TurnInv, Planned, PlanFits, Asking, Ops, Halfway, Who, said, own
<1>9. Covered(t)'
  BY <1>1 DEF request, TurnInv, Covered, Approved, said, own
<1> QED
  BY <1>4, <1>5, <1>6, <1>7, <1>8, <1>9, PlacedKeeps DEF Good, TurnInv

-----------------------------------------------------------------------------
(* How the main line ends and goes on *)

\* An ending of the turn that it may be told: all calls closed and everything kept when
\* it finishes, nothing kept when it was cancelled.
Ends(t) ==
    \E why \in Endings :
        /\ EndTurn(t, why)
        /\ why = "finish" => /\ pc[t] # "saving" /\ wire[t].open = 0
                             /\ kept[t].saved = Times(t) /\ kept[t].logged = Times(t)
        /\ why = "cancelled" => kept[t].saved = 0 /\ kept[t].logged = 0

LEMMA EndGood ==
    ASSUME Functional, NEW t \in Turns, TurnInv(t), UNCHANGED request, pc[t] \notin {"idle", "done"}, Ends(t),
           UNCHANGED <<native, role, due, kept>>,
           prog' = [prog EXCEPT ![t] = prog'[t]], prog'[t] \in Progress,
           prog'[t].asked = prog[t].asked, prog'[t].denied = prog[t].denied,
           plan' = [plan EXCEPT ![t] = plan'[t]], plan'[t]["main"] = NoPlan, plan'[t] \in [Who -> Plan],
           \A who \in Who : who # "main" => plan'[t][who] = plan[t][who]
    PROVE  Good(t)
<1>0. Typed(t)
  BY TypedOne
<1>1. PICK why \in Endings :
        /\ EndTurn(t, why)
        /\ why = "finish" => /\ pc[t] # "saving" /\ wire[t].open = 0
                             /\ kept[t].saved = Times(t) /\ kept[t].logged = Times(t)
        /\ why = "cancelled" => kept[t].saved = 0 /\ kept[t].logged = 0
  BY DEF Ends
<1> DEFINE st == StateAfter(t, why)
<1>2. st \in {"none", "streaming", "cancelling", "finished", "errored"} /\ st # "none"
  BY <1>0 DEF StateAfter, Typed, Entry, TurnInv, Life
<1>3. turn' = [turn EXCEPT ![t].live = FALSE, ![t].state = st]
  BY <1>1 DEF EndTurn
<1> HIDE DEF st
<1>4. /\ turn'[t] = [turn[t] EXCEPT !.live = FALSE, !.state = st]
      /\ turn' = [turn EXCEPT ![t] = turn'[t]]
  BY <1>3 DEF Functional
<1>5. turn'[t] \in Entry /\ turn'[t].live = FALSE /\ turn'[t].state # "none"
  BY <1>0, <1>2, <1>4 DEF Typed, Entry
<1>6. /\ wire'[t] = Terminal(wire[t], why) /\ wire' = [wire EXCEPT ![t] = wire'[t]]
      /\ pc'[t] = "done" /\ pc' = [pc EXCEPT ![t] = pc'[t]]
      /\ queue'[t] = <<>> /\ queue' = [queue EXCEPT ![t] = queue'[t]]
      /\ answer'[t] = "none" /\ answer' = [answer EXCEPT ![t] = answer'[t]]
  BY <1>1 DEF EndTurn, Functional
<1>7. /\ wire[t].end # "none" => wire'[t] = wire[t]
      /\ wire[t].end = "none" =>
            /\ wire'[t].end = why /\ wire'[t].usage = wire[t].usage + 1 /\ wire'[t].open = wire[t].open
            /\ wire'[t] \in Wire
      /\ why # "none" /\ wire'[t] \in Wire
  <2> DEFINE n == wire[t].usage + 1
  <2>1. n \in Nat /\ why \in {"none", "finish", "error", "cancelled"} /\ why # "none"
    BY <1>0 DEF Typed, Wire, Endings
  <2>2. wire[t].end = "none" => wire'[t] = [wire[t] EXCEPT !.usage = n, !.end = why]
    BY <1>6 DEF Terminal
  <2>3. wire[t].end # "none" => wire'[t] = wire[t]
    BY <1>6 DEF Terminal
  <2>4. wire[t].end = "none" =>
            /\ wire'[t].end = why /\ wire'[t].usage = n /\ wire'[t].open = wire[t].open
            /\ wire'[t] \in Wire
    <3> HIDE DEF n
    <3> QED
      BY <1>0, <2>1, <2>2 DEF Typed, Wire
  <2> QED
    BY <1>0, <2>1, <2>3, <2>4 DEF Typed
<1>8. OneTurn(t)
  BY <1>4, <1>6 DEF OneTurn, Functional, request
<1>9. Typed(t)'
  <2>1. <<>> \in Seq(Kinds) /\ "done" \in Places
    BY DEF Places
  <2> QED
    BY <1>0, <1>5, <1>6, <1>7, <2>1 DEF Typed, request
<1>10. Life(t)'
  BY <1>5, <1>6, <1>7 DEF TurnInv, Life, Ended
<1>11. Queued(t)' /\ Covered(t)'
  BY <1>6 DEF TurnInv, Queued, Covered, Approved
<1>12. Opened(t)'
  BY <1>1, <1>6, <1>7 DEF TurnInv, Opened, Life, Announced
<1>13. Afforded(t)'
  BY <1>6 DEF TurnInv, Afforded
<1>14. Planned(t)'
  <2>1. PlanFits(t, "main")'
    BY DEF PlanFits
  <2>2. PlanFits(t, "role")'
    BY DEF request, TurnInv, Planned, PlanFits, Asking, Ops, Who
  <2>3. PlanFits(t, "native")'
    BY DEF request, TurnInv, Planned, PlanFits, Asking, Ops, Who
  <2> QED
    BY <2>1, <2>2, <2>3 DEF Planned, Who
<1>15. Memorised(t)'
  BY <1>1, <1>6, <1>7 DEF request, TurnInv, Memorised, Times, Life
<1> QED
  BY <1>8, <1>9, <1>10, <1>11, <1>12, <1>13, <1>14, <1>15 DEF Good, TurnInv

\* The main line goes on, from a place where it has no plan.
Onward(t) ==
    /\ channel'[t] = channel[t] /\ profile'[t] = profile[t] /\ turn'[t] = turn[t]
    /\ plan'[t] = plan[t] /\ due'[t] = due[t]
    /\ pc[t] \notin {"idle", "done"} /\ pc'[t] \notin {"idle", "done"} /\ plan[t]["main"] = NoPlan
    /\ wire'[t].end = wire[t].end /\ wire'[t].usage = wire[t].usage
    /\ role'[t].at = role[t].at /\ (native'[t] = native[t] \/ native[t] # "auth")

LEMMA OnwardKeeps ==
    ASSUME NEW t \in Turns, TurnInv(t), Onward(t)
    PROVE  Life(t)' /\ Planned(t)'
<1>1. Life(t)'
  BY DEF Onward, TurnInv, Life, Ended
<1>2. Planned(t)'
  BY DEF Onward, TurnInv, Planned, PlanFits, Asking, Ops, Halfway, Who
<1> QED
  BY <1>1, <1>2

\* Where the main line does not ask, it has no plan.
LEMMA NoMainPlan == ASSUME NEW t \in Turns, TurnInv(t), pc[t] \notin Stages PROVE plan[t]["main"] = NoPlan
BY DEF TurnInv, Planned, PlanFits, Asking, Who

LEMMA StaleRole ==
    ASSUME NEW t \in Turns, Functional, role' = LeftBehind(t)
    PROVE  role'[t] \in Role /\ role'[t].at = role[t].at /\ role' = [role EXCEPT ![t] = role'[t]]
BY DEF LeftBehind, Functional, Role, IdleRole

LEMMA CompactGood ==
    ASSUME Functional, NEW t \in Turns, TurnInv(t), UNCHANGED request, CompactEnds(t) \/ RecallEnds(t)
    PROVE  Good(t)
<1>0. Typed(t)
  BY TypedOne
<1>1. /\ pc[t] \in {"compacting", "recalling"} /\ pc'[t] \in {"recall", "main"}
      /\ pc' = [pc EXCEPT ![t] = pc'[t]]
      /\ UNCHANGED <<turn, wire, prog, queue, answer, plan, native, due, kept>>
  BY DEF CompactEnds, RecallEnds, Functional, said, own
<1>2. role'[t] \in Role /\ role'[t].at = role[t].at /\ role' = [role EXCEPT ![t] = role'[t]]
  <2>1. CASE CompactEnds(t)
    BY <2>1, StaleRole DEF CompactEnds
  <2>2. CASE RecallEnds(t)
    BY <2>2 DEF RecallEnds, Functional
  <2> QED
    BY <2>1, <2>2
<1>3. OneTurn(t)
  BY <1>1, <1>2 DEF OneTurn, Functional, request
<1>4. Typed(t)'
  BY <1>0, <1>1, <1>2 DEF Typed, request, Places, Stages
<1>5. Onward(t)
  BY <1>1, <1>2, NoMainPlan DEF Onward, request, Stages
<1>6. Queued(t)' /\ Opened(t)' /\ Afforded(t)' /\ Covered(t)'
  BY <1>1 DEF TurnInv, Queued, Opened, Announced, Afforded, Flag, Covered, Approved
<1>7. Memorised(t)'
  BY <1>1 DEF TurnInv, Memorised, Times, request
<1> QED
  BY <1>3, <1>4, <1>5, <1>6, <1>7, OnwardKeeps DEF Good, TurnInv

LEMMA EndRest ==
    ASSUME Functional, NEW t \in Turns, TurnInv(t), UNCHANGED request, pc[t] \notin {"idle", "done"},
           plan[t]["main"] = NoPlan, Ends(t), UNCHANGED <<native, rest>>,
           prog' = [prog EXCEPT ![t] = prog'[t]], prog'[t] \in Progress,
           prog'[t].asked = prog[t].asked, prog'[t].denied = prog[t].denied
    PROVE  Good(t)
<1>1. /\ UNCHANGED <<native, role, due, kept>> /\ plan' = plan /\ plan[t] \in [Who -> Plan]
      /\ plan' = [plan EXCEPT ![t] = plan'[t]]
  BY DEF rest, Functional
<1> QED
  BY <1>1, EndGood

\* A turn that is cut short before it saves anything ends as cancelled or in error.
LEMMA CutShort ==
    ASSUME Functional, NEW t \in Turns, TurnInv(t), UNCHANGED request,
           pc[t] \notin {"idle", "done", "saving", "logging"}, plan[t]["main"] = NoPlan,
           EndTurn(t, "error") \/ EndTurn(t, "cancelled"), UNCHANGED <<prog, native, rest>>
    PROVE  Good(t)
<1>1. kept[t].saved = 0 /\ kept[t].logged = 0
  BY DEF TurnInv, Memorised
<1>2. Ends(t)
  BY <1>1 DEF Ends, Endings
<1>3. /\ prog' = [prog EXCEPT ![t] = prog'[t]] /\ prog'[t] \in Progress
      /\ prog'[t].asked = prog[t].asked /\ prog'[t].denied = prog[t].denied /\ UNCHANGED <<native, rest>>
  BY DEF Functional
<1> QED
  BY <1>2, <1>3, EndRest

\* The main line goes on to another place and leaves the rest alone.
LEMMA GoneGood ==
    ASSUME Functional, NEW t \in Turns, TurnInv(t), UNCHANGED request, UNCHANGED <<turn, native, rest>>,
           NEW place \in Places \ {"idle", "done"}, pc' = [pc EXCEPT ![t] = place],
           pc[t] \notin {"idle", "done", "save", "saving", "logging"}, place \notin {"saving", "logging"},
           place = "save" => channel[t] # "discord",
           plan[t]["main"] = NoPlan,
           wire' = [wire EXCEPT ![t] = wire'[t]], wire'[t] \in Wire,
           wire'[t].end = wire[t].end, wire'[t].usage = wire[t].usage,
           prog' = [prog EXCEPT ![t] = prog'[t]], prog'[t] \in Progress,
           queue' = [queue EXCEPT ![t] = queue'[t]], queue'[t] \in Seq(Kinds),
           answer' = [answer EXCEPT ![t] = answer'[t]],
           answer'[t] \in {"none", "waiting", "approve", "reject"},
           Queued(t)', Opened(t)', Afforded(t)', Covered(t)'
    PROVE  Good(t)
<1>0. Typed(t)
  BY TypedOne
<1>1. pc'[t] = place /\ UNCHANGED <<plan, role, due, kept>>
  BY DEF Functional, rest
<1>2. OneTurn(t)
  BY <1>1 DEF OneTurn, Functional, request
<1>3. Typed(t)'
  BY <1>0, <1>1 DEF Typed, request
<1>4. Onward(t)
  BY <1>1 DEF Onward, request
<1>5. Memorised(t)'
  <2>1. wire[t].end \notin {"finish", "cancelled"} /\ kept[t].saved = 0 /\ kept[t].logged = 0
    BY DEF TurnInv, Life, Memorised
  <2>2. 0 <= Times(t)
    BY DEF Times
  <2> QED
    BY <1>1, <2>1, <2>2 DEF Memorised, Times, request
<1> QED
  BY <1>2, <1>3, <1>4, <1>5, OnwardKeeps DEF Good, TurnInv

-----------------------------------------------------------------------------
(* The rounds of the provider *)

LEMMA UnchangedProgress ==
    ASSUME Functional, NEW t \in Turns, UNCHANGED prog
    PROVE  /\ prog' = [prog EXCEPT ![t] = prog'[t]] /\ prog'[t] \in Progress
           /\ prog'[t].asked = prog[t].asked /\ prog'[t].denied = prog[t].denied
BY DEF Functional

LEMMA UnchangedOwn ==
    ASSUME Functional, NEW t \in Turns, UNCHANGED own
    PROVE  /\ queue' = [queue EXCEPT ![t] = queue'[t]] /\ queue'[t] \in Seq(Kinds)
           /\ answer' = [answer EXCEPT ![t] = answer'[t]]
           /\ answer'[t] \in {"none", "waiting", "approve", "reject"}
           /\ queue' = queue /\ answer' = answer
BY DEF Functional, own

LEMMA UnchangedSaid ==
    ASSUME Functional, NEW t \in Turns, UNCHANGED said
    PROVE  /\ turn' = turn /\ wire' = wire /\ wire' = [wire EXCEPT ![t] = wire'[t]] /\ wire'[t] \in Wire
           /\ wire'[t].end = wire[t].end /\ wire'[t].usage = wire[t].usage
BY DEF Functional, said

\* The last text: the turn finishes, with all its calls closed, or goes on to its save.
LEMMA CommitGood ==
    ASSUME Functional, NEW t \in Turns, TurnInv(t), UNCHANGED request,
           pc[t] \in {"streaming", "pausing"}, native[t] = "idle", ~prog[t].denied,
           Commit(t), UNCHANGED <<native, rest>>,
           prog' = [prog EXCEPT ![t] = prog'[t]], prog'[t] \in Progress,
           prog'[t].asked = prog[t].asked, prog'[t].denied = prog[t].denied
    PROVE  Good(t)
<1>1. plan[t]["main"] = NoPlan
  BY NoMainPlan DEF Stages
<1>2. /\ kept[t].saved = 0 /\ kept[t].logged = 0 /\ wire[t].open = 0
      /\ wire[t].end # "finish"
  BY DEF TurnInv, Memorised, Opened, Announced, Life
<1>3. CASE channel[t] = "discord"
  <2>1. EndTurn(t, "finish") /\ Times(t) = 0
    BY <1>3 DEF Commit, Times
  <2>2. Ends(t)
    BY <1>2, <2>1 DEF Ends, Endings
  <2> QED
    BY <1>1, <2>2, EndRest
<1>4. CASE channel[t] # "discord"
  <2>1. pc' = [pc EXCEPT ![t] = "save"] /\ UNCHANGED said /\ UNCHANGED own
    BY <1>4 DEF Commit
  <2>2. pc'[t] = "save" /\ UNCHANGED turn
    BY <2>1 DEF Functional, said
  <2>3. Queued(t)' /\ Covered(t)'
    BY <2>2 DEF TurnInv, Queued, Covered, Approved, rest
  <2>4. Opened(t)'
    BY <1>2, <2>1, <2>2 DEF Opened, Announced, said
  <2>5. Afforded(t)'
    BY <2>2 DEF TurnInv, Afforded
  <2>6. "save" \in Places \ {"idle", "done"}
    BY DEF Places, Stages
  <2> QED
    BY <1>1, <1>4, <2>1, <2>2, <2>3, <2>4, <2>5, <2>6, UnchangedOwn, UnchangedSaid, GoneGood
<1> QED
  BY <1>3, <1>4

\* A place between the calls and the rounds: nothing is open there.
LEMMA BetweenGood ==
    ASSUME Functional, NEW t \in Turns, TurnInv(t), UNCHANGED request, UNCHANGED <<native, rest>>,
           NEW place \in {"main", "pausing", "tools"}, pc' = [pc EXCEPT ![t] = place],
           pc[t] \in {"streaming", "pausing", "tools"}, native[t] = "idle", ~prog[t].denied,
           UNCHANGED said, UNCHANGED answer,
           queue' = [queue EXCEPT ![t] = queue'[t]], queue'[t] \in Seq(Kinds),
           prog' = [prog EXCEPT ![t] = prog'[t]], prog'[t] \in Progress, prog'[t].denied = prog[t].denied,
           Afforded(t)'
    PROVE  Good(t)
<1>1. plan[t]["main"] = NoPlan
  BY NoMainPlan DEF Stages
<1>2. pc'[t] = place /\ UNCHANGED turn /\ UNCHANGED wire /\ wire[t].open = 0
  BY DEF Functional, said, TurnInv, Opened, Announced
<1>3. Queued(t)' /\ Covered(t)'
  BY <1>2 DEF TurnInv, Queued, Covered, Approved, rest
<1>4. Opened(t)'
  BY <1>2 DEF Opened, Announced
<1>5. place \in Places \ {"idle", "done"} /\ place \notin {"save", "saving", "logging"}
  BY DEF Places, Stages
<1>6. /\ answer' = [answer EXCEPT ![t] = answer'[t]]
      /\ answer'[t] \in {"none", "waiting", "approve", "reject"}
  BY DEF Functional
<1> QED
  BY <1>1, <1>2, <1>3, <1>4, <1>5, <1>6, UnchangedSaid, GoneGood

LEMMA BreakGood ==
    ASSUME Functional, NEW t \in Turns, TurnInv(t), UNCHANGED request, Break(t) \/ RoundFails(t)
    PROVE  Good(t)
<1>1. EndTurn(t, "error") \/ EndTurn(t, "cancelled")
  BY DEF Break, RoundFails, Why
<1>2. /\ pc[t] \in {"main", "streaming"} /\ plan[t]["main"] = NoPlan
      /\ UNCHANGED <<prog, native, rest>>
  BY NoMainPlan DEF Break, RoundFails, Stages
<1> QED
  BY <1>1, <1>2, CutShort

LEMMA AnswersGood ==
    ASSUME Functional, NEW t \in Turns, TurnInv(t), UNCHANGED request,
           NEW kind \in {"answer", "promise", "cut", "blank"}, RoundAnswers(t, kind)
    PROVE  Good(t)
<1>0. Typed(t)
  BY TypedOne
<1>1. /\ pc[t] = "streaming" /\ native[t] = "idle" /\ ~prog[t].denied /\ UNCHANGED <<native, rest>>
      /\ plan[t]["main"] = NoPlan
  BY NoMainPlan DEF RoundAnswers, RoundFinished, Stages
<1>2. CASE Retry(t)
  <2>1. /\ prog' = [prog EXCEPT ![t] = [prog[t] EXCEPT !.retried = TRUE]] /\ ~prog[t].retried
        /\ pc' = [pc EXCEPT ![t] = "main"] /\ UNCHANGED said /\ UNCHANGED own
    BY <1>2 DEF Retry
  <2>2. /\ prog'[t] = [prog[t] EXCEPT !.retried = TRUE] /\ prog' = [prog EXCEPT ![t] = prog'[t]]
        /\ pc'[t] = "main"
    BY <2>1 DEF Functional
  <2>3. /\ prog'[t] \in Progress /\ prog'[t].denied = prog[t].denied /\ prog'[t].asked = prog[t].asked
        /\ prog'[t].rounds = prog[t].rounds /\ prog'[t].utterances = prog[t].utterances
        /\ prog'[t].control = prog[t].control /\ prog'[t].retried = TRUE
    BY <1>0, <2>2 DEF Typed, Progress
  <2>4. Afforded(t)'
    BY <1>0, <1>1, <2>1, <2>2, <2>3 DEF TurnInv, Afforded, Flag, Typed, Progress
  <2> QED
    BY <1>1, <2>1, <2>2, <2>3, <2>4, UnchangedOwn, BetweenGood
<1>3. CASE EndTurn(t, "error") /\ UNCHANGED prog
  BY <1>1, <1>3, CutShort
<1>4. CASE Commit(t) /\ UNCHANGED prog
  BY <1>1, <1>4, UnchangedProgress, CommitGood
<1>5. CASE /\ prog' = [prog EXCEPT ![t].utterances = @ + 1]
           /\ \/ Commit(t)
              \/ /\ prog[t].utterances + 1 < MaxUtterances
                 /\ pc' = [pc EXCEPT ![t] = "pausing"] /\ UNCHANGED <<said, own>>
  <2> DEFINE n == prog[t].utterances + 1
  <2>1. n \in Nat /\ prog' = [prog EXCEPT ![t] = [prog[t] EXCEPT !.utterances = n]]
    BY <1>0, <1>5 DEF Typed, Progress
  <2>2. n = prog[t].utterances + 1
    OBVIOUS
  <2> HIDE DEF n
  <2>3. prog'[t] = [prog[t] EXCEPT !.utterances = n] /\ prog' = [prog EXCEPT ![t] = prog'[t]]
    BY <2>1 DEF Functional
  <2>4. /\ prog'[t] \in Progress /\ prog'[t].denied = prog[t].denied /\ prog'[t].asked = prog[t].asked
        /\ prog'[t].rounds = prog[t].rounds /\ prog'[t].utterances = n
        /\ prog'[t].control = prog[t].control /\ prog'[t].retried = prog[t].retried
    BY <1>0, <2>1, <2>3 DEF Typed, Progress
  <2>5. CASE Commit(t)
    BY <1>1, <2>3, <2>4, <2>5, CommitGood
  <2>6. CASE /\ n < MaxUtterances
             /\ pc' = [pc EXCEPT ![t] = "pausing"] /\ UNCHANGED <<said, own>>
    <3>1. pc'[t] = "pausing" /\ UNCHANGED said /\ UNCHANGED own
      BY <2>6 DEF Functional
    <3>2. Afforded(t)'
      BY <1>0, <1>1, <2>1, <2>2, <2>4, <2>6, <3>1 DEF TurnInv, Afforded, Flag, Typed, Progress
    <3> QED
      BY <1>1, <2>3, <2>4, <2>6, <3>1, <3>2, UnchangedOwn, BetweenGood
  <2> QED
    BY <1>5, <2>2, <2>5, <2>6
<1> QED
  BY <1>2, <1>3, <1>4, <1>5 DEF RoundAnswers

LEMMA PauseGood ==
    ASSUME Functional, NEW t \in Turns, TurnInv(t), UNCHANGED request, PauseEnds(t)
    PROVE  Good(t)
<1>1. /\ pc[t] = "pausing" /\ native[t] = "idle" /\ ~prog[t].denied /\ UNCHANGED <<prog, native, rest>>
      /\ plan[t]["main"] = NoPlan
  BY NoMainPlan DEF PauseEnds, Stages, TurnInv, Opened
<1>2. CASE EndTurn(t, "cancelled")
  BY <1>1, <1>2, CutShort
<1>3. CASE Commit(t)
  BY <1>1, <1>3, UnchangedProgress, CommitGood
<1>4. CASE pc' = [pc EXCEPT ![t] = "main"] /\ UNCHANGED <<said, own>>
  <2>1. pc'[t] = "main" /\ UNCHANGED said /\ UNCHANGED own
    BY <1>4 DEF Functional
  <2>2. Afforded(t)'
    BY <1>1, <2>1 DEF TurnInv, Afforded, Flag
  <2> QED
    BY <1>1, <1>4, <2>1, <2>2, UnchangedOwn, UnchangedProgress, BetweenGood
<1> QED
  BY <1>2, <1>3, <1>4 DEF PauseEnds

\* The calls of a round are known kinds of calls, and there is one.
LEMMA CallsAre ==
    ASSUME NEW t \in Turns, NEW calls \in CallSeqs(t)
    PROVE  calls \in Seq(Kinds) /\ calls # <<>> /\ Range(calls) # {}
<1>1. Callable(t) \subseteq Kinds
  BY TurnAssumption DEF Callable
<1>2. PICK n \in 1 .. MaxCalls : calls \in [1 .. n -> Callable(t)]
  BY DEF CallSeqs
<1>3. n \in Nat /\ 1 \in 1 .. n
  BY TurnAssumption
<1>4. calls \in Seq(Kinds) /\ Len(calls) = n /\ DOMAIN calls = 1 .. n
  BY <1>1, <1>2, <1>3
<1> QED
  BY <1>3, <1>4 DEF Range

LEMMA CallsGood ==
    ASSUME Functional, NEW t \in Turns, TurnInv(t), UNCHANGED request,
           NEW calls, calls \in CallSeqs(t), RoundCalls(t, calls)
    PROVE  Good(t)
<1> DEFINE control == "control" \in Range(calls)
           external == Range(calls) # {"control"}
<1>0. Typed(t)
  BY TypedOne
<1>1. /\ pc[t] = "streaming" /\ native[t] = "idle" /\ ~prog[t].denied /\ UNCHANGED <<native, rest>>
      /\ plan[t]["main"] = NoPlan
  BY NoMainPlan DEF RoundCalls, RoundFinished, Stages
<1>2. CASE EndTurn(t, "error") /\ UNCHANGED prog
  BY <1>1, <1>2, CutShort
<1>3. CASE ~(EndTurn(t, "error") /\ UNCHANGED prog)
  <2>1. /\ ~((control /\ prog[t].control) \/ (external /\ prog[t].rounds >= MaxToolRounds))
        /\ \E quoted \in IF control THEN BOOLEAN ELSE {FALSE} :
               prog' = [prog EXCEPT ![t].control = @ \/ control,
                                    ![t].speaking = @ \/ quoted,
                                    ![t].rounds = @ + IF external THEN 1 ELSE 0]
        /\ queue' = [queue EXCEPT ![t] = calls]
        /\ pc' = [pc EXCEPT ![t] = "tools"]
        /\ UNCHANGED said /\ UNCHANGED answer
    BY <1>3 DEF RoundCalls
  <2>2. calls \in Seq(Kinds) /\ (control \/ external)
    BY CallsAre
  <2>3. PICK quoted \in BOOLEAN :
            prog' = [prog EXCEPT ![t].control = @ \/ control,
                                 ![t].speaking = @ \/ quoted,
                                 ![t].rounds = @ + IF external THEN 1 ELSE 0]
    BY <2>1
  <2> DEFINE c == prog[t].control \/ control
             s == prog[t].speaking \/ quoted
             n == prog[t].rounds + IF external THEN 1 ELSE 0
  <2>4. c \in BOOLEAN /\ s \in BOOLEAN /\ n \in Nat
    BY <1>0 DEF Typed, Progress
  <2>5. prog' = [prog EXCEPT ![t] = [prog[t] EXCEPT !.control = c, !.speaking = s, !.rounds = n]]
    BY <1>0, <2>3 DEF Typed, Progress
  <2>6. /\ Flag(c) = Flag(prog[t].control) + Flag(control)
        /\ n = prog[t].rounds + Flag(external) /\ n <= MaxToolRounds
        /\ Flag(control) + Flag(external) >= 1
    <3>1. prog[t].rounds \in Nat /\ MaxToolRounds \in Nat /\ prog[t].rounds <= MaxToolRounds
      BY <1>0, <1>1, TurnAssumption DEF Typed, Progress, TurnInv, Afforded
    <3>2. ~(control /\ prog[t].control) /\ (external => prog[t].rounds < MaxToolRounds)
      BY <2>1, <3>1
    <3>3. n = prog[t].rounds + Flag(external) /\ n <= MaxToolRounds
      BY <3>1, <3>2 DEF Flag
    <3>4. Flag(c) = Flag(prog[t].control) + Flag(control)
      BY <3>2 DEF Flag
    <3>5. Flag(control) + Flag(external) >= 1
      BY <2>2 DEF Flag
    <3> QED
      BY <3>3, <3>4, <3>5
  <2> HIDE DEF c, s, n
  <2>7. /\ prog'[t] = [prog[t] EXCEPT !.control = c, !.speaking = s, !.rounds = n]
        /\ prog' = [prog EXCEPT ![t] = prog'[t]]
    BY <2>5 DEF Functional
  <2>8. /\ prog'[t] \in Progress /\ prog'[t].denied = prog[t].denied /\ prog'[t].asked = prog[t].asked
        /\ prog'[t].rounds = n /\ prog'[t].utterances = prog[t].utterances
        /\ prog'[t].control = c /\ prog'[t].retried = prog[t].retried
    BY <1>0, <2>4, <2>7 DEF Typed, Progress
  <2>9. pc'[t] = "tools" /\ queue' = [queue EXCEPT ![t] = queue'[t]] /\ queue'[t] \in Seq(Kinds)
    BY <2>1, <2>2 DEF Functional
  <2>10. Afforded(t)'
    <3>1. prog[t].asked <= prog[t].rounds + prog[t].utterances + Flag(prog[t].retried)
                           + Flag(prog[t].control) + 1
      BY <1>1 DEF TurnInv, Afforded, Flag
    <3>2. prog[t].asked \in Nat /\ prog[t].rounds \in Nat /\ prog[t].utterances \in Nat
      BY <1>0 DEF Typed, Progress
    <3>3. prog[t].asked <= n + prog[t].utterances + Flag(prog[t].retried) + Flag(c)
      BY <2>4, <2>6, <3>1, <3>2 DEF Flag
    <3>4. Flag(pc'[t] = "streaming") = 0 /\ Flag(prog[t].retried) \in Nat /\ Flag(c) \in Nat
      BY <2>9 DEF Flag
    <3>5. prog[t].utterances < MaxUtterances /\ prog[t].asked <= MaxToolRounds + MaxUtterances + 2
      BY <1>1 DEF TurnInv, Afforded
    <3>6. /\ prog'[t].asked <= prog'[t].rounds + prog'[t].utterances + Flag(prog'[t].retried)
                               + Flag(prog'[t].control) + Flag(pc'[t] = "streaming")
          /\ prog'[t].rounds <= MaxToolRounds /\ prog'[t].utterances < MaxUtterances
          /\ prog'[t].asked <= MaxToolRounds + MaxUtterances + 2
      BY <2>4, <2>6, <2>8, <3>2, <3>3, <3>4, <3>5
    <3> QED
      BY <3>6 DEF Afforded, Flag
  <2> QED
    BY <1>1, <2>1, <2>7, <2>8, <2>9, <2>10, BetweenGood
<1> QED
  BY <1>2, <1>3

-----------------------------------------------------------------------------
(* The calls of a round *)

\* A call is announced, or closed: nothing else of what the client was told changes.
LEMMA OneOpen ==
    ASSUME Functional, NEW t \in Turns, NEW k \in {-1, 1}, wire' = [wire EXCEPT ![t].open = @ + k]
    PROVE  /\ wire' = [wire EXCEPT ![t] = wire'[t]] /\ wire'[t] \in Wire
           /\ wire'[t].open = wire[t].open + k
           /\ wire'[t].end = wire[t].end /\ wire'[t].usage = wire[t].usage
<1> DEFINE n == wire[t].open + k
<1>0. wire[t] \in Wire
  BY DEF Functional
<1>1. n \in Int /\ n = wire[t].open + k
  BY <1>0 DEF Wire
<1>2. wire' = [wire EXCEPT ![t] = [wire[t] EXCEPT !.open = n]]
  OBVIOUS
<1> HIDE DEF n
<1>3. wire'[t] = [wire[t] EXCEPT !.open = n] /\ wire' = [wire EXCEPT ![t] = wire'[t]]
  BY <1>2 DEF Functional
<1>4. /\ wire'[t] \in Wire /\ wire'[t].open = n
      /\ wire'[t].end = wire[t].end /\ wire'[t].usage = wire[t].usage
  BY <1>0, <1>1, <1>3 DEF Wire
<1> QED
  BY <1>1, <1>3, <1>4

LEMMA OneClosed ==
    ASSUME Functional, NEW t \in Turns, wire' = [wire EXCEPT ![t].open = @ - 1]
    PROVE  /\ wire' = [wire EXCEPT ![t] = wire'[t]] /\ wire'[t] \in Wire
           /\ wire'[t].open = wire[t].open - 1
           /\ wire'[t].end = wire[t].end /\ wire'[t].usage = wire[t].usage
<1>1. wire[t].open - 1 = wire[t].open + (-1)
  BY DEF Functional, Wire
<1>2. wire' = [wire EXCEPT ![t].open = @ + (-1)]
  BY <1>1
<1> QED
  BY <1>1, <1>2, OneOpen

LEMMA TailTyped ==
    ASSUME Functional, NEW t \in Turns, queue[t] # <<>>, Handled(t)
    PROVE  queue' = [queue EXCEPT ![t] = queue'[t]] /\ queue'[t] \in Seq(Kinds)
<1>1. queue'[t] = Tail(queue[t]) /\ queue' = [queue EXCEPT ![t] = queue'[t]]
  BY DEF Handled, Functional
<1>2. queue[t] \in Seq(Kinds)
  BY DEF Functional
<1> QED
  BY <1>1, <1>2

\* A call is announced and handled: it needs an answer, processes outside, or just runs.
LEMMA AnnouncedGood ==
    ASSUME Functional, NEW t \in Turns, TurnInv(t), UNCHANGED request, UNCHANGED <<turn, prog, native, rest>>,
           pc[t] = "tools", queue[t] # <<>>, UNCHANGED queue,
           NEW place \in {"approval", "tool", "running", "storing"}, Goes(t, place),
           place = "tool" => Head(queue[t]) # "gated",
           wire' = [wire EXCEPT ![t].open = @ + 1],
           answer' = [answer EXCEPT ![t] = answer'[t]], answer'[t] \in {"none", "waiting", "approve", "reject"},
           place = "approval" => answer'[t] # "approve"
    PROVE  Good(t)
<1>1. plan[t]["main"] = NoPlan /\ native[t] = "idle" /\ ~prog[t].denied /\ wire[t].open = 0
  BY NoMainPlan DEF Stages, TurnInv, Opened, Announced
<1>2. pc'[t] = place /\ pc' = [pc EXCEPT ![t] = place]
  BY DEF Goes, Functional
<1>3. /\ wire' = [wire EXCEPT ![t] = wire'[t]] /\ wire'[t] \in Wire
      /\ wire'[t].open = wire[t].open + 1
      /\ wire'[t].end = wire[t].end /\ wire'[t].usage = wire[t].usage
  BY 1 \in {-1, 1}, OneOpen
<1>4. Queued(t)'
  BY DEF Queued
<1>5. Covered(t)'
  BY <1>2 DEF TurnInv, Covered, Approved, rest
<1>6. Opened(t)'
  BY <1>1, <1>2, <1>3 DEF Opened, Announced, TurnInv, Life
<1>7. Afforded(t)'
  BY <1>2 DEF TurnInv, Afforded, Flag
<1>8. place \in Places \ {"idle", "done"} /\ place \notin {"save", "saving", "logging"}
  BY DEF Places, Stages
<1>9. queue' = [queue EXCEPT ![t] = queue'[t]] /\ queue'[t] \in Seq(Kinds)
  BY DEF Functional
<1> QED
  BY <1>1, <1>2, <1>3, <1>4, <1>5, <1>6, <1>7, <1>8, <1>9, UnchangedProgress, GoneGood

\* A call has been handled: it is closed, and the next one is looked at.
LEMMA ClosedGood ==
    ASSUME Functional, NEW t \in Turns, TurnInv(t), UNCHANGED request, UNCHANGED <<turn, prog, native, rest>>,
           pc[t] \in {"approval", "running", "storing"}, Handled(t), Goes(t, "tools"),
           wire' = [wire EXCEPT ![t].open = @ - 1],
           answer' = [answer EXCEPT ![t] = answer'[t]], answer'[t] \in {"none", "waiting", "approve", "reject"}
    PROVE  Good(t)
<1>1. plan[t]["main"] = NoPlan /\ native[t] = "idle" /\ ~prog[t].denied /\ wire[t].open = 1
      /\ queue[t] # <<>>
  BY NoMainPlan DEF Stages, TurnInv, Opened, Announced, Queued
<1>2. pc'[t] = "tools" /\ pc' = [pc EXCEPT ![t] = "tools"]
  BY DEF Goes, Functional
<1>3. /\ wire' = [wire EXCEPT ![t] = wire'[t]] /\ wire'[t] \in Wire
      /\ wire'[t].open = wire[t].open - 1
      /\ wire'[t].end = wire[t].end /\ wire'[t].usage = wire[t].usage
  BY OneClosed
<1>4. Queued(t)'
  BY <1>2 DEF Queued
<1>5. Covered(t)'
  BY <1>2 DEF TurnInv, Covered, Approved, rest
<1>6. Opened(t)'
  BY <1>1, <1>2, <1>3 DEF Opened, Announced, TurnInv, Life
<1>7. Afforded(t)'
  BY <1>2 DEF TurnInv, Afforded, Flag
<1>8. "tools" \in Places \ {"idle", "done"}
  BY DEF Places, Stages
<1>9. queue' = [queue EXCEPT ![t] = queue'[t]] /\ queue'[t] \in Seq(Kinds)
  BY <1>1, TailTyped
<1> QED
  BY <1>1, <1>2, <1>3, <1>4, <1>5, <1>6, <1>7, <1>8, <1>9, UnchangedProgress, GoneGood

LEMMA NextCallGood ==
    ASSUME Functional, NEW t \in Turns, TurnInv(t), UNCHANGED request, NextCall(t)
    PROVE  Good(t)
<1>1. /\ pc[t] = "tools" /\ plan[t]["main"] = NoPlan /\ UNCHANGED <<prog, native, rest>>
      /\ native[t] = "idle" /\ ~prog[t].denied
  BY NoMainPlan DEF NextCall, Stages, TurnInv, Opened
<1>a. /\ UNCHANGED queue => queue' = [queue EXCEPT ![t] = queue'[t]] /\ queue'[t] \in Seq(Kinds)
      /\ UNCHANGED answer => /\ answer' = [answer EXCEPT ![t] = answer'[t]]
                             /\ answer'[t] \in {"none", "waiting", "approve", "reject"}
  BY DEF Functional
<1>2. CASE queue[t] = <<>>
  <2>1. pc' = [pc EXCEPT ![t] = "main"] /\ UNCHANGED said /\ UNCHANGED own /\ UNCHANGED answer
    BY <1>2 DEF NextCall, Goes, own
  <2>2. pc'[t] = "main"
    BY <2>1 DEF Functional
  <2>3. Afforded(t)'
    BY <1>1, <2>2 DEF TurnInv, Afforded, Flag
  <2> QED
    BY <1>1, <2>1, <2>3, UnchangedOwn, UnchangedProgress, BetweenGood
<1>3. CASE EndTurn(t, "cancelled")
  BY <1>1, <1>3, CutShort
<1>4. CASE queue[t] # <<>> /\ Handled(t) /\ UNCHANGED <<said, pc, answer>>
  <2>1. pc' = [pc EXCEPT ![t] = "tools"] /\ UNCHANGED said /\ UNCHANGED answer
    BY <1>1, <1>4 DEF Functional
  <2>2. pc'[t] = "tools"
    BY <2>1 DEF Functional
  <2>3. Afforded(t)'
    BY <1>1, <2>2 DEF TurnInv, Afforded, Flag
  <2> QED
    BY <1>1, <1>4, <2>1, <2>3, TailTyped, UnchangedProgress, BetweenGood
<1>5. CASE /\ queue[t] # <<>> /\ wire' = [wire EXCEPT ![t].open = @ + 1]
           /\ answer' = [answer EXCEPT ![t] = "waiting"]
           /\ Goes(t, "approval") /\ UNCHANGED <<turn, queue>>
  <2>1. answer'[t] = "waiting" /\ answer' = [answer EXCEPT ![t] = answer'[t]]
    BY <1>5 DEF Functional
  <2>2. \E place \in {"approval", "tool", "running", "storing"} :
            Goes(t, place) /\ place = "approval"
    BY <1>5
  <2> QED
    BY <1>1, <1>5, <2>1, <2>2, AnnouncedGood
<1>6. CASE /\ queue[t] # <<>> /\ Head(queue[t]) \in {"plain", "proc", "save"}
           /\ wire' = [wire EXCEPT ![t].open = @ + 1]
           /\ Goes(t, CASE Head(queue[t]) = "plain" -> "running"
                       [] Head(queue[t]) = "proc" -> "tool"
                       [] Head(queue[t]) = "save" -> "storing")
           /\ UNCHANGED <<turn, own>>
  <2>1. PICK place \in {"tool", "running", "storing"} : Goes(t, place)
    BY <1>6
  <2>2. Head(queue[t]) # "gated" /\ UNCHANGED turn /\ UNCHANGED queue /\ UNCHANGED answer
    BY <1>6 DEF own
  <2> QED
    BY <1>1, <1>6, <1>a, <2>1, <2>2, AnnouncedGood
<1> QED
  <2>1. CASE queue[t] # <<>> /\ turn[t].aborted
    BY <1>3, <2>1 DEF NextCall
  <2>2. CASE queue[t] # <<>> /\ ~turn[t].aborted
    <3>1. Head(queue[t]) \in Kinds
      BY <2>2 DEF Functional
    <3>2. CASE Head(queue[t]) \in {"control", "unknown"}
      BY <1>4, <2>2, <3>2 DEF NextCall
    <3>3. CASE Head(queue[t]) = "gated"
      BY <1>5, <2>2, <3>3 DEF NextCall
    <3>4. CASE Head(queue[t]) \in {"plain", "proc", "save"}
      BY <1>6, <2>2, <3>4 DEF NextCall
    <3> QED
      BY <3>1, <3>2, <3>3, <3>4 DEF Kinds
  <2> QED
    BY <1>2, <2>1, <2>2

LEMMA ApprovalGood ==
    ASSUME Functional, NEW t \in Turns, TurnInv(t), UNCHANGED request, ApprovalEnds(t)
    PROVE  Good(t)
<1>1. /\ pc[t] = "approval" /\ plan[t]["main"] = NoPlan /\ UNCHANGED <<prog, native, rest>>
      /\ native[t] = "idle" /\ ~prog[t].denied
  BY NoMainPlan DEF ApprovalEnds, Stages, TurnInv, Opened
<1>2. CASE EndTurn(t, "cancelled")
  BY <1>1, <1>2, CutShort
<1>3. CASE ~EndTurn(t, "cancelled")
  <2>1. answer'[t] = "none" /\ answer' = [answer EXCEPT ![t] = answer'[t]]
    BY <1>3 DEF ApprovalEnds, Functional
  <2>2. CASE answer[t] = "approve"
    <3>1. pc' = [pc EXCEPT ![t] = "tool"] /\ UNCHANGED said /\ UNCHANGED queue
      BY <1>3, <2>2 DEF ApprovalEnds, Goes
    <3>2. pc'[t] = "tool" /\ UNCHANGED turn /\ UNCHANGED wire
      BY <3>1 DEF Functional, said
    <3>3. Queued(t)'
      BY <1>1, <3>1 DEF TurnInv, Queued
    <3>4. Covered(t)'
      BY <1>1, <2>2 DEF TurnInv, Covered, Approved, rest
    <3>5. Opened(t)'
      BY <1>1, <3>2 DEF TurnInv, Opened, Announced
    <3>6. Afforded(t)'
      BY <1>1, <3>2 DEF TurnInv, Afforded, Flag
    <3>7. "tool" \in Places \ {"idle", "done"}
      BY DEF Places, Stages
    <3>8. queue' = [queue EXCEPT ![t] = queue'[t]] /\ queue'[t] \in Seq(Kinds)
      BY <3>1 DEF Functional
    <3> QED
      BY <1>1, <2>1, <3>1, <3>2, <3>3, <3>4, <3>5, <3>6, <3>7, <3>8,
         UnchangedSaid, UnchangedProgress, GoneGood
  <2>3. CASE answer[t] # "approve"
    <3>1. wire' = [wire EXCEPT ![t].open = @ - 1] /\ Handled(t) /\ Goes(t, "tools") /\ UNCHANGED turn
      BY <1>3, <2>3 DEF ApprovalEnds
    <3> QED
      BY <1>1, <2>1, <3>1, ClosedGood
  <2> QED
    BY <2>2, <2>3
<1> QED
  BY <1>2, <1>3

LEMMA ToolGood ==
    ASSUME Functional, NEW t \in Turns, TurnInv(t), UNCHANGED request, ToolEnds(t)
    PROVE  Good(t)
<1>1. /\ pc[t] \in {"running", "storing"} /\ plan[t]["main"] = NoPlan /\ UNCHANGED <<prog, native, rest>>
  BY NoMainPlan DEF ToolEnds, Stages
<1>2. CASE EndTurn(t, "cancelled")
  BY <1>1, <1>2, CutShort
<1>3. CASE ~EndTurn(t, "cancelled")
  <2>1. /\ wire' = [wire EXCEPT ![t].open = @ - 1] /\ Handled(t) /\ Goes(t, "tools")
        /\ UNCHANGED turn /\ UNCHANGED answer
    BY <1>3 DEF ToolEnds
  <2>2. answer' = [answer EXCEPT ![t] = answer'[t]] /\ answer'[t] \in {"none", "waiting", "approve", "reject"}
    BY <2>1 DEF Functional
  <2> QED
    BY <1>1, <2>1, <2>2, ClosedGood
<1> QED
  BY <1>2, <1>3

-----------------------------------------------------------------------------
(* The save, the transcript, and the tools the provider runs itself *)

LEMMA SaveGood ==
    ASSUME Functional, NEW t \in Turns, TurnInv(t), UNCHANGED request, SaveEnds(t)
    PROVE  Good(t)
<1>0. Typed(t)
  BY TypedOne
<1> DEFINE n == kept[t].logged + 1
<1>1. /\ pc[t] = "saving" /\ plan[t]["main"] = NoPlan /\ native[t] = "idle" /\ ~prog[t].denied
      /\ kept[t].saved = 1 /\ kept[t].logged = 0 /\ channel[t] # "discord" /\ wire[t].open = 0
      /\ wire[t].end \notin {"finish", "cancelled"}
  BY NoMainPlan DEF SaveEnds, Stages, TurnInv, Memorised, Opened, Announced, Life
<1>2. pc'[t] = "logging" /\ pc' = [pc EXCEPT ![t] = pc'[t]]
  BY DEF SaveEnds, Goes, Functional
<1>3. n = 1 /\ kept' = [kept EXCEPT ![t] = [kept[t] EXCEPT !.logged = n]]
  BY <1>1 DEF SaveEnds
<1> HIDE DEF n
<1>4. kept'[t] = [kept[t] EXCEPT !.logged = n] /\ kept' = [kept EXCEPT ![t] = kept'[t]]
  BY <1>3 DEF Functional
<1>5. kept'[t] \in Kept /\ kept'[t].logged = 1 /\ kept'[t].saved = 1
  BY <1>0, <1>1, <1>3, <1>4 DEF Typed, Kept
<1>6. role'[t] \in Role /\ role'[t].at = role[t].at /\ role' = [role EXCEPT ![t] = role'[t]]
  BY StaleRole DEF SaveEnds
<1>7. UNCHANGED <<channel, profile, turn, wire, prog, queue, answer, plan, native, due>>
  BY DEF SaveEnds, request, said, own
<1>8. OneTurn(t)
  BY <1>2, <1>4, <1>6, <1>7 DEF OneTurn, Functional
<1>9. Typed(t)'
  BY <1>0, <1>2, <1>5, <1>6, <1>7 DEF Typed, Places, Stages
<1>10. Onward(t)
  BY <1>1, <1>2, <1>6, <1>7 DEF Onward
<1>11. Queued(t)' /\ Opened(t)' /\ Afforded(t)' /\ Covered(t)'
  BY <1>1, <1>2, <1>7 DEF TurnInv, Queued, Opened, Announced, Afforded, Covered, Approved
<1>12. Memorised(t)'
  BY <1>1, <1>2, <1>5, <1>7 DEF Memorised, Times
<1> QED
  BY <1>8, <1>9, <1>10, <1>11, <1>12, OnwardKeeps DEF Good, TurnInv

LEMMA LogGood ==
    ASSUME Functional, NEW t \in Turns, TurnInv(t), UNCHANGED request, LogEnds(t)
    PROVE  Good(t)
<1>1. /\ pc[t] = "logging" /\ plan[t]["main"] = NoPlan /\ UNCHANGED <<prog, native, rest>>
      /\ kept[t].saved = Times(t) /\ kept[t].logged = Times(t) /\ wire[t].open = 0
  BY NoMainPlan DEF LogEnds, Stages, TurnInv, Memorised, Times, Opened, Announced
<1>2. Ends(t)
  BY <1>1 DEF Ends, Endings, LogEnds
<1> QED
  BY <1>1, <1>2, UnchangedProgress, EndRest

\* The provider's own tools: announced when called, closed when they end while the round goes on.
LEMMA NativeKeeps ==
    ASSUME Functional, NEW t \in Turns, TurnInv(t),
           UNCHANGED <<channel, profile, turn, pc, queue, answer, plan, role, due, kept>>,
           native'[t] \in {"idle", "auth", "running"}, native' = [native EXCEPT ![t] = native'[t]],
           native[t] # "auth", pc[t] \in {"streaming", "done"},
           wire'[t] \in Wire, wire' = [wire EXCEPT ![t] = wire'[t]],
           wire'[t].end = wire[t].end, wire'[t].usage = wire[t].usage,
           pc[t] = "streaming" /\ ~prog[t].denied => wire'[t].open = IF native'[t] = "idle" THEN 0 ELSE 1,
           pc[t] = "done" => wire'[t].open = wire[t].open,
           prog'[t] \in Progress, prog' = [prog EXCEPT ![t] = prog'[t]],
           prog'[t].denied = prog[t].denied, prog'[t].asked = prog[t].asked,
           prog'[t].rounds = prog[t].rounds, prog'[t].utterances = prog[t].utterances,
           prog'[t].control = prog[t].control, prog'[t].retried = prog[t].retried
    PROVE  Good(t)
<1>0. Typed(t)
  BY TypedOne
<1>1. plan[t]["native"] = NoPlan
  BY DEF TurnInv, Planned, PlanFits, Asking, Who
<1>2. OneTurn(t)
  BY DEF OneTurn, Functional
<1>3. Typed(t)'
  BY <1>0 DEF Typed
<1>4. Life(t)'
  BY DEF TurnInv, Life, Ended
<1>5. Queued(t)' /\ Covered(t)'
  BY DEF TurnInv, Queued, Covered, Approved
<1>6. Afforded(t)'
  BY DEF TurnInv, Afforded
<1>7. Opened(t)'
  BY DEF TurnInv, Opened, Announced, Life
<1>8. Planned(t)'
  <2>1. PlanFits(t, "main")'
    BY DEF TurnInv, Planned, PlanFits, Asking, Ops, Halfway, Who
  <2>2. PlanFits(t, "role")'
    BY DEF TurnInv, Planned, PlanFits, Asking, Ops, Who
  <2>3. PlanFits(t, "native")'
    BY <1>1 DEF PlanFits
  <2> QED
    BY <2>1, <2>2, <2>3 DEF Planned, Who
<1>9. Memorised(t)'
  BY DEF TurnInv, Memorised, Times
<1> QED
  BY <1>2, <1>3, <1>4, <1>5, <1>6, <1>7, <1>8, <1>9 DEF Good, TurnInv

LEMMA NativeEndGood ==
    ASSUME Functional, NEW t \in Turns, TurnInv(t), UNCHANGED request, NativeEnds(t)
    PROVE  Good(t)
<1>1. /\ UNCHANGED <<channel, profile, turn, pc, queue, answer, plan, role, due, kept>> /\ UNCHANGED prog
      /\ native'[t] = "idle" /\ native' = [native EXCEPT ![t] = native'[t]] /\ native[t] \notin {"idle", "auth"}
  BY DEF NativeEnds, own, rest, request, Functional
<1>2. pc[t] \in {"streaming", "done"}
  BY <1>1 DEF TurnInv, Opened
<1>3. /\ wire'[t] \in Wire /\ wire' = [wire EXCEPT ![t] = wire'[t]]
      /\ wire'[t].end = wire[t].end /\ wire'[t].usage = wire[t].usage
      /\ pc[t] = "streaming" => wire'[t].open = wire[t].open - 1
      /\ pc[t] = "done" => wire'[t].open = wire[t].open
  <2>1. CASE pc[t] = "streaming"
    BY <2>1, OneClosed DEF NativeEnds
  <2>2. CASE pc[t] = "done"
    BY <2>2 DEF NativeEnds, Functional
  <2> QED
    BY <1>2, <2>1, <2>2
<1>4. pc[t] = "streaming" /\ ~prog[t].denied => wire'[t].open = 0
  BY <1>1, <1>3 DEF TurnInv, Opened, Announced
<1> QED
  BY <1>1, <1>2, <1>3, <1>4, UnchangedProgress, NativeKeeps

LEMMA NativeCallGood ==
    ASSUME Functional, NEW t \in Turns, TurnInv(t), UNCHANGED request, NEW kind, NativeCall(t, kind)
    PROVE  Good(t)
<1>0. Typed(t)
  BY TypedOne
<1>1. /\ UNCHANGED <<channel, profile, turn, pc, queue, answer, plan, role, due, kept>>
      /\ native'[t] \in {"auth", "running"} /\ native' = [native EXCEPT ![t] = native'[t]]
      /\ native[t] = "idle" /\ pc[t] = "streaming"
  BY DEF NativeCall, own, rest, request, Functional
<1>2. /\ wire'[t] \in Wire /\ wire' = [wire EXCEPT ![t] = wire'[t]]
      /\ wire'[t].end = wire[t].end /\ wire'[t].usage = wire[t].usage
      /\ ~prog[t].denied => wire'[t].open = 1
  <2>1. CASE prog[t].denied
    <3>1. wire' = wire
      BY <2>1 DEF NativeCall
    <3> QED
      BY <2>1, <3>1 DEF Functional
  <2>2. CASE ~prog[t].denied
    <3>1. wire' = [wire EXCEPT ![t].open = @ + 1] /\ wire[t].open = 0
      BY <1>1, <2>2 DEF NativeCall, TurnInv, Opened, Announced
    <3> QED
      <4>1. wire[t].open + 1 = 1
        BY <3>1
      <4> QED
        BY <3>1, <4>1, 1 \in {-1, 1}, OneOpen
  <2> QED
    BY <2>1, <2>2
<1>3. /\ prog'[t] \in Progress /\ prog' = [prog EXCEPT ![t] = prog'[t]]
      /\ prog'[t].denied = prog[t].denied /\ prog'[t].asked = prog[t].asked
      /\ prog'[t].rounds = prog[t].rounds /\ prog'[t].utterances = prog[t].utterances
      /\ prog'[t].control = prog[t].control /\ prog'[t].retried = prog[t].retried
  <2> DEFINE n == prog[t].native + 1
  <2>1. n \in Nat /\ prog' = [prog EXCEPT ![t] = [prog[t] EXCEPT !.native = n]]
    BY <1>0 DEF NativeCall, Typed, Progress
  <2> HIDE DEF n
  <2>2. prog'[t] = [prog[t] EXCEPT !.native = n] /\ prog' = [prog EXCEPT ![t] = prog'[t]]
    BY <2>1 DEF Functional
  <2> QED
    BY <1>0, <2>1, <2>2 DEF Typed, Progress
<1> QED
  BY <1>1, <1>2, <1>3, NativeKeeps

\* A request enters with nothing begun, said or kept for it.
LEMMA RequestGood ==
    ASSUME Functional, NEW t \in Turns, TurnInv(t), Request(t)
    PROVE  Good(t)
<1>0. Typed(t)
  BY TypedOne
<1>1. /\ pc[t] = "idle" /\ ~Ended(t) /\ role[t].at = "idle" /\ native[t] = "idle"
      /\ \A who \in Who : plan[t][who] = NoPlan
  BY DEF Request, TurnInv, Life
<1>2. UNCHANGED <<wire, prog, queue, answer, plan, role, native, due, kept>>
  BY DEF Request, own
<1>3. PICK c \in Channels, p \in Carried, first \in {"compact", "recall", "main"} :
          channel' = [channel EXCEPT ![t] = c] /\ profile' = [profile EXCEPT ![t] = p]
          /\ pc' = [pc EXCEPT ![t] = first]
  BY DEF Request
<1>4. /\ channel'[t] \in {"private", "discord"} /\ channel' = [channel EXCEPT ![t] = channel'[t]]
      /\ profile'[t] \in Profiles /\ profile' = [profile EXCEPT ![t] = profile'[t]]
      /\ pc'[t] \in {"compact", "recall", "main"} /\ pc' = [pc EXCEPT ![t] = pc'[t]]
  BY <1>3, TurnAssumption DEF Functional
<1>5. /\ turn'[t] = [turn[t] EXCEPT !.state = "streaming", !.live = TRUE]
      /\ turn' = [turn EXCEPT ![t] = turn'[t]]
  BY DEF Request, Functional
<1>6. turn'[t] \in Entry /\ turn'[t].live /\ turn'[t].state = "streaming"
  BY <1>0, <1>5 DEF Typed, Entry
<1>7. OneTurn(t)
  BY <1>2, <1>4, <1>5 DEF OneTurn, Functional
<1>8. Typed(t)'
  BY <1>0, <1>2, <1>4, <1>6 DEF Typed, Places, Stages
<1>9. Life(t)'
  BY <1>1, <1>2, <1>4, <1>6 DEF TurnInv, Life, Ended
<1>10. Queued(t)' /\ Opened(t)' /\ Covered(t)'
  BY <1>1, <1>2, <1>4 DEF TurnInv, Queued, Opened, Announced, Covered, Approved
<1>11. Afforded(t)'
  BY <1>1, <1>2, <1>4 DEF TurnInv, Afforded, Flag
<1>12. Planned(t)'
  BY <1>1, <1>2 DEF Planned, PlanFits
<1>13. Memorised(t)'
  <2>1. kept[t].saved = 0 /\ kept[t].logged = 0 /\ wire[t].end = "none"
    BY <1>1 DEF TurnInv, Memorised, Ended
  <2>2. 0 <= Times(t)'
    BY DEF Times
  <2> QED
    BY <1>2, <1>4, <2>1, <2>2 DEF Memorised
<1> QED
  BY <1>7, <1>8, <1>9, <1>10, <1>11, <1>12, <1>13 DEF Good, TurnInv

-----------------------------------------------------------------------------
(* What is asked for, and what is counted *)

LEMMA RangeOne == ASSUME NEW x PROVE Range(<<x>>) = {x}
<1>1. DOMAIN <<x>> = {1} /\ <<x>>[1] = x
  OBVIOUS
<1> QED
  BY <1>1 DEF Range

LEMMA RangeTwo == ASSUME NEW x, NEW y PROVE Range(<<x, y>>) = {x, y}
<1>1. DOMAIN <<x, y>> = {1, 2} /\ <<x, y>>[1] = x /\ <<x, y>>[2] = y
  OBVIOUS
<1> QED
  BY <1>1 DEF Range

LEMMA OpsAre ==
    ASSUME NEW t \in Turns
    PROVE  /\ Ops(t, "role") = <<"memory_llm">> /\ Ops(t, "native") = <<"network_tool">>
           /\ pc[t] = "save" => Ops(t, "main") = <<"memory_llm", "embedding">>
           /\ pc[t] \in Stages \ {"save"} => \E x \in Workloads : Ops(t, "main") = <<x>>
<1>1. Ops(t, "role") = <<"memory_llm">> /\ Ops(t, "native") = <<"network_tool">>
  BY DEF Ops
<1>2. Ops(t, "main") = Declared[pc[t]]
  BY DEF Ops
<1>3. /\ Declared["compact"] = <<"memory_llm">> /\ Declared["recall"] = <<"embedding">>
      /\ Declared["main"] = <<"main_llm">> /\ Declared["tool"] = <<"network_tool">>
      /\ Declared["save"] = <<"memory_llm", "embedding">>
  BY DEF Declared
<1>4. {"memory_llm", "embedding", "main_llm", "network_tool"} = Workloads
  BY DEF Workloads
<1> QED
  BY <1>1, <1>2, <1>3, <1>4 DEF Stages

LEMMA CountedIs ==
    ASSUME Functional, NEW t \in Turns, NEW shown, NEW keys
    PROVE  /\ Counted(t, shown, keys) \in [Dues -> Int]
           /\ \A w \in Dues : Counted(t, shown, keys)[w]
                  = due[t][w] + (IF w \in shown THEN 1 ELSE 0) - (IF w \in keys THEN 1 ELSE 0)
<1>1. due[t] \in [Dues -> Int]
  BY DEF Functional
<1> QED
  BY <1>1 DEF Counted

LEMMA CountedSame ==
    ASSUME Functional, NEW t \in Turns, NEW shown
    PROVE  Counted(t, shown, shown) = due[t]
<1>1. due[t] \in [Dues -> Int]
  BY DEF Functional
<1>2. \A w \in Dues : Counted(t, shown, shown)[w] = due[t][w]
  BY <1>1, CountedIs
<1> QED
  BY <1>1, <1>2, CountedIs

\* A plan is written for one of those who ask; the other plans stay.
Puts(t, who, p) == plan' = [plan EXCEPT ![t][who] = p]
LEMMA PlanPut ==
    ASSUME Functional, NEW t \in Turns, NEW who \in Who, NEW p \in Plan, Puts(t, who, p)
    PROVE  /\ plan' = [plan EXCEPT ![t] = plan'[t]] /\ plan'[t] \in [Who -> Plan]
           /\ plan'[t][who] = p /\ \A x \in Who : x # who => plan'[t][x] = plan[t][x]
           /\ \A u \in Turns : u # t => plan'[u] = plan[u]
<1>1. plan' = [plan EXCEPT ![t] = [plan[t] EXCEPT ![who] = p]]
  BY DEF Puts
<1>2. plan'[t] = [plan[t] EXCEPT ![who] = p] /\ plan[t] \in [Who -> Plan]
  BY <1>1 DEF Functional
<1> QED
  BY <1>1, <1>2 DEF Functional

LEMMA NoPlanIsPlan == NoPlan \in Plan
BY DEF NoPlan, Plan

\* An operation begins for which everything counted is there.
Begun(t, who) ==
    \E shown \in SUBSET Workloads, holds \in SUBSET Consents :
        /\ Granted(t, who, shown, holds)
        /\ \A w \in Dues : Counted(t, shown, Begins(t, who))[w] >= 0
        /\ who # "main" => Counted(t, shown, Begins(t, who)) = due[t]

LEMMA OtherBegins ==
    ASSUME Functional, NEW t \in Turns, TurnInv(t), UNCHANGED request,
           NEW who \in {"role", "native"}, Asking(t, who), Begun(t, who)
    PROVE  Good(t)
<1>0. Typed(t)
  BY TypedOne
<1>1. PICK shown \in SUBSET Workloads, holds \in SUBSET Consents :
        Granted(t, who, shown, holds) /\ Counted(t, shown, Begins(t, who)) = due[t]
  BY DEF Begun
<1>2. UNCHANGED <<channel, profile, turn, wire, queue, answer, pc, prog, kept>>
  BY <1>1 DEF Granted, own, request
<1>3. due' = due
  BY <1>1 DEF Granted, Functional
<1>4. who \in Who /\ Puts(t, who, NoPlan)
  BY <1>1 DEF Granted, Puts, Who
<1>5. /\ plan' = [plan EXCEPT ![t] = plan'[t]] /\ plan'[t] \in [Who -> Plan]
      /\ plan'[t][who] = NoPlan /\ \A x \in Who : x # who => plan'[t][x] = plan[t][x]
  BY <1>4, NoPlanIsPlan, PlanPut
<1>6. /\ role'[t] \in Role /\ role' = [role EXCEPT ![t] = role'[t]]
      /\ native'[t] \in {"idle", "auth", "running", "answered"} /\ native' = [native EXCEPT ![t] = native'[t]]
      /\ who # "role" => role'[t] = role[t]
      /\ who # "native" => native'[t] = native[t]
      /\ native'[t] = "idle" <=> native[t] = "idle"
  <2>1. CASE who = "role"
    <3>1. role' = [role EXCEPT ![t] = [role[t] EXCEPT !.at = "calling"]] /\ native' = native
      BY <1>1, <2>1 DEF Granted
    <3> QED
      BY <1>0, <2>1, <3>1 DEF Functional, Typed, Role
  <2>2. CASE who = "native"
    <3>1. native' = [native EXCEPT ![t] = "running"] /\ role' = role
      BY <1>1, <2>2 DEF Granted
    <3>2. native[t] = "auth"
      BY <2>2 DEF Asking
    <3> QED
      BY <1>0, <2>2, <3>1, <3>2 DEF Functional, Typed
  <2> QED
    BY <2>1, <2>2
<1>7. pc[t] # "idle"
  BY DEF TurnInv, Life, Asking
<1>8. OneTurn(t)
  BY <1>2, <1>3, <1>5, <1>6 DEF OneTurn, Functional
<1>9. Typed(t)'
  BY <1>0, <1>2, <1>3, <1>5, <1>6 DEF Typed
<1>10. Life(t)'
  BY <1>2, <1>7 DEF TurnInv, Life, Ended
<1>11. Queued(t)' /\ Covered(t)'
  BY <1>2, <1>3 DEF TurnInv, Queued, Covered, Approved
<1>12. Opened(t)'
  BY <1>2, <1>6 DEF TurnInv, Opened, Announced
<1>13. Afforded(t)' /\ Memorised(t)'
  BY <1>2 DEF TurnInv, Afforded, Memorised, Times
<1>14. Planned(t)'
  <2>1. PlanFits(t, who)'
    BY <1>5 DEF PlanFits
  <2>2. CASE who = "role"
    <3>1. PlanFits(t, "main")' /\ PlanFits(t, "native")'
      BY <1>2, <1>3, <1>5, <1>6, <2>2 DEF TurnInv, Planned, PlanFits, Asking, Ops, Halfway, Who
    <3> QED
      BY <2>1, <2>2, <3>1 DEF Planned, Who
  <2>3. CASE who = "native"
    <3>1. PlanFits(t, "main")' /\ PlanFits(t, "role")'
      BY <1>2, <1>3, <1>5, <1>6, <2>3 DEF TurnInv, Planned, PlanFits, Asking, Ops, Halfway, Who
    <3> QED
      BY <2>1, <2>3, <3>1 DEF Planned, Who
  <2> QED
    BY <2>2, <2>3
<1> QED
  BY <1>8, <1>9, <1>10, <1>11, <1>12, <1>13, <1>14 DEF Good, TurnInv

LEMMA MainBegins ==
    ASSUME Functional, NEW t \in Turns, TurnInv(t), UNCHANGED request, pc[t] \in Stages, Begun(t, "main")
    PROVE  Good(t)
<1>0. Typed(t)
  BY TypedOne
<1>1. PICK shown \in SUBSET Workloads, holds \in SUBSET Consents :
        /\ Granted(t, "main", shown, holds)
        /\ \A w \in Dues : Counted(t, shown, Begins(t, "main"))[w] >= 0
  BY DEF Begun
<1>2. UNCHANGED <<channel, profile, turn, wire, queue, answer, role, native>>
  BY <1>1 DEF Granted, own, request
<1>3. /\ due'[t] = Counted(t, shown, Begins(t, "main")) /\ due' = [due EXCEPT ![t] = due'[t]]
      /\ due'[t] \in [Dues -> Int]
  BY <1>1, CountedIs DEF Granted, Functional
<1>4. "main" \in Who /\ Puts(t, "main", NoPlan)
  BY <1>1 DEF Granted, Puts, Who
<1>5. /\ plan' = [plan EXCEPT ![t] = plan'[t]] /\ plan'[t] \in [Who -> Plan]
      /\ plan'[t]["main"] = NoPlan /\ \A x \in Who : x # "main" => plan'[t][x] = plan[t][x]
  BY <1>4, NoPlanIsPlan, PlanPut
<1>6. /\ pc'[t] = Busy[pc[t]] /\ pc' = [pc EXCEPT ![t] = pc'[t]]
      /\ pc'[t] = "streaming" <=> pc[t] = "main"
      /\ pc'[t] = "saving" <=> pc[t] = "save"
      /\ pc'[t] = "running" <=> pc[t] = "tool"
      /\ pc'[t] \in {"compacting", "recalling", "streaming", "running", "saving"}
  BY <1>1 DEF Granted, Functional, Stages, Busy
<1>7. /\ prog'[t] \in Progress /\ prog' = [prog EXCEPT ![t] = prog'[t]]
      /\ prog'[t].denied = prog[t].denied
      /\ prog'[t].asked = prog[t].asked + Flag(pc[t] = "main")
      /\ prog'[t].rounds = prog[t].rounds /\ prog'[t].utterances = prog[t].utterances
      /\ prog'[t].control = prog[t].control /\ prog'[t].retried = prog[t].retried
  <2>1. CASE pc[t] = "main"
    <3> DEFINE n == prog[t].asked + 1
    <3>1. n \in Nat /\ n = prog[t].asked + Flag(pc[t] = "main")
          /\ prog' = [prog EXCEPT ![t] = [prog[t] EXCEPT !.asked = n]]
      BY <1>0, <1>1, <2>1 DEF Granted, Typed, Progress, Flag
    <3> HIDE DEF n
    <3>2. prog'[t] = [prog[t] EXCEPT !.asked = n] /\ prog' = [prog EXCEPT ![t] = prog'[t]]
      BY <3>1 DEF Functional
    <3>3. /\ prog'[t] \in Progress /\ prog'[t].denied = prog[t].denied /\ prog'[t].asked = n
          /\ prog'[t].rounds = prog[t].rounds /\ prog'[t].utterances = prog[t].utterances
          /\ prog'[t].control = prog[t].control /\ prog'[t].retried = prog[t].retried
      BY <1>0, <3>1, <3>2 DEF Typed, Progress
    <3> QED
      BY <3>1, <3>2, <3>3
  <2>2. CASE pc[t] # "main"
    <3>1. prog' = prog /\ prog[t].asked \in Nat /\ Flag(pc[t] = "main") = 0
      BY <1>0, <1>1, <2>2 DEF Granted, Flag, Typed, Progress
    <3> QED
      BY <3>1 DEF Functional
  <2> QED
    BY <2>1, <2>2
<1>8. /\ kept'[t] \in Kept /\ kept' = [kept EXCEPT ![t] = kept'[t]]
      /\ kept'[t].logged = kept[t].logged /\ kept[t].saved = 0 /\ kept[t].logged = 0
      /\ kept'[t].saved = Flag(pc[t] = "save")
  <2>0. kept[t].saved = 0 /\ kept[t].logged = 0
    BY DEF TurnInv, Memorised, Stages
  <2>1. CASE pc[t] = "save"
    <3> DEFINE n == kept[t].saved + 1
    <3>1. n = 1 /\ kept' = [kept EXCEPT ![t] = [kept[t] EXCEPT !.saved = n]]
      BY <1>1, <2>0, <2>1 DEF Granted
    <3> HIDE DEF n
    <3>2. kept'[t] = [kept[t] EXCEPT !.saved = n] /\ kept' = [kept EXCEPT ![t] = kept'[t]]
      BY <3>1 DEF Functional
    <3> QED
      BY <1>0, <2>0, <2>1, <3>1, <3>2 DEF Typed, Kept, Flag
  <2>2. CASE pc[t] # "save"
    <3>1. kept' = kept
      BY <1>1, <2>2 DEF Granted
    <3> QED
      BY <2>0, <2>2, <3>1 DEF Functional, Flag
  <2> QED
    BY <2>1, <2>2
<1>9. OneTurn(t)
  BY <1>2, <1>3, <1>5, <1>6, <1>7, <1>8 DEF OneTurn, Functional
<1>10. Typed(t)'
  BY <1>0, <1>2, <1>3, <1>5, <1>6, <1>7, <1>8 DEF Typed, Places
<1>11. Life(t)'
  BY <1>2, <1>6 DEF TurnInv, Life, Ended, Stages
<1>12. Queued(t)'
  BY <1>2, <1>6 DEF TurnInv, Queued
<1>13. Covered(t)'
  BY <1>1, <1>3, <1>6 DEF Covered, Approved
<1>14. Opened(t)'
  BY <1>2, <1>6, <1>7 DEF TurnInv, Opened, Announced, Stages, Life
<1>15. Afforded(t)'
  <2>0. /\ prog[t].asked \in Nat /\ prog[t].rounds \in Nat /\ prog[t].utterances \in Nat
        /\ prog[t].asked <= MaxToolRounds + MaxUtterances + 2
    BY <1>0 DEF TurnInv, Afforded, Typed, Progress
  <2>1. CASE pc[t] = "save"
    BY <1>6, <1>7, <2>0, <2>1 DEF Afforded, Flag
  <2>2. CASE pc[t] # "save"
    <3>1. /\ prog[t].rounds <= MaxToolRounds /\ prog[t].utterances < MaxUtterances
          /\ prog[t].asked <= prog[t].rounds + prog[t].utterances + Flag(prog[t].retried)
                              + Flag(prog[t].control)
      BY <2>0, <2>2 DEF TurnInv, Afforded, Flag, Stages
    <3>2. Flag(pc'[t] = "streaming") = Flag(pc[t] = "main")
      BY <1>6 DEF Flag
    <3>3. /\ prog'[t].asked <= prog'[t].rounds + prog'[t].utterances + Flag(prog'[t].retried)
                               + Flag(prog'[t].control) + Flag(pc'[t] = "streaming")
          /\ prog'[t].asked <= MaxToolRounds + MaxUtterances + 2
          /\ prog'[t].rounds <= MaxToolRounds /\ prog'[t].utterances < MaxUtterances
      BY <1>7, <2>0, <3>1, <3>2, TurnAssumption DEF Flag
    <3> QED
      BY <3>3 DEF Afforded, Flag
  <2> QED
    BY <2>1, <2>2
<1>16. Planned(t)'
  <2>1. PlanFits(t, "main")'
    BY <1>5 DEF PlanFits
  <2>2. PlanFits(t, "role")' /\ PlanFits(t, "native")'
    BY <1>2, <1>5 DEF TurnInv, Planned, PlanFits, Asking, Ops, Who
  <2> QED
    BY <2>1, <2>2 DEF Planned, Who
<1>17. Memorised(t)'
  <2>1. /\ pc[t] = "save" => Times(t) = 1 /\ channel[t] # "discord"
        /\ Times(t) >= 0 /\ Times(t)' = Times(t) /\ wire[t].end \notin {"finish", "cancelled"}
    BY <1>2 DEF TurnInv, Memorised, Times, Life, Stages
  <2> QED
    BY <1>2, <1>6, <1>8, <2>1 DEF Memorised, Flag
<1> QED
  BY <1>9, <1>10, <1>11, <1>12, <1>13, <1>14, <1>15, <1>16, <1>17 DEF Good, TurnInv

-----------------------------------------------------------------------------
(* An operation that is refused, and a disclosure under way *)

\* A refusal, whatever is said of it.
Denied(t, who) == \E loud \in BOOLEAN : Refused(t, who, loud)

LEMMA MainDenied ==
    ASSUME Functional, NEW t \in Turns, TurnInv(t), UNCHANGED request, pc[t] \in Stages,
           Denied(t, "main"), UNCHANGED <<due, kept>>
    PROVE  Good(t)
<1>1. PICK loud \in BOOLEAN : Refused(t, "main", loud)
  BY DEF Denied
<1>2. /\ Puts(t, "main", NoPlan) /\ UNCHANGED <<prog, role, native>>
      /\ EndTurn(t, "error") \/ EndTurn(t, "cancelled")
  BY <1>1 DEF Refused, Puts, Why
<1>3. "main" \in Who
  BY DEF Who
<1>4. /\ plan' = [plan EXCEPT ![t] = plan'[t]] /\ plan'[t] \in [Who -> Plan]
      /\ plan'[t]["main"] = NoPlan /\ \A x \in Who : x # "main" => plan'[t][x] = plan[t][x]
  BY <1>2, <1>3, NoPlanIsPlan, PlanPut
<1>5. kept[t].saved = 0 /\ kept[t].logged = 0 /\ pc[t] \notin {"idle", "done"}
  BY DEF TurnInv, Memorised, Stages
<1>6. Ends(t)
  BY <1>2, <1>5 DEF Ends, Endings
<1> QED
  BY <1>2, <1>4, <1>5, <1>6, UnchangedProgress, EndGood

LEMMA RoleDenied ==
    ASSUME Functional, NEW t \in Turns, TurnInv(t), UNCHANGED request, Asking(t, "role"),
           Denied(t, "role"), UNCHANGED <<due, kept>>
    PROVE  Good(t)
<1>0. Typed(t)
  BY TypedOne
<1>1. PICK loud \in BOOLEAN : Refused(t, "role", loud)
  BY DEF Denied
<1>2. /\ Puts(t, "role", NoPlan) /\ UNCHANGED <<pc, prog, queue, answer, native>> /\ "role" \in Who
      /\ role' = [role EXCEPT ![t] = [@ EXCEPT !.at = "idle", !.tries = 2]]
      /\ wire' = IF loud THEN [wire EXCEPT ![t] = Terminal(@, "error")] ELSE wire
      /\ turn' = IF loud THEN [turn EXCEPT ![t].state = StateAfter(t, "error")] ELSE turn
  BY <1>1 DEF Refused, Puts, own, Who
<1>3. /\ plan' = [plan EXCEPT ![t] = plan'[t]] /\ plan'[t] \in [Who -> Plan]
      /\ plan'[t]["role"] = NoPlan /\ \A x \in Who : x # "role" => plan'[t][x] = plan[t][x]
  BY <1>2, NoPlanIsPlan, PlanPut
<1>4. role'[t] \in Role /\ role' = [role EXCEPT ![t] = role'[t]]
  BY <1>0, <1>2 DEF Functional, Typed, Role
<1>5. pc[t] # "idle" /\ turn[t].state # "none"
  BY DEF TurnInv, Life, Asking
<1>6. /\ turn'[t] \in Entry /\ turn' = [turn EXCEPT ![t] = turn'[t]]
      /\ turn'[t].live = turn[t].live /\ turn'[t].state # "none"
  <2> DEFINE st == StateAfter(t, "error")
  <2>1. st \in {"none", "streaming", "cancelling", "finished", "errored"} /\ st # "none"
    BY <1>0, <1>5 DEF StateAfter, Typed, Entry
  <2>2. turn' = IF loud THEN [turn EXCEPT ![t] = [turn[t] EXCEPT !.state = st]] ELSE turn
    BY <1>2
  <2> HIDE DEF st
  <2>3. /\ turn'[t] = IF loud THEN [turn[t] EXCEPT !.state = st] ELSE turn[t]
        /\ turn' = [turn EXCEPT ![t] = turn'[t]]
    BY <2>2 DEF Functional
  <2> QED
    BY <1>0, <1>5, <2>1, <2>3 DEF Typed, Entry
<1>7. /\ wire'[t] \in Wire /\ wire' = [wire EXCEPT ![t] = wire'[t]] /\ wire'[t].open = wire[t].open
      /\ wire'[t].end \in {wire[t].end, "error"}
      /\ wire[t].end # "none" => wire'[t].end = wire[t].end /\ wire'[t].usage = wire[t].usage
      /\ wire[t].end = "none" => \/ wire'[t].end = "none" /\ wire'[t].usage = wire[t].usage
                                 \/ wire'[t].end = "error" /\ wire'[t].usage = wire[t].usage + 1
  <2> DEFINE n == wire[t].usage + 1
  <2>1. n \in Nat /\ n = wire[t].usage + 1
    BY <1>0 DEF Typed, Wire
  <2>2. /\ wire'[t] = IF loud /\ wire[t].end = "none" THEN [wire[t] EXCEPT !.usage = n, !.end = "error"] ELSE wire[t]
        /\ wire' = [wire EXCEPT ![t] = wire'[t]]
    BY <1>2 DEF Functional, Terminal
  <2> HIDE DEF n
  <2>3. wire[t] \in Wire
    BY <1>0 DEF Typed
  <2>4. CASE loud /\ wire[t].end = "none"
    <3>1. wire'[t] = [wire[t] EXCEPT !.usage = n, !.end = "error"]
      BY <2>2, <2>4
    <3>2. /\ wire'[t] \in Wire /\ wire'[t].open = wire[t].open /\ wire'[t].end = "error" /\ wire'[t].usage = n
      BY <2>1, <2>3, <3>1 DEF Wire
    <3> QED
      BY <2>1, <2>2, <2>4, <3>2
  <2>5. CASE ~(loud /\ wire[t].end = "none")
    BY <2>2, <2>3, <2>5
  <2> QED
    BY <2>4, <2>5
<1>8. OneTurn(t)
  BY <1>2, <1>3, <1>4, <1>6, <1>7 DEF OneTurn, Functional, request
<1>9. Typed(t)'
  BY <1>0, <1>2, <1>3, <1>4, <1>6, <1>7 DEF Typed, request
<1>10. Life(t)'
  BY <1>2, <1>5, <1>6, <1>7 DEF TurnInv, Life, Ended
<1>11. Queued(t)' /\ Covered(t)'
  BY <1>2 DEF TurnInv, Queued, Covered, Approved
<1>12. Opened(t)' /\ Afforded(t)'
  BY <1>2, <1>7 DEF TurnInv, Opened, Announced, Afforded
<1>13. Memorised(t)'
  BY <1>2, <1>7 DEF TurnInv, Memorised, Times, request
<1>14. Planned(t)'
  <2>1. PlanFits(t, "role")'
    BY <1>3 DEF PlanFits
  <2>2. PlanFits(t, "main")' /\ PlanFits(t, "native")'
    BY <1>2, <1>3 DEF TurnInv, Planned, PlanFits, Asking, Ops, Halfway, Who, request
  <2> QED
    BY <2>1, <2>2 DEF Planned, Who
<1> QED
  BY <1>8, <1>9, <1>10, <1>11, <1>12, <1>13, <1>14 DEF Good, TurnInv

LEMMA NativeDenied ==
    ASSUME Functional, NEW t \in Turns, TurnInv(t), UNCHANGED request, Asking(t, "native"),
           Denied(t, "native"), UNCHANGED <<due, kept>>
    PROVE  Good(t)
<1>0. Typed(t)
  BY TypedOne
<1>1. PICK loud \in BOOLEAN : Refused(t, "native", loud)
  BY DEF Denied
<1>2. /\ Puts(t, "native", NoPlan) /\ UNCHANGED <<turn, wire, pc, queue, answer, role>> /\ "native" \in Who
      /\ native' = [native EXCEPT ![t] = "answered"]
      /\ prog' = [prog EXCEPT ![t].denied = @ \/ loud]
  BY <1>1 DEF Refused, Puts, own, said, Who
<1>3. /\ plan' = [plan EXCEPT ![t] = plan'[t]] /\ plan'[t] \in [Who -> Plan]
      /\ plan'[t]["native"] = NoPlan /\ \A x \in Who : x # "native" => plan'[t][x] = plan[t][x]
  BY <1>2, NoPlanIsPlan, PlanPut
<1>4. native'[t] = "answered" /\ native' = [native EXCEPT ![t] = native'[t]]
  BY <1>2 DEF Functional
<1>5. native[t] = "auth" /\ pc[t] \in {"streaming", "done"}
  BY DEF Asking, TurnInv, Opened
<1>6. /\ prog'[t] \in Progress /\ prog' = [prog EXCEPT ![t] = prog'[t]]
      /\ prog[t].denied => prog'[t].denied
      /\ prog'[t].asked = prog[t].asked
      /\ prog'[t].rounds = prog[t].rounds /\ prog'[t].utterances = prog[t].utterances
      /\ prog'[t].control = prog[t].control /\ prog'[t].retried = prog[t].retried
  <2> DEFINE d == prog[t].denied \/ loud
  <2>1. d \in BOOLEAN /\ (prog[t].denied => d) /\ prog' = [prog EXCEPT ![t] = [prog[t] EXCEPT !.denied = d]]
    BY <1>0, <1>2 DEF Typed, Progress
  <2> HIDE DEF d
  <2>2. prog'[t] = [prog[t] EXCEPT !.denied = d] /\ prog' = [prog EXCEPT ![t] = prog'[t]]
    BY <2>1 DEF Functional
  <2> QED
    BY <1>0, <2>1, <2>2 DEF Typed, Progress
<1>7. OneTurn(t)
  BY <1>2, <1>3, <1>4, <1>6 DEF OneTurn, Functional, request
<1>8. Typed(t)'
  BY <1>0, <1>2, <1>3, <1>4, <1>6 DEF Typed, request
<1>9. Life(t)'
  BY <1>2, <1>5 DEF TurnInv, Life, Ended
<1>10. Queued(t)' /\ Covered(t)'
  BY <1>2 DEF TurnInv, Queued, Covered, Approved
<1>11. Opened(t)' /\ Afforded(t)'
  BY <1>2, <1>4, <1>5, <1>6 DEF TurnInv, Opened, Announced, Afforded
<1>12. Memorised(t)'
  BY <1>2 DEF TurnInv, Memorised, Times, request
<1>13. Planned(t)'
  <2>1. PlanFits(t, "native")'
    BY <1>3 DEF PlanFits
  <2>2. PlanFits(t, "main")' /\ PlanFits(t, "role")'
    BY <1>2, <1>3 DEF TurnInv, Planned, PlanFits, Asking, Ops, Halfway, Who, request
  <2> QED
    BY <2>1, <2>2 DEF Planned, Who
<1> QED
  BY <1>7, <1>8, <1>9, <1>10, <1>11, <1>12, <1>13 DEF Good, TurnInv

LEMMA DeniedGood ==
    ASSUME Functional, NEW t \in Turns, TurnInv(t), UNCHANGED request, NEW who \in Who, Asking(t, who),
           Denied(t, who), UNCHANGED <<due, kept>>
    PROVE  Good(t)
<1>1. CASE who = "main"
  <2>1. pc[t] \in Stages /\ Denied(t, "main")
    BY <1>1 DEF Asking
  <2> QED
    BY <2>1, MainDenied
<1>2. CASE who = "role"
  BY <1>2, RoleDenied
<1>3. CASE who = "native"
  BY <1>3, NativeDenied
<1> QED
  BY <1>1, <1>2, <1>3 DEF Who

\* A disclosure goes out: what is sent after an ending is marked, and nothing else.
LEMMA DisclosedOnce ==
    ASSUME Functional, NEW t \in Turns, Disclose(t)
    PROVE  /\ wire'[t] \in Wire /\ wire' = [wire EXCEPT ![t] = wire'[t]] /\ wire'[t].open = wire[t].open
           /\ wire'[t].end = wire[t].end /\ wire'[t].usage = wire[t].usage
<1> DEFINE l == wire[t].late \/ Ended(t)
<1>0. wire[t] \in Wire
  BY DEF Functional
<1>1. l \in BOOLEAN /\ wire' = [wire EXCEPT ![t] = [wire[t] EXCEPT !.late = l]]
  BY <1>0 DEF Disclose, Wire
<1> HIDE DEF l
<1>2. wire'[t] = [wire[t] EXCEPT !.late = l] /\ wire' = [wire EXCEPT ![t] = wire'[t]]
  BY <1>1 DEF Functional
<1> QED
  BY <1>0, <1>1, <1>2 DEF Wire

\* A disclosure of a plan that fits is under way; what was accepted before is counted.
LEMMA UnderWayGood ==
    ASSUME Functional, NEW t \in Turns, TurnInv(t), UNCHANGED request, NEW who \in Who, Asking(t, who),
           profile[t] # "none", Disclose(t),
           UNCHANGED <<turn, pc, prog, queue, answer, role, native, kept>>,
           NEW p \in Plan, Puts(t, who, p),
           due'[t] \in [Dues -> Int], due' = [due EXCEPT ![t] = due'[t]],
           \A w \in Dues : due'[t][w] >= due[t][w],
           p.allow => \/ p.list = Ops(t, who)
                      \/ who = "main" /\ pc[t] = "save" /\ p.list = <<"embedding">>
                         /\ due'[t]["memory_llm"] >= 1
    PROVE  Good(t)
<1>0. Typed(t)
  BY TypedOne
<1>1. /\ wire'[t] \in Wire /\ wire' = [wire EXCEPT ![t] = wire'[t]] /\ wire'[t].open = wire[t].open
      /\ wire'[t].end = wire[t].end /\ wire'[t].usage = wire[t].usage
  BY DisclosedOnce
<1>2. /\ plan' = [plan EXCEPT ![t] = plan'[t]] /\ plan'[t] \in [Who -> Plan]
      /\ plan'[t][who] = p /\ \A x \in Who : x # who => plan'[t][x] = plan[t][x]
  BY PlanPut
<1>3. pc[t] # "idle"
  BY DEF TurnInv, Life, Asking, Stages, Who
<1>4. /\ \A w \in Dues : due'[t][w] >= 0 /\ (due[t][w] >= 1 => due'[t][w] >= 1)
      /\ "memory_llm" \in Dues /\ "approval" \in Dues
  <2>1. "memory_llm" \in Dues /\ "approval" \in Dues
    BY DEF Dues, Workloads
  <2>2. \A w \in Dues : due[t][w] \in Int /\ due[t][w] >= 0 /\ due'[t][w] \in Int
    BY <1>0 DEF Typed, TurnInv, Covered
  <2> QED
    BY <2>1, <2>2
<1>5. OneTurn(t)
  BY <1>1, <1>2 DEF OneTurn, Functional, request
<1>6. Typed(t)'
  BY <1>0, <1>1, <1>2 DEF Typed, request
<1>7. Life(t)'
  BY <1>1, <1>3 DEF TurnInv, Life, Ended
<1>8. Placed(t)
  BY <1>1 DEF Placed, request
<1>9. Covered(t)'
  BY <1>4 DEF TurnInv, Covered, Approved
<1>10. \A x \in Who : PlanFits(t, x)'
  <2>1. PlanFits(t, who)'
    <3>1. Asking(t, who)' /\ profile'[t] # "none" /\ Ops(t, who)' = Ops(t, who)
      BY DEF Asking, Ops, request
    <3>2. p.allow => \/ p.list = Ops(t, who)
                     \/ who = "main" /\ pc'[t] = "save" /\ p.list = <<"embedding">>
                        /\ due'[t]["memory_llm"] >= 1
      OBVIOUS
    <3> QED
      BY <1>2, <3>1, <3>2 DEF PlanFits, Halfway
  <2>2. ASSUME NEW x \in Who, x # who PROVE PlanFits(t, x)'
    <3>1. PlanFits(t, x) /\ plan'[t][x] = plan[t][x]
      BY <1>2, <2>2 DEF TurnInv, Planned
    <3>2. Asking(t, x) => Asking(t, x)'
      BY DEF Asking
    <3>3. Ops(t, x)' = Ops(t, x) /\ profile' = profile
      BY DEF Ops, request
    <3>4. due[t]["memory_llm"] >= 1 => due'[t]["memory_llm"] >= 1
      BY <1>4
    <3> QED
      BY <3>1, <3>2, <3>3, <3>4 DEF PlanFits, Halfway
  <2> QED
    BY <2>1, <2>2
<1>11. Planned(t)'
  BY <1>10 DEF Planned
<1> QED
  BY <1>5, <1>6, <1>7, <1>8, <1>9, <1>11, PlacedKeeps DEF Good, TurnInv

-----------------------------------------------------------------------------
(* Authorising: a plan is prepared, and its disclosures are answered *)

LEMMA MinIn == ASSUME NEW S \in SUBSET Nat, S # {} PROVE Min(S) \in S
BY SmallestNat DEF Min

\* Only the save asks for two operations at once.
LEMMA OpsShape ==
    ASSUME NEW t \in Turns, NEW who \in Who, Asking(t, who)
    PROVE  \/ who = "main" /\ pc[t] = "save" /\ Ops(t, who) = <<"memory_llm", "embedding">>
           \/ \E x \in Workloads : Ops(t, who) = <<x>>
<1>1. CASE who = "main"
  <2>1. pc[t] \in Stages
    BY <1>1 DEF Asking
  <2> QED
    BY <1>1, <2>1, OpsAre
<1>2. CASE who = "role"
  BY <1>2, OpsAre DEF Workloads
<1>3. CASE who = "native"
  BY <1>3, OpsAre DEF Workloads
<1> QED
  BY <1>1, <1>2, <1>3 DEF Who

LEMMA OneLong ==
    ASSUME NEW x \in Workloads
    PROVE  <<x>> \in Seq(Workloads) /\ DOMAIN <<x>> \subseteq Nat /\ Len(<<x>>) = 1 /\ Head(<<x>>) = x
OBVIOUS

LEMMA TwoLong ==
    ASSUME NEW x \in Workloads, NEW y \in Workloads
    PROVE  /\ <<x, y>> \in Seq(Workloads) /\ DOMAIN <<x, y>> \subseteq Nat
           /\ Len(<<x, y>>) = 2 /\ Head(<<x, y>>) = x /\ Tail(<<x, y>>) = <<y>>
OBVIOUS

LEMMA OpsTyped ==
    ASSUME NEW t \in Turns, NEW who \in Who, Asking(t, who)
    PROVE  Ops(t, who) \in Seq(Workloads) /\ DOMAIN Ops(t, who) \subseteq Nat
<1>1. CASE Ops(t, who) = <<"memory_llm", "embedding">>
  <2>1. "memory_llm" \in Workloads /\ "embedding" \in Workloads
    BY DEF Workloads
  <2> QED
    BY <1>1, <2>1, TwoLong
<1>2. ASSUME NEW x \in Workloads, Ops(t, who) = <<x>>
      PROVE  Ops(t, who) \in Seq(Workloads) /\ DOMAIN Ops(t, who) \subseteq Nat
  BY <1>2, OneLong
<1> QED
  BY <1>1, <1>2, OpsShape

\* The disclosures prepared are all that is asked for, or the one that is refused.
LEMMA DeliverPuts ==
    ASSUME NEW t \in Turns, NEW who \in Who, Asking(t, who), NEW verdict, NEW consents \in SUBSET Consents,
           NEW committed \in BOOLEAN, Deliver(t, who, verdict, consents, committed)
    PROVE  \E p \in Plan : Puts(t, who, p) /\ p.holds = consents /\ (p.allow => p.list = Ops(t, who))
<1> DEFINE named == Ops(t, who)
           refused == {i \in DOMAIN named : verdict[i] = "blocked"
                          \/ (verdict[i] = "confirmation_required" /\ consents = {})}
           list == IF refused # {} THEN <<named[Min(refused)]>> ELSE named
           allow == refused = {} /\ (consents = {} \/ committed)
<1>1. plan' = [plan EXCEPT ![t][who] = [list |-> list, allow |-> allow, holds |-> consents]]
  BY DEF Deliver
<1>2. named \in Seq(Workloads) /\ DOMAIN named \subseteq Nat
  BY OpsTyped
<1>3. refused # {} => Min(refused) \in DOMAIN named
  BY <1>2, MinIn
<1>4. list \in Seq(Workloads) /\ (allow => list = named) /\ allow \in BOOLEAN
  <2>1. CASE refused # {}
    <3>1. named[Min(refused)] \in Workloads
      BY <1>2, <1>3, <2>1
    <3> HIDE DEF refused, named
    <3> QED
      BY <2>1, <3>1
  <2>2. CASE refused = {}
    BY <1>2, <2>2
  <2> QED
    BY <2>1, <2>2
<1> HIDE DEF list, allow, refused, named
<1>5. [list |-> list, allow |-> allow, holds |-> consents] \in Plan
  BY <1>4 DEF Plan
<1>6. Puts(t, who, [list |-> list, allow |-> allow, holds |-> consents])
  BY <1>1 DEF Puts
<1> QED
  BY <1>4, <1>5, <1>6 DEF named

LEMMA DeliverGood ==
    ASSUME Functional, NEW t \in Turns, TurnInv(t), UNCHANGED request, NEW who \in Who, Asking(t, who),
           profile[t] # "none", NEW verdict, NEW consents \in SUBSET Consents, NEW committed \in BOOLEAN,
           Deliver(t, who, verdict, consents, committed)
    PROVE  Good(t)
<1>1. PICK p \in Plan : Puts(t, who, p) /\ (p.allow => p.list = Ops(t, who))
  BY DeliverPuts
<1>2. Disclose(t) /\ UNCHANGED <<turn, pc, prog, queue, answer, role, native, kept, due>>
  BY DEF Deliver, own
<1>3. due[t] \in [Dues -> Int] /\ due' = [due EXCEPT ![t] = due'[t]]
  BY <1>2 DEF Functional
<1>4. \A w \in Dues : due'[t][w] >= due[t][w]
  BY <1>2, <1>3
<1> QED
  BY <1>1, <1>2, <1>3, <1>4, UnderWayGood

\* Without a profile nothing is counted but the approval of the tool.
LEMMA FreelyBegun ==
    ASSUME Functional, NEW t \in Turns, TurnInv(t), NEW who \in Who, Asking(t, who), profile[t] = "none",
           Granted(t, who, {}, {})
    PROVE  Begun(t, who)
<1>0. due[t] \in [Dues -> Int] /\ \A w \in Dues : due[t][w] >= 0
  BY DEF Functional, TurnInv, Covered
<1>1. CASE who # "main"
  <2>1. Begins(t, who) = {}
    BY <1>1 DEF Begins
  <2>2. Counted(t, {}, Begins(t, who)) = due[t]
    BY <2>1, CountedSame
  <2> QED
    BY <1>0, <2>2 DEF Begun
<1>2. CASE who = "main"
  <2>1. \A w \in Begins(t, who) : w = "approval" /\ due[t][w] >= 1
    BY <1>2 DEF Begins, TurnInv, Covered, Approved
  <2>2. \A w \in Dues : Counted(t, {}, Begins(t, who))[w] >= 0
    BY <1>0, <2>1, CountedIs
  <2> QED
    BY <1>2, <2>2 DEF Begun
<1> QED
  BY <1>1, <1>2

\* The last disclosure of a plan that allows was accepted: all that begins is counted.
LEMMA FinallyBegun ==
    ASSUME Functional, NEW t \in Turns, TurnInv(t), NEW who \in Who, plan[t][who] # NoPlan,
           plan[t][who].allow, Len(plan[t][who].list) <= 1,
           Granted(t, who, {Head(plan[t][who].list)}, plan[t][who].holds)
    PROVE  Begun(t, who)
<1>0. due[t] \in [Dues -> Int] /\ \A w \in Dues : due[t][w] >= 0
  BY DEF Functional, TurnInv, Covered
<1>p. plan[t][who] \in Plan
  BY DEF Functional
<1>1. /\ profile[t] # "none" /\ Asking(t, who)
      /\ plan[t][who].list = Ops(t, who) \/ (who = "main" /\ Halfway(t, plan[t][who]))
  BY DEF TurnInv, Planned, PlanFits
<1>2. PICK x \in Workloads : x = Head(plan[t][who].list) /\ plan[t][who].list = <<x>>
  <2>1. CASE plan[t][who].list = Ops(t, who)
    <3>1. Ops(t, who) # <<"memory_llm", "embedding">>
      <4> SUFFICES ASSUME Ops(t, who) = <<"memory_llm", "embedding">> PROVE FALSE
        OBVIOUS
      <4>1. Len(<<"memory_llm", "embedding">>) = 2
        BY TwoLong DEF Workloads
      <4>2. Len(plan[t][who].list) = 2
        BY <2>1, <4>1
      <4> QED
        BY <4>2
    <3>2. PICK x \in Workloads : Ops(t, who) = <<x>>
      BY <1>1, <3>1, OpsShape
    <3> QED
      BY <2>1, <3>2, OneLong
  <2>2. CASE Halfway(t, plan[t][who])
    BY <2>2 DEF Halfway, Workloads
  <2> QED
    BY <1>1, <2>1, <2>2
<1>3. Granted(t, who, {x}, plan[t][who].holds) /\ {x} \in SUBSET Workloads
  BY <1>2
<1>4. plan[t][who].holds \in SUBSET Consents
  BY <1>p DEF Plan
<1>5. CASE who # "main"
  <2>1. Begins(t, who) = Range(<<x>>)
    BY <1>1, <1>2, <1>5 DEF Begins
  <2>2. Counted(t, {x}, Begins(t, who)) = due[t]
    BY <2>1, RangeOne, CountedSame
  <2> QED
    BY <1>0, <1>3, <1>4, <2>2 DEF Begun
<1>6. CASE who = "main" /\ plan[t][who].list = Ops(t, who)
  <2>0. Range(Ops(t, who)) = {x}
    BY <1>2, <1>6, RangeOne
  <2>1. \A w \in Begins(t, who) : w = x \/ (w = "approval" /\ due[t][w] >= 1)
    BY <1>6, <2>0 DEF Begins, TurnInv, Covered, Approved
  <2>2. x # "approval"
    BY DEF Workloads
  <2>3. \A w \in Dues : Counted(t, {x}, Begins(t, who))[w] >= 0
    BY <1>0, <2>1, <2>2, CountedIs
  <2> QED
    BY <1>3, <1>4, <1>6, <2>3 DEF Begun
<1>7. CASE who = "main" /\ Halfway(t, plan[t][who])
  <2>1. pc[t] = "save" /\ x = "embedding" /\ due[t]["memory_llm"] >= 1
    BY <1>2, <1>7 DEF Halfway
  <2>2. \A w \in Begins(t, who) : w \in {"memory_llm", "embedding"}
    BY <1>1, <1>7, <2>1, OpsAre, RangeTwo DEF Begins
  <2>3. \A w \in Dues : Counted(t, {x}, Begins(t, who))[w] >= 0
    BY <1>0, <2>1, <2>2, CountedIs
  <2> QED
    BY <1>3, <1>4, <1>7, <2>3 DEF Begun
<1> QED
  BY <1>1, <1>5, <1>6, <1>7

LEMMA BegunGood ==
    ASSUME Functional, NEW t \in Turns, TurnInv(t), UNCHANGED request, NEW who \in Who,
           Asking(t, who), Begun(t, who)
    PROVE  Good(t)
<1>1. CASE who = "main"
  <2>1. pc[t] \in Stages /\ Begun(t, "main")
    BY <1>1 DEF Asking
  <2> QED
    BY <2>1, MainBegins
<1>2. CASE who \in {"role", "native"}
  BY <1>2, OtherBegins
<1> QED
  BY <1>1, <1>2 DEF Who

LEMMA PrepareGood ==
    ASSUME Functional, NEW t \in Turns, TurnInv(t), UNCHANGED request, NEW who \in Who, Prepare(t, who)
    PROVE  Good(t)
<1>1. Asking(t, who)
  BY DEF Prepare
<1>2. CASE \E loud \in BOOLEAN : Refused(t, who, loud) /\ UNCHANGED <<taken, spent, due, kept>>
  <2>1. Denied(t, who) /\ UNCHANGED <<due, kept>>
    BY <1>2 DEF Denied
  <2> QED
    BY <1>1, <2>1, DeniedGood
<1>3. CASE profile[t] = "none" /\ Granted(t, who, {}, {})
  BY <1>1, <1>3, FreelyBegun, BegunGood
<1>4. ASSUME profile[t] # "none", NEW verdict, NEW committed \in BOOLEAN,
             NEW consents \in Reservable(t, who, verdict), Deliver(t, who, verdict, consents, committed)
      PROVE  Good(t)
  <2>1. consents \in SUBSET Consents
    BY <1>4 DEF Reservable
  <2> QED
    BY <1>1, <1>4, <2>1, DeliverGood
<1> QED
  BY <1>2, <1>3, <1>4 DEF Prepare

LEMMA AckGood ==
    ASSUME Functional, NEW t \in Turns, TurnInv(t), UNCHANGED request, NEW who \in Who,
           NEW accepted \in BOOLEAN, Ack(t, who, accepted)
    PROVE  Good(t)
<1> DEFINE p == plan[t][who]
           shown == IF p.allow THEN {Head(p.list)} ELSE {}
<1>0. p # NoPlan /\ p \in Plan
  BY DEF Ack, Functional
<1>1. /\ profile[t] # "none" /\ Asking(t, who)
      /\ p.allow => p.list = Ops(t, who) \/ (who = "main" /\ Halfway(t, p))
  BY <1>0 DEF TurnInv, Planned, PlanFits
<1>2. CASE Undelivered(t, who, accepted)
  <2>1. Refused(t, who, ~Cancelled(t, who)) /\ UNCHANGED <<due, kept>>
    BY <1>2 DEF Ack
  <2>2. Denied(t, who)
    BY <2>1 DEF Denied
  <2> QED
    BY <1>1, <2>1, <2>2, DeniedGood
<1>3. CASE ~Undelivered(t, who, accepted) /\ Len(p.list) > 1
  <2>1. /\ plan' = [plan EXCEPT ![t][who].list = Tail(@)] /\ due' = [due EXCEPT ![t] = Counted(t, shown, {})]
        /\ Disclose(t) /\ UNCHANGED <<turn, pc, prog, queue, answer, role, native, kept>>
    BY <1>3 DEF Ack, own
  <2> DEFINE q == [p EXCEPT !.list = Tail(p.list)]
  <2>2. Puts(t, who, q)
    BY <2>1 DEF Puts
  <2>3. p.list \in Seq(Workloads)
    BY <1>0 DEF Plan
  <2>4. Tail(p.list) \in Seq(Workloads)
    BY <1>3, <2>3
  <2>5. q \in Plan /\ q.allow = p.allow /\ q.list = Tail(p.list)
    BY <1>0, <2>4 DEF Plan
  <2>6. /\ due'[t] = Counted(t, shown, {}) /\ due' = [due EXCEPT ![t] = due'[t]]
        /\ due'[t] \in [Dues -> Int]
    BY <2>1, CountedIs DEF Functional
  <2>7. due[t] \in [Dues -> Int] /\ \A w \in Dues : due[t][w] >= 0
    BY DEF Functional, TurnInv, Covered
  <2>8. \A w \in Dues : due'[t][w] >= due[t][w] /\ (w \in shown => due'[t][w] >= 1)
    BY <2>6, <2>7, CountedIs
  <2>9. p.allow => /\ who = "main" /\ pc[t] = "save" /\ q.list = <<"embedding">>
                   /\ due'[t]["memory_llm"] >= 1
    <3> SUFFICES ASSUME p.allow PROVE /\ who = "main" /\ pc[t] = "save" /\ q.list = <<"embedding">>
                                      /\ due'[t]["memory_llm"] >= 1
      OBVIOUS
    <3>1. \A x \in Workloads : p.list # <<x>>
      <4> SUFFICES ASSUME NEW x \in Workloads, p.list = <<x>> PROVE FALSE
        OBVIOUS
      <4>1. Len(p.list) = 1
        BY OneLong
      <4> QED
        BY <1>3, <4>1
    <3>2. p.list = Ops(t, who)
      <4>1. "embedding" \in Workloads
        BY DEF Workloads
      <4>2. ~Halfway(t, p)
        BY <3>1, <4>1 DEF Halfway
      <4> QED
        BY <1>1, <4>2
    <3>3. who = "main" /\ pc[t] = "save" /\ p.list = <<"memory_llm", "embedding">>
      BY <1>1, <3>1, <3>2, OpsShape
    <3>4. Tail(p.list) = <<"embedding">> /\ Head(p.list) = "memory_llm"
      BY <3>3, TwoLong DEF Workloads
    <3>5. "memory_llm" \in Dues /\ "memory_llm" \in shown
      BY <3>4 DEF Dues, Workloads
    <3> QED
      BY <2>5, <2>8, <3>3, <3>4, <3>5
  <2> HIDE DEF q, p, shown
  <2>10. PICK r \in Plan : r = q
    BY <2>5
  <2> QED
    BY <1>1, <2>1, <2>2, <2>5, <2>6, <2>8, <2>9, <2>10, UnderWayGood
<1>4. CASE ~Undelivered(t, who, accepted) /\ Len(p.list) <= 1 /\ p.allow
  <2>1. Granted(t, who, {Head(p.list)}, p.holds)
    BY <1>0, <1>4 DEF Ack, Plan
  <2> QED
    BY <1>0, <1>1, <1>4, <2>1, FinallyBegun, BegunGood
<1>5. CASE ~Undelivered(t, who, accepted) /\ Len(p.list) <= 1 /\ ~p.allow
  <2>0. ~(Len(p.list) > 1)
    <3>1. p.list \in Seq(Workloads)
      BY <1>0 DEF Plan
    <3>2. Len(p.list) \in Nat
      BY <3>1
    <3> QED
      BY <1>5, <3>2
  <2>1. Refused(t, who, TRUE) /\ UNCHANGED <<due, kept>>
    BY <1>5, <2>0 DEF Ack
  <2>2. Denied(t, who)
    BY <2>1 DEF Denied
  <2> QED
    BY <1>1, <2>1, <2>2, DeniedGood
<1> QED
  <2>1. p.list \in Seq(Workloads)
    BY <1>0 DEF Plan
  <2>2. Len(p.list) \in Nat
    BY <2>1
  <2> QED
    BY <1>2, <1>3, <1>4, <1>5, <2>2

-----------------------------------------------------------------------------
(* One-time consents *)

Counting == taken \subseteq Consents /\ spent \in [Consents -> Nat]

\* What one of those who ask holds afterwards, the others holding what they held.
Holds(t, who, held) ==
    /\ plan'[t][who].holds = held
    /\ \A u \in Turns, x \in Who : <<u, x>> # <<t, who>> => plan'[u][x].holds = plan[u][x].holds

LEMMA PutHolds ==
    ASSUME Functional, NEW t \in Turns, NEW who \in Who, NEW p \in Plan, Puts(t, who, p)
    PROVE  Holds(t, who, p.holds)
<1>1. /\ plan'[t][who] = p /\ \A x \in Who : x # who => plan'[t][x] = plan[t][x]
      /\ \A u \in Turns : u # t => plan'[u] = plan[u]
  BY PlanPut
<1>2. ASSUME NEW u \in Turns, NEW x \in Who, <<u, x>> # <<t, who>>
      PROVE  plan'[u][x].holds = plan[u][x].holds
  BY <1>1, <1>2
<1> QED
  BY <1>1, <1>2 DEF Holds

LEMMA NothingHeld == NoPlan.holds = {}
BY DEF NoPlan

\* A plan keeps what it holds, or lets go of it without a word to the store.
LEMMA HeldOrLost ==
    ASSUME Functional, Counting, Reserved, NEW t \in Turns, NEW who \in Who, NEW held,
           held \subseteq plan[t][who].holds, Holds(t, who, held), UNCHANGED <<taken, spent>>
    PROVE  Reserved'
<1>1. \A u \in Turns, x \in Who : plan'[u][x].holds \subseteq plan[u][x].holds
  <2>1. ASSUME NEW u \in Turns, NEW x \in Who PROVE plan'[u][x].holds \subseteq plan[u][x].holds
    BY DEF Holds
  <2> QED
    BY <2>1
<1>2. (\A c \in Consents : spent[c] <= 1 /\ (spent[c] > 0 => c \in taken))'
  BY DEF Reserved
<1>3. (\A u \in Turns, x \in Who : \A c \in plan[u][x].holds : c \in taken /\ spent[c] = 0)'
  BY <1>1 DEF Reserved
<1>4. ASSUME NEW u \in Turns, NEW v \in Turns, NEW x \in Who, NEW y \in Who, <<u, x>> # <<v, y>>
      PROVE  plan'[u][x].holds \cap plan'[v][y].holds = {}
  BY <1>1, <1>4 DEF Reserved
<1> QED
  BY <1>2, <1>3, <1>4 DEF Reserved

\* A plan reserves what nobody has taken.
LEMMA NewlyHeld ==
    ASSUME Functional, Counting, Reserved, NEW t \in Turns, NEW who \in Who, NEW held,
           held \subseteq Consents \ taken, Holds(t, who, held), taken' = taken \cup held, UNCHANGED spent
    PROVE  Reserved'
<1>1. \A u \in Turns, x \in Who : <<u, x>> # <<t, who>> =>
          plan'[u][x].holds = plan[u][x].holds /\ plan[u][x].holds \subseteq taken
  BY DEF Holds, Reserved
<1>2. plan'[t][who].holds = held
  BY DEF Holds
<1>3. \A c \in Consents \ taken : spent[c] = 0
  BY DEF Reserved, Counting
<1>4. (\A c \in Consents : spent[c] <= 1 /\ (spent[c] > 0 => c \in taken))'
  BY DEF Reserved
<1>5. ASSUME NEW u \in Turns, NEW x \in Who, NEW c \in plan'[u][x].holds
      PROVE  c \in taken' /\ spent'[c] = 0
  <2>1. CASE <<u, x>> = <<t, who>>
    <3>1. u = t /\ x = who
      BY <2>1
    <3> QED
      BY <1>2, <1>3, <1>5, <3>1
  <2>2. CASE <<u, x>> # <<t, who>>
    BY <1>1, <1>5, <2>2 DEF Reserved
  <2> QED
    BY <2>1, <2>2
<1>6. ASSUME NEW u \in Turns, NEW v \in Turns, NEW x \in Who, NEW y \in Who, <<u, x>> # <<v, y>>
      PROVE  plan'[u][x].holds \cap plan'[v][y].holds = {}
  <2>1. CASE <<u, x>> = <<t, who>>
    <3>1. u = t /\ x = who /\ <<v, y>> # <<t, who>>
      BY <1>6, <2>1
    <3>2. plan'[v][y].holds \subseteq taken
      BY <1>1, <3>1
    <3> QED
      BY <1>2, <3>1, <3>2
  <2>2. CASE <<v, y>> = <<t, who>>
    <3>1. v = t /\ y = who /\ <<u, x>> # <<t, who>>
      BY <1>6, <2>2
    <3>2. plan'[u][x].holds \subseteq taken
      BY <1>1, <3>1
    <3> QED
      BY <1>2, <3>1, <3>2
  <2>3. CASE <<u, x>> # <<t, who>> /\ <<v, y>> # <<t, who>>
    BY <1>1, <1>6, <2>3 DEF Reserved
  <2> QED
    BY <2>1, <2>2, <2>3
<1> QED
  BY <1>4, <1>5, <1>6 DEF Reserved

\* A plan spends what it holds, or gives it back.
LEMMA SpentOrReturned ==
    ASSUME Functional, Counting, Reserved, NEW t \in Turns, NEW who \in Who, NEW held,
           held = plan[t][who].holds, Holds(t, who, {}),
           \/ /\ taken' = taken
              /\ spent' = [c \in Consents |-> spent[c] + IF c \in held THEN 1 ELSE 0]
           \/ taken' = taken \ held /\ UNCHANGED spent
    PROVE  Reserved'
<1>1. \A u \in Turns, x \in Who : <<u, x>> # <<t, who>> =>
          plan'[u][x].holds = plan[u][x].holds /\ plan[u][x].holds \cap held = {}
  BY DEF Holds, Reserved
<1>2. plan'[t][who].holds = {}
  BY DEF Holds
<1>3. \A c \in held : c \in taken /\ spent[c] = 0
  BY DEF Reserved
<1>4. \A c \in Consents \ held : spent'[c] = spent[c] /\ (c \in taken => c \in taken')
  BY DEF Counting
<1>5. ASSUME NEW c \in Consents PROVE spent'[c] <= 1 /\ (spent'[c] > 0 => c \in taken')
  <2>1. CASE c \in held
    BY <1>3, <2>1
  <2>2. CASE c \notin held
    BY <1>4, <2>2 DEF Reserved
  <2> QED
    BY <2>1, <2>2
<1>6. ASSUME NEW u \in Turns, NEW x \in Who, NEW c \in plan'[u][x].holds
      PROVE  c \in taken' /\ spent'[c] = 0
  <2>1. <<u, x>> # <<t, who>>
    BY <1>2, <1>6
  <2>2. c \in plan[u][x].holds /\ c \notin held
    BY <1>1, <1>6, <2>1
  <2>3. c \in taken /\ spent[c] = 0 /\ c \in Consents
    BY <2>2 DEF Reserved, Counting
  <2> QED
    BY <1>4, <2>2, <2>3
<1>7. ASSUME NEW u \in Turns, NEW v \in Turns, NEW x \in Who, NEW y \in Who, <<u, x>> # <<v, y>>
      PROVE  plan'[u][x].holds \cap plan'[v][y].holds = {}
  <2>1. plan'[u][x].holds \subseteq plan[u][x].holds
    BY <1>1, <1>2
  <2>2. plan'[v][y].holds \subseteq plan[v][y].holds
    BY <1>1, <1>2
  <2> QED
    BY <1>7, <2>1, <2>2 DEF Reserved
<1> QED
  BY <1>5, <1>6, <1>7 DEF Reserved

LEMMA PrepareReserved ==
    ASSUME Functional, Counting, Reserved, NEW t \in Turns, NEW who \in Who, Prepare(t, who)
    PROVE  Reserved' /\ Counting'
<1>0. plan[t][who] = NoPlan /\ Asking(t, who)
  BY DEF Prepare
<1>1. CASE \E loud \in BOOLEAN : Refused(t, who, loud) /\ UNCHANGED <<taken, spent, due, kept>>
  <2>1. Puts(t, who, NoPlan) /\ UNCHANGED <<taken, spent>>
    BY <1>1 DEF Refused, Puts
  <2>2. Holds(t, who, {})
    BY <2>1, NoPlanIsPlan, NothingHeld, PutHolds
  <2> QED
    BY <2>1, <2>2, HeldOrLost DEF Counting
<1>2. CASE Granted(t, who, {}, {}) /\ UNCHANGED taken
  <2>1. Puts(t, who, NoPlan) /\ UNCHANGED taken /\ spent' = [c \in Consents |-> spent[c] + 0]
    BY <1>2 DEF Granted, Puts
  <2>2. spent' = spent
    BY <2>1 DEF Counting
  <2>3. Holds(t, who, {})
    BY <2>1, NoPlanIsPlan, NothingHeld, PutHolds
  <2> QED
    BY <2>1, <2>2, <2>3, HeldOrLost DEF Counting
<1>3. ASSUME NEW verdict, NEW committed \in BOOLEAN,
             NEW consents \in Reservable(t, who, verdict), Deliver(t, who, verdict, consents, committed)
      PROVE  Reserved' /\ Counting'
  <2>1. consents \subseteq Consents \ taken
    BY <1>3 DEF Reservable
  <2>2. PICK p \in Plan : Puts(t, who, p) /\ p.holds = consents
    BY <1>0, <1>3, <2>1, DeliverPuts
  <2>3. Holds(t, who, consents)
    BY <2>2, PutHolds
  <2>4. taken' = taken \cup consents /\ UNCHANGED spent
    BY <1>3 DEF Deliver
  <2> QED
    BY <2>1, <2>3, <2>4, NewlyHeld DEF Counting
<1> QED
  BY <1>1, <1>2, <1>3 DEF Prepare

LEMMA AckReserved ==
    ASSUME Functional, Counting, Reserved, NEW t \in Turns, NEW who \in Who,
           NEW accepted \in BOOLEAN, Ack(t, who, accepted)
    PROVE  Reserved' /\ Counting'
<1> DEFINE p == plan[t][who]
<1>0. p \in Plan
  BY DEF Functional
<1>h. PICK held \in SUBSET Consents : held = p.holds
  BY <1>0 DEF Plan
<1>1. CASE Undelivered(t, who, accepted)
  <2>1. Refused(t, who, ~Cancelled(t, who)) /\ taken' = taken \ p.holds /\ UNCHANGED spent
    BY <1>1 DEF Ack
  <2>2. Puts(t, who, NoPlan)
    BY <2>1 DEF Refused, Puts
  <2>3. Holds(t, who, {})
    BY <2>2, NoPlanIsPlan, NothingHeld, PutHolds
  <2> QED
    BY <1>h, <2>1, <2>3, SpentOrReturned DEF Counting
<1>2. CASE ~Undelivered(t, who, accepted) /\ Len(p.list) > 1
  <2>1. plan' = [plan EXCEPT ![t][who].list = Tail(@)] /\ UNCHANGED <<taken, spent>>
    BY <1>2 DEF Ack
  <2> DEFINE q == [p EXCEPT !.list = Tail(p.list)]
  <2>2. Puts(t, who, q)
    BY <2>1 DEF Puts
  <2>3. p.list \in Seq(Workloads)
    BY <1>0 DEF Plan
  <2>4. Tail(p.list) \in Seq(Workloads)
    BY <1>2, <2>3
  <2>5. q \in Plan /\ q.holds = p.holds
    BY <1>0, <2>4 DEF Plan
  <2> HIDE DEF q, p
  <2>6. PICK r \in Plan : r = q
    BY <2>5
  <2>7. Holds(t, who, held)
    BY <1>h, <2>2, <2>5, <2>6, PutHolds
  <2> QED
    BY <1>h, <2>1, <2>7, HeldOrLost DEF Counting, p
<1>3. CASE ~Undelivered(t, who, accepted) /\ ~(Len(p.list) > 1) /\ p.allow
  <2>1. Granted(t, who, {Head(p.list)}, p.holds) /\ UNCHANGED taken
    BY <1>3 DEF Ack
  <2>2. Puts(t, who, NoPlan) /\ spent' = [c \in Consents |-> spent[c] + IF c \in held THEN 1 ELSE 0]
    BY <1>h, <2>1 DEF Granted, Puts
  <2>3. Holds(t, who, {})
    BY <2>2, NoPlanIsPlan, NothingHeld, PutHolds
  <2>4. spent' \in [Consents -> Nat]
    BY <2>2 DEF Counting
  <2> QED
    BY <1>h, <2>1, <2>2, <2>3, <2>4, SpentOrReturned DEF Counting
<1>4. CASE ~Undelivered(t, who, accepted) /\ ~(Len(p.list) > 1) /\ ~p.allow
  <2>1. Refused(t, who, TRUE) /\ UNCHANGED <<taken, spent>>
    BY <1>4 DEF Ack
  <2>2. Puts(t, who, NoPlan)
    BY <2>1 DEF Refused, Puts
  <2>3. Holds(t, who, {})
    BY <2>2, NoPlanIsPlan, NothingHeld, PutHolds
  <2> QED
    BY <2>1, <2>3, HeldOrLost DEF Counting
<1> QED
  BY <1>1, <1>2, <1>3, <1>4

-----------------------------------------------------------------------------
(* The invariant *)

LEMMA InitIInv == Init => IInv
<1> SUFFICES ASSUME Init PROVE IInv
  OBVIOUS
<1>1. <<>> \in Seq(Kinds) /\ <<>> \in Seq(Workloads)
  OBVIOUS
<1>2. Functional /\ Counting
  BY <1>1, NoPlanIsPlan DEF Init, Functional, Counting, Profiles, Entry, Places, Wire, Progress, Role, IdleRole,
     Dues, Kept
<1>3. TypeOK
  BY <1>2, TypeParts DEF Counting
<1>4. ASSUME NEW t \in Turns PROVE TurnInv(t)
  <2>1. /\ channel[t] = "private" /\ pc[t] = "idle" /\ turn[t].state = "none" /\ turn[t].live = FALSE
        /\ wire[t].usage = 0 /\ wire[t].end = "none" /\ wire[t].open = 0
        /\ prog[t].asked = 0 /\ prog[t].rounds = 0 /\ prog[t].utterances = 0 /\ prog[t].denied = FALSE
        /\ prog[t].control = FALSE /\ prog[t].retried = FALSE
        /\ answer[t] = "none" /\ role[t].at = "idle" /\ native[t] = "idle"
        /\ kept[t].saved = 0 /\ kept[t].logged = 0
    BY DEF Init, IdleRole
  <2>2. (\A who \in Who : plan[t][who] = NoPlan) /\ (\A w \in Dues : due[t][w] = 0)
    BY DEF Init, Dues
  <2>3. Life(t) /\ Queued(t) /\ Opened(t) /\ Planned(t)
    BY <2>1, <2>2 DEF Life, Ended, Queued, Opened, Announced, Planned, PlanFits
  <2>4. Afforded(t)
    BY <2>1, TurnAssumption DEF Afforded, Flag
  <2>5. Covered(t) /\ Memorised(t)
    BY <2>1, <2>2 DEF Covered, Approved, Memorised, Times
  <2> QED
    BY <2>3, <2>4, <2>5 DEF TurnInv
<1>5. Reserved
  <2>1. \A t \in Turns, who \in Who : plan[t][who].holds = {}
    BY NothingHeld DEF Init
  <2>2. \A c \in Consents : spent[c] = 0
    BY DEF Init
  <2> QED
    BY <2>1, <2>2 DEF Reserved
<1> QED
  BY <1>3, <1>4, <1>5 DEF IInv

\* A step of one turn that is good for it keeps the invariant of all of them.
LEMMA GoodKeeps ==
    ASSUME IInv, NEW t \in Turns, Good(t), Reserved' /\ Counting'
    PROVE  IInv'
<1>1. Functional
  BY TypeParts DEF IInv
<1>2. Functional'
  BY <1>1, FunctionalKept DEF Good
<1>3. TypeOK'
  BY <1>2, TypePartsNext DEF Counting
<1>4. ASSUME NEW u \in Turns PROVE TurnInv(u)'
  <2>1. CASE u = t
    BY <2>1 DEF Good
  <2>2. CASE u # t
    BY <1>1, <2>2, OthersKept DEF Good, IInv
  <2> QED
    BY <2>1, <2>2
<1> QED
  BY <1>3, <1>4 DEF IInv

LEMMA SameReserved == ASSUME Counting, Reserved, UNCHANGED <<plan, taken, spent>> PROVE Reserved' /\ Counting'
BY DEF Counting, Reserved

\* Every step of a turn is a step of that turn only.
LEMMA StepGood ==
    ASSUME IInv, NEW t \in Turns, TurnStep(t) \/ Environment(t), UNCHANGED request
    PROVE  Good(t)
<1>0. Functional /\ TurnInv(t)
  BY TypeParts DEF IInv
<1>1. CASE TurnStep(t)
  BY <1>0, <1>1, PrepareGood, CompactGood, BreakGood, PauseGood, NextCallGood, ApprovalGood, SaveGood
     DEF TurnStep, IInv
<1>2. CASE Environment(t)
  <2>1. CASE Cancel(t) \/ RoleAsks(t) \/ RoleEnds(t) \/ \E approved \in BOOLEAN : RoleApproval(t, approved)
    BY <1>0, <2>1, CancelGood, RoleGood DEF IInv
  <2>2. CASE \E who \in Who, accepted \in BOOLEAN : Ack(t, who, accepted)
    BY <1>0, <2>2, AckGood DEF IInv
  <2>3. CASE (\E kind \in NativeKinds : NativeCall(t, kind)) \/ NativeEnds(t) \/ RoundFails(t)
             \/ ToolEnds(t) \/ LogEnds(t)
    BY <1>0, <2>3, NativeCallGood, NativeEndGood, BreakGood, ToolGood, LogGood DEF IInv
  <2>4. CASE \/ \E kind \in {"answer", "promise", "cut", "blank"} : RoundAnswers(t, kind)
             \/ \E calls \in CallSeqs(t) : RoundCalls(t, calls)
             \/ \E decision \in {"approve", "reject"} : Approve(t, decision)
    BY <1>0, <2>4, AnswersGood, CallsGood, ApproveGood DEF IInv
  <2> QED
    BY <1>2, <2>1, <2>2, <2>3, <2>4 DEF Environment
<1> QED
  BY <1>1, <1>2

\* Only an authorisation that is prepared or delivered touches plans and consents.
LEMMA UnplannedRest ==
    ASSUME NEW t \in Turns, TurnStep(t) \/ Environment(t)
    PROVE  \/ \E who \in Who : Prepare(t, who)
           \/ \E who \in Who, accepted \in BOOLEAN : Ack(t, who, accepted)
           \/ UNCHANGED <<plan, taken, spent>>
<1>1. CASE CompactEnds(t) \/ RecallEnds(t) \/ Break(t) \/ PauseEnds(t) \/ NextCall(t)
           \/ ApprovalEnds(t) \/ SaveEnds(t)
  BY <1>1 DEF CompactEnds, RecallEnds, Break, PauseEnds, NextCall, ApprovalEnds, SaveEnds, rest
<1>2. CASE Cancel(t) \/ RoleAsks(t) \/ RoleEnds(t) \/ \E approved \in BOOLEAN : RoleApproval(t, approved)
  BY <1>2 DEF Cancel, RoleAsks, RoleEnds, RoleApproval
<1>3. CASE (\E kind \in NativeKinds : NativeCall(t, kind)) \/ NativeEnds(t) \/ RoundFails(t)
           \/ ToolEnds(t) \/ LogEnds(t)
  BY <1>3 DEF NativeCall, NativeEnds, RoundFails, ToolEnds, LogEnds, rest
<1>4. CASE \/ \E kind \in {"answer", "promise", "cut", "blank"} : RoundAnswers(t, kind)
           \/ \E calls \in CallSeqs(t) : RoundCalls(t, calls)
           \/ \E decision \in {"approve", "reject"} : Approve(t, decision)
  BY <1>4 DEF RoundAnswers, RoundCalls, Approve, rest
<1> QED
  BY <1>1, <1>2, <1>3, <1>4 DEF TurnStep, Environment

LEMMA NextIInv == IInv /\ [Next]_vars => IInv'
<1> SUFFICES ASSUME IInv, [Next]_vars PROVE IInv'
  OBVIOUS
<1>0. Functional /\ Counting /\ Reserved
  BY TypeParts DEF IInv, Counting
<1>1. CASE UNCHANGED vars
  <2>1. TypeOK'
    BY <1>1 DEF vars, IInv, TypeOK
  <2>2. ASSUME NEW u \in Turns PROVE TurnInv(u)'
    <3>1. TurnInv(u)
      BY DEF IInv
    <3>2. Life(u)' /\ Queued(u)' /\ Opened(u)' /\ Afforded(u)'
      BY <1>1, <3>1 DEF vars, TurnInv, Life, Queued, Opened, Afforded, Announced, Ended
    <3>3. Planned(u)'
      BY <1>1, <3>1 DEF vars, TurnInv, Planned, PlanFits, Asking, Ops, Halfway
    <3>4. Covered(u)' /\ Memorised(u)'
      BY <1>1, <3>1 DEF vars, TurnInv, Covered, Approved, Memorised, Times
    <3> QED
      BY <3>2, <3>3, <3>4 DEF TurnInv
  <2>3. Reserved'
    BY <1>0, <1>1, SameReserved DEF vars
  <2> QED
    BY <2>1, <2>2, <2>3 DEF IInv
<1>2. ASSUME NEW t \in Turns, Request(t) PROVE IInv'
  <2>1. Good(t)
    BY <1>0, <1>2, RequestGood DEF IInv
  <2>2. UNCHANGED <<plan, taken, spent>>
    BY <1>2 DEF Request
  <2> QED
    BY <1>0, <2>1, <2>2, SameReserved, GoodKeeps
<1>3. ASSUME NEW t \in Turns, TurnStep(t) \/ Environment(t), UNCHANGED request PROVE IInv'
  <2>0. Good(t) /\ TurnInv(t)
    BY <1>3, StepGood DEF IInv
  <2>1. ASSUME NEW who \in Who, Prepare(t, who) PROVE IInv'
    BY <1>0, <2>0, <2>1, PrepareReserved, GoodKeeps
  <2>2. ASSUME NEW who \in Who, NEW accepted \in BOOLEAN, Ack(t, who, accepted) PROVE IInv'
    BY <1>0, <2>0, <2>2, AckReserved, GoodKeeps
  <2>3. CASE UNCHANGED <<plan, taken, spent>>
    BY <1>0, <2>0, <2>3, SameReserved, GoodKeeps
  <2>4. \/ \E who \in Who : Prepare(t, who)
        \/ \E who \in Who, accepted \in BOOLEAN : Ack(t, who, accepted)
        \/ UNCHANGED <<plan, taken, spent>>
    BY <1>3, UnplannedRest
  <2> QED
    BY <2>1, <2>2, <2>3, <2>4
<1> QED
  BY <1>1, <1>2, <1>3 DEF Next

LEMMA Inductive == Spec => []IInv
BY InitIInv, NextIInv, PTL DEF Spec

-----------------------------------------------------------------------------
(* The theorems *)

\* Every turn is told its usage and its ending once, is released exactly when it has been,
\* closes what it announced and asks the provider no more often than it is allowed.
THEOREM EndingsAlwaysOne == Spec => []OneEnding
<1>1. IInv => OneEnding
  <2> SUFFICES ASSUME IInv PROVE OneEnding
    OBVIOUS
  <2>1. ASSUME NEW t \in Turns
        PROVE  /\ wire[t].usage = IF Ended(t) THEN 1 ELSE 0
               /\ turn[t].live <=> pc[t] \notin {"idle", "done"}
               /\ pc[t] = "done" => Ended(t)
               /\ wire[t].end = "finish" => wire[t].open = 0
               /\ prog[t].asked <= MaxToolRounds + MaxUtterances + 2
    BY DEF IInv, TurnInv, Life, Opened, Afforded
  <2> QED
    BY <2>1 DEF IInv, OneEnding
<1> QED
  BY <1>1, Inductive, PTL

\* Nothing of a request with a profile begins that was not disclosed and accepted, no gated tool
\* that was not approved, and no one-time consent lets two operations through.
THEOREM OnlyAuthorisedAlways == Spec => []OnlyAuthorised
<1>1. IInv => OnlyAuthorised
  <2> SUFFICES ASSUME IInv PROVE OnlyAuthorised
    OBVIOUS
  <2>1. ASSUME NEW t \in Turns PROVE \A w \in DOMAIN due[t] : due[t][w] >= 0
    <3>1. due[t] \in [Dues -> Int]
      BY TypeParts DEF IInv, Functional
    <3> QED
      BY <3>1 DEF IInv, TurnInv, Covered
  <2> QED
    BY <2>1 DEF IInv, Reserved, OnlyAuthorised, ConsentOnce
<1> QED
  BY <1>1, Inductive, PTL

\* A finished turn was saved and written down once (on Discord never), a cancelled one neither.
THEOREM TurnsAlwaysRecorded == Spec => []Recorded
<1>1. IInv => Recorded
  <2> SUFFICES ASSUME IInv, NEW t \in Turns
               PROVE  LET times == IF channel[t] = "discord" THEN 0 ELSE 1
                      IN  /\ kept[t].saved <= times /\ kept[t].logged <= times
                          /\ wire[t].end = "finish" => kept[t].saved = times /\ kept[t].logged = times
                          /\ wire[t].end = "cancelled" => kept[t].saved = 0 /\ kept[t].logged = 0
    BY DEF Recorded
  <2>1. Memorised(t)
    BY DEF IInv, TurnInv
  <2> QED
    BY <2>1 DEF Memorised, Times
<1> QED
  BY <1>1, Inductive, PTL

\* What a step may not begin for a turn that is cancelled.
Dormant(t) ==
    /\ pc'[t] = pc[t] \/ pc'[t] \notin {"compacting", "recalling", "streaming", "running", "saving", "storing"}
    /\ role'[t].at = "calling" => role[t].at = "calling"
    /\ native'[t] = "running" => native[t] = "running"

LEMMA EndedDormant ==
    ASSUME Functional, NEW t \in Turns, NEW why, EndTurn(t, why), UNCHANGED <<role, native>>
    PROVE  Dormant(t)
BY DEF EndTurn, Functional, Dormant

LEMMA CommittedDormant ==
    ASSUME Functional, NEW t \in Turns, Commit(t), UNCHANGED <<role, native>>
    PROVE  Dormant(t)
<1>1. CASE EndTurn(t, "finish")
  BY <1>1, EndedDormant
<1>2. CASE pc' = [pc EXCEPT ![t] = "save"]
  BY <1>2 DEF Functional, Dormant
<1> QED
  BY <1>1, <1>2 DEF Commit

LEMMA RefusedDormant ==
    ASSUME Functional, NEW t \in Turns, NEW who \in Who, NEW loud \in BOOLEAN, Refused(t, who, loud)
    PROVE  Dormant(t)
<1>1. CASE who = "main"
  <2>1. (EndTurn(t, "error") \/ EndTurn(t, "cancelled")) /\ UNCHANGED <<role, native>>
    BY <1>1 DEF Refused, Why
  <2> QED
    BY <2>1, EndedDormant
<1>2. CASE who = "role"
  <2>1. UNCHANGED <<pc, native>> /\ role' = [role EXCEPT ![t] = [@ EXCEPT !.at = "idle", !.tries = 2]]
    BY <1>2 DEF Refused
  <2>2. role[t] \in Role
    BY DEF Functional
  <2>3. role'[t].at = "idle"
    BY <2>1, <2>2 DEF Functional, Role
  <2> QED
    BY <2>1, <2>3 DEF Dormant
<1>3. CASE who = "native"
  <2>1. UNCHANGED <<pc, role>> /\ native' = [native EXCEPT ![t] = "answered"]
    BY <1>3 DEF Refused, said
  <2> QED
    BY <2>1 DEF Functional, Dormant
<1> QED
  BY <1>1, <1>2, <1>3 DEF Who

LEMMA TurnStepDormant ==
    ASSUME Functional, NEW t \in Turns, turn[t].aborted, TurnStep(t)
    PROVE  Dormant(t)
<1>1. CASE CompactEnds(t) \/ SaveEnds(t)
  <2>1. role'[t].at = role[t].at
    BY <1>1, StaleRole DEF CompactEnds, SaveEnds
  <2> QED
    BY <1>1, <2>1 DEF CompactEnds, SaveEnds, Goes, Functional, Dormant
<1>2. CASE RecallEnds(t)
  BY <1>2 DEF RecallEnds, Functional, Dormant
<1>3. CASE Break(t)
  BY <1>3, EndedDormant DEF Break, rest
<1>4. CASE PauseEnds(t)
  BY <1>4, EndedDormant DEF PauseEnds, rest
<1>5. CASE NextCall(t)
  <2>1. CASE queue[t] = <<>>
    BY <1>5, <2>1 DEF NextCall, Goes, rest, Functional, Dormant
  <2>2. CASE queue[t] # <<>>
    BY <1>5, <2>2, EndedDormant DEF NextCall, rest
  <2> QED
    BY <2>1, <2>2
<1>6. CASE ApprovalEnds(t)
  BY <1>6, EndedDormant DEF ApprovalEnds, rest
<1>7. ASSUME NEW who \in Who, Prepare(t, who) PROVE Dormant(t)
  <2>1. Refused(t, who, FALSE)
    BY <1>7 DEF Prepare, Cancelled
  <2> QED
    BY <2>1, RefusedDormant
<1> QED
  BY <1>1, <1>2, <1>3, <1>4, <1>5, <1>6, <1>7 DEF TurnStep

LEMMA EnvironmentDormant ==
    ASSUME Functional, NEW t \in Turns, turn[t].aborted, Environment(t)
    PROVE  Dormant(t)
<1>1. CASE Cancel(t) \/ (\E decision \in {"approve", "reject"} : Approve(t, decision))
  BY <1>1 DEF Cancel, Approve, Dormant
<1>2. ASSUME NEW who \in Who, NEW accepted \in BOOLEAN, Ack(t, who, accepted) PROVE Dormant(t)
  <2>1. Cancelled(t, who) /\ Undelivered(t, who, accepted)
    BY DEF Cancelled, Undelivered
  <2>2. Refused(t, who, ~Cancelled(t, who))
    BY <1>2, <2>1 DEF Ack
  <2>3. Refused(t, who, FALSE)
    BY <2>1, <2>2
  <2> QED
    BY <2>3, RefusedDormant
<1>3. CASE RoleAsks(t)
  BY <1>3 DEF RoleAsks
<1>4. CASE RoleEnds(t)
  <2>1. role[t] \in Role
    BY DEF Functional
  <2> QED
    BY <1>4, <2>1 DEF RoleEnds, Functional, Role, Dormant
<1>5. ASSUME NEW approved \in BOOLEAN, RoleApproval(t, approved) PROVE Dormant(t)
  <2>1. ~approved /\ role[t] \in Role
    BY <1>5 DEF RoleApproval, Cancelled, Functional
  <2>2. role'[t].at = "idle" /\ UNCHANGED <<pc, native>>
    BY <1>5, <2>1 DEF RoleApproval, Functional, Role
  <2> QED
    BY <2>2 DEF Dormant
<1>6. CASE (\E kind \in NativeKinds : NativeCall(t, kind))
           \/ (\E kind \in {"answer", "promise", "cut", "blank"} : RoundAnswers(t, kind))
           \/ (\E calls \in CallSeqs(t) : RoundCalls(t, calls))
  BY <1>6 DEF NativeCall, RoundAnswers, RoundCalls, RoundFinished
<1>7. CASE NativeEnds(t)
  BY <1>7 DEF NativeEnds, rest, Functional, Dormant
<1>8. CASE RoundFails(t) \/ ToolEnds(t) \/ LogEnds(t)
  <2>1. UNCHANGED <<role, native>>
    BY <1>8 DEF RoundFails, ToolEnds, LogEnds, rest
  <2>2. EndTurn(t, "error") \/ EndTurn(t, "cancelled") \/ EndTurn(t, "finish")
    BY <1>8 DEF RoundFails, ToolEnds, LogEnds, Why
  <2> QED
    BY <2>1, <2>2, EndedDormant
<1> QED
  BY <1>1, <1>2, <1>3, <1>4, <1>5, <1>6, <1>7, <1>8 DEF Environment

\* What a turn has under way stays what it is in the steps of the others.
LEMMA OthersDormant ==
    ASSUME Functional, NEW t \in Turns, OneTurn(t), NEW u \in Turns, u # t
    PROVE  Dormant(u)
BY DEF Functional, OneTurn, Dormant

\* A request enters for a turn that has nothing under way.
LEMMA RequestDormant ==
    ASSUME Functional, NEW t \in Turns, Request(t)
    PROVE  Dormant(t)
<1>1. pc'[t] \in {"compact", "recall", "main"}
  BY DEF Request, Functional
<1> QED
  BY <1>1 DEF Request, Dormant

\* The action that NothingBeginsAfterCancel forbids the rest of: what a cancelled turn may still do.
CancelStands ==
    \A t \in Turns : turn[t].aborted =>
          /\ pc'[t] = pc[t] \/ pc'[t] \notin {Busy[s] : s \in Stages} \cup {"storing"}
          /\ role'[t].at = "calling" => role[t].at = "calling"
          /\ native'[t] = "running" => native[t] = "running"

LEMMA CancelStandsNext == IInv /\ [Next]_vars => CancelStands
<1> SUFFICES ASSUME IInv, [Next]_vars, NEW u \in Turns, turn[u].aborted
             PROVE  Dormant(u)
  <2>1. {Busy[s] : s \in Stages} = {"compacting", "recalling", "streaming", "running", "saving"}
    BY DEF Stages, Busy
  <2> QED
    BY <2>1 DEF CancelStands, Dormant
<1>0. Functional
  BY TypeParts DEF IInv
<1>1. CASE UNCHANGED vars
  BY <1>1 DEF vars, Dormant
<1>2. ASSUME NEW t \in Turns, Request(t) PROVE Dormant(u)
  <2>1. OneTurn(t)
    BY <1>0, <1>2, RequestGood DEF IInv, Good
  <2> QED
    BY <1>0, <1>2, <2>1, RequestDormant, OthersDormant
<1>3. ASSUME NEW t \in Turns, TurnStep(t) \/ Environment(t), UNCHANGED request PROVE Dormant(u)
  <2>1. OneTurn(t)
    BY <1>3, StepGood DEF Good
  <2>2. CASE u = t
    BY <1>0, <1>3, <2>2, TurnStepDormant, EnvironmentDormant
  <2> QED
    BY <1>0, <2>1, <2>2, OthersDormant
<1> QED
  BY <1>1, <1>2, <1>3 DEF Next

\* Once cancelled, a turn begins nothing that works for it: no compaction, recall, model request,
\* tool or save of its own, whichever wait the cancellation came into.
THEOREM NothingBeginsOnceCancelled == Spec => NothingBeginsAfterCancel
<1>1. IInv /\ [Next]_vars => [CancelStands]_vars
  BY CancelStandsNext
<1> QED
  BY <1>1, Inductive, PTL DEF Spec, NothingBeginsAfterCancel, CancelStands

-----------------------------------------------------------------------------
(* The radio DJ.                                                              *)

AnyTracks == 0..MaxTracks
Dj == [configured: BOOLEAN, st: States, act: Nat, epoch: Nat, aborted: BOOLEAN,
       preserve: SUBSET Nat, replacing: {None} \cup Slots, timer: {"none", "idle", "comment"},
       yields: Nat, musicOnly: BOOLEAN, awaiting: BOOLEAN,
       pending: {NoPending, AnyTrack} \cup Tracks, deferred: BOOLEAN,
       playback: AnyTracks, video: AnyTracks, retP: SUBSET Tracks, retV: SUBSET Tracks,
       annP: SUBSET Tracks, annV: AnyTracks, notices: SUBSET {"replace", "next"}]
Operation == [kind: {"start", "replace", "realtime", "next", "comment", "stop"},
              pc: {"find", "retry", "observe", "observe2", "recheck", "chain", "status", "prequeue", "close"},
              act: Nat, epoch: Nat, track: AnyTracks, prev: AnyTracks, yielded: BOOLEAN]
Utterance == [what: {"intro", "wrap", "notice", "deferred"}, track: AnyTracks, act: Nat, epoch: Nat,
              slot: {None} \cup Slots, yielded: BOOLEAN]
BgmEvent == [kind: {"playing", "changed", "ended", "error"}, track: Tracks, next: AnyTracks, act: Nat]

\* The fields of the controller, the activities and their routes.  The bounds on the
\* epoch are what the requests and the activities can have moved it by.
DjPart ==
    /\ dj \in Dj /\ dj.act <= opened
    /\ opened \in 0..MaxActivities /\ lanes \subseteq 1..opened
    /\ asked \in 0..MaxRequests /\ dj.epoch <= asked + opened
    /\ dj.st = "stopped" => dj.aborted

\* What the shell plays, has reported, and has ever played.
PlayerPart ==
    /\ loaded \in 0..MaxTracks
    /\ player \in [track: 0..loaded, status: {"stopped", "loading", "playing", "ended", "error"}, queued: BOOLEAN]
    /\ player.status # "stopped" => player.track # None
    /\ player.status = "playing" => player.track \in played
    /\ mail \subseteq BgmEvent
    /\ \A e \in mail : /\ e.kind = "playing" => e.track \in played
                       /\ e.kind = "changed" => e.next # None

\* Where an operation may wait: what each kind of operation goes through.
Awaits(o) ==
    \/ o.pc \in {"find", "observe"} /\ o.kind \in {"start", "next", "replace", "realtime"}
    \/ o.pc \in {"observe2", "retry", "recheck"} /\ o.kind = "replace"
    \/ o.pc = "chain" /\ o.kind = "realtime"
    \/ o.pc \in {"status", "prequeue"} /\ o.kind = "comment"
    \/ o.pc = "close" /\ o.kind = "stop"

\* The operation o of slot s fits the controller d: it has not captured more than there
\* was; a replacement that is current is the attempt in flight; and nothing that would
\* speak by itself is current while the user has the floor.
Fits(d, n, o, s) ==
    /\ o.epoch <= d.epoch /\ o.act <= n /\ Awaits(o)
    /\ o.kind # "comment" => o.act # None
    /\ Current(d, o) /\ o.kind \in {"replace", "realtime"} => d.replacing = s
    /\ Current(d, o) /\ o.kind \in {"start", "replace"} => d.st # "yielded"
OpsPart ==
    /\ ops \in [Slots -> {Free} \cup Operation]
    /\ \A s \in Slots : ops[s] # Free => Fits(dj, opened, ops[s], s)

\* A slot that waits for a comment is named by one comment, an introduction on its way is
\* one of a track that has played, and no comment has captured an epoch to come.
ChainPart ==
    /\ chain \in Seq(Utterance) /\ Len(chain) <= MaxChain
    /\ \A i \in 1..Len(chain) :
          /\ chain[i].epoch <= dj.epoch
          /\ chain[i].what = "intro" => chain[i].track \in played
          /\ chain[i].slot # None => ops[chain[i].slot] # Free /\ ops[chain[i].slot].pc = "chain"
          /\ \A j \in 1..Len(chain) : i # j /\ chain[i].slot # None => chain[i].slot # chain[j].slot

RadioInv == DjPart /\ PlayerPart /\ OpsPart /\ ChainPart

-----------------------------------------------------------------------------
(* The helpers of the controller: which of them leave alone what decides      *)
(* whether an operation is current.                                           *)

SameRun(d, e) == e.act = d.act /\ e.epoch = d.epoch /\ e.aborted = d.aborted
Incidental(d, e) == e \in Dj /\ SameRun(d, e) /\ e.st = d.st /\ e.replacing = d.replacing

LEMMA Constants ==
    /\ Slots \subseteq Nat \ {0} /\ MaxActivities \in Nat /\ MaxTracks \in Nat
    /\ MaxRequests \in Nat /\ MaxChain \in Nat /\ MaxMail \in Nat
  BY DjAssumption

LEMMA SameIsIncidental == ASSUME NEW d \in Dj PROVE Incidental(d, d)
  BY DEF Incidental, SameRun

LEMMA CancelFlowKeeps == ASSUME NEW d \in Dj PROVE Incidental(d, CancelFlow(d))
  BY DEF Dj, CancelFlow, Incidental, SameRun

LEMMA ResetKeeps == ASSUME NEW d \in Dj PROVE Incidental(d, ResetBackoff(d))
  BY DEF Dj, ResetBackoff, Incidental, SameRun

LEMMA SettledKeeps == ASSUME NEW d \in Dj PROVE Incidental(d, Settled(d))
  BY DEF Dj, Settled, ResetBackoff, Incidental, SameRun

LEMMA ArmKeeps == ASSUME NEW d \in Dj, NEW r PROVE Incidental(d, ArmIdle(d, r))
  BY DEF Dj, ArmIdle, Incidental, SameRun

LEMMA ScheduleKeeps == ASSUME NEW d \in Dj PROVE Incidental(d, ScheduleComment(d))
  BY DEF Dj, ScheduleComment, Incidental, SameRun

LEMMA RetireKeeps ==
    ASSUME NEW d \in Dj, NEW p \in AnyTracks, NEW v \in AnyTracks
    PROVE  Incidental(d, RetireTrack(d, p, v))
<1> DEFINE rp == d.retP \cup ({p} \ {None})
           rv == d.retV \cup ({v} \ {None})
           pb == IF d.playback = p THEN None ELSE d.playback
           vd == IF d.video = v THEN None ELSE d.video
<1>1. rp \in SUBSET Tracks /\ rv \in SUBSET Tracks
  BY DEF Dj, AnyTracks, Tracks, None
<1>2. pb \in AnyTracks /\ vd \in AnyTracks
  BY Constants DEF Dj, AnyTracks, None
<1>3. RetireTrack(d, p, v) = [d EXCEPT !.retP = rp, !.retV = rv, !.playback = pb, !.video = vd]
  BY DEF RetireTrack
<1> HIDE DEF rp, rv, pb, vd
<1> DEFINE a == [d EXCEPT !.retP = rp, !.retV = rv]
<1>4. Incidental(d, a)
  BY <1>1 DEF Dj, Incidental, SameRun
<1> DEFINE b == [a EXCEPT !.playback = pb, !.video = vd]
<1>5. RetireTrack(d, p, v) = b
  BY <1>3
<1> HIDE DEF a
<1>6. Incidental(a, b)
  BY <1>2, <1>4 DEF Dj, Incidental, SameRun
<1> HIDE DEF b
<1> QED
  BY <1>4, <1>5, <1>6 DEF Incidental, SameRun

LEMMA AcceptKeeps ==
    ASSUME NEW d \in Dj, NEW p \in AnyTracks, NEW v \in AnyTracks
    PROVE  Incidental(d, AcceptTrack(d, p, v))
<1> DEFINE other == d.video # None /\ d.video # v
           gone  == ({d.playback} \ {None, p}) \cap (IF p # None \/ other THEN {d.playback} ELSE {})
           rp == (d.retP \cup gone) \ ({p} \ {None})
           rv == (IF other THEN d.retV \cup {d.video} ELSE d.retV) \ {v}
           av == IF other /\ d.annV # v THEN None ELSE d.annV
           pb == IF p # None THEN p ELSE IF gone # {} THEN None ELSE d.playback
<1>1. rp \in SUBSET Tracks /\ rv \in SUBSET Tracks
  BY DEF Dj, AnyTracks, Tracks, None
<1>2. av \in AnyTracks /\ pb \in AnyTracks
  BY Constants DEF Dj, AnyTracks, None
<1>3. AcceptTrack(d, p, v) = [d EXCEPT !.retP = rp, !.retV = rv, !.annV = av, !.playback = pb, !.video = v]
  BY DEF AcceptTrack
<1> HIDE DEF rp, rv, av, pb
<1> DEFINE a == [d EXCEPT !.retP = rp, !.retV = rv]
<1>4. Incidental(d, a)
  BY <1>1 DEF Dj, Incidental, SameRun
<1> DEFINE b == [a EXCEPT !.annV = av, !.playback = pb]
           c == [b EXCEPT !.video = v]
<1>5. AcceptTrack(d, p, v) = c
  BY <1>3
<1> HIDE DEF a
<1>6. Incidental(a, b)
  BY <1>2, <1>4 DEF Dj, Incidental, SameRun
<1> HIDE DEF b
<1>7. Incidental(b, c)
  BY <1>6 DEF Dj, Incidental, SameRun
<1> HIDE DEF c
<1> QED
  BY <1>4, <1>5, <1>6, <1>7 DEF Incidental, SameRun

LEMMA ExpectKeeps == ASSUME NEW d \in Dj, NEW t \in Tracks PROVE Incidental(d, Expect(d, t))
<1> DEFINE rp == d.retP \ {t}
           rv == d.retV \ {t}
           yes == TRUE
<1>1. rp \in SUBSET Tracks /\ rv \in SUBSET Tracks /\ yes \in BOOLEAN
  BY DEF Dj
<1>2. t \in AnyTracks /\ None \in AnyTracks
  BY Constants DEF AnyTracks, Tracks, None
<1>3. Expect(d, t) = [d EXCEPT !.annV = None, !.playback = t, !.video = t, !.retP = rp, !.retV = rv,
                               !.pending = t, !.awaiting = yes]
  BY DEF Expect
<1> HIDE DEF rp, rv, yes
<1> DEFINE a == [d EXCEPT !.annV = None, !.playback = t]
           b == [a EXCEPT !.video = t, !.retP = rp]
           c == [b EXCEPT !.retV = rv]
           f == [c EXCEPT !.pending = t, !.awaiting = yes]
<1>4. Expect(d, t) = f
  BY <1>3
<1>5. Incidental(d, a)
  BY <1>2 DEF Dj, Incidental, SameRun
<1> HIDE DEF a
<1>6. Incidental(a, b)
  BY <1>1, <1>2, <1>5 DEF Dj, Incidental, SameRun
<1> HIDE DEF b
<1>7. Incidental(b, c)
  BY <1>1, <1>6 DEF Dj, Incidental, SameRun
<1> HIDE DEF c
<1>8. Incidental(c, f)
  BY <1>1, <1>7 DEF Dj, Incidental, SameRun
<1> HIDE DEF f
<1> QED
  BY <1>4, <1>5, <1>6, <1>7, <1>8 DEF Incidental, SameRun

LEMMA MarkKeeps ==
    ASSUME NEW d \in Dj, NEW p \in AnyTracks, NEW v \in AnyTracks
    PROVE  Incidental(d, MarkAnnounced(d, p, v))
<1> DEFINE ap == d.annP \cup ({p} \ {None})
           e == [d EXCEPT !.annP = ap]
           f == [e EXCEPT !.annV = v]
<1>1. ap \in SUBSET Tracks
  BY DEF Dj, AnyTracks, Tracks, None
<1>2. MarkAnnounced(d, p, v) = f
  BY DEF MarkAnnounced
<1> HIDE DEF ap
<1>3. Incidental(d, e)
  BY <1>1 DEF Dj, Incidental, SameRun
<1> HIDE DEF e
<1>4. Incidental(e, f)
  BY <1>3 DEF Dj, Incidental, SameRun
<1> HIDE DEF f
<1> QED
  BY <1>2, <1>3, <1>4 DEF Incidental, SameRun

\* d, with the state set to st and the attempt in flight to r
Becomes(d, e, st, r) == e \in Dj /\ SameRun(d, e) /\ e.st = st /\ e.replacing = r

LEMMA EntersState ==
    ASSUME NEW d \in Dj, NEW st \in States PROVE Becomes(d, [d EXCEPT !.st = st], st, d.replacing)
  BY DEF Dj, Becomes, SameRun

LEMMA DoneKeeps ==
    ASSUME NEW d \in Dj, NEW s
    PROVE  Becomes(d, Done(d, s), d.st, IF d.replacing = s THEN None ELSE d.replacing)
  BY DEF Dj, Done, Becomes, SameRun

-----------------------------------------------------------------------------
(* What a step may do to the controller, and what becomes of the operations.  *)

Evolves ==
    /\ dj' \in Dj /\ dj.epoch <= dj'.epoch
    /\ opened \in Nat /\ opened' \in Nat /\ opened <= opened'
    /\ SameRun(dj, dj') \/ dj'.epoch > dj.epoch \/ dj'.act = None \/ dj'.act > opened
    /\ dj'.st = "yielded" => dj.st = "yielded" \/ dj'.epoch > dj.epoch
    /\ dj'.st = "stopped" => dj'.aborted

\* The states a step may enter without ending what is under way.
OnAir == {"idle", "selecting", "dj_speaking", "music_only"}
Inner ==
    /\ dj' \in Dj /\ SameRun(dj, dj') /\ dj'.st \in {dj.st} \cup OnAir
    /\ opened' = opened /\ lanes' = lanes /\ asked' = asked

LEMMA InnerGrows == ASSUME RadioInv, Inner PROVE dj' \in Dj /\ dj.epoch <= dj'.epoch
  BY DEF RadioInv, DjPart, Inner, SameRun, Dj

LEMMA InnerKeeps == ASSUME RadioInv, Inner PROVE Evolves /\ DjPart'
<1>1. dj \in Dj /\ opened \in Nat /\ dj.epoch \in Nat
  BY Constants DEF RadioInv, DjPart, Dj
<1> QED
  BY <1>1 DEF RadioInv, DjPart, Inner, Evolves, SameRun, OnAir

\* No operation becomes current again.
LEMMA NotRevived ==
    ASSUME RadioInv, Evolves, NEW o \in Operation, o.epoch <= dj.epoch, o.act <= opened,
           o.act # None, Current(dj', o)
    PROVE  Current(dj, o) /\ SameRun(dj, dj')
<1>1. dj \in Dj /\ dj' \in Dj /\ (dj.st = "stopped" => dj.aborted)
  BY DEF RadioInv, DjPart, Evolves
<1>2. dj.epoch \in Nat /\ dj'.epoch \in Nat /\ dj.act \in Nat /\ dj'.act \in Nat /\ opened \in Nat
      /\ o.epoch \in Nat /\ o.act \in Nat
  BY <1>1 DEF Dj, Operation, Evolves
<1>3. o.act = dj'.act /\ o.epoch = dj'.epoch /\ ~dj'.aborted
  BY DEF Current
<1>4. SameRun(dj, dj')
  BY <1>2, <1>3 DEF Evolves
<1> QED
  BY <1>1, <1>3, <1>4 DEF SameRun, Current

LEMMA StillFits ==
    ASSUME RadioInv, Evolves, NEW o \in Operation, NEW s \in Slots, Fits(dj, opened, o, s),
           dj'.replacing = dj.replacing \/ dj'.replacing = s \/ dj.replacing # s \/ ~SameRun(dj, dj')
    PROVE  Fits(dj', opened', o, s)
<1>1. dj.epoch \in Nat /\ dj'.epoch \in Nat /\ o.epoch \in Nat /\ o.act \in Nat
  <2>1. dj \in Dj /\ dj' \in Dj
    BY DEF RadioInv, DjPart, Evolves
  <2> QED
    BY <2>1 DEF Dj, Operation
<1>2. o.epoch <= dj'.epoch /\ o.act <= opened'
  BY <1>1 DEF Fits, Evolves
<1>3. Awaits(o) /\ (o.kind # "comment" => o.act # None) /\ o.epoch <= dj.epoch /\ o.act <= opened
  BY DEF Fits
<1>4. ASSUME Current(dj', o), o.kind # "comment"
      PROVE  Current(dj, o) /\ SameRun(dj, dj')
  BY <1>3, <1>4, NotRevived
<1>5. Current(dj', o) /\ o.kind \in {"replace", "realtime"} => dj'.replacing = s
  BY <1>4 DEF Fits
<1>6. Current(dj', o) /\ o.kind \in {"start", "replace"} => dj'.st # "yielded"
  <2> SUFFICES ASSUME Current(dj', o), o.kind \in {"start", "replace"}, dj'.st = "yielded"
               PROVE  FALSE
    OBVIOUS
  <2>1. Current(dj, o) /\ SameRun(dj, dj')
    BY <1>4
  <2>2. dj.st = "yielded"
    BY <1>1, <2>1 DEF Evolves, SameRun
  <2> QED
    BY <2>1, <2>2 DEF Fits
<1> QED
  BY <1>2, <1>3, <1>5, <1>6 DEF Fits

\* No slot changes.
LEMMA OpsStay ==
    ASSUME RadioInv, Evolves, ops' = ops, dj'.replacing = dj.replacing \/ ~SameRun(dj, dj')
    PROVE  OpsPart'
<1>1. ops \in [Slots -> {Free} \cup Operation] /\ \A r \in Slots : ops[r] # Free => Fits(dj, opened, ops[r], r)
  BY DEF RadioInv, OpsPart
<1>2. ASSUME NEW r \in Slots, ops[r] # Free PROVE Fits(dj', opened', ops[r], r)
  BY <1>1, <1>2, StillFits
<1> QED
  BY <1>1, <1>2 DEF OpsPart

\* One slot changes, and the attempt in flight at most with it.
LEMMA OpsMove ==
    ASSUME RadioInv, Evolves, NEW s \in Slots, NEW o \in {Free} \cup Operation,
           ops' = [ops EXCEPT ![s] = o], o # Free => Fits(dj', opened', o, s),
           dj'.replacing = dj.replacing \/ dj.replacing \in {s, None} \/ ~SameRun(dj, dj')
    PROVE  OpsPart'
<1>1. ops \in [Slots -> {Free} \cup Operation] /\ \A r \in Slots : ops[r] # Free => Fits(dj, opened, ops[r], r)
  BY DEF RadioInv, OpsPart
<1>2. ops' \in [Slots -> {Free} \cup Operation]
  BY <1>1
<1>3. ASSUME NEW r \in Slots, ops'[r] # Free PROVE Fits(dj', opened', ops'[r], r)
  <2>1. CASE r = s
    BY <1>1, <1>3, <2>1
  <2>2. CASE r # s
    <3>1. ops'[r] = ops[r] /\ ops[r] \in Operation /\ Fits(dj, opened, ops[r], r)
      BY <1>1, <1>3, <2>2
    <3>2. r # None
      BY Constants DEF None
    <3> QED
      BY <3>1, <3>2, <2>2, StillFits
  <2> QED
    BY <2>1, <2>2
<1> QED
  BY <1>2, <1>3 DEF OpsPart

-----------------------------------------------------------------------------
(* The chain.                                                                 *)

\* A slot no comment is made for: a free one, or one whose operation waits for something else.
Unawaited(s) == s \in Slots /\ (ops[s] = Free \/ ops[s].pc # "chain")
OpsCalm ==
    /\ dj' \in Dj /\ dj.epoch <= dj'.epoch
    /\ ops' = ops \/ \E s \in Slots, o \in {Free} \cup Operation : Unawaited(s) /\ ops' = [ops EXCEPT ![s] = o]

LEMMA AwaitedStays ==
    ASSUME RadioInv, OpsCalm, NEW i \in 1..Len(chain), chain[i].slot # None
    PROVE  ops'[chain[i].slot] # Free /\ ops'[chain[i].slot].pc = "chain"
<1>1. ops \in [Slots -> {Free} \cup Operation] /\ chain \in Seq(Utterance)
  BY DEF RadioInv, OpsPart, ChainPart
<1>2. chain[i].slot \in Slots
  <2>1. chain[i] \in Utterance
    BY <1>1
  <2> QED
    BY <2>1 DEF Utterance
<1>3. ops[chain[i].slot] # Free /\ ops[chain[i].slot].pc = "chain"
  BY DEF RadioInv, ChainPart
<1> QED
  BY <1>1, <1>2, <1>3 DEF OpsCalm, Unawaited

LEMMA StepsGrowOld ==
    ASSUME RadioInv, dj' \in Dj, dj.epoch <= dj'.epoch, NEW i \in 1..Len(chain)
    PROVE  chain[i].epoch <= dj'.epoch
<1>1. chain[i].epoch <= dj.epoch /\ chain[i] \in Utterance
  BY DEF RadioInv, ChainPart
<1>2. dj \in Dj
  BY DEF RadioInv, DjPart
<1>3. chain[i].epoch \in Nat /\ dj.epoch \in Nat /\ dj'.epoch \in Nat
  BY <1>1, <1>2 DEF Utterance, Dj
<1> QED
  BY <1>1, <1>3

LEMMA ChainStays ==
    ASSUME RadioInv, OpsCalm, chain' = chain, played \subseteq played'
    PROVE  ChainPart'
<1>1. chain \in Seq(Utterance) /\ Len(chain) <= MaxChain
      /\ \A i \in 1..Len(chain) :
            /\ chain[i].what = "intro" => chain[i].track \in played
            /\ \A j \in 1..Len(chain) : i # j /\ chain[i].slot # None => chain[i].slot # chain[j].slot
  BY DEF RadioInv, ChainPart
<1>2. \A i \in 1..Len(chain) : chain[i].slot # None => ops'[chain[i].slot] # Free /\ ops'[chain[i].slot].pc = "chain"
  BY AwaitedStays
<1>3. \A i \in 1..Len(chain) : chain[i].epoch <= dj'.epoch
  BY StepsGrowOld DEF OpsCalm
<1> QED
  BY <1>1, <1>2, <1>3 DEF ChainPart

LEMMA ChainGrows ==
    ASSUME RadioInv, OpsCalm, played \subseteq played', Len(chain) < MaxChain,
           NEW c \in Utterance, chain' = Append(chain, c), c.what = "intro" => c.track \in played', c.epoch = dj'.epoch,
           c.slot # None => Unawaited(c.slot) /\ ops'[c.slot] # Free /\ ops'[c.slot].pc = "chain"
    PROVE  ChainPart'
<1>1. chain \in Seq(Utterance) /\ Len(chain) <= MaxChain /\ Len(chain) \in Nat
      /\ \A i \in 1..Len(chain) :
            /\ chain[i].what = "intro" => chain[i].track \in played
            /\ chain[i].slot # None => ops[chain[i].slot] # Free /\ ops[chain[i].slot].pc = "chain"
            /\ \A j \in 1..Len(chain) : i # j /\ chain[i].slot # None => chain[i].slot # chain[j].slot
  BY DEF RadioInv, ChainPart
<1>2. \A i \in 1..Len(chain) : chain[i].slot # None => ops'[chain[i].slot] # Free /\ ops'[chain[i].slot].pc = "chain"
  BY AwaitedStays
<1>3. /\ chain' \in Seq(Utterance) /\ Len(chain') = Len(chain) + 1 /\ chain'[Len(chain) + 1] = c
      /\ \A i \in 1..Len(chain) : chain'[i] = chain[i]
  BY <1>1
<1>4. Len(chain') <= MaxChain
  BY <1>1, <1>3, Constants
<1>5. \A i \in 1..Len(chain') : i \in 1..Len(chain) \/ i = Len(chain) + 1
  BY <1>1, <1>3
<1>6. ASSUME NEW i \in 1..Len(chain')
      PROVE  /\ chain'[i].epoch <= dj'.epoch
             /\ chain'[i].what = "intro" => chain'[i].track \in played'
             /\ chain'[i].slot # None => ops'[chain'[i].slot] # Free /\ ops'[chain'[i].slot].pc = "chain"
  <2>1. \A j \in 1..Len(chain) : chain[j].epoch <= dj'.epoch
    BY StepsGrowOld DEF OpsCalm
  <2>2. c.epoch <= dj'.epoch
    BY DEF OpsCalm, Dj
  <2> QED
    BY <1>1, <1>2, <1>3, <1>5, <2>1, <2>2
<1>7. \A i \in 1..Len(chain) : chain[i].slot # None => chain[i].slot # c.slot
  BY <1>1 DEF Unawaited
<1>8. ASSUME NEW i \in 1..Len(chain'), NEW j \in 1..Len(chain'), i # j, chain'[i].slot # None
      PROVE  chain'[i].slot # chain'[j].slot
  <2>1. CASE i \in 1..Len(chain) /\ j \in 1..Len(chain)
    BY <1>1, <1>3, <1>8, <2>1
  <2>2. CASE i \in 1..Len(chain) /\ j = Len(chain) + 1
    BY <1>3, <1>7, <1>8, <2>2
  <2>3. CASE i = Len(chain) + 1 /\ j \in 1..Len(chain)
    BY <1>3, <1>7, <1>8, <2>3
  <2> QED
    BY <1>5, <1>8, <2>1, <2>2, <2>3
<1> QED
  BY <1>3, <1>4, <1>6, <1>8 DEF ChainPart

-----------------------------------------------------------------------------
(* The player.                                                                *)

\* What Record notes of every step.
Noted == played \subseteq played' /\ (player'.status = "playing" => player'.track \in played')

LEMMA RecordNotes == ASSUME NEW n, Record(n) PROVE Noted /\ asked' = asked + n
  BY DEF Record, Noted

LEMMA PlayerStays ==
    ASSUME RadioInv, Noted, player' = player \/ (player' = [player EXCEPT !.status = "stopped", !.queued = FALSE]),
           loaded' = loaded, mail' \subseteq mail
    PROVE  PlayerPart'
<1>1. /\ loaded \in 0..MaxTracks
      /\ player \in [track: 0..loaded, status: {"stopped", "loading", "playing", "ended", "error"}, queued: BOOLEAN]
      /\ player.status # "stopped" => player.track # None
      /\ mail \subseteq BgmEvent
      /\ \A e \in mail : (e.kind = "playing" => e.track \in played) /\ (e.kind = "changed" => e.next # None)
  BY DEF RadioInv, PlayerPart
<1>2. /\ player' \in [track: 0..loaded, status: {"stopped", "loading", "playing", "ended", "error"}, queued: BOOLEAN]
      /\ player'.status # "stopped" => player'.track # None
  BY <1>1
<1> QED
  BY <1>1, <1>2 DEF PlayerPart, Noted

-----------------------------------------------------------------------------
(* The shapes that steps share.                                               *)

LEMMA NoTrack == None \in AnyTracks /\ Tracks \subseteq AnyTracks
  BY Constants DEF AnyTracks, Tracks, None

LEMMA NewStep ==
    ASSUME NEW d \in Dj, NEW what \in {"intro", "wrap", "notice", "deferred"}, NEW t \in AnyTracks,
           NEW s \in {None} \cup Slots, NEW y \in BOOLEAN
    PROVE  /\ Step(what, t, d, s, y) \in Utterance
           /\ Step(what, t, d, s, y).what = what /\ Step(what, t, d, s, y).track = t
           /\ Step(what, t, d, s, y).slot = s /\ Step(what, t, d, s, y).epoch = d.epoch
<1>1. d.act \in Nat /\ d.epoch \in Nat
  BY DEF Dj
<1> QED
  BY <1>1 DEF Step, Utterance

LEMMA SlotIsFree == ASSUME FreeSlots # {} PROVE Slot \in Slots /\ ops[Slot] = Free /\ Unawaited(Slot)
<1>1. FreeSlots \in SUBSET Nat
  BY Constants DEF FreeSlots
<1>2. \E s \in FreeSlots : \A r \in FreeSlots : s <= r
  BY <1>1, SmallestNat
<1>3. Slot \in FreeSlots
  BY <1>2, Zenon DEF Slot
<1> QED
  BY <1>3 DEF FreeSlots, Unawaited

LEMMA InvTypes ==
    ASSUME RadioInv
    PROVE  /\ dj \in Dj /\ opened \in Nat /\ dj.act \in Nat /\ dj.epoch \in Nat
           /\ ops \in [Slots -> {Free} \cup Operation] /\ chain \in Seq(Utterance)
           /\ \A s \in Slots : ops[s] # Free => ops[s] \in Operation /\ Fits(dj, opened, ops[s], s)
           /\ player.track \in AnyTracks
<1>1. dj \in Dj /\ opened \in Nat /\ ops \in [Slots -> {Free} \cup Operation] /\ chain \in Seq(Utterance)
      /\ \A s \in Slots : ops[s] # Free => ops[s] \in Operation /\ Fits(dj, opened, ops[s], s)
  BY Constants DEF RadioInv, DjPart, OpsPart, ChainPart
<1>2. dj.act \in Nat /\ dj.epoch \in Nat
  BY <1>1 DEF Dj
<1>3. player.track \in AnyTracks
  BY Constants DEF RadioInv, PlayerPart, AnyTracks
<1> QED
  BY <1>1, <1>2, <1>3

\* The parameters of a step that leaves the profile, the routes and the requests alone.
Within == opened' = opened /\ lanes' = lanes /\ asked' = asked

LEMMA InnerByItself == ASSUME NEW d, Incidental(dj, d), dj' = d, Within PROVE Inner /\ dj'.replacing = dj.replacing
  BY DEF Incidental, SameRun, Inner, Within

LEMMA InnerUnmoved == ASSUME RadioInv, dj' = dj, Within PROVE Inner /\ dj'.replacing = dj.replacing
  BY InvTypes, SameIsIncidental, InnerByItself

\* An operation that ends, and takes its own attempt with it at most.
LEMMA OpEnds ==
    ASSUME RadioInv, NEW s, Unawaited(s), ops' = [ops EXCEPT ![s] = Free], Inner,
           dj'.replacing = dj.replacing \/ dj.replacing = s
    PROVE  DjPart' /\ OpsPart' /\ OpsCalm
<1>1. Evolves /\ DjPart' /\ s \in Slots
  BY InnerKeeps DEF Unawaited
<1>2. OpsPart'
  BY <1>1, OpsMove
<1> QED
  BY <1>1, <1>2 DEF OpsCalm, Evolves

\* An operation that goes on to its next await.
LEMMA OpGoesOn ==
    ASSUME RadioInv, NEW s \in Slots, ops[s] # Free, NEW o \in Operation,
           o.kind = ops[s].kind, o.act = ops[s].act, o.epoch = ops[s].epoch, Awaits(o),
           ops' = [ops EXCEPT ![s] = o], Inner, dj'.replacing = dj.replacing
    PROVE  DjPart' /\ OpsPart'
<1>1. Evolves /\ DjPart'
  BY InnerKeeps
<1>2. ops[s] \in Operation /\ Fits(dj, opened, ops[s], s)
  BY InvTypes
<1>3. Fits(dj', opened', ops[s], s)
  BY <1>1, <1>2, StillFits
<1>4. Fits(dj', opened', o, s)
  BY <1>3 DEF Fits, Current
<1>5. OpsPart'
  BY <1>1, <1>4, OpsMove
<1> QED
  BY <1>1, <1>5

LEMMA NothingMoves ==
    ASSUME RadioInv, ops' = ops, Inner, dj'.replacing = dj.replacing PROVE DjPart' /\ OpsPart' /\ OpsCalm
  BY InnerKeeps, OpsStay DEF OpsCalm, Evolves

\* The controller, once an activity is open: the one there was, or a new one.
Reached(d) ==
    /\ d \in Dj /\ d.epoch = dj.epoch /\ d.act # None /\ d.act <= opened'
    /\ opened' \in 0..MaxActivities /\ opened <= opened' /\ lanes' \subseteq 1..opened'
    /\ SameRun(dj, d) \/ d.act > opened
    /\ d.st \in {dj.st} \cup OnAir /\ d.replacing = dj.replacing
    /\ d.st = "stopped" => d.aborted

LEMMA ReachedAlready == ASSUME RadioInv, dj.act # None, Within PROVE Reached(dj)
  BY InvTypes DEF RadioInv, DjPart, Within, Reached, SameRun

LEMMA ReachedBy == ASSUME NEW d, Reached(d), NEW e, Incidental(d, e) PROVE Reached(e)
  BY DEF Reached, Incidental, SameRun

LEMMA ReachedKeeps ==
    ASSUME RadioInv, NEW d, Reached(d), NEW st \in {d.st} \cup OnAir, NEW r, Becomes(d, dj', st, r),
           asked' \in asked..MaxRequests
    PROVE  Evolves /\ DjPart' /\ dj'.replacing = r
<1>1. /\ dj \in Dj /\ opened \in Nat /\ dj.epoch \in Nat
      /\ dj.epoch <= asked + opened /\ asked \in Nat /\ (dj.st = "stopped" => dj.aborted)
  BY InvTypes DEF RadioInv, DjPart
<1>2. /\ dj' \in Dj /\ dj'.act = d.act /\ dj'.epoch = dj.epoch /\ dj'.aborted = d.aborted /\ dj'.st = st
      /\ dj'.replacing = r /\ dj'.act <= opened' /\ opened' \in 0..MaxActivities /\ opened <= opened'
      /\ lanes' \subseteq 1..opened'
  BY DEF Reached, Becomes, SameRun
<1>3. SameRun(dj, dj') \/ dj'.act > opened
  BY DEF Reached, Becomes, SameRun
<1>4. (dj'.st = "yielded" => dj.st = "yielded") /\ (dj'.st = "stopped" => dj'.aborted)
  BY <1>2 DEF Reached, OnAir
<1>5. opened' \in Nat
  BY <1>2, Constants
<1>6. dj'.epoch <= asked' + opened'
  BY <1>1, <1>2, <1>5, Constants
<1>7. asked' \in 0..MaxRequests
  BY <1>1, Constants
<1> QED
  BY <1>1, <1>2, <1>3, <1>4, <1>5, <1>6, <1>7 DEF Evolves, DjPart

\* replaceSelection: the operation of slot s joins the attempt in flight or becomes it.
LEMMA ReplaceKeeps ==
    ASSUME RadioInv, NEW s, Unawaited(s), NEW d, Reached(d), NEW text, Replace(d, s, text),
           asked' \in asked..MaxRequests
    PROVE  DjPart' /\ OpsPart' /\ OpsCalm
<1>1. d \in Dj /\ s \in Slots /\ d.replacing = dj.replacing
  BY DEF Reached, Unawaited
<1>2. CASE d.replacing # None
  <2>1. dj' = Done(d, s) /\ ops' = [ops EXCEPT ![s] = Free]
    BY <1>2 DEF Replace, Use
  <2>2. Becomes(d, dj', d.st, IF d.replacing = s THEN None ELSE d.replacing)
    BY <1>1, <2>1, DoneKeeps
  <2>3. Evolves /\ DjPart' /\ dj'.replacing = (IF d.replacing = s THEN None ELSE d.replacing)
    <3> DEFINE r == IF d.replacing = s THEN None ELSE d.replacing
    <3> HIDE DEF r
    <3> QED
      BY <2>2, ReachedKeeps DEF r
  <2>4. OpsPart'
    BY <1>1, <2>1, <2>3, OpsMove
  <2> QED
    BY <1>1, <2>1, <2>3, <2>4 DEF OpsCalm, Evolves
<1>3. CASE d.replacing = None
  <2> DEFINE c == CancelFlow(d)
             e == [c EXCEPT !.st = "selecting", !.replacing = s]
             o == Op("replace", "find", e, FALSE)
  <2>1. Incidental(d, c) /\ c \in Dj
    BY <1>1, CancelFlowKeeps DEF Incidental
  <2>2. dj' = e /\ ops' = [ops EXCEPT ![s] = o]
    BY <1>3 DEF Replace, Use
  <2>3. Reached(c)
    BY <2>1, ReachedBy
  <2> HIDE DEF c
  <2>4. Becomes(c, e, "selecting", s)
    BY <1>1, <2>1 DEF Dj, Becomes, SameRun, States
  <2> HIDE DEF e
  <2>5. Evolves /\ DjPart' /\ dj'.replacing = s
    BY <2>2, <2>3, <2>4, ReachedKeeps DEF OnAir
  <2>6. o \in Operation /\ o # Free /\ o.kind = "replace" /\ o.pc = "find" /\ o.act = e.act /\ o.epoch = e.epoch
    <3>1. e.act \in Nat /\ e.epoch \in Nat
      BY <2>4 DEF Becomes, Dj
    <3> QED
      BY <3>1, NoTrack DEF Op, Operation, Free
  <2> HIDE DEF o
  <2>7. e.act # None /\ e.act <= opened' /\ e.epoch \in Nat /\ e.st = "selecting"
    BY <2>3, <2>4 DEF Reached, Becomes, SameRun, Dj
  <2>8. Fits(dj', opened', o, s)
    BY <2>2, <2>5, <2>6, <2>7 DEF Fits, Awaits
  <2>9. OpsPart'
    BY <1>1, <1>3, <2>2, <2>5, <2>6, <2>8, OpsMove
  <2> QED
    BY <1>1, <2>2, <2>5, <2>6, <2>9 DEF OpsCalm, Evolves
<1> QED
  BY <1>2, <1>3

\* A track that is introduced: the operation ends and the comments go on.
LEMMA IntroduceInner ==
    ASSUME NEW s, NEW d, Incidental(dj, d), NEW o,
           NEW p \in AnyTracks, NEW t \in AnyTracks, Introduce(d, s, o, p, t), Within
    PROVE  Inner /\ (dj'.replacing = dj.replacing \/ dj.replacing = s)
<1> DEFINE a == MarkAnnounced(d, p, t)
           b == [a EXCEPT !.st = "dj_speaking"]
           c == ScheduleComment(b)
<1>1. dj' = Done(c, s) /\ ops' = [ops EXCEPT ![s] = Free]
  BY DEF Introduce, Use
<1>2. Incidental(d, a)
  BY MarkKeeps DEF Incidental
<1> HIDE DEF a
<1>3. Becomes(a, b, "dj_speaking", a.replacing)
  BY <1>2, EntersState DEF Incidental, States
<1> HIDE DEF b
<1>4. Incidental(b, c)
  BY <1>3, ScheduleKeeps DEF Becomes
<1> HIDE DEF c
<1>5. Becomes(c, dj', c.st, IF c.replacing = s THEN None ELSE c.replacing)
  BY <1>1, <1>4, DoneKeeps DEF Incidental
<1> QED
  BY <1>2, <1>3, <1>4, <1>5 DEF Incidental, Becomes, SameRun, Inner, Within, OnAir

LEMMA IntroduceKeeps ==
    ASSUME RadioInv, NEW s, Unawaited(s), NEW d, Incidental(dj, d), NEW o,
           NEW p \in AnyTracks, NEW t \in AnyTracks, Introduce(d, s, o, p, t), Within
    PROVE  DjPart' /\ OpsPart' /\ OpsCalm
<1>1. ops' = [ops EXCEPT ![s] = Free]
  BY DEF Introduce, Use
<1> QED
  BY <1>1, IntroduceInner, OpEnds

-----------------------------------------------------------------------------
(* The requests: what the user, the profile and the subscription ask for.     *)

Asks == Noted /\ asked < MaxRequests /\ asked' = asked + 1
Unasked == Noted /\ asked' = asked

LEMMA AskedMoves ==
    ASSUME RadioInv PROVE asked \in Nat /\ (Asks => asked' \in asked..MaxRequests) /\ (Unasked => asked' \in asked..MaxRequests)
<1>1. asked \in 0..MaxRequests
  BY DEF RadioInv, DjPart
<1> QED
  BY <1>1, Constants DEF Asks, Unasked

\* Everything but the controller and its operations stays.
LEMMA RestStays ==
    ASSUME RadioInv, Noted, Same, chain' = chain, DjPart' /\ OpsPart' /\ OpsCalm PROVE RadioInv'
<1>1. player' = player /\ loaded' = loaded /\ mail' = mail /\ played \subseteq played'
  BY DEF Same, Noted
<1>2. PlayerPart'
  BY <1>1, PlayerStays
<1>3. ChainPart'
  BY <1>1, ChainStays
<1> QED
  BY <1>2, <1>3 DEF RadioInv

\* A step that ends what was under way by moving the epoch.
LEMMA NewEpoch ==
    ASSUME RadioInv, asked' \in asked..MaxRequests, opened' \in opened..MaxActivities,
           asked' + opened' > asked + opened, lanes' \subseteq 1..opened',
           dj' \in Dj, dj'.epoch = dj.epoch + 1, dj'.act <= opened', dj'.st = "stopped" => dj'.aborted
    PROVE  Evolves /\ DjPart' /\ ~SameRun(dj, dj')
<1>1. /\ dj \in Dj /\ opened \in 0..MaxActivities /\ asked \in 0..MaxRequests
      /\ dj.epoch <= asked + opened /\ dj.epoch \in Nat
  BY InvTypes DEF RadioInv, DjPart
<1>2. opened' \in 0..MaxActivities /\ asked' \in 0..MaxRequests /\ dj'.epoch <= asked' + opened'
      /\ dj'.epoch > dj.epoch
  <2>1. opened \in Nat /\ asked \in Nat /\ MaxActivities \in Nat /\ MaxRequests \in Nat
    BY <1>1, Constants
  <2>2. opened' \in Nat /\ asked' \in Nat /\ opened' <= MaxActivities /\ asked' <= MaxRequests
    BY <2>1
  <2> DEFINE ep == dj.epoch
             o2 == opened'
             a2 == asked'
  <2>3. ep \in Nat /\ ep <= asked + opened /\ o2 \in Nat /\ a2 \in Nat /\ a2 + o2 > asked + opened
    BY <1>1, <2>2
  <2> HIDE DEF ep, o2, a2
  <2>4. ep + 1 <= a2 + o2 /\ ep + 1 > ep
    BY <2>1, <2>3
  <2> QED
    BY <2>2, <2>4 DEF ep, o2, a2
<1>3. DjPart'
  BY <1>2 DEF DjPart
<1>4. Evolves
  BY <1>1, <1>2, Constants DEF Evolves
<1> QED
  BY <1>1, <1>2, <1>3, <1>4 DEF SameRun

LEMMA RetireExecutionKeeps ==
    ASSUME NEW d \in Dj
    PROVE  /\ RetireExecution(d) \in Dj /\ RetireExecution(d).epoch = d.epoch + 1
           /\ RetireExecution(d).act = d.act /\ RetireExecution(d).aborted = TRUE
<1> DEFINE c == CancelFlow(d)
           yes == TRUE
           no == FALSE
           more == c.epoch + 1
           e1 == [c EXCEPT !.replacing = None, !.preserve = {}]
           e2 == [e1 EXCEPT !.pending = NoPending, !.deferred = no]
           e3 == [e2 EXCEPT !.epoch = more, !.aborted = yes]
<1>1. RetireExecution(d) = e3
  BY DEF RetireExecution
<1>2. c \in Dj /\ c.act = d.act /\ c.epoch = d.epoch
  BY CancelFlowKeeps DEF Incidental, SameRun
<1>3. yes \in BOOLEAN /\ no \in BOOLEAN /\ more \in Nat
  BY <1>2 DEF Dj
<1>4. yes = TRUE /\ more = d.epoch + 1
  BY <1>2
<1> HIDE DEF c, yes, no, more
<1>5. e1 \in Dj /\ e1.act = d.act
  BY <1>2 DEF Dj
<1> HIDE DEF e1
<1>6. e2 \in Dj /\ e2.act = d.act
  BY <1>3, <1>5 DEF Dj
<1> HIDE DEF e2
<1>7. e3 \in Dj /\ e3.act = d.act /\ e3.epoch = more /\ e3.aborted = yes
  BY <1>3, <1>6 DEF Dj
<1> HIDE DEF e3
<1> QED
  BY <1>1, <1>4, <1>7

LEMMA DeactivateKeeps ==
    ASSUME NEW d \in Dj
    PROVE  /\ Deactivate(d) \in Dj /\ Deactivate(d).epoch = d.epoch + 1
           /\ Deactivate(d).act = None
<1> DEFINE r == RetireExecution(d)
<1>1. r \in Dj /\ r.epoch = d.epoch + 1
  BY RetireExecutionKeeps
<1>2. Deactivate(d) = [r EXCEPT !.act = None]
  BY DEF Deactivate
<1> HIDE DEF r
<1> QED
  BY <1>1, <1>2 DEF Dj, None

LEMMA FreshIsDj == Fresh \in Dj /\ Fresh.act = None /\ Fresh.st = "disabled"
<1>1. None \in AnyTracks
  BY NoTrack
<1> QED
  BY <1>1 DEF Fresh, Dj, None, States

LEMMA ConfigureKeeps == ASSUME RadioInv, Asks, NEW on \in BOOLEAN, Configure(on) PROVE RadioInv'
<1> DEFINE st == IF on THEN "idle" ELSE "disabled"
           ep == Deactivate(dj).epoch
           ys == dj.yields
           e1 == [Fresh EXCEPT !.configured = on, !.st = st]
           e2 == [e1 EXCEPT !.epoch = ep, !.yields = ys]
<1>1. dj' = ArmIdle(e2, subscribed) /\ lanes' \subseteq lanes /\ opened' = opened /\ ops' = ops /\ chain' = chain /\ Same
  BY DEF Configure
<1>2. st \in {"idle", "disabled"} /\ ep = dj.epoch + 1 /\ ep \in Nat /\ ys \in Nat
  BY InvTypes, DeactivateKeeps DEF Dj
<1> HIDE DEF st, ep, ys
<1>3. e1 \in Dj /\ e1.act = None /\ e1.st = st
  <2> DEFINE f == Fresh
  <2>1. f \in Dj /\ f.act = None
    BY FreshIsDj
  <2>2. e1 = [f EXCEPT !.configured = on, !.st = st]
    OBVIOUS
  <2> HIDE DEF f
  <2> QED
    BY <1>2, <2>1, <2>2 DEF Dj, States
<1> HIDE DEF e1
<1>4. e2 \in Dj /\ e2.act = None /\ e2.st = st /\ e2.epoch = ep
  BY <1>2, <1>3 DEF Dj
<1> HIDE DEF e2
<1>5. dj' \in Dj /\ dj'.act = None /\ dj'.st = st /\ dj'.epoch = dj.epoch + 1
  BY <1>1, <1>2, <1>4, ArmKeeps DEF Incidental, SameRun
<1>6. lanes \subseteq 1..opened /\ opened \in 0..MaxActivities
  BY DEF RadioInv, DjPart
<1>7. Evolves /\ DjPart' /\ ~SameRun(dj, dj')
  <2>1. asked' \in asked..MaxRequests /\ asked \in Nat /\ asked' = asked + 1
    BY AskedMoves DEF Asks
  <2>2. opened' \in opened..MaxActivities /\ lanes' \subseteq 1..opened' /\ asked' + opened' > asked + opened
    BY <1>1, <1>6, <2>1, Constants
  <2>3. dj'.act <= opened' /\ dj'.st # "stopped"
    BY <1>1, <1>2, <1>5, <1>6, Constants DEF None
  <2> QED
    BY <1>5, <2>1, <2>2, <2>3, NewEpoch
<1>8. OpsPart' /\ OpsCalm
  BY <1>1, <1>7, OpsStay DEF OpsCalm, Evolves
<1> QED
  BY <1>1, <1>7, <1>8, RestStays DEF Asks

LEMMA UnsubscribeKeeps == ASSUME RadioInv, Asks, Unsubscribe PROVE RadioInv'
<1>1. opened' = opened /\ ops' = ops /\ chain' = chain /\ Same /\ lanes' \subseteq lanes
  BY DEF Unsubscribe
<1>2. lanes \subseteq 1..opened /\ opened \in 0..MaxActivities /\ asked \in Nat
  BY AskedMoves DEF RadioInv, DjPart
<1>3. CASE dj' = dj
  <2>1. Evolves /\ dj'.replacing = dj.replacing
    BY <1>1, <1>2, <1>3, InvTypes DEF Evolves, SameRun, RadioInv, DjPart
  <2>2. DjPart'
    BY <1>1, <1>2, <1>3, AskedMoves, Constants DEF RadioInv, DjPart, Asks, Dj
  <2>3. OpsPart' /\ OpsCalm
    BY <1>1, <2>1, OpsStay DEF OpsCalm, Evolves
  <2> QED
    BY <1>1, <2>2, <2>3, RestStays DEF Asks
<1>4. CASE dj' # dj
  <2> DEFINE a == Deactivate(dj)
             st == IF dj.configured THEN "idle" ELSE "disabled"
  <2>1. dj' = [a EXCEPT !.st = st]
    BY <1>4 DEF Unsubscribe
  <2>2. a \in Dj /\ a.act = None /\ a.epoch = dj.epoch + 1 /\ st \in {"idle", "disabled"}
    BY InvTypes, DeactivateKeeps
  <2> HIDE DEF a, st
  <2>3. dj' \in Dj /\ dj'.act = None /\ dj'.st = st /\ dj'.epoch = dj.epoch + 1
    BY <2>1, <2>2 DEF Dj, States
  <2>4. Evolves /\ DjPart' /\ ~SameRun(dj, dj')
    BY <1>1, <1>2, <2>2, <2>3, Constants, AskedMoves, NewEpoch DEF Asks, None
  <2>5. OpsPart' /\ OpsCalm
    BY <1>1, <2>4, OpsStay DEF OpsCalm, Evolves
  <2> QED
    BY <1>1, <2>4, <2>5, RestStays DEF Asks
<1> QED
  BY <1>3, <1>4

LEMMA YieldKeeps == ASSUME RadioInv, Asks, YieldForUserTurn PROVE RadioInv'
<1> DEFINE c == CancelFlow(dj)
           ep == c.epoch + 1
           ys == c.yields + 1
           e1 == [c EXCEPT !.epoch = ep, !.st = "yielded"]
           e2 == [e1 EXCEPT !.yields = ys]
<1>1. dj' = e2 /\ opened' = opened /\ ops' = ops /\ chain' = chain /\ Same /\ lanes' = lanes
  BY DEF YieldForUserTurn, Yielded
<1>2. c \in Dj /\ c.act = dj.act /\ c.epoch = dj.epoch
  BY InvTypes, CancelFlowKeeps DEF Incidental, SameRun
<1>3. ep = dj.epoch + 1 /\ ep \in Nat /\ ys \in Nat
  BY <1>2 DEF Dj
<1> HIDE DEF c, ep, ys
<1>4. e1 \in Dj /\ e1.act = dj.act /\ e1.st = "yielded" /\ e1.epoch = ep
  BY <1>2, <1>3 DEF Dj, States
<1> HIDE DEF e1
<1>5. e2 \in Dj /\ e2.act = dj.act /\ e2.st = "yielded" /\ e2.epoch = ep
  BY <1>3, <1>4 DEF Dj
<1> HIDE DEF e2
<1>6. lanes \subseteq 1..opened /\ opened \in 0..MaxActivities /\ dj.act <= opened
  BY DEF RadioInv, DjPart
<1>7. Evolves /\ DjPart' /\ ~SameRun(dj, dj')
  BY <1>1, <1>3, <1>5, <1>6, Constants, AskedMoves, NewEpoch DEF Asks
<1>8. OpsPart' /\ OpsCalm
  BY <1>1, <1>7, OpsStay DEF OpsCalm, Evolves
<1> QED
  BY <1>1, <1>7, <1>8, RestStays DEF Asks

LEMMA StopKeeps == ASSUME RadioInv, Asks, StopDj PROVE RadioInv'
<1> DEFINE r == RetireExecution(dj)
<1>1. dj' = [r EXCEPT !.st = "stopped"] /\ opened' = opened /\ lanes' = lanes /\ chain' = chain
      /\ loaded' = loaded /\ mail' = mail
  BY DEF StopDj, Calm
<1>2. r \in Dj /\ r.act = dj.act /\ r.epoch = dj.epoch + 1 /\ r.aborted = TRUE
  BY InvTypes, RetireExecutionKeeps
<1> HIDE DEF r
<1>3. dj' \in Dj /\ dj'.act = dj.act /\ dj'.epoch = dj.epoch + 1 /\ dj'.aborted
  BY <1>1, <1>2 DEF Dj, States
<1>4. lanes \subseteq 1..opened /\ opened \in 0..MaxActivities /\ dj.act <= opened
  BY DEF RadioInv, DjPart
<1>5. Evolves /\ DjPart' /\ ~SameRun(dj, dj')
  BY <1>1, <1>3, <1>4, Constants, AskedMoves, NewEpoch DEF Asks
<1>6. OpsPart' /\ OpsCalm
  <2>1. CASE dj.act = None
    BY <2>1, <1>5, OpsStay DEF StopDj, OpsCalm, Evolves
  <2>2. CASE dj.act # None
    <3> DEFINE o == Op("stop", "close", dj, FALSE)
    <3>1. Unawaited(Slot) /\ ops' = [ops EXCEPT ![Slot] = o]
      BY <2>2, SlotIsFree DEF StopDj, Use
    <3>2. o \in Operation /\ o # Free /\ o.kind = "stop" /\ o.pc = "close" /\ o.act = dj.act /\ o.epoch = dj.epoch
      BY InvTypes, NoTrack DEF Op, Operation, Free
    <3> HIDE DEF o
    <3>3. Fits(dj', opened', o, Slot)
      BY <1>1, <1>3, <1>4, <2>2, <3>2, InvTypes, Constants DEF Fits, Awaits, Current
    <3> DEFINE s == Slot
    <3>4. s \in Slots /\ ops' = [ops EXCEPT ![s] = o] /\ Unawaited(s) /\ Fits(dj', opened', o, s)
      BY <3>1, <3>3 DEF Unawaited
    <3> HIDE DEF s
    <3>5. OpsPart'
      BY <1>5, <3>2, <3>4, OpsMove
    <3>6. dj' \in Dj /\ dj.epoch <= dj'.epoch
      BY <1>5 DEF Evolves
    <3> QED
      BY <3>2, <3>4, <3>5, <3>6 DEF OpsCalm
  <2> QED
    BY <2>1, <2>2
<1>7. PlayerPart'
  <2>1. player' = player \/ player' = [player EXCEPT !.status = "stopped", !.queued = FALSE]
    BY DEF StopDj, StopPlayer
  <2> QED
    BY <1>1, <2>1, PlayerStays DEF Asks
<1>8. ChainPart'
  BY <1>1, <1>6, ChainStays DEF Asks, Noted
<1> QED
  BY <1>5, <1>6, <1>7, <1>8 DEF RadioInv

-----------------------------------------------------------------------------
(* The controls: each of them opens an activity from idle first.              *)

LEMMA ReachedEnters ==
    ASSUME NEW d, Reached(d), NEW st \in OnAir PROVE Reached([d EXCEPT !.st = st])
<1>1. st \in States
  BY DEF OnAir, States
<1> QED
  BY <1>1 DEF Reached, OnAir, SameRun, Dj

LEMMA ReachedOpen ==
    ASSUME RadioInv, Opens(dj), dj.act # None \/ (dj.st = "idle" /\ opened < MaxActivities)
    PROVE  Reached(EnsureOpen(dj))
<1>1. /\ dj \in Dj /\ dj.act <= opened /\ opened \in 0..MaxActivities /\ opened \in Nat
      /\ lanes \subseteq 1..opened /\ (dj.st = "stopped" => dj.aborted)
  BY InvTypes DEF RadioInv, DjPart
<1>2. CASE dj.act # None
  BY <1>1, <1>2 DEF Opens, EnsureOpen, Reached, SameRun
<1>3. CASE dj.act = None
  <2> DEFINE no == FALSE
             n == opened + 1
             e == [dj EXCEPT !.act = n, !.aborted = no]
             f == dj.st = "stopped"
  <2>1. EnsureOpen(dj) = e
    BY <1>3 DEF EnsureOpen
  <2>2. no \in BOOLEAN /\ n \in Nat /\ n # None /\ n > opened /\ n \in 0..MaxActivities
    BY <1>1, <1>3, Constants DEF None
  <2>3. opened' = n /\ lanes' = lanes \cup {n}
    BY <1>3 DEF Opens
  <2>5. 1..opened \subseteq 1..n /\ n \in 1..n
    BY <1>1
  <2>6. lanes' \subseteq 1..n /\ opened <= n
    BY <1>1, <2>3, <2>5
  <2> HIDE DEF no, n
  <2>4. e \in Dj /\ e.act = n /\ e.epoch = dj.epoch /\ e.st = dj.st /\ e.replacing = dj.replacing
    BY <1>1, <2>2 DEF Dj
  <2> HIDE DEF e
  <2>7. e.st = "stopped" => e.aborted
    BY <1>1, <1>3, <2>4 
  <2> QED
    BY <1>1, <2>1, <2>2, <2>3, <2>4, <2>6, <2>7 DEF Reached
<1> QED
  BY <1>2, <1>3

LEMMA CanOpen == ASSUME NEW k, CanControl(k) PROVE dj.act # None \/ (dj.st = "idle" /\ opened < MaxActivities)
  BY DEF CanControl

LEMMA ControlledReached ==
    ASSUME RadioInv, Opens(dj), dj.act # None \/ (dj.st = "idle" /\ opened < MaxActivities) PROVE Reached(Controlled)
<1> DEFINE d == EnsureOpen(dj)
           c == CancelFlow(d)
           e == [c EXCEPT !.st = "dj_speaking"]
           f == IF dj.act = None THEN e ELSE d
<1>1. Controlled = ResetBackoff(f)
  BY DEF Controlled
<1>2. Reached(d)
  BY ReachedOpen
<1> HIDE DEF d
<1>3. Reached(c)
  BY <1>2, CancelFlowKeeps, ReachedBy DEF Reached
<1> HIDE DEF c
<1>4. Reached(e)
  BY <1>3, ReachedEnters DEF OnAir
<1>5. Reached(f)
  BY <1>2, <1>4
<1> HIDE DEF e, f
<1> QED
  BY <1>1, <1>5, ResetKeeps, ReachedBy DEF Reached

LEMMA ReachedItself ==
    ASSUME RadioInv, NEW d, Reached(d), dj' = d, asked' \in asked..MaxRequests
    PROVE  Evolves /\ DjPart' /\ dj'.replacing = dj.replacing
<1>1. Becomes(d, dj', d.st, d.replacing) /\ d.replacing = dj.replacing
  BY DEF Reached, Becomes, SameRun
<1> DEFINE st == d.st
           r == d.replacing
<1>2. st \in {d.st} \cup OnAir /\ Becomes(d, dj', st, r)
  BY <1>1
<1> HIDE DEF st, r
<1>3. dj'.replacing = r
  BY <1>2, ReachedKeeps
<1>4. Evolves /\ DjPart'
  BY <1>2, ReachedKeeps
<1> QED
  BY <1>1, <1>3, <1>4 DEF r

LEMMA ControlEnds ==
    ASSUME RadioInv, Asks, NEW d, Reached(d), dj' = d, ops' = ops, chain' = chain, Same
    PROVE  RadioInv'
<1>1. Evolves /\ DjPart' /\ dj'.replacing = dj.replacing
  BY AskedMoves, ReachedItself
<1>2. OpsPart' /\ OpsCalm
  BY <1>1, OpsStay DEF OpsCalm, Evolves
<1> QED
  BY <1>1, <1>2, RestStays DEF Asks

LEMMA MusicOnlyKeeps == ASSUME RadioInv, Asks, MusicOnly PROVE RadioInv'
<1> DEFINE c == CancelFlow(Controlled)
           yes == TRUE
           no == FALSE
           pr == c.preserve \cup {dj.epoch}
           ep == c.epoch + 1
           e1 == [c EXCEPT !.musicOnly = yes, !.awaiting = no]
           e2 == [e1 EXCEPT !.st = "music_only", !.preserve = pr]
           e3 == [e2 EXCEPT !.epoch = ep]
           e4 == [e3 EXCEPT !.aborted = no]
<1>1. dj' = e4 /\ Opens(dj) /\ chain' = chain /\ ops' = ops /\ Same
  BY DEF MusicOnly
<1>2. Reached(Controlled)
  BY <1>1, CanOpen, ControlledReached DEF MusicOnly
<1>3. Reached(c)
  BY <1>2, CancelFlowKeeps, ReachedBy DEF Reached
<1> HIDE DEF c
<1>4. yes \in BOOLEAN /\ no \in BOOLEAN /\ pr \in SUBSET Nat /\ ep \in Nat /\ ep = dj.epoch + 1 /\ c \in Dj
  BY <1>3, InvTypes DEF Reached, Dj
<1> HIDE DEF yes, no, pr, ep
<1>5. e1 \in Dj /\ e1.act = c.act
  BY <1>4 DEF Dj
<1> HIDE DEF e1
<1>6. e2 \in Dj /\ e2.act = c.act /\ e2.st = "music_only"
  BY <1>4, <1>5 DEF Dj, States
<1> HIDE DEF e2
<1>7. e3 \in Dj /\ e3.act = c.act /\ e3.st = "music_only" /\ e3.epoch = ep
  BY <1>4, <1>6 DEF Dj
<1> HIDE DEF e3
<1>8. e4 \in Dj /\ e4.act = c.act /\ e4.st = "music_only" /\ e4.epoch = ep
  BY <1>4, <1>7 DEF Dj
<1> HIDE DEF e4
<1>9. /\ asked' \in asked..MaxRequests /\ asked \in Nat /\ asked' = asked + 1 /\ opened \in Nat
      /\ opened' \in 0..MaxActivities /\ opened <= opened'
  BY <1>3, AskedMoves, InvTypes DEF Asks, Reached
<1>10. opened' \in opened..MaxActivities /\ lanes' \subseteq 1..opened' /\ asked' + opened' > asked + opened
  <2>1. lanes' \subseteq 1..opened' /\ opened' \in Nat
    BY <1>3, Constants DEF Reached
  <2> DEFINE o2 == opened'
             a2 == asked'
  <2>2. o2 \in Nat /\ opened \in Nat /\ asked \in Nat /\ a2 = asked + 1 /\ opened <= o2 /\ o2 <= MaxActivities
    BY <1>9, <2>1, Constants
  <2> HIDE DEF o2, a2
  <2>3. a2 + o2 > asked + opened /\ o2 \in opened..MaxActivities
    BY <2>2, Constants
  <2> QED
    BY <2>1, <2>3 DEF o2, a2
<1>11. Evolves /\ DjPart' /\ ~SameRun(dj, dj')
  <2>1. dj'.act <= opened'
    BY <1>1, <1>3, <1>8 DEF Reached
  <2> QED
    BY <1>1, <1>4, <1>8, <1>9, <1>10, <2>1, NewEpoch
<1>12. OpsPart' /\ OpsCalm
  BY <1>1, <1>11, OpsStay DEF OpsCalm, Evolves
<1> QED
  BY <1>1, <1>11, <1>12, RestStays DEF Asks

LEMMA TalkLessKeeps == ASSUME RadioInv, Asks, TalkLess PROVE RadioInv'
<1> DEFINE a == Controlled
           c == CancelFlow(a)
           e == ScheduleComment(c)
           d == IF a.st = "dj_speaking" THEN e ELSE a
<1>1. dj' = d /\ Opens(dj) /\ chain' = chain /\ ops' = ops /\ Same
  BY DEF TalkLess
<1>2. Reached(a)
  BY <1>1, CanOpen, ControlledReached DEF TalkLess
<1> HIDE DEF a
<1>3. Reached(c)
  BY <1>2, CancelFlowKeeps, ReachedBy DEF Reached
<1> HIDE DEF c
<1>4. Reached(e)
  BY <1>3, ScheduleKeeps, ReachedBy DEF Reached
<1>5. Reached(d)
  BY <1>2, <1>4
<1> HIDE DEF e, d
<1> QED
  BY <1>1, <1>5, ControlEnds

LEMMA TalkMoreKeeps == ASSUME RadioInv, Asks, TalkMore PROVE RadioInv'
<1> DEFINE a == Controlled
           no == FALSE
           st == IF a.st = "music_only" THEN "dj_speaking" ELSE a.st
           b == [a EXCEPT !.musicOnly = no, !.awaiting = no]
           f == [b EXCEPT !.st = st]
           c == CancelFlow(f)
           e == ScheduleComment(c)
           d == IF f.st = "dj_speaking" THEN e ELSE f
<1>0. Opens(dj) /\ chain' = chain /\ ops' = ops /\ Same
  BY DEF TalkMore
<1>1. dj' = d
  BY DEF TalkMore
<1>2. Reached(a)
  BY <1>0, CanOpen, ControlledReached DEF TalkMore
<1> HIDE DEF a
<1>3. no \in BOOLEAN /\ (st = a.st \/ st \in OnAir)
  BY DEF OnAir
<1> HIDE DEF no, st
<1>4. Incidental(a, b)
  BY <1>2, <1>3 DEF Reached, Incidental, SameRun, Dj
<1>5. Reached(b) /\ b.st = a.st
  BY <1>2, <1>4, ReachedBy DEF Incidental
<1> HIDE DEF b
<1>6. Reached(f)
  <2>1. CASE st = a.st
    <3>1. f = b
      BY <1>5, <2>1 DEF Reached, Dj
    <3> QED
      BY <1>5, <3>1
  <2>2. CASE st \in OnAir
    BY <1>5, <2>2, ReachedEnters
  <2> QED
    BY <1>3, <2>1, <2>2
<1> HIDE DEF f
<1>7. Reached(c)
  BY <1>6, CancelFlowKeeps, ReachedBy DEF Reached
<1> HIDE DEF c
<1>8. Reached(e)
  BY <1>7, ScheduleKeeps, ReachedBy DEF Reached
<1>9. Reached(d)
  BY <1>6, <1>8
<1> HIDE DEF e, d
<1> QED
  BY <1>0, <1>1, <1>9, ControlEnds

LEMMA AskedReached ==
    ASSUME RadioInv, Opens(dj), dj.act # None \/ (dj.st = "idle" /\ opened < MaxActivities) PROVE Reached(Asked)
<1> DEFINE a == Controlled
           no == FALSE
           b == [a EXCEPT !.musicOnly = no, !.awaiting = no]
           c == [b EXCEPT !.pending = NoPending]
<1>1. Asked = c
  BY DEF Asked
<1>2. Reached(a)
  BY ControlledReached
<1>3. no \in BOOLEAN
  OBVIOUS
<1> HIDE DEF a, no
<1>4. Incidental(a, b)
  BY <1>2, <1>3 DEF Reached, Incidental, SameRun, Dj
<1>5. Reached(b)
  BY <1>2, <1>4, ReachedBy
<1> HIDE DEF b
<1>6. Incidental(b, c)
  BY <1>5 DEF Reached, Incidental, SameRun, Dj
<1> HIDE DEF c
<1> QED
  BY <1>1, <1>5, <1>6, ReachedBy

LEMMA ChangeVibeKeeps == ASSUME RadioInv, Asks, ChangeVibe PROVE RadioInv'
<1> DEFINE a == Asked
           s == Slot
           text == FALSE
<1>1. Opens(dj) /\ chain' = chain /\ Same
  BY DEF ChangeVibe
<1>2. Replace(a, s, text)
  BY DEF ChangeVibe
<1>3. Reached(a)
  BY <1>1, CanOpen, AskedReached DEF ChangeVibe
<1>4. Unawaited(s)
  BY SlotIsFree DEF ChangeVibe
<1> HIDE DEF a, s, text
<1>5. DjPart' /\ OpsPart' /\ OpsCalm
  BY <1>2, <1>3, <1>4, AskedMoves, ReplaceKeeps
<1> QED
  BY <1>1, <1>5, RestStays DEF Asks

LEMMA NextTrackKeeps == ASSUME RadioInv, Asks, NextTrack PROVE RadioInv'
<1> DEFINE a == Asked
           s == Slot
           o == Op("next", "find", a, FALSE)
<1>1. Opens(dj) /\ chain' = chain /\ Same /\ dj' = a /\ ops' = [ops EXCEPT ![s] = o]
  BY DEF NextTrack, Use
<1>2. Reached(a)
  BY <1>1, CanOpen, AskedReached DEF NextTrack
<1>3. Unawaited(s) /\ s \in Slots
  BY SlotIsFree DEF NextTrack
<1> HIDE DEF a, s
<1>4. a.act \in Nat /\ a.epoch \in Nat /\ a.act # None /\ a.act <= opened'
  BY <1>2 DEF Reached, Dj
<1>5. o \in Operation /\ o # Free /\ o.kind = "next" /\ o.pc = "find" /\ o.act = a.act /\ o.epoch = a.epoch
  BY <1>4, NoTrack DEF Op, Operation, Free
<1> HIDE DEF o
<1>6. Evolves /\ DjPart' /\ dj'.replacing = dj.replacing
  BY <1>1, <1>2, AskedMoves, ReachedItself
<1>7. Fits(dj', opened', o, s)
  BY <1>1, <1>4, <1>5 DEF Fits, Awaits
<1>8. OpsPart' /\ OpsCalm
  BY <1>1, <1>3, <1>5, <1>6, <1>7, OpsMove DEF OpsCalm, Evolves
<1> QED
  BY <1>1, <1>6, <1>8, RestStays DEF Asks

-----------------------------------------------------------------------------
(* What happens by itself: timers, the subscription and a user turn that ends. *)

LEMMA QuietEnds ==
    ASSUME RadioInv, Unasked, Inner, dj'.replacing = dj.replacing, ops' = ops, chain' = chain, Same
    PROVE  RadioInv'
  BY NothingMoves, RestStays DEF Unasked

LEMMA OpEndsQuietly ==
    ASSUME RadioInv, Unasked, NEW s, Unawaited(s), ops' = [ops EXCEPT ![s] = Free], Inner,
           dj'.replacing = dj.replacing \/ dj.replacing = s, chain' = chain, Same
    PROVE  RadioInv'
  BY OpEnds, RestStays DEF Unasked

LEMMA SubscribeKeeps == ASSUME RadioInv, Unasked, Subscribe PROVE RadioInv'
<1> DEFINE e == ArmIdle(dj, TRUE)
<1>1. dj' = e /\ Within /\ ops' = ops /\ chain' = chain /\ Same
  BY DEF Subscribe, Within, Unasked
<1>2. Incidental(dj, e)
  <2> DEFINE yes == TRUE
  <2>1. Incidental(dj, ArmIdle(dj, yes))
    <3> HIDE DEF yes
    <3> QED
      BY InvTypes, ArmKeeps
  <2> QED
    BY <2>1
<1> HIDE DEF e
<1>3. Inner /\ dj'.replacing = dj.replacing
  BY <1>1, <1>2, InnerByItself
<1> QED
  BY <1>1, <1>3, QuietEnds

LEMMA ResumeKeeps == ASSUME RadioInv, Unasked, NEW b, ResumeAfterUserTurn(b) PROVE RadioInv'
<1> DEFINE no == FALSE
           st == IF dj.st = "yielded" THEN "dj_speaking" ELSE dj.st
           r == [dj EXCEPT !.st = st, !.deferred = no]
           m == [r EXCEPT !.st = "music_only"]
           c == Step("deferred", None, r, None, FALSE)
<1>1. Within /\ ops' = ops /\ Same
  BY DEF ResumeAfterUserTurn, Within, Unasked
<1>2. \/ dj' = dj /\ chain' = chain
      \/ dj.st = "yielded" /\ dj' = m /\ chain' = chain
      \/ dj.st = "yielded" /\ Len(chain) < MaxChain /\ dj' = r /\ chain' = Append(chain, c)
      \/ dj.st = "yielded" /\ dj' = ScheduleComment(r) /\ chain' = chain
  BY DEF ResumeAfterUserTurn, Enqueue
<1>3. no \in BOOLEAN /\ st \in States /\ dj \in Dj /\ (dj.st = "yielded" => st = "dj_speaking")
  BY InvTypes DEF States, Dj
<1> HIDE DEF no, st
<1>4. Becomes(dj, r, st, dj.replacing)
  BY <1>3 DEF Dj, Becomes, SameRun
<1> HIDE DEF r
<1>5. Becomes(r, m, "music_only", r.replacing)
  BY <1>4 DEF Dj, Becomes, SameRun, States
<1> HIDE DEF m
<1>6. c \in Utterance /\ c.what = "deferred" /\ c.slot = None
  <2>1. r.act \in Nat /\ r.epoch \in Nat
    BY <1>4 DEF Becomes, Dj
  <2> QED
    BY <2>1, NoTrack DEF Step, Utterance
<1>7. c.epoch = r.epoch
  BY DEF Step
<1> HIDE DEF c
<1>8. CASE dj' = dj /\ chain' = chain
  BY <1>1, <1>8, InnerUnmoved, QuietEnds
<1>9. CASE dj.st = "yielded" /\ dj' = m /\ chain' = chain
  <2>1. Inner /\ dj'.replacing = dj.replacing
    BY <1>1, <1>4, <1>5, <1>9 DEF Becomes, SameRun, Inner, Within, OnAir
  <2> QED
    BY <1>1, <1>9, <2>1, QuietEnds
<1>10. CASE dj.st = "yielded" /\ Len(chain) < MaxChain /\ dj' = r /\ chain' = Append(chain, c)
  <2>1. Inner /\ dj'.replacing = dj.replacing
    BY <1>1, <1>3, <1>4, <1>10 DEF Becomes, SameRun, Inner, Within, OnAir
  <2>2. DjPart' /\ OpsPart' /\ OpsCalm
    BY <1>1, <2>1, NothingMoves
  <2>3. player' = player /\ loaded' = loaded /\ mail' = mail /\ Noted
    BY <1>1 DEF Same, Unasked
  <2>4. PlayerPart'
    BY <2>3, PlayerStays
  <2>5. ChainPart'
    BY <1>6, <1>7, <1>10, <2>2, <2>3, ChainGrows DEF Noted
  <2> QED
    BY <2>2, <2>4, <2>5 DEF RadioInv
<1>11. CASE dj.st = "yielded" /\ dj' = ScheduleComment(r) /\ chain' = chain
  <2> DEFINE e == ScheduleComment(r)
  <2>1. Incidental(r, e)
    BY <1>4, ScheduleKeeps DEF Becomes
  <2>2. dj' = e
    BY <1>11
  <2> HIDE DEF e
  <2>3. Inner /\ dj'.replacing = dj.replacing
    BY <1>1, <1>3, <1>4, <1>11, <2>1, <2>2 DEF Becomes, Incidental, SameRun, Inner, Within, OnAir
  <2> QED
    BY <1>1, <1>11, <2>3, QuietEnds
<1> QED
  BY <1>2, <1>8, <1>9, <1>10, <1>11

LEMMA IdleKeeps == ASSUME RadioInv, Unasked, IdleFires PROVE RadioInv'
<1> DEFINE c == CancelFlow(dj)
<1>1. Incidental(dj, c) /\ c \in Dj /\ dj \in Dj
  BY InvTypes, CancelFlowKeeps DEF Incidental
<1>2. chain' = chain /\ Same /\ opened < MaxActivities /\ FreeSlots # {}
  BY DEF IdleFires
<1>3. CASE dj' = CancelFlow(dj) /\ UNCHANGED <<ops, lanes, opened>>
  <2>1. Inner /\ dj'.replacing = dj.replacing
    BY <1>1, <1>3, InnerByItself DEF Within, Unasked
  <2> QED
    BY <1>2, <1>3, <2>1, QuietEnds
<1>4. CASE ~(dj' = CancelFlow(dj) /\ UNCHANGED <<ops, lanes, opened>>)
  <2> DEFINE no == FALSE
             n == opened + 1
             ep == c.epoch + 1
             e1 == [c EXCEPT !.st = "selecting", !.act = n]
             d == [e1 EXCEPT !.aborted = no, !.epoch = ep]
             o == Op("start", "find", d, FALSE)
             s == Slot
  <2>1. dj' = d /\ opened' = n /\ lanes' = lanes \cup {d.act} /\ ops' = [ops EXCEPT ![s] = o]
    BY <1>4 DEF IdleFires, Use
  <2>2. /\ no \in BOOLEAN /\ n \in Nat /\ n # None /\ n > opened /\ n \in opened..MaxActivities
        /\ ep \in Nat /\ ep = dj.epoch + 1
    BY <1>1, <1>2, InvTypes, Constants DEF None, Incidental, SameRun, Dj
  <2>3. lanes \subseteq 1..opened /\ 1..opened \subseteq 1..n /\ n \in 1..n
    BY InvTypes DEF RadioInv, DjPart
  <2>4. Unawaited(s) /\ s \in Slots
    BY <1>2, SlotIsFree
  <2>5. asked' \in asked..MaxRequests /\ asked \in Nat /\ opened \in Nat /\ asked' = asked
    BY AskedMoves, InvTypes DEF Unasked
  <2>6. asked' + opened' > asked + opened
    BY <2>1, <2>5
  <2> HIDE DEF c, no, n, ep, s
  <2>7. e1 \in Dj /\ e1.st = "selecting" /\ e1.act = n
    BY <1>1, <2>2 DEF Dj, States
  <2> HIDE DEF e1
  <2>8. d \in Dj /\ d.st = "selecting" /\ d.act = n /\ d.epoch = ep
    BY <2>2, <2>7 DEF Dj
  <2> HIDE DEF d
  <2>9. o \in Operation /\ o # Free /\ o.kind = "start" /\ o.pc = "find" /\ o.act = n /\ o.epoch = ep
    BY <2>2, <2>8, NoTrack DEF Op, Operation, Free
  <2> HIDE DEF o
  <2>10. Evolves /\ DjPart' /\ ~SameRun(dj, dj')
    <3>1. lanes' \subseteq 1..opened' /\ dj'.act <= opened' /\ opened' \in opened..MaxActivities
      BY <2>1, <2>2, <2>3, <2>8
    <3> QED
      BY <2>1, <2>2, <2>5, <2>6, <2>8, <3>1, NewEpoch
  <2>11. Fits(dj', opened', o, s)
    BY <2>1, <2>2, <2>8, <2>9 DEF Fits, Awaits
  <2>12. OpsPart' /\ OpsCalm
    BY <2>1, <2>4, <2>9, <2>10, <2>11, OpsMove DEF OpsCalm, Evolves
  <2> QED
    BY <1>2, <2>10, <2>12, RestStays DEF Unasked
<1> QED
  BY <1>3, <1>4

LEMMA CommentFiresKeeps == ASSUME RadioInv, Unasked, CommentFires PROVE RadioInv'
<1> DEFINE d == CancelFlow(dj)
           o == Op("comment", "status", d, FALSE)
           s == Slot
<1>1. dj' = d /\ chain' = chain /\ Same /\ Within /\ (ops' = ops \/ ops' = [ops EXCEPT ![s] = o])
  BY DEF CommentFires, Calm, Within, Use, Unasked
<1>2. Unawaited(s) /\ s \in Slots
  BY SlotIsFree DEF CommentFires
<1>3. Incidental(dj, d)
  BY InvTypes, CancelFlowKeeps
<1> HIDE DEF d, s
<1>4. Inner /\ dj'.replacing = dj.replacing
  BY <1>1, <1>3, InnerByItself
<1>5. Evolves /\ DjPart'
  BY <1>4, InnerKeeps
<1>6. d.act \in Nat /\ d.epoch \in Nat
  BY <1>3 DEF Incidental, Dj
<1>7. o \in Operation /\ o # Free /\ o.kind = "comment" /\ o.pc = "status" /\ o.act = d.act /\ o.epoch = d.epoch
  BY <1>6, NoTrack DEF Op, Operation, Free
<1> HIDE DEF o
<1>8. Fits(dj', opened', o, s)
  BY <1>1, <1>5, <1>6, <1>7 DEF Fits, Awaits, DjPart
<1>9. CASE ops' = ops
  BY <1>1, <1>4, <1>9, QuietEnds
<1>10. CASE ops' = [ops EXCEPT ![s] = o]
  <2>1. OpsPart' /\ OpsCalm
    BY <1>2, <1>4, <1>5, <1>7, <1>8, <1>10, OpsMove DEF OpsCalm, Evolves
  <2> QED
    BY <1>1, <1>5, <2>1, RestStays DEF Unasked
<1> QED
  BY <1>1, <1>9, <1>10

-----------------------------------------------------------------------------
(* Stopping, searching.                                                       *)

\* An operation that waits for something other than a comment.
LEMMA WaitsElsewhere ==
    ASSUME RadioInv, NEW s \in Slots, ops[s] # Free, ops[s].pc # "chain"
    PROVE  Unawaited(s) /\ ops[s] \in Operation /\ Fits(dj, opened, ops[s], s)
  BY InvTypes DEF Unawaited

LEMMA StopReturnsKeeps == ASSUME RadioInv, Unasked, NEW s \in Slots, StopReturns(s) PROVE RadioInv'
<1>1. /\ dj' = [dj EXCEPT !.act = None] /\ lanes' \subseteq lanes /\ opened' = opened
      /\ ops' = [ops EXCEPT ![s] = Free] /\ chain' = chain /\ Same
  BY DEF StopReturns, Use
<1>2. Unawaited(s)
  <2>1. ops[s] # Free /\ ops[s].kind = "stop"
    BY DEF StopReturns
  <2>2. ops[s].pc # "chain"
    BY <2>1, InvTypes DEF Fits, Awaits
  <2> QED
    BY <2>1, <2>2, WaitsElsewhere
<1>3. dj \in Dj /\ dj' \in Dj /\ dj'.act = None /\ dj'.epoch = dj.epoch /\ dj'.st = dj.st
      /\ dj'.aborted = dj.aborted /\ dj'.replacing = dj.replacing
  BY <1>1, InvTypes DEF Dj, None
<1>4. Evolves
  BY <1>1, <1>3, InvTypes DEF Evolves, RadioInv, DjPart
<1>5. DjPart'
  BY <1>1, <1>3, InvTypes DEF RadioInv, DjPart, Unasked, None
<1>6. OpsPart' /\ OpsCalm
  BY <1>1, <1>2, <1>3, <1>4, OpsMove DEF OpsCalm, Evolves
<1> QED
  BY <1>1, <1>5, <1>6, RestStays DEF Unasked

LEMMA AwaitingMusic ==
    ASSUME NEW d \in Dj
    PROVE  Becomes(d, [d EXCEPT !.awaiting = TRUE, !.st = "music_only"], "music_only", d.replacing)
<1> DEFINE yes == TRUE
           e == [d EXCEPT !.awaiting = yes, !.st = "music_only"]
<1>1. yes \in BOOLEAN
  OBVIOUS
<1> HIDE DEF yes
<1>2. Becomes(d, e, "music_only", d.replacing)
  BY <1>1 DEF Dj, Becomes, SameRun, States
<1> QED
  BY <1>2 DEF yes

LEMMA NoticedMusic ==
    ASSUME NEW d \in Dj
    PROVE  Becomes(d, [d EXCEPT !.st = "music_only", !.notices = @ \cup {"replace"}], "music_only", d.replacing)
<1> DEFINE ns == d.notices \cup {"replace"}
           e == [d EXCEPT !.st = "music_only", !.notices = ns]
<1>1. ns \in SUBSET {"replace", "next"}
  BY DEF Dj
<1> HIDE DEF ns
<1>2. Becomes(d, e, "music_only", d.replacing)
  BY <1>1 DEF Dj, Becomes, SameRun, States
<1> QED
  BY <1>2 DEF ns

\* The operation of slot s ends, after its attempt and the state st.
LEMMA DoneThen ==
    ASSUME RadioInv, Unasked, NEW s, Unawaited(s), ops' = [ops EXCEPT ![s] = Free], chain' = chain, Same, Within,
           NEW st \in {dj.st} \cup OnAir, Becomes(Done(dj, s), dj', st, Done(dj, s).replacing)
    PROVE  RadioInv'
<1>1. Becomes(dj, Done(dj, s), dj.st, IF dj.replacing = s THEN None ELSE dj.replacing)
  BY InvTypes, DoneKeeps
<1>2. Inner /\ (dj'.replacing = dj.replacing \/ dj.replacing = s)
  BY <1>1 DEF Becomes, SameRun, Inner, Within, OnAir
<1> QED
  BY <1>2, OpEndsQuietly

LEMMA DoneOnly ==
    ASSUME RadioInv, Unasked, NEW s, Unawaited(s), ops' = [ops EXCEPT ![s] = Free], chain' = chain, Same, Within,
           dj' = Done(dj, s)
    PROVE  RadioInv'
<1>1. Becomes(dj, Done(dj, s), dj.st, IF dj.replacing = s THEN None ELSE dj.replacing)
  BY InvTypes, DoneKeeps
<1>2. Inner /\ (dj'.replacing = dj.replacing \/ dj.replacing = s)
  BY <1>1 DEF Becomes, SameRun, Inner, Within, OnAir
<1> QED
  BY <1>2, OpEndsQuietly

LEMMA FindThrowsKeeps == ASSUME RadioInv, Unasked, NEW s \in Slots, FindThrows(s) PROVE RadioInv'
<1>1. chain' = chain /\ Same /\ Within /\ ops[s] # Free /\ ops[s].pc # "chain"
  BY DEF FindThrows, Calm, Within, Unasked
<1>2. Unawaited(s) /\ dj \in Dj /\ Done(dj, s) \in Dj
  BY <1>1, InvTypes, WaitsElsewhere, DoneKeeps DEF Becomes
<1>3. CASE ops[s].kind = "start" /\ StartThrows(s, ops[s])
  <2> DEFINE b == [dj EXCEPT !.st = "idle"]
             e == ArmIdle(b, subscribed)
  <2>1. ops' = [ops EXCEPT ![s] = Free] /\ (dj' = dj \/ dj' = e)
    BY <1>3 DEF StartThrows, Use
  <2>2. Becomes(dj, b, "idle", dj.replacing)
    BY <1>2, EntersState DEF States
  <2> HIDE DEF b
  <2>3. Incidental(b, e)
    BY <2>2, ArmKeeps DEF Becomes
  <2> HIDE DEF e
  <2>4. Inner /\ dj'.replacing = dj.replacing
    <3>1. CASE dj' = dj
      BY <1>1, <3>1, InnerUnmoved
    <3>2. CASE dj' = e
      BY <1>1, <3>2, <2>2, <2>3 DEF Becomes, Incidental, SameRun, Inner, Within, OnAir
    <3> QED
      BY <2>1, <3>1, <3>2
  <2> QED
    BY <1>1, <1>2, <2>1, <2>4, OpEndsQuietly
<1>4. CASE /\ dj' = [Done(dj, s) EXCEPT !.awaiting = TRUE, !.st = "music_only"] /\ Use(s, Free)
  BY <1>1, <1>2, <1>4, AwaitingMusic, DoneThen DEF Use, OnAir
<1>5. CASE /\ dj' = [Done(dj, s) EXCEPT !.st = "music_only", !.notices = @ \cup {"replace"}] /\ Use(s, Free)
  BY <1>1, <1>2, <1>5, NoticedMusic, DoneThen DEF Use, OnAir
<1>6. CASE dj' = Done(dj, s) /\ Use(s, Free)
  BY <1>1, <1>2, <1>6, DoneOnly DEF Use
<1>7. ops[s].kind \in {"start", "realtime", "replace"}
  <2>1. ops[s] # Free /\ ops[s].kind # "next" /\ ops[s].pc \in {"find", "retry"}
    BY DEF FindThrows
  <2> QED
    BY <1>1, <2>1, WaitsElsewhere DEF Fits, Awaits
<1> QED
  BY <1>3, <1>4, <1>5, <1>6, <1>7 DEF FindThrows

\* What the player becomes, and what it reports.
LEMMA PlayerMoves ==
    ASSUME RadioInv, Noted, loaded' \in loaded..MaxTracks,
           player' \in [track: 0..loaded', status: {"stopped", "loading", "playing", "ended", "error"}, queued: BOOLEAN],
           player'.status # "stopped" => player'.track # None,
           \A e \in mail' : e \in mail \/ (/\ e \in BgmEvent /\ (e.kind = "playing" => e.track \in played')
                                         /\ (e.kind = "changed" => e.next # None))
    PROVE  PlayerPart'
<1>1. /\ loaded \in 0..MaxTracks /\ mail \subseteq BgmEvent
      /\ \A e \in mail : (e.kind = "playing" => e.track \in played) /\ (e.kind = "changed" => e.next # None)
  BY DEF RadioInv, PlayerPart
<1>2. loaded' \in 0..MaxTracks
  BY <1>1, Constants
<1>3. /\ mail' \subseteq BgmEvent
      /\ \A e \in mail' : (e.kind = "playing" => e.track \in played') /\ (e.kind = "changed" => e.next # None)
  BY <1>1 DEF Noted
<1> QED
  BY <1>2, <1>3 DEF PlayerPart, Noted

LEMMA Loads == 
    ASSUME RadioInv, loaded < MaxTracks, loaded' = loaded + 1, player' = Load(loaded + 1)
    PROVE  /\ loaded' \in loaded..MaxTracks /\ loaded + 1 \in Tracks
           /\ player' \in [track: 0..loaded', status: {"stopped", "loading", "playing", "ended", "error"}, queued: BOOLEAN]
           /\ player'.status # "stopped" => player'.track # None
           /\ player'.track = loaded + 1
<1>1. loaded \in Nat /\ loaded + 1 # None /\ loaded + 1 \in 0..(loaded + 1)
  BY Constants DEF RadioInv, PlayerPart, None
<1> QED
  BY <1>1, Constants DEF Load, Tracks

LEMMA FindKeeps == ASSUME RadioInv, Unasked, NEW s \in Slots, Find(s) PROVE RadioInv'
<1> DEFINE o == ops[s]
           spot == IF o.pc = "retry" THEN "observe2" ELSE "observe"
           pr == IF o.pc = "retry" THEN o.prev ELSE player.track
           sent == [o EXCEPT !.pc = spot, !.prev = pr]
           n == loaded + 1
           sentP == [sent EXCEPT !.track = player.track]
           sentN == [sent EXCEPT !.track = n]
<1>1. chain' = chain /\ Within /\ ops[s] # Free /\ ops[s].pc \in {"find", "retry"}
  BY DEF Find, Calm, Within, Unasked
<1>2. Unawaited(s) /\ o \in Operation /\ Fits(dj, opened, o, s)
  BY <1>1, WaitsElsewhere
<1>3. CASE dj' = Done(dj, s) /\ Use(s, Free) /\ Same
  BY <1>1, <1>2, <1>3, DoneOnly DEF Use
<1>4. CASE ~(dj' = Done(dj, s) /\ Use(s, Free) /\ Same)
  <2>1. dj' = dj /\ mail' = mail
    BY <1>4 DEF Find
  <2>2. \/ ops' = [ops EXCEPT ![s] = sent] /\ player' = player /\ loaded' = loaded
        \/ ops' = [ops EXCEPT ![s] = sentP] /\ player' = player /\ loaded' = loaded
        \/ ops' = [ops EXCEPT ![s] = sentN] /\ loaded < MaxTracks /\ loaded' = loaded + 1 /\ player' = Load(loaded + 1)
    BY <1>4 DEF Find, Use
  <2>3. Inner /\ dj'.replacing = dj.replacing
    BY <1>1, <2>1, InnerUnmoved
  <2>4. pr \in AnyTracks /\ player.track \in AnyTracks /\ (loaded < MaxTracks => n \in AnyTracks)
    <3>1. o.prev \in AnyTracks
      BY <1>2 DEF Operation
    <3>2. loaded < MaxTracks => n \in AnyTracks
      BY Constants DEF RadioInv, PlayerPart, AnyTracks
    <3> QED
      BY <3>1, <3>2, InvTypes
  <2>5. spot \in {"observe", "observe2"} /\ (spot = "observe2" => o.pc = "retry") /\ (spot = "observe" => o.pc = "find")
    BY <1>1
  <2>6. \A x \in Operation : x.kind = o.kind /\ x.pc = spot => Awaits(x)
    BY <1>2, <2>5 DEF Fits, Awaits
  <2> HIDE DEF spot, pr, n, o
  <2>7. /\ sent \in Operation /\ sent.kind = o.kind /\ sent.act = o.act /\ sent.epoch = o.epoch /\ sent.pc = spot
    BY <1>2, <2>4, <2>5 DEF Operation
  <2> HIDE DEF sent
  <2>8. /\ sentP \in Operation /\ sentP.kind = o.kind /\ sentP.act = o.act /\ sentP.epoch = o.epoch /\ sentP.pc = spot
    BY <2>4, <2>7 DEF Operation
  <2>9. loaded < MaxTracks =>
           /\ sentN \in Operation /\ sentN.kind = o.kind /\ sentN.act = o.act /\ sentN.epoch = o.epoch /\ sentN.pc = spot
    BY <2>4, <2>7 DEF Operation
  <2> HIDE DEF sentP, sentN
  <2>10. PICK x \in Operation : /\ ops' = [ops EXCEPT ![s] = x] /\ x.kind = o.kind /\ x.act = o.act
                                /\ x.epoch = o.epoch /\ Awaits(x)
    BY <2>2, <2>6, <2>7, <2>8, <2>9
  <2>11. DjPart' /\ OpsPart'
    BY <1>1, <2>3, <2>10, OpGoesOn DEF o
  <2>12. OpsCalm
    BY <1>2, <2>3, <2>10, InnerGrows DEF OpsCalm
  <2>13. ChainPart'
    BY <1>1, <2>12, ChainStays DEF Unasked, Noted
  <2>14. PlayerPart'
    <3>1. CASE player' = player /\ loaded' = loaded
      BY <2>1, <3>1, PlayerStays DEF Unasked
    <3>2. CASE loaded < MaxTracks /\ loaded' = loaded + 1 /\ player' = Load(loaded + 1)
      BY <2>1, <3>2, Loads, PlayerMoves DEF Unasked
    <3> QED
      BY <2>2, <3>1, <3>2
  <2> QED
    BY <2>11, <2>13, <2>14 DEF RadioInv
<1> QED
  BY <1>3, <1>4

-----------------------------------------------------------------------------
(* What the adapter observed.                                                 *)

LEMMA DoneFrom ==
    ASSUME RadioInv, Unasked, NEW s, Unawaited(s), ops' = [ops EXCEPT ![s] = Free], Within,
           NEW d, Incidental(dj, d), NEW st \in {d.st} \cup OnAir, Becomes(Done(d, s), dj', st, Done(d, s).replacing)
    PROVE  DjPart' /\ OpsPart' /\ OpsCalm
<1>1. Becomes(d, Done(d, s), d.st, IF d.replacing = s THEN None ELSE d.replacing)
  BY DoneKeeps DEF Incidental
<1>2. Inner /\ (dj'.replacing = dj.replacing \/ dj.replacing = s)
  BY <1>1 DEF Becomes, Incidental, SameRun, Inner, Within, OnAir
<1> QED
  BY <1>2, OpEnds

\* An operation that ends by itself.
LEMMA OpOver ==
    ASSUME RadioInv, NEW s, Unawaited(s), ops' = [ops EXCEPT ![s] = Free], Within,
           NEW d, Incidental(dj, d), NEW st \in {d.st} \cup OnAir, Becomes(d, dj', st, d.replacing)
    PROVE  DjPart' /\ OpsPart' /\ OpsCalm
<1>1. Inner /\ dj'.replacing = dj.replacing
  BY DEF Becomes, Incidental, SameRun, Inner, Within, OnAir
<1> QED
  BY <1>1, OpEnds

LEMMA GivesUp ==
    ASSUME NEW d \in Dj
    PROVE  Becomes(d, [d EXCEPT !.awaiting = TRUE, !.st = "music_only", !.notices = @ \cup {"replace"}],
                   "music_only", d.replacing)
<1> DEFINE yes == TRUE
           ns == d.notices \cup {"replace"}
           a == [d EXCEPT !.awaiting = yes, !.st = "music_only"]
           e == [a EXCEPT !.notices = ns]
<1>1. yes \in BOOLEAN /\ ns \in SUBSET {"replace", "next"}
  BY DEF Dj
<1>2. [d EXCEPT !.awaiting = TRUE, !.st = "music_only", !.notices = @ \cup {"replace"}] = e
  OBVIOUS
<1> HIDE DEF yes, ns
<1>3. Becomes(d, a, "music_only", d.replacing)
  BY <1>1 DEF Dj, Becomes, SameRun, States
<1> HIDE DEF a
<1>4. Becomes(a, e, "music_only", a.replacing)
  BY <1>1, <1>3 DEF Dj, Becomes, SameRun
<1> HIDE DEF e
<1> QED
  BY <1>2, <1>3, <1>4 DEF Becomes, SameRun

LEMMA IncidentalTwice == ASSUME NEW d, NEW e, NEW f, Incidental(d, e), Incidental(e, f) PROVE Incidental(d, f)
  BY DEF Incidental, SameRun

LEMMA AcceptsResult ==
    ASSUME NEW d \in Dj, NEW t \in AnyTracks
    PROVE  Incidental(d, AcceptTrack(Settled(d), None, t))
<1> DEFINE e == Settled(d)
<1>1. Incidental(d, e) /\ e \in Dj
  BY SettledKeeps DEF Incidental
<1> HIDE DEF e
<1>2. Incidental(e, AcceptTrack(e, None, t))
  BY <1>1, NoTrack, AcceptKeeps
<1>3. Incidental(d, AcceptTrack(e, None, t))
  BY <1>1, <1>2, IncidentalTwice
<1> QED
  BY <1>3 DEF e

LEMMA CompensateKeeps ==
    ASSUME RadioInv, NEW s, Unawaited(s), ops[s] \in Operation, NEW bad, Compensate(ops[s], s, bad), Within
    PROVE  DjPart' /\ OpsPart' /\ OpsCalm
<1> DEFINE d == Done(dj, s)
           ps == IF bad THEN d.preserve \ {ops[s].epoch} ELSE d.preserve
           e == [d EXCEPT !.preserve = ps]
<1>1. dj' = e /\ ops' = [ops EXCEPT ![s] = Free]
  BY DEF Compensate, Use
<1>2. Becomes(dj, d, dj.st, IF dj.replacing = s THEN None ELSE dj.replacing)
  BY InvTypes, DoneKeeps
<1> HIDE DEF d
<1>3. ps \in SUBSET Nat
  BY <1>2 DEF Becomes, Dj
<1> HIDE DEF ps
<1>4. Incidental(d, e)
  BY <1>2, <1>3 DEF Becomes, Incidental, SameRun, Dj
<1> HIDE DEF e
<1>5. Inner /\ (dj'.replacing = dj.replacing \/ dj.replacing = s)
  BY <1>1, <1>2, <1>4 DEF Becomes, Incidental, SameRun, Inner, Within
<1> QED
  BY <1>1, <1>5, OpEnds

LEMMA StartResultKeeps ==
    ASSUME RadioInv, NEW s, Unawaited(s), NEW o \in Operation, NEW ok, StartResult(s, o, ok), Within
    PROVE  DjPart' /\ OpsPart' /\ OpsCalm
<1> DEFINE d == AcceptTrack(Settled(dj), None, o.track)
           m == MarkAnnounced(d, d.playback, o.track)
           b == [m EXCEPT !.st = "dj_speaking"]
           e == ScheduleComment(b)
<1>1. o.track \in AnyTracks /\ dj \in Dj /\ Incidental(dj, dj)
  BY InvTypes, SameIsIncidental DEF Operation
<1>2. Incidental(dj, d)
  BY <1>1, AcceptsResult
<1>3. \/ dj' = [dj EXCEPT !.awaiting = TRUE, !.st = "music_only"] /\ ops' = [ops EXCEPT ![s] = Free]
      \/ dj' = e /\ ops' = [ops EXCEPT ![s] = Free]
      \/ Introduce(d, s, o, d.playback, o.track)
  BY DEF StartResult, Use
<1> HIDE DEF d
<1>4. d \in Dj /\ d.playback \in AnyTracks
  BY <1>2 DEF Incidental, Dj
<1>5. Incidental(d, m)
  BY <1>1, <1>4, MarkKeeps
<1> HIDE DEF m
<1>6. Becomes(m, b, "dj_speaking", m.replacing)
  BY <1>5, EntersState DEF Incidental, States
<1> HIDE DEF b
<1>7. Incidental(b, e)
  BY <1>6, ScheduleKeeps DEF Becomes
<1> HIDE DEF e
<1>8. CASE dj' = [dj EXCEPT !.awaiting = TRUE, !.st = "music_only"] /\ ops' = [ops EXCEPT ![s] = Free]
  BY <1>1, <1>8, AwaitingMusic, OpOver DEF OnAir
<1>9. CASE dj' = e /\ ops' = [ops EXCEPT ![s] = Free]
  <2>1. Becomes(d, dj', "dj_speaking", d.replacing)
    BY <1>5, <1>6, <1>7, <1>9 DEF Becomes, Incidental, SameRun
  <2> QED
    BY <1>2, <1>9, <2>1, OpOver DEF OnAir
<1>10. CASE Introduce(d, s, o, d.playback, o.track)
  BY <1>1, <1>2, <1>4, <1>10, IntroduceKeeps
<1> QED
  BY <1>3, <1>8, <1>9, <1>10

LEMMA NextResultKeeps ==
    ASSUME RadioInv, NEW s, Unawaited(s), NEW o \in Operation, NEW ok, NextResult(s, o, ok), Within,
           dj.act # None, asked' \in asked..MaxRequests
    PROVE  DjPart' /\ OpsPart' /\ OpsCalm
<1> DEFINE r == RetireTrack(dj, o.prev, o.prev)
           d == AcceptTrack(r, None, o.track)
           no == FALSE
<1>1. o.track \in AnyTracks /\ o.prev \in AnyTracks /\ dj \in Dj /\ None \in AnyTracks
  BY InvTypes, NoTrack DEF Operation
<1>2. Introduce(d, s, o, None, o.track) \/ Replace(dj, s, no)
  BY DEF NextResult
<1>3. Incidental(dj, r) /\ r \in Dj
  BY <1>1, RetireKeeps DEF Incidental
<1> HIDE DEF r
<1>4. Incidental(r, d)
  BY <1>1, <1>3, AcceptKeeps
<1> HIDE DEF d, no
<1>5. Incidental(dj, d)
  BY <1>3, <1>4, IncidentalTwice
<1>6. CASE Introduce(d, s, o, None, o.track)
  BY <1>1, <1>5, <1>6, IntroduceKeeps
<1>7. CASE Replace(dj, s, no)
  BY <1>7, ReachedAlready, ReplaceKeeps
<1> QED
  BY <1>2, <1>6, <1>7

LEMMA ReplaceResultKeeps ==
    ASSUME RadioInv, Unasked, NEW s, Unawaited(s), ops[s] \in Operation, ops[s] # Free, ops[s].kind = "replace",
           NEW ok, ReplaceResult(s, ops[s], ok), Within
    PROVE  DjPart' /\ OpsPart' /\ OpsCalm
<1> DEFINE o == ops[s]
           r == RetireTrack(dj, o.prev, o.prev)
           d == AcceptTrack(Settled(r), None, o.track)
           on == [o EXCEPT !.pc = "recheck"]
<1>1. o.track \in AnyTracks /\ o.prev \in AnyTracks /\ dj \in Dj /\ Incidental(dj, dj) /\ s \in Slots
  BY InvTypes, SameIsIncidental DEF Operation, Unawaited
<1>2. \/ Introduce(d, s, o, d.playback, o.track)
      \/ dj' = dj /\ ops' = [ops EXCEPT ![s] = on]
      \/ /\ dj' = [Done(dj, s) EXCEPT !.awaiting = TRUE, !.st = "music_only", !.notices = @ \cup {"replace"}]
         /\ ops' = [ops EXCEPT ![s] = Free]
  BY DEF ReplaceResult, Use
<1>3. Incidental(dj, r) /\ r \in Dj
  BY <1>1, RetireKeeps DEF Incidental
<1> HIDE DEF r
<1>4. Incidental(r, d)
  BY <1>1, <1>3, AcceptsResult
<1> HIDE DEF d
<1>5. Incidental(dj, d) /\ d.playback \in AnyTracks
  BY <1>3, <1>4, IncidentalTwice DEF Incidental, Dj
<1>6. CASE Introduce(d, s, o, d.playback, o.track)
  BY <1>1, <1>5, <1>6, IntroduceKeeps
<1>7. CASE dj' = dj /\ ops' = [ops EXCEPT ![s] = on]
  <2> HIDE DEF o
  <2>1. on \in Operation /\ on.kind = o.kind /\ on.act = o.act /\ on.epoch = o.epoch /\ on.pc = "recheck"
    BY DEF Operation, o
  <2> HIDE DEF on
  <2>2. Awaits(on)
    BY <2>1 DEF Awaits, o
  <2>3. Inner /\ dj'.replacing = dj.replacing
    BY <1>7, InnerUnmoved
  <2> QED
    BY <1>1, <1>7, <2>1, <2>2, <2>3, OpGoesOn, InnerGrows DEF o, OpsCalm
<1>8. CASE /\ dj' = [Done(dj, s) EXCEPT !.awaiting = TRUE, !.st = "music_only", !.notices = @ \cup {"replace"}]
           /\ ops' = [ops EXCEPT ![s] = Free]
  <2>1. Done(dj, s) \in Dj
    BY <1>1, DoneKeeps DEF Becomes
  <2> QED
    BY <1>1, <1>8, <2>1, GivesUp, DoneFrom DEF OnAir
<1> QED
  BY <1>2, <1>6, <1>7, <1>8

\* An operation that waits for its comment to be written.
LEMMA WaitsForComment ==
    ASSUME RadioInv, Unasked, NEW s, Unawaited(s), ops[s] \in Operation, ops[s] # Free, ops[s].kind = "realtime",
           NEW on, on = [ops[s] EXCEPT !.pc = "chain"], ops' = [ops EXCEPT ![s] = on],
           NEW d, Incidental(dj, d), dj' = d, Within, Len(chain) < MaxChain,
           NEW what \in {"intro", "wrap", "notice", "deferred"}, NEW t \in AnyTracks, what = "intro" => t \in played',
           chain' = Append(chain, Step(what, t, dj, s, ops[s].yielded))
    PROVE  DjPart' /\ OpsPart' /\ ChainPart'
<1> DEFINE c == Step(what, t, dj, s, ops[s].yielded)
           y == ops[s].yielded
<1>1. s \in Slots /\ dj \in Dj /\ s \in {None} \cup Slots /\ y \in BOOLEAN
  BY InvTypes DEF Unawaited, Operation
<1>2. c \in Utterance /\ c.what = what /\ c.track = t /\ c.slot = s
  <2>1. c = Step(what, t, dj, s, y)
    OBVIOUS
  <2> HIDE DEF c, y
  <2> QED
    BY <1>1, <2>1, NewStep
<1>3. /\ on \in Operation /\ on.kind = ops[s].kind /\ on.act = ops[s].act /\ on.epoch = ops[s].epoch
      /\ on.pc = "chain" /\ on # Free
  BY DEF Operation, Free
<1>4. Awaits(on)
  BY <1>3 DEF Awaits
<1>5. Inner /\ dj'.replacing = dj.replacing
  BY InnerByItself
<1>6. DjPart' /\ OpsPart'
  BY <1>1, <1>3, <1>4, <1>5, OpGoesOn
<1>7. OpsCalm /\ ops'[s] = on
  BY <1>1, <1>3, <1>5, InvTypes, InnerGrows DEF OpsCalm
<1>10. c.epoch = dj'.epoch
  BY DEF Step, Incidental, SameRun
<1> HIDE DEF c
<1>8. chain' = Append(chain, c)
  BY DEF c
<1>9. ChainPart'
  BY <1>2, <1>3, <1>7, <1>8, <1>10, ChainGrows DEF Unasked, Noted
<1> QED
  BY <1>6, <1>9

LEMMA RealtimeResultKeeps ==
    ASSUME RadioInv, Unasked, NEW s, Unawaited(s), ops[s] \in Operation, ops[s] # Free, ops[s].kind = "realtime",
           NEW ok, ok => ops[s].track \in played, RealtimeResult(s, ops[s], ok), Within
    PROVE  DjPart' /\ OpsPart' /\ ChainPart'
<1> DEFINE o == ops[s]
           y == o.yielded
           d == AcceptTrack(Settled(dj), None, o.track)
           m == MarkAnnounced(d, d.playback, o.track)
           yes == TRUE
           f == [dj EXCEPT !.pending = AnyTrack, !.awaiting = yes]
           ns == f.notices \cup {"next"}
           g == [f EXCEPT !.notices = ns]
           on == [o EXCEPT !.pc = "chain"]
<1>1. o.track \in AnyTracks /\ dj \in Dj /\ None \in AnyTracks /\ yes \in BOOLEAN
  BY InvTypes, NoTrack DEF Operation
<1>2. Incidental(dj, d)
  BY <1>1, AcceptsResult
<1>3. \/ /\ dj' = [Done(f, s) EXCEPT !.st = IF dj.st = "yielded" \/ y THEN @ ELSE "music_only"]
         /\ ops' = [ops EXCEPT ![s] = Free] /\ chain' = chain
      \/ /\ dj' = g /\ ops' = [ops EXCEPT ![s] = on] /\ Len(chain) < MaxChain
         /\ chain' = Append(chain, Step("notice", None, dj, s, y))
      \/ dj' = [Done(d, s) EXCEPT !.st = "music_only"] /\ ops' = [ops EXCEPT ![s] = Free] /\ chain' = chain
      \/ /\ dj' = Done(d, s) \/ dj' = ScheduleComment([Done(d, s) EXCEPT !.st = "dj_speaking"])
         /\ ops' = [ops EXCEPT ![s] = Free] /\ chain' = chain
      \/ /\ ok /\ dj' = m /\ ops' = [ops EXCEPT ![s] = on] /\ Len(chain) < MaxChain
         /\ chain' = Append(chain, Step("intro", o.track, dj, s, y))
  BY DEF RealtimeResult, Use, Enqueue
<1> HIDE DEF d, yes
<1>4. d \in Dj /\ d.playback \in AnyTracks
  BY <1>2 DEF Incidental, Dj
<1>5. Incidental(dj, m)
  BY <1>1, <1>2, <1>4, MarkKeeps, IncidentalTwice
<1> HIDE DEF m
<1>6. Incidental(dj, f)
  BY <1>1 DEF Incidental, SameRun, Dj
<1> HIDE DEF f
<1>7. Incidental(f, g)
  <2>1. ns \in SUBSET {"replace", "next"} /\ f \in Dj
    BY <1>6 DEF Dj, Incidental
  <2> HIDE DEF ns
  <2> QED
    BY <2>1 DEF Incidental, SameRun, Dj
<1> HIDE DEF g
<1>8. Incidental(dj, g)
  BY <1>6, <1>7, IncidentalTwice
<1>9. Done(f, s) \in Dj /\ Done(d, s) \in Dj /\ Done(f, s).st = f.st /\ Done(d, s).st = d.st
  BY <1>4, <1>6, DoneKeeps DEF Incidental, Becomes
<1>10. CASE /\ dj' = [Done(f, s) EXCEPT !.st = IF dj.st = "yielded" \/ y THEN @ ELSE "music_only"]
            /\ ops' = [ops EXCEPT ![s] = Free] /\ chain' = chain
  <2> DEFINE e == Done(f, s)
             st == IF dj.st = "yielded" \/ y THEN e.st ELSE "music_only"
  <2>1. e \in Dj /\ e.st = f.st
    BY <1>9
  <2>2. dj' = [e EXCEPT !.st = st]
    BY <1>10
  <2>3. st \in {f.st} \cup OnAir /\ st \in States
    BY <2>1 DEF OnAir, States, Dj
  <2> HIDE DEF st
  <2>4. Becomes(e, dj', st, e.replacing)
    <3> HIDE DEF e
    <3> QED
      BY <2>1, <2>2, <2>3, EntersState
  <2>5. DjPart' /\ OpsPart' /\ OpsCalm
    BY <1>6, <1>10, <2>3, <2>4, DoneFrom
  <2> QED
    BY <1>10, <2>5, ChainStays DEF Unasked, Noted
<1>11. CASE dj' = [Done(d, s) EXCEPT !.st = "music_only"] /\ ops' = [ops EXCEPT ![s] = Free] /\ chain' = chain
  <2>1. Becomes(Done(d, s), dj', "music_only", Done(d, s).replacing)
    BY <1>9, <1>11, EntersState DEF States
  <2>2. DjPart' /\ OpsPart' /\ OpsCalm
    BY <1>2, <1>11, <2>1, DoneFrom DEF OnAir
  <2> QED
    BY <1>11, <2>2, ChainStays DEF Unasked, Noted
<1>12. CASE /\ dj' = Done(d, s) \/ dj' = ScheduleComment([Done(d, s) EXCEPT !.st = "dj_speaking"])
            /\ ops' = [ops EXCEPT ![s] = Free] /\ chain' = chain
  <2> DEFINE e == Done(d, s)
             b == [e EXCEPT !.st = "dj_speaking"]
             h == ScheduleComment(b)
  <2>1. dj' = e \/ dj' = h
    BY <1>12
  <2>2. e \in Dj /\ e.st = d.st
    BY <1>9
  <2>3. Becomes(e, b, "dj_speaking", e.replacing)
    <3> HIDE DEF e
    <3> QED
      BY <2>2, EntersState DEF States
  <2> HIDE DEF b
  <2>4. Incidental(b, h)
    BY <2>3, ScheduleKeeps DEF Becomes
  <2> HIDE DEF h
  <2>5. \/ Becomes(e, dj', d.st, e.replacing)
        \/ Becomes(e, dj', "dj_speaking", e.replacing)
    <3> HIDE DEF e
    <3> QED
      BY <2>1, <2>2, <2>3, <2>4 DEF Becomes, Incidental, SameRun
  <2>6. DjPart' /\ OpsPart' /\ OpsCalm
    <3>1. CASE Becomes(e, dj', d.st, e.replacing)
      <4> DEFINE st == d.st
      <4>1. st \in {d.st} \cup OnAir /\ Becomes(e, dj', st, e.replacing)
        BY <3>1
      <4> HIDE DEF st
      <4> QED
        BY <1>2, <1>12, <4>1, DoneFrom
    <3>2. CASE Becomes(e, dj', "dj_speaking", e.replacing)
      BY <1>2, <1>12, <3>2, DoneFrom DEF OnAir
    <3> QED
      BY <2>5, <3>1, <3>2
  <2> QED
    BY <1>12, <2>6, ChainStays DEF Unasked, Noted
<1>13. CASE /\ dj' = g /\ ops' = [ops EXCEPT ![s] = on] /\ Len(chain) < MaxChain
            /\ chain' = Append(chain, Step("notice", None, dj, s, y))
  BY <1>1, <1>8, <1>13, WaitsForComment
<1>14. CASE /\ ok /\ dj' = m /\ ops' = [ops EXCEPT ![s] = on] /\ Len(chain) < MaxChain
            /\ chain' = Append(chain, Step("intro", o.track, dj, s, y))
  <2>1. o.track \in played'
    BY <1>14 DEF Unasked, Noted
  <2> QED
    BY <1>1, <1>5, <1>14, <2>1, WaitsForComment
<1> QED
  BY <1>3, <1>10, <1>11, <1>12, <1>13, <1>14

LEMMA ObserveKeeps == ASSUME RadioInv, Unasked, NEW s \in Slots, Observe(s) PROVE RadioInv'
<1> DEFINE o == ops[s]
           ok == Observed(o)
           bad == ok \/ o.kind = "next"
<1>1. Within /\ o # Free /\ o.pc \in {"observe", "observe2"} /\ loaded' = loaded /\ mail' = mail
  BY DEF Observe, Calm, Within, Unasked
<1>2. Unawaited(s) /\ o \in Operation /\ Fits(dj, opened, o, s)
  BY <1>1, WaitsElsewhere
<1>3. o.kind \in {"start", "next", "replace", "realtime"}
  BY <1>1, <1>2 DEF Fits, Awaits
<1>4. ok => o.track \in played
  BY DEF Observed, RadioInv, PlayerPart
<1>5. PlayerPart'
  <2>1. player' = player \/ player' = [player EXCEPT !.status = "stopped", !.queued = FALSE]
    BY DEF Observe, Compensate, StopPlayer
  <2> QED
    BY <1>1, <2>1, PlayerStays DEF Unasked
<1>6. CASE ~Current(dj, o)
  <2>1. Compensate(o, s, bad)
    BY <1>6 DEF Observe
  <2>2. chain' = chain
    BY <2>1 DEF Compensate
  <2> HIDE DEF bad
  <2>3. DjPart' /\ OpsPart' /\ OpsCalm
    BY <1>1, <1>2, <2>1, CompensateKeeps
  <2> QED
    BY <1>5, <2>2, <2>3, ChainStays DEF RadioInv, Unasked, Noted
<1>7. CASE Current(dj, o)
  <2>1. \/ o.kind = "start" /\ StartResult(s, o, ok) /\ chain' = chain
        \/ o.kind = "next" /\ NextResult(s, o, ok) /\ chain' = chain
        \/ o.kind = "replace" /\ ReplaceResult(s, o, ok) /\ chain' = chain
        \/ o.kind = "realtime" /\ RealtimeResult(s, o, ok)
    BY <1>3, <1>7 DEF Observe
  <2> HIDE DEF ok
  <2>2. CASE o.kind = "start" /\ StartResult(s, o, ok) /\ chain' = chain
    <3>1. DjPart' /\ OpsPart' /\ OpsCalm
      BY <1>1, <1>2, <2>2, StartResultKeeps
    <3> QED
      BY <1>5, <2>2, <3>1, ChainStays DEF RadioInv, Unasked, Noted
  <2>3. CASE o.kind = "next" /\ NextResult(s, o, ok) /\ chain' = chain
    <3>1. dj.act # None
      BY <1>2, <1>7, <2>3 DEF Fits, Current
    <3>2. DjPart' /\ OpsPart' /\ OpsCalm
      BY <1>1, <1>2, <2>3, <3>1, AskedMoves, NextResultKeeps
    <3> QED
      BY <1>5, <2>3, <3>2, ChainStays DEF RadioInv, Unasked, Noted
  <2>4. CASE o.kind = "replace" /\ ReplaceResult(s, o, ok) /\ chain' = chain
    <3>1. DjPart' /\ OpsPart' /\ OpsCalm
      BY <1>1, <1>2, <2>4, ReplaceResultKeeps
    <3> QED
      BY <1>5, <2>4, <3>1, ChainStays DEF RadioInv, Unasked, Noted
  <2>5. CASE o.kind = "realtime" /\ RealtimeResult(s, o, ok)
    <3>1. DjPart' /\ OpsPart' /\ ChainPart'
      BY <1>1, <1>2, <1>4, <2>5, RealtimeResultKeeps
    <3> QED
      BY <1>5, <3>1 DEF RadioInv
  <2> QED
    BY <2>1, <2>2, <2>3, <2>4, <2>5
<1> QED
  BY <1>6, <1>7

LEMMA RecheckKeeps == ASSUME RadioInv, Unasked, NEW s \in Slots, Recheck(s) PROVE RadioInv'
<1> DEFINE o == ops[s]
           t == player.track
           left == RetireTrack(dj, o.prev, o.prev)
           q == Settled(left)
           d == AcceptTrack(q, t, t)
           on == [o EXCEPT !.pc = "retry"]
<1>1. Within /\ o # Free /\ o.pc = "recheck" /\ chain' = chain /\ Same
  BY DEF Recheck, Calm, Within, Unasked
<1>2. Unawaited(s) /\ o \in Operation /\ Fits(dj, opened, o, s)
  BY <1>1, WaitsElsewhere
<1>3. o.prev \in AnyTracks /\ t \in AnyTracks /\ dj \in Dj
  BY <1>2, InvTypes DEF Operation
<1>4. \/ dj' = Done(dj, s) /\ ops' = [ops EXCEPT ![s] = Free]
      \/ Introduce(d, s, o, t, t)
      \/ dj' = [Done(left, s) EXCEPT !.awaiting = TRUE, !.st = "music_only"] /\ ops' = [ops EXCEPT ![s] = Free]
      \/ dj' = dj /\ ops' = [ops EXCEPT ![s] = on]
  BY DEF Recheck, Use
<1> HIDE DEF t
<1>5. Incidental(dj, left) /\ left \in Dj
  BY <1>3, RetireKeeps DEF Incidental
<1> HIDE DEF left
<1>6. Incidental(left, q) /\ q \in Dj
  BY <1>5, SettledKeeps DEF Incidental
<1> HIDE DEF q
<1>7. Incidental(q, d)
  BY <1>3, <1>6, AcceptKeeps
<1> HIDE DEF d
<1>8. Incidental(dj, d)
  BY <1>5, <1>6, <1>7, IncidentalTwice
<1>9. CASE dj' = Done(dj, s) /\ ops' = [ops EXCEPT ![s] = Free]
  BY <1>1, <1>2, <1>9, DoneOnly
<1>10. CASE Introduce(d, s, o, t, t)
  <2>1. DjPart' /\ OpsPart' /\ OpsCalm
    BY <1>1, <1>2, <1>3, <1>8, <1>10, IntroduceKeeps
  <2> QED
    BY <1>1, <2>1, RestStays DEF Unasked
<1>11. CASE dj' = [Done(left, s) EXCEPT !.awaiting = TRUE, !.st = "music_only"] /\ ops' = [ops EXCEPT ![s] = Free]
  <2>1. Done(left, s) \in Dj
    BY <1>5, DoneKeeps DEF Becomes
  <2>2. DjPart' /\ OpsPart' /\ OpsCalm
    BY <1>1, <1>2, <1>5, <1>11, <2>1, AwaitingMusic, DoneFrom DEF OnAir
  <2> QED
    BY <1>1, <2>2, RestStays DEF Unasked
<1>12. CASE dj' = dj /\ ops' = [ops EXCEPT ![s] = on]
  <2>1. o.kind = "replace"
    BY <1>1, <1>2 DEF Fits, Awaits
  <2>2. on \in Operation /\ on.kind = o.kind /\ on.act = o.act /\ on.epoch = o.epoch /\ on.pc = "retry"
    <3> HIDE DEF o
    <3> QED
      BY <1>2 DEF Operation
  <2> HIDE DEF on
  <2>3. Awaits(on)
    BY <2>1, <2>2 DEF Awaits
  <2>4. Inner /\ dj'.replacing = dj.replacing
    BY <1>1, <1>12, InnerUnmoved
  <2>5. DjPart' /\ OpsPart'
    BY <1>1, <1>12, <2>2, <2>3, <2>4, OpGoesOn
  <2>6. OpsCalm
    BY <1>2, <1>12, <2>2, <2>4, InnerGrows DEF OpsCalm
  <2> QED
    BY <1>1, <2>5, <2>6, RestStays DEF Unasked
<1> QED
  BY <1>4, <1>9, <1>10, <1>11, <1>12

-----------------------------------------------------------------------------
(* Comments.                                                                  *)

LEMMA CommentKeeps ==
    ASSUME RadioInv, NEW s, Unawaited(s), NEW o, Comment(s, o), Within
    PROVE  DjPart' /\ OpsPart' /\ OpsCalm
<1> DEFINE e == ScheduleComment(dj)
<1>1. ops' = [ops EXCEPT ![s] = Free] /\ (dj' = dj \/ dj' = e)
  BY DEF Comment, Use
<1>2. Incidental(dj, e)
  BY InvTypes, ScheduleKeeps
<1> HIDE DEF e
<1>3. Inner /\ dj'.replacing = dj.replacing
  BY <1>1, <1>2, InnerByItself, InnerUnmoved
<1> QED
  BY <1>1, <1>3, OpEnds

LEMMA CommentStatusKeeps == ASSUME RadioInv, Unasked, NEW s \in Slots, CommentStatus(s) PROVE RadioInv'
<1> DEFINE o == ops[s]
           text == player.status = "ended"
           on == [o EXCEPT !.pc = "prequeue"]
           e == ScheduleComment(dj)
<1>1. Within /\ o # Free /\ o.pc = "status" /\ chain' = chain /\ Same
  BY DEF CommentStatus, Calm, Within, Unasked
<1>2. Unawaited(s) /\ o \in Operation /\ Fits(dj, opened, o, s)
  BY <1>1, WaitsElsewhere
<1>3. \/ Comment(s, o)
      \/ Current(dj, o) /\ o.act \in lanes /\ Replace(dj, s, text)
      \/ dj' = dj /\ ops' = [ops EXCEPT ![s] = on]
      \/ dj' = e /\ ops' = [ops EXCEPT ![s] = Free]
  BY DEF CommentStatus, Use
<1> HIDE DEF text
<1>4. DjPart' /\ OpsPart' /\ OpsCalm
  <2>1. CASE Comment(s, o)
    BY <1>1, <1>2, <2>1, CommentKeeps
  <2>2. CASE Current(dj, o) /\ o.act \in lanes /\ Replace(dj, s, text)
    <3>1. dj.act # None
      BY <2>2 DEF Current, RadioInv, DjPart, None
    <3> QED
      BY <1>1, <1>2, <2>2, <3>1, AskedMoves, ReachedAlready, ReplaceKeeps
  <2>3. CASE dj' = dj /\ ops' = [ops EXCEPT ![s] = on]
    <3>1. o.kind = "comment"
      BY <1>1, <1>2 DEF Fits, Awaits
    <3>2. on \in Operation /\ on.kind = o.kind /\ on.act = o.act /\ on.epoch = o.epoch /\ on.pc = "prequeue"
      <4> HIDE DEF o
      <4> QED
        BY <1>2 DEF Operation
    <3> HIDE DEF on
    <3>3. Awaits(on)
      BY <3>1, <3>2 DEF Awaits
    <3>4. Inner /\ dj'.replacing = dj.replacing
      BY <1>1, <2>3, InnerUnmoved
    <3>5. DjPart' /\ OpsPart'
      BY <1>1, <2>3, <3>2, <3>3, <3>4, OpGoesOn
    <3> QED
      BY <1>2, <2>3, <3>2, <3>4, <3>5, InnerGrows DEF OpsCalm
  <2>4. CASE dj' = e /\ ops' = [ops EXCEPT ![s] = Free]
    <3>1. Incidental(dj, e)
      BY InvTypes, ScheduleKeeps
    <3> HIDE DEF e
    <3>2. Inner /\ dj'.replacing = dj.replacing
      BY <1>1, <2>4, <3>1, InnerByItself
    <3> QED
      BY <1>2, <2>4, <3>2, OpEnds
  <2> QED
    BY <1>3, <2>1, <2>2, <2>3, <2>4
<1> QED
  BY <1>1, <1>4, RestStays DEF Unasked

LEMMA PreQueueKeeps == ASSUME RadioInv, Unasked, NEW s \in Slots, PreQueue(s) PROVE RadioInv'
<1>1. /\ Within /\ ops[s] # Free /\ ops[s].pc = "prequeue" /\ chain' = chain /\ loaded' = loaded /\ mail' = mail
      /\ Comment(s, ops[s])
  BY DEF PreQueue, Calm, Within, Unasked
<1>2. Unawaited(s)
  BY <1>1, WaitsElsewhere
<1>3. DjPart' /\ OpsPart' /\ OpsCalm
  BY <1>1, <1>2, CommentKeeps
<1>4. ChainPart'
  BY <1>1, <1>3, ChainStays DEF Unasked, Noted
<1>5. PlayerPart'
  <2>1. CASE player' = player
    BY <1>1, <2>1, PlayerStays DEF Unasked
  <2>2. CASE player' = [player EXCEPT !.queued = TRUE]
    <3>1. /\ loaded \in 0..MaxTracks
          /\ player \in [track: 0..loaded, status: {"stopped", "loading", "playing", "ended", "error"}, queued: BOOLEAN]
          /\ player.status # "stopped" => player.track # None
      BY DEF RadioInv, PlayerPart
    <3>2. loaded' \in loaded..MaxTracks
      BY <1>1, <3>1, Constants
    <3>3. /\ player' \in [track: 0..loaded', status: {"stopped", "loading", "playing", "ended", "error"}, queued: BOOLEAN]
          /\ player'.status # "stopped" => player'.track # None
      BY <1>1, <2>2, <3>1
    <3> QED
      BY <1>1, <3>2, <3>3, PlayerMoves DEF Unasked
  <2> QED
    BY <2>1, <2>2 DEF PreQueue
<1> QED
  BY <1>3, <1>4, <1>5 DEF RadioInv

\* The head of the chain goes, with the slot that waited for it at most.
LEMMA ChainShrinks ==
    ASSUME RadioInv, Noted, chain # <<>>, chain' = Tail(chain), dj' \in Dj, dj.epoch <= dj'.epoch,
           ops' = ops \/ (chain[1].slot # None /\ \E x \in {Free} \cup Operation : ops' = [ops EXCEPT ![chain[1].slot] = x])
    PROVE  ChainPart'
<1>1. chain \in Seq(Utterance) /\ Len(chain) <= MaxChain /\ Len(chain) \in Nat /\ Len(chain) >= 1
      /\ ops \in [Slots -> {Free} \cup Operation]
      /\ \A i \in 1..Len(chain) :
            /\ chain[i].what = "intro" => chain[i].track \in played
            /\ chain[i].slot # None => ops[chain[i].slot] # Free /\ ops[chain[i].slot].pc = "chain"
            /\ \A j \in 1..Len(chain) : i # j /\ chain[i].slot # None => chain[i].slot # chain[j].slot
  BY InvTypes DEF RadioInv, ChainPart
<1>2. chain' \in Seq(Utterance) /\ Len(chain') = Len(chain) - 1 /\ \A i \in 1..Len(chain') : chain'[i] = chain[i + 1]
  BY <1>1
<1>3. \A i \in 1..Len(chain') : i + 1 \in 1..Len(chain) /\ 1 \in 1..Len(chain) /\ i + 1 # 1
  BY <1>1, <1>2
<1>4. ASSUME NEW i \in 1..Len(chain')
      PROVE  /\ chain'[i].epoch <= dj'.epoch
             /\ chain'[i].what = "intro" => chain'[i].track \in played'
             /\ chain'[i].slot # None => ops'[chain'[i].slot] # Free /\ ops'[chain'[i].slot].pc = "chain"
  <2> DEFINE c == chain[i + 1]
             k == i + 1
  <2>1. k \in 1..Len(chain) /\ 1 \in 1..Len(chain) /\ k # 1 /\ chain'[i] = c /\ c = chain[k]
    BY <1>2, <1>3
  <2> HIDE DEF k, c
  <2>2. /\ c.what = "intro" => c.track \in played
        /\ c.slot # None => ops[c.slot] # Free /\ ops[c.slot].pc = "chain"
        /\ chain[1].slot # None => chain[1].slot # c.slot
    BY <1>1, <2>1
  <2>3. c.slot # None => ops'[c.slot] = ops[c.slot]
    <3>1. c \in Utterance
      BY <1>1, <2>1
    <3>2. c.slot # None => c.slot \in Slots
      BY <3>1 DEF Utterance
    <3> QED
      BY <1>1, <2>2, <3>2
  <2>4. c.epoch <= dj'.epoch
    BY <2>1, StepsGrowOld
  <2> QED
    BY <2>1, <2>2, <2>3, <2>4 DEF Noted
<1>5. ASSUME NEW i \in 1..Len(chain'), NEW j \in 1..Len(chain'), i # j, chain'[i].slot # None
      PROVE  chain'[i].slot # chain'[j].slot
  <2> DEFINE k == i + 1
             l == j + 1
  <2>1. k \in 1..Len(chain) /\ l \in 1..Len(chain) /\ chain'[i] = chain[k] /\ chain'[j] = chain[l]
    BY <1>2, <1>3
  <2>2. k # l
    BY <1>1, <1>2, <1>5
  <2> HIDE DEF k, l
  <2> QED
    BY <1>1, <1>5, <2>1, <2>2
<1> QED
  BY <1>1, <1>2, <1>4, <1>5, Constants DEF ChainPart

LEMMA ChainStepKeeps == ASSUME RadioInv, Unasked, ChainStep PROVE RadioInv' /\ Inner
<1> DEFINE c == Head(chain)
           yes == TRUE
           defd == [dj EXCEPT !.deferred = yes]
           b == [dj EXCEPT !.st = "dj_speaking"]
           live == Current(dj, c)
           defer == live /\ (dj.st = "yielded" \/ c.yielded)
           e == IF c.what = "deferred" THEN dj ELSE b
           e2 == IF c.what \in {"intro", "deferred"} THEN ScheduleComment(e) ELSE e
           d == CASE ~live -> dj [] defer -> defd [] OTHER -> e2
           s == c.slot
           k == IF d.st = "yielded" \/ c.yielded \/ d.musicOnly THEN d ELSE [d EXCEPT !.st = "selecting"]
           n == IF d.st = "yielded" \/ c.yielded THEN d ELSE [d EXCEPT !.st = "music_only"]
           on == [ops[s] EXCEPT !.pc = "find"]
<1>1. chain # <<>> /\ chain' = Tail(chain) /\ Within /\ Same
  BY DEF ChainStep, Calm, Within, Unasked
<1>2. c = chain[1] /\ 1 \in 1..Len(chain) /\ c \in Utterance /\ chain \in Seq(Utterance)
  BY <1>1, InvTypes
<1>3. dj \in Dj /\ yes \in BOOLEAN /\ s \in {None} \cup Slots
  BY <1>2, InvTypes DEF Utterance
<1>4. \/ s = None /\ dj' = d /\ ops' = ops
      \/ s # None /\ (dj' = d \/ dj' = k) /\ ops' = [ops EXCEPT ![s] = on]
      \/ s # None /\ (dj' = Done(n, s) \/ dj' = Done(d, s)) /\ ops' = [ops EXCEPT ![s] = Free]
  <2>2. CASE s = None
    BY <2>2 DEF ChainStep
  <2>3. CASE s # None /\ c.what = "wrap" /\ live
    <3> HIDE DEF d
    <3> QED
      BY <2>3 DEF ChainStep, Use, d
  <2>4. CASE s # None /\ c.what = "notice" /\ live
    BY <2>4 DEF ChainStep, Use
  <2>5. CASE s # None /\ ~(c.what = "wrap" /\ live) /\ ~(c.what = "notice" /\ live)
    BY <2>5 DEF ChainStep, Use
  <2> QED
    BY <2>2, <2>3, <2>4, <2>5
<1>5. Incidental(dj, defd)
  <2> HIDE DEF yes
  <2> QED
    BY <1>3 DEF Incidental, SameRun, Dj
<1>6. Becomes(dj, b, "dj_speaking", dj.replacing)
  BY <1>3, EntersState DEF States
<1> HIDE DEF yes, b, defd, c
<1>7. e \in Dj /\ SameRun(dj, e) /\ e.st \in {dj.st, "dj_speaking"} /\ e.replacing = dj.replacing
  BY <1>3, <1>6 DEF Becomes, SameRun
<1> HIDE DEF e
<1>8. Incidental(e, ScheduleComment(e))
  BY <1>7, ScheduleKeeps
<1>9. e2 \in Dj /\ SameRun(dj, e2) /\ e2.st \in {dj.st, "dj_speaking"} /\ e2.replacing = dj.replacing
  BY <1>7, <1>8 DEF Incidental, SameRun
<1> HIDE DEF e2, live, defer
<1>10. d \in Dj /\ SameRun(dj, d) /\ d.st \in {dj.st, "dj_speaking"} /\ d.replacing = dj.replacing
  <2>1. SameRun(dj, dj)
    BY DEF SameRun
  <2> QED
    BY <1>3, <1>5, <1>9, <2>1 DEF Incidental
<1> HIDE DEF d
<1>11. k \in Dj /\ SameRun(dj, k) /\ k.st \in {dj.st} \cup OnAir /\ k.replacing = dj.replacing
  <2>1. Becomes(d, [d EXCEPT !.st = "selecting"], "selecting", d.replacing)
    BY <1>10, EntersState DEF States
  <2> QED
    BY <1>10, <2>1 DEF Becomes, SameRun, OnAir
<1>12. n \in Dj /\ SameRun(dj, n) /\ n.st \in {dj.st} \cup OnAir /\ n.replacing = dj.replacing
  <2>1. Becomes(d, [d EXCEPT !.st = "music_only"], "music_only", d.replacing)
    BY <1>10, EntersState DEF States
  <2> QED
    BY <1>10, <2>1 DEF Becomes, SameRun, OnAir
<1> HIDE DEF k, n
<1>13. PlayerPart'
  BY <1>1, PlayerStays DEF Unasked, Same
<1>14. s # None => /\ s \in Slots /\ ops[s] # Free /\ ops[s].pc = "chain" /\ ops[s] \in Operation
                   /\ Fits(dj, opened, ops[s], s) /\ s = chain[1].slot
  <2>1. s # None => ops[s] # Free /\ ops[s].pc = "chain"
    BY <1>2 DEF RadioInv, ChainPart
  <2> QED
    BY <1>2, <1>3, <2>1, InvTypes
<1> HIDE DEF s
<1>15. CASE s = None /\ dj' = d /\ ops' = ops
  <2>1. Inner /\ dj'.replacing = dj.replacing
    BY <1>1, <1>10, <1>15 DEF Inner, Within, OnAir
  <2>2. DjPart' /\ OpsPart'
    BY <1>15, <2>1, NothingMoves
  <2> QED
    BY <1>1, <1>13, <1>15, <2>1, <2>2, ChainShrinks, InnerGrows DEF RadioInv, Unasked
<1>16. CASE s # None /\ (dj' = d \/ dj' = k) /\ ops' = [ops EXCEPT ![s] = on]
  <2>1. on \in Operation /\ on.kind = ops[s].kind /\ on.act = ops[s].act /\ on.epoch = ops[s].epoch /\ on.pc = "find"
    BY <1>14, <1>16 DEF Operation
  <2> HIDE DEF on
  <2>2. Awaits(on)
    BY <1>14, <1>16, <2>1 DEF Awaits, Fits
  <2>3. Inner /\ dj'.replacing = dj.replacing
    BY <1>1, <1>10, <1>11, <1>16 DEF Inner, Within, OnAir
  <2>4. DjPart' /\ OpsPart'
    BY <1>14, <1>16, <2>1, <2>2, <2>3, OpGoesOn
  <2> QED
    BY <1>1, <1>13, <1>14, <1>16, <2>1, <2>3, <2>4, ChainShrinks, InnerGrows DEF RadioInv, Unasked
<1>17. CASE s # None /\ (dj' = Done(n, s) \/ dj' = Done(d, s)) /\ ops' = [ops EXCEPT ![s] = Free]
  <2>1. PICK x \in {n, d} : dj' = Done(x, s)
    BY <1>17
  <2>2. x \in Dj /\ SameRun(dj, x) /\ x.st \in {dj.st} \cup OnAir /\ x.replacing = dj.replacing
    BY <1>10, <1>12 DEF OnAir
  <2>3. Becomes(x, dj', x.st, IF x.replacing = s THEN None ELSE x.replacing)
    BY <2>1, <2>2, DoneKeeps
  <2>4. Inner /\ (dj'.replacing = dj.replacing \/ dj.replacing = s)
    BY <1>1, <2>2, <2>3 DEF Inner, Within, Becomes, SameRun
  <2>5. Evolves /\ DjPart'
    BY <2>4, InnerKeeps
  <2>6. OpsPart'
    BY <1>14, <1>17, <2>4, <2>5, OpsMove
  <2> QED
    BY <1>1, <1>13, <1>14, <1>17, <2>4, <2>5, <2>6, ChainShrinks, InnerGrows DEF RadioInv, Unasked
<1> QED
  BY <1>4, <1>15, <1>16, <1>17

-----------------------------------------------------------------------------
(* The events of the player.                                                  *)

LEMMA BackOnAir ==
    ASSUME NEW d \in Dj
    PROVE  Becomes(d, [ResetBackoff(d) EXCEPT !.awaiting = FALSE, !.st = "dj_speaking"], "dj_speaking", d.replacing)
<1> DEFINE r == ResetBackoff(d)
           no == FALSE
           e == [r EXCEPT !.awaiting = no, !.st = "dj_speaking"]
<1>1. Incidental(d, r) /\ no \in BOOLEAN
  BY ResetKeeps
<1> HIDE DEF r, no
<1>2. Becomes(r, e, "dj_speaking", r.replacing)
  BY <1>1 DEF Incidental, Dj, Becomes, SameRun, States
<1> HIDE DEF e
<1>3. Becomes(d, e, "dj_speaking", d.replacing)
  BY <1>1, <1>2 DEF Incidental, Becomes, SameRun
<1> QED
  BY <1>3 DEF e, r, no

LEMMA OnPlayingKeeps ==
    ASSUME RadioInv, Unasked, Within, ops' = ops, NEW e \in mail, e.kind = "playing", OnPlaying(dj, e)
    PROVE  DjPart' /\ OpsPart' /\ ChainPart' /\ Inner
<1> DEFINE t == e.track
           d == AcceptTrack(dj, t, t)
           m == MarkAnnounced(d, t, t)
           sd == Settled(d)
           sm == Settled(m)
           back == [ResetBackoff(d) EXCEPT !.awaiting = FALSE, !.st = "dj_speaking"]
           bm == MarkAnnounced(back, t, t)
           x1 == ScheduleComment(back)
           x2 == ScheduleComment(bm)
           c == Step("intro", t, d, None, FALSE)
<1>1. t \in AnyTracks /\ t \in played /\ dj \in Dj
  <2>1. e \in BgmEvent /\ t \in played
    BY DEF RadioInv, PlayerPart
  <2> QED
    BY <2>1, InvTypes, NoTrack DEF BgmEvent
<1>2. \/ dj' \in {sd, d, x1, x2} /\ chain' = chain
      \/ dj' = sm /\ Len(chain) < MaxChain /\ chain' = Append(chain, c)
  BY DEF OnPlaying, Enqueue
<1> HIDE DEF t
<1>3. Incidental(dj, d) /\ d \in Dj
  BY <1>1, AcceptKeeps DEF Incidental
<1> HIDE DEF d
<1>4. Incidental(d, m) /\ m \in Dj
  BY <1>1, <1>3, MarkKeeps DEF Incidental
<1> HIDE DEF m
<1>5. Incidental(d, sd) /\ Incidental(m, sm)
  BY <1>3, <1>4, SettledKeeps
<1> HIDE DEF sd, sm
<1>6. Becomes(d, back, "dj_speaking", d.replacing)
  BY <1>3, BackOnAir
<1> HIDE DEF back
<1>7. Incidental(back, bm) /\ bm \in Dj
  BY <1>1, <1>6, MarkKeeps DEF Becomes, Incidental
<1> HIDE DEF bm
<1>8. Incidental(back, x1) /\ Incidental(bm, x2)
  BY <1>6, <1>7, ScheduleKeeps DEF Becomes
<1> HIDE DEF x1, x2
<1>9. Inner /\ dj'.replacing = dj.replacing
  <2>1. CASE dj' = d \/ dj' = sd \/ dj' = sm
    BY <1>3, <1>4, <1>5, <2>1 DEF Inner, Within, Incidental, SameRun
  <2>2. CASE dj' = x1 \/ dj' = x2
    BY <1>3, <1>6, <1>7, <1>8, <2>2 DEF Inner, Within, Incidental, Becomes, SameRun, OnAir
  <2> QED
    BY <1>2, <2>1, <2>2
<1>10. DjPart' /\ OpsPart' /\ OpsCalm
  BY <1>9, NothingMoves
<1>11. c \in Utterance /\ c.what = "intro" /\ c.track = t /\ c.slot = None
  <2>1. d.act \in Nat /\ d.epoch \in Nat
    BY <1>3 DEF Dj
  <2> QED
    BY <1>1, <2>1 DEF Step, Utterance
<1>13. c.epoch = dj'.epoch
  BY <1>3, <1>9 DEF Step, Inner, Incidental, SameRun
<1> HIDE DEF c
<1>12. ChainPart'
  <2>1. CASE chain' = chain
    BY <1>10, <2>1, ChainStays DEF Unasked, Noted
  <2>2. CASE Len(chain) < MaxChain /\ chain' = Append(chain, c)
    BY <1>1, <1>10, <1>11, <1>13, <2>2, ChainGrows DEF Unasked, Noted
  <2> QED
    BY <1>2, <2>1, <2>2
<1> QED
  BY <1>9, <1>10, <1>12

LEMMA OnTransitionKeeps ==
    ASSUME RadioInv, Unasked, NEW d, Reached(d), NEW e, e.next \in Tracks, OnTransition(d, e)
    PROVE  DjPart' /\ OpsPart' /\ ChainPart'
<1> DEFINE x == Expect(d, e.next)
           c == Step("wrap", None, d, None, FALSE)
<1>1. dj' = x /\ ops' = ops /\ (chain' = chain \/ (Len(chain) < MaxChain /\ chain' = Append(chain, c)))
  BY DEF OnTransition, Enqueue
<1>2. d \in Dj /\ d.act \in Nat /\ d.epoch \in Nat
  BY DEF Reached, Dj
<1>3. Incidental(d, x)
  BY <1>2, ExpectKeeps
<1>4. Reached(x)
  BY <1>3, ReachedBy
<1> HIDE DEF x
<1>5. Evolves /\ DjPart' /\ dj'.replacing = dj.replacing
  BY <1>1, <1>4, AskedMoves, ReachedItself
<1>6. OpsPart' /\ OpsCalm
  BY <1>1, <1>5, OpsStay DEF OpsCalm, Evolves
<1>7. c \in Utterance /\ c.what = "wrap" /\ c.slot = None
  BY <1>2, NoTrack DEF Step, Utterance
<1>9. c.epoch = dj'.epoch
  BY <1>1, <1>3 DEF Step, Incidental, SameRun
<1> HIDE DEF c
<1>8. ChainPart'
  BY <1>1, <1>6, <1>7, <1>9, ChainStays, ChainGrows DEF Unasked, Noted
<1> QED
  BY <1>5, <1>6, <1>8

LEMMA OnEndedKeeps ==
    ASSUME RadioInv, Unasked, NEW d, Reached(d), OnEnded(d)
    PROVE  DjPart' /\ OpsPart' /\ ChainPart'
<1> DEFINE yielded == d.st = "yielded"
           spot == IF d.musicOnly THEN "find" ELSE "chain"
           o == Op("realtime", spot, d, yielded)
           s == Slot
           x == [d EXCEPT !.replacing = s]
           c == Step("wrap", None, d, s, yielded)
<1>1. \/ dj' = d /\ ops' = ops /\ chain' = chain
      \/ /\ d.replacing = None /\ FreeSlots # {} /\ dj' = x /\ ops' = [ops EXCEPT ![s] = o]
         /\ \/ chain' = chain
            \/ ~d.musicOnly /\ Len(chain) < MaxChain /\ chain' = Append(chain, c)
  BY DEF OnEnded, Enqueue, Use
<1>2. d \in Dj /\ d.act \in Nat /\ d.epoch \in Nat /\ d.replacing = dj.replacing /\ d.act # None /\ d.act <= opened'
      /\ (d.st = "stopped" => d.aborted)
  BY DEF Reached, Dj
<1>3. spot \in {"find", "chain"} /\ (~d.musicOnly => spot = "chain")
  OBVIOUS
<1>4. o \in Operation /\ o # Free /\ o.kind = "realtime" /\ o.pc = spot /\ o.act = d.act /\ o.epoch = d.epoch
  <2>1. yielded \in BOOLEAN
    OBVIOUS
  <2> HIDE DEF yielded, spot
  <2> QED
    BY <1>2, <1>3, <2>1, NoTrack DEF Op, Operation, Free
<1>5. CASE dj' = d /\ ops' = ops /\ chain' = chain
  <2>1. Evolves /\ DjPart' /\ dj'.replacing = dj.replacing
    BY <1>5, AskedMoves, ReachedItself
  <2>2. OpsPart' /\ OpsCalm
    BY <1>5, <2>1, OpsStay DEF OpsCalm, Evolves
  <2> QED
    BY <1>5, <2>1, <2>2, ChainStays DEF Unasked, Noted
<1>6. CASE /\ d.replacing = None /\ FreeSlots # {} /\ dj' = x /\ ops' = [ops EXCEPT ![s] = o]
           /\ \/ chain' = chain
              \/ ~d.musicOnly /\ Len(chain) < MaxChain /\ chain' = Append(chain, c)
  <2>1. Unawaited(s) /\ s \in Slots
    BY <1>6, SlotIsFree
  <2>2. c \in Utterance /\ c.what = "wrap" /\ c.slot = s
    <3>1. yielded \in BOOLEAN /\ s \in {None} \cup Slots
      BY <2>1
    <3> HIDE DEF yielded, s
    <3> QED
      BY <1>2, <3>1, NoTrack DEF Step, Utterance
  <2>11. c.epoch = d.epoch
    BY DEF Step
  <2> HIDE DEF spot, o, c, s
  <2>3. Becomes(d, x, d.st, s)
    BY <1>2, <2>1 DEF Becomes, SameRun, Dj
  <2> HIDE DEF x
  <2>4. Evolves /\ DjPart' /\ dj'.replacing = s
    <3> DEFINE st == d.st
    <3>1. st \in {d.st} \cup OnAir /\ Becomes(d, dj', st, s)
      BY <1>6, <2>3
    <3> HIDE DEF st
    <3> QED
      BY <3>1, AskedMoves, ReachedKeeps
  <2>5. Awaits(o)
    BY <1>3, <1>4 DEF Awaits
  <2>6. dj'.epoch = d.epoch
    BY <1>6, <2>3 DEF Becomes, SameRun
  <2>7. Fits(dj', opened', o, s)
    BY <1>2, <1>4, <2>4, <2>5, <2>6 DEF Fits
  <2>8. OpsPart' /\ OpsCalm
    BY <1>2, <1>4, <1>6, <2>1, <2>4, <2>7, OpsMove DEF OpsCalm, Evolves
  <2>9. CASE chain' = chain
    BY <2>4, <2>8, <2>9, ChainStays DEF Unasked, Noted
  <2>10. CASE ~d.musicOnly /\ Len(chain) < MaxChain /\ chain' = Append(chain, c)
    <3>1. ops'[s] = o /\ o.pc = "chain"
      BY <1>3, <1>4, <1>6, <2>1, <2>10, InvTypes
    <3>2. ChainPart'
      BY <1>4, <2>1, <2>2, <2>6, <2>8, <2>10, <2>11, <3>1, ChainGrows DEF Unasked, Noted
    <3> QED
      BY <2>4, <2>8, <3>2
  <2> QED
    BY <1>6, <2>9, <2>10
<1> QED
  BY <1>1, <1>5, <1>6

\* An event the controller has no use for.
LEMMA EventIgnored ==
    ASSUME RadioInv, Unasked, NEW d, Reached(d), dj' = d, ops' = ops, chain' = chain
    PROVE  DjPart' /\ OpsPart' /\ ChainPart'
<1>1. Evolves /\ DjPart' /\ dj'.replacing = dj.replacing
  BY AskedMoves, ReachedItself
<1>2. OpsPart' /\ OpsCalm
  BY <1>1, OpsStay DEF OpsCalm, Evolves
<1> QED
  BY <1>1, <1>2, ChainStays DEF Unasked, Noted

LEMMA OnBgmEventKeeps == ASSUME RadioInv, Unasked, NEW e \in mail, OnBgmEvent(e) PROVE RadioInv'
<1> DEFINE wakes == dj.st = "idle" /\ e.kind # "playing"
           d0 == EnsureOpen(dj)
           st == IF dj.musicOnly THEN "music_only" ELSE "dj_speaking"
           cc == CancelFlow(d0)
           w == [cc EXCEPT !.st = st]
           d == IF wakes THEN w ELSE dj
           left == IF e.kind = "changed" THEN RetireTrack(d, None, e.track)
                   ELSE RetireTrack(d, e.track, e.track)
           calm == CancelFlow(left)
           s == Slot
           no == FALSE
<1>1. /\ mail' \subseteq mail /\ player' = player /\ loaded' = loaded /\ asked' = asked /\ Noted
      /\ dj \in Dj
  BY InvTypes DEF OnBgmEvent, Unasked
<1>2. PlayerPart'
  BY <1>1, PlayerStays
<1>3. e \in BgmEvent
  BY DEF RadioInv, PlayerPart
<1>4. CASE UNCHANGED <<dj, lanes, opened, ops, chain>>
  <2>1. Inner /\ dj'.replacing = dj.replacing
    BY <1>1, <1>4, InnerUnmoved DEF Within
  <2>2. DjPart' /\ OpsPart' /\ OpsCalm
    BY <1>4, <2>1, NothingMoves
  <2>3. ChainPart'
    BY <1>1, <1>4, <2>2, ChainStays DEF Noted
  <2> QED
    BY <1>2, <2>2, <2>3 DEF RadioInv
<1>5. CASE ~UNCHANGED <<dj, lanes, opened, ops, chain>>
  <2>1. /\ d.act # None /\ (dj.st = "idle" => wakes)
        /\ wakes => (dj.act # None \/ opened < MaxActivities) /\ Opens(dj)
        /\ ~wakes => lanes' = lanes /\ opened' = opened
    BY <1>5 DEF OnBgmEvent
  <2>2. \/ dj' = d /\ ops' = ops /\ chain' = chain
        \/ e.kind = "playing" /\ OnPlaying(d, e) /\ ops' = ops
        \/ e.next # None /\ (OnTransition(left, e) \/ OnTransition(calm, e))
        \/ OnEnded(calm)
        \/ dj' = left /\ ops' = ops /\ chain' = chain
        \/ FreeSlots # {} /\ Replace(left, s, no) /\ chain' = chain
    <3> DEFINE x == IF e.kind = "error" THEN left ELSE calm
    <3>1. CASE Stale(d, e)
      BY <1>5, <3>1 DEF OnBgmEvent
    <3>2. CASE ~Stale(d, e) /\ e.kind = "playing"
      BY <1>5, <3>2 DEF OnBgmEvent
    <3>3. CASE ~Stale(d, e) /\ e.kind # "playing" /\ e.next # None
      <4>1. OnTransition(x, e)
        BY <1>5, <3>3 DEF OnBgmEvent
      <4>2. x = left \/ x = calm
        OBVIOUS
      <4> HIDE DEF x, left, calm
      <4> QED
        BY <3>3, <4>1, <4>2
    <3>4. CASE ~Stale(d, e) /\ e.kind = "ended" /\ e.next = None
      BY <1>5, <3>4 DEF OnBgmEvent
    <3>5. CASE ~Stale(d, e) /\ e.kind = "error" /\ e.next = None
      BY <1>5, <3>5 DEF OnBgmEvent
    <3>6. e.kind \in {"playing", "changed", "ended", "error"} /\ (e.kind = "changed" => e.next # None)
      BY <1>3 DEF BgmEvent, RadioInv, PlayerPart
    <3> QED
      BY <3>1, <3>2, <3>3, <3>4, <3>5, <3>6
  <2>3. Reached(d)
    <3>1. CASE wakes
      <4>1. Reached(d0)
        BY <2>1, <3>1, ReachedOpen
      <4> HIDE DEF d0
      <4>2. Reached(cc)
        BY <4>1, CancelFlowKeeps, ReachedBy DEF Reached
      <4> HIDE DEF cc
      <4>3. Reached(w)
        <5>1. st \in OnAir
          BY DEF OnAir
        <5> HIDE DEF st
        <5> QED
          BY <4>2, <5>1, ReachedEnters
      <4> QED
        BY <3>1, <4>3
    <3>2. CASE ~wakes
      BY <1>1, <2>1, <3>2, ReachedAlready DEF Within
    <3> QED
      BY <3>1, <3>2
  <2>4. e.kind = "playing" => d = dj /\ lanes' = lanes /\ opened' = opened
    BY <2>1
  <2> HIDE DEF d, no
  <2>5. e.track \in AnyTracks /\ None \in AnyTracks /\ d \in Dj /\ (e.next # None => e.next \in Tracks)
    BY <1>3, <2>3, NoTrack DEF BgmEvent, Reached, AnyTracks, Tracks, None
  <2>6. Incidental(d, left)
    BY <2>5, RetireKeeps
  <2> HIDE DEF left
  <2>7. Reached(left)
    BY <2>3, <2>6, ReachedBy
  <2>8. Reached(calm)
    BY <2>7, CancelFlowKeeps, ReachedBy DEF Reached
  <2> HIDE DEF calm
  <2>9. CASE dj' = d /\ ops' = ops /\ chain' = chain
    BY <1>2, <2>3, <2>9, EventIgnored DEF RadioInv
  <2>10. CASE dj' = left /\ ops' = ops /\ chain' = chain
    BY <1>2, <2>7, <2>10, EventIgnored DEF RadioInv
  <2>11. CASE e.kind = "playing" /\ OnPlaying(d, e) /\ ops' = ops
    <3>1. OnPlaying(dj, e) /\ Within
      BY <1>1, <2>4, <2>11 DEF Within
    <3>2. DjPart' /\ OpsPart' /\ ChainPart'
      BY <2>11, <3>1, OnPlayingKeeps
    <3> QED
      BY <1>2, <3>2 DEF RadioInv
  <2>12. CASE e.next # None /\ (OnTransition(left, e) \/ OnTransition(calm, e))
    <3>1. DjPart' /\ OpsPart' /\ ChainPart'
      BY <2>5, <2>7, <2>8, <2>12, OnTransitionKeeps
    <3> QED
      BY <1>2, <3>1 DEF RadioInv
  <2>13. CASE OnEnded(calm)
    <3>1. DjPart' /\ OpsPart' /\ ChainPart'
      BY <2>8, <2>13, OnEndedKeeps
    <3> QED
      BY <1>2, <3>1 DEF RadioInv
  <2>14. CASE FreeSlots # {} /\ Replace(left, s, no) /\ chain' = chain
    <3>1. Unawaited(s)
      BY <2>14, SlotIsFree
    <3> HIDE DEF s
    <3>2. DjPart' /\ OpsPart' /\ OpsCalm
      BY <2>7, <2>14, <3>1, AskedMoves, ReplaceKeeps
    <3>3. ChainPart'
      BY <1>1, <2>14, <3>2, ChainStays DEF Noted
    <3> QED
      BY <1>2, <3>2, <3>3 DEF RadioInv
  <2> QED
    BY <2>2, <2>9, <2>10, <2>11, <2>12, <2>13, <2>14
<1> QED
  BY <1>4, <1>5

LEMMA Reports ==
    ASSUME RadioInv, Noted, NEW k \in {"playing", "changed", "ended", "error"}, NEW n \in AnyTracks, Report(k, n),
           player.status # "stopped", k = "playing" => player.track \in played', k = "changed" => n # None
    PROVE  \A e \in mail' : e \in mail \/ (/\ e \in BgmEvent /\ (e.kind = "playing" => e.track \in played')
                                           /\ (e.kind = "changed" => e.next # None))
<1> DEFINE x == [kind |-> k, track |-> player.track, next |-> n, act |-> dj.act]
<1>1. mail' = mail \cup {x}
  BY DEF Report
<1>2. player.track \in Tracks
  BY Constants DEF RadioInv, PlayerPart, Tracks, None
<1>3. x \in BgmEvent /\ x.kind = k /\ x.track = player.track /\ x.next = n
  BY <1>2, InvTypes DEF BgmEvent
<1> HIDE DEF x
<1> QED
  BY <1>1, <1>3

LEMMA PlayerAlone == ASSUME RadioInv, Unasked, PlayerUnmoved, PlayerPart' PROVE RadioInv'
<1>1. dj' = dj /\ Within /\ ops' = ops /\ chain' = chain
  BY DEF PlayerUnmoved, Calm, Within, Unasked
<1>2. DjPart' /\ OpsPart' /\ OpsCalm
  BY <1>1, InnerUnmoved, NothingMoves
<1>3. ChainPart'
  BY <1>1, <1>2, ChainStays DEF Unasked, Noted
<1> QED
  BY <1>2, <1>3 DEF RadioInv

LEMMA PlayerTypes ==
    ASSUME RadioInv
    PROVE  /\ loaded \in Nat /\ loaded \in 0..MaxTracks /\ loaded \in loaded..MaxTracks
           /\ player \in [track: 0..loaded, status: {"stopped", "loading", "playing", "ended", "error"}, queued: BOOLEAN]
           /\ player.status # "stopped" => player.track # None
           /\ player.status = "playing" => player.track \in played
  BY Constants DEF RadioInv, PlayerPart

LEMMA PlayerStartsKeeps == ASSUME RadioInv, Unasked, PlayerStarts PROVE RadioInv'
<1>1. /\ player' = [player EXCEPT !.status = "playing"] /\ loaded' = loaded /\ Report("playing", None)
      /\ player.status = "loading" /\ PlayerUnmoved
  BY DEF PlayerStarts
<1>2. /\ player' \in [track: 0..loaded', status: {"stopped", "loading", "playing", "ended", "error"}, queued: BOOLEAN]
      /\ player'.status = "playing" /\ player'.track = player.track /\ player.track # None
      /\ loaded' \in loaded..MaxTracks
  BY <1>1, PlayerTypes
<1>3. player.track \in played'
  BY <1>2 DEF Unasked, Noted
<1>4. \A e \in mail' : e \in mail \/ (/\ e \in BgmEvent /\ (e.kind = "playing" => e.track \in played')
                                      /\ (e.kind = "changed" => e.next # None))
  BY <1>1, <1>3, NoTrack, Reports DEF Unasked
<1>5. PlayerPart'
  BY <1>2, <1>4, PlayerMoves DEF Unasked
<1> QED
  BY <1>1, <1>5, PlayerAlone

LEMMA PlayerEndsKeeps == ASSUME RadioInv, Unasked, PlayerEnds PROVE RadioInv'
<1> DEFINE n == loaded + 1
<1>1. /\ PlayerUnmoved /\ player.status = "playing"
      /\ \/ player' = [player EXCEPT !.status = "ended"] /\ loaded' = loaded /\ Report("ended", None)
         \/ loaded < MaxTracks /\ loaded' = n /\ player' = Load(n) /\ Report("ended", n)
  BY DEF PlayerEnds
<1>2. CASE player' = [player EXCEPT !.status = "ended"] /\ loaded' = loaded /\ Report("ended", None)
  <2>1. /\ player' \in [track: 0..loaded', status: {"stopped", "loading", "playing", "ended", "error"}, queued: BOOLEAN]
        /\ player'.status = "ended" /\ player'.track = player.track /\ player.track # None
        /\ loaded' \in loaded..MaxTracks
    BY <1>1, <1>2, PlayerTypes
  <2>2. \A e \in mail' : e \in mail \/ (/\ e \in BgmEvent /\ (e.kind = "playing" => e.track \in played')
                                        /\ (e.kind = "changed" => e.next # None))
    BY <1>1, <1>2, NoTrack, Reports DEF Unasked
  <2>3. PlayerPart'
    BY <2>1, <2>2, PlayerMoves DEF Unasked
  <2> QED
    BY <1>1, <2>3, PlayerAlone
<1>3. CASE loaded < MaxTracks /\ loaded' = n /\ player' = Load(n) /\ Report("ended", n)
  <2>1. n \in Tracks
    BY <1>3, Loads
  <2>2. n \in AnyTracks
    BY <2>1, NoTrack
  <2>3. \A e \in mail' : e \in mail \/ (/\ e \in BgmEvent /\ (e.kind = "playing" => e.track \in played')
                                        /\ (e.kind = "changed" => e.next # None))
    <3> HIDE DEF n
    <3> QED
      BY <1>1, <1>3, <2>2, Reports DEF Unasked
  <2>4. PlayerPart'
    BY <1>3, <2>3, Loads, PlayerMoves DEF Unasked
  <2> QED
    BY <1>1, <2>4, PlayerAlone
<1> QED
  BY <1>1, <1>2, <1>3

LEMMA PlayerFailsKeeps == ASSUME RadioInv, Unasked, PlayerFails PROVE RadioInv'
<1> DEFINE no == FALSE
<1>1. /\ player' = [player EXCEPT !.status = "error", !.queued = no] /\ loaded' = loaded /\ Report("error", None)
      /\ player.status # "stopped" /\ PlayerUnmoved /\ no \in BOOLEAN
  BY DEF PlayerFails
<1> HIDE DEF no
<1>2. /\ player' \in [track: 0..loaded', status: {"stopped", "loading", "playing", "ended", "error"}, queued: BOOLEAN]
      /\ player'.status = "error" /\ player'.track = player.track /\ player.track # None
      /\ loaded' \in loaded..MaxTracks
  BY <1>1, PlayerTypes
<1>3. \A e \in mail' : e \in mail \/ (/\ e \in BgmEvent /\ (e.kind = "playing" => e.track \in played')
                                      /\ (e.kind = "changed" => e.next # None))
  BY <1>1, NoTrack, Reports DEF Unasked
<1>4. PlayerPart'
  BY <1>2, <1>3, PlayerMoves DEF Unasked
<1> QED
  BY <1>1, <1>4, PlayerAlone

LEMMA ShellSkipsKeeps == ASSUME RadioInv, Unasked, ShellSkips PROVE RadioInv'
<1> DEFINE n == loaded + 1
<1>1. /\ PlayerUnmoved /\ player.status = "playing"
      /\ loaded < MaxTracks /\ loaded' = n /\ player' = Load(n) /\ Report("changed", n)
  BY DEF ShellSkips
<1>2. n \in Tracks
  BY <1>1, Loads
<1>3. n \in AnyTracks /\ n # None
  BY <1>2, NoTrack DEF Tracks, None
<1>4. \A e \in mail' : e \in mail \/ (/\ e \in BgmEvent /\ (e.kind = "playing" => e.track \in played')
                                      /\ (e.kind = "changed" => e.next # None))
  <2> HIDE DEF n
  <2> QED
    BY <1>1, <1>3, Reports DEF Unasked
<1>5. PlayerPart'
  BY <1>1, <1>4, Loads, PlayerMoves DEF Unasked
<1> QED
  BY <1>1, <1>5, PlayerAlone

-----------------------------------------------------------------------------
(* The inductive invariant.                                                   *)

LEMMA RadioInvInit == DjInit => RadioInv
<1> SUFFICES ASSUME DjInit PROVE RadioInv
  OBVIOUS
<1>1. DjPart
  BY FreshIsDj, Constants DEF DjInit, DjPart, Fresh, None
<1>2. PlayerPart
  BY Constants DEF DjInit, PlayerPart, None
<1>3. OpsPart
  BY DEF DjInit, OpsPart
<1>4. ChainPart
  BY Constants DEF DjInit, ChainPart
<1> QED
  BY <1>1, <1>2, <1>3, <1>4 DEF RadioInv

LEMMA RadioInvStutters == ASSUME RadioInv, UNCHANGED djVars PROVE RadioInv'
  BY DEF djVars, RadioInv, DjPart, PlayerPart, OpsPart, ChainPart, Fits, Current

LEMMA RadioInvNext == RadioInv /\ [DjNext]_djVars => RadioInv'
<1> SUFFICES ASSUME RadioInv, [DjNext]_djVars PROVE RadioInv'
  OBVIOUS
<1>1. CASE asked < MaxRequests /\ People /\ Record(1)
  <2>1. Asks
    BY <1>1, RecordNotes DEF Asks
  <2> QED
    BY <1>1, <2>1, ConfigureKeeps, UnsubscribeKeeps, YieldKeeps, MusicOnlyKeeps, TalkLessKeeps, TalkMoreKeeps,
       ChangeVibeKeeps, NextTrackKeeps, StopKeeps DEF People
<1>2. ASSUME Record(0) PROVE Unasked
  <2>1. asked' = asked + 0 /\ Noted /\ asked \in Nat
    BY <1>2, RecordNotes, AskedMoves
  <2> QED
    BY <2>1 DEF Unasked
<1>3. CASE (Subscribe \/ Resumes \/ IdleFires \/ CommentFires \/ ChainStep) /\ Record(0)
  BY <1>2, <1>3, SubscribeKeeps, ResumeKeeps, IdleKeeps, CommentFiresKeeps, ChainStepKeeps DEF Resumes
<1>4. CASE (\E s \in Slots : Work(s)) /\ Record(0)
  BY <1>2, <1>4, StopReturnsKeeps, FindThrowsKeeps, FindKeeps, ObserveKeeps, RecheckKeeps, CommentStatusKeeps,
     PreQueueKeeps DEF Work
<1>5. CASE (Deliveries \/ PlayerStarts \/ PlayerEnds \/ PlayerFails \/ ShellSkips) /\ Record(0)
  BY <1>2, <1>5, OnBgmEventKeeps, PlayerStartsKeeps, PlayerEndsKeeps, PlayerFailsKeeps, ShellSkipsKeeps DEF Deliveries
<1>6. CASE UNCHANGED djVars
  BY <1>6, RadioInvStutters
<1> QED
  BY <1>1, <1>3, <1>4, <1>5, <1>6 DEF DjNext

LEMMA RadioInductive == DjSpec => []RadioInv
  BY RadioInvInit, RadioInvNext, PTL DEF DjSpec

-----------------------------------------------------------------------------
(* One attempt.                                                               *)

LEMMA AtMostTheOne ==
    ASSUME NEW S, NEW x, S \subseteq {x} PROVE Cardinality(S) <= 1
<1>1. S = {} \/ S = {x}
  OBVIOUS
<1>2. Cardinality({}) = 0 /\ Cardinality({x}) = 1
  BY FS_EmptySet, FS_Singleton
<1> QED
  BY <1>1, <1>2

\* Replacement requests that overlap share one attempt, and every field has its type
\* (OneReplacement): a current replacement is the one replacementInFlight names.
THEOREM ReplacementsShareOneAttempt == DjSpec => []OneReplacement
<1>1. RadioInv => OneReplacement
  <2> SUFFICES ASSUME RadioInv PROVE OneReplacement
    OBVIOUS
  <2>1. DjTypeOK
    <3>1. /\ dj \in Dj /\ dj.act <= opened /\ opened \in 0..MaxActivities /\ lanes \subseteq 1..opened
          /\ asked \in 0..MaxRequests /\ dj.epoch <= asked + opened /\ dj.epoch \in Nat /\ dj.act \in Nat
      BY InvTypes DEF RadioInv, DjPart
    <3>2. dj.act \in 0..MaxActivities /\ dj.epoch \in 0..(MaxRequests + MaxActivities) /\ opened <= MaxActivities
      BY <3>1, Constants
    <3>3. /\ dj.st \in States /\ dj.timer \in {"none", "idle", "comment"} /\ dj.replacing \in {None} \cup Slots
          /\ dj.pending \in {NoPending, AnyTrack} \cup Tracks /\ dj.retP \cup dj.retV \cup dj.annP \subseteq Tracks
      BY <3>1 DEF Dj
    <3>4. player.track \in 0..loaded /\ loaded <= MaxTracks
      BY PlayerTypes, Constants
    <3>5. Len(chain) <= MaxChain
      BY DEF RadioInv, ChainPart
    <3>6. \A s \in Slots : ops[s] = Free \/ ops[s].kind \in {"start", "replace", "realtime", "next", "comment", "stop"}
      BY InvTypes DEF Operation
    <3> QED
      BY <3>1, <3>2, <3>3, <3>4, <3>5, <3>6 DEF DjTypeOK
  <2> DEFINE S == {s \in Slots : ops[s] # Free /\ ops[s].kind \in {"replace", "realtime"} /\ Current(dj, ops[s])}
             x == dj.replacing
  <2>2. S \subseteq {x}
    BY InvTypes DEF Fits
  <2> HIDE DEF x
  <2>3. Cardinality(S) <= 1
    <3> HIDE DEF S
    <3> QED
      BY <2>2, AtMostTheOne
  <2> QED
    BY <2>1, <2>3 DEF OneReplacement
<1> QED
  BY <1>1, RadioInductive, PTL

-----------------------------------------------------------------------------
(* What is said.                                                              *)

\* An utterance belongs to the run of operations that is current before and after it and
\* names a track that has played.
Uttered ==
    spoke' # Silence =>
        /\ spoke'.epoch = dj.epoch /\ dj'.epoch = dj.epoch
        /\ spoke'.what = "intro" => spoke'.track \in played

LEMMA Mute == ASSUME Quiet PROVE Uttered
  BY DEF Quiet, Uttered

LEMMA Said ==
    ASSUME NEW d, NEW what, NEW t, NEW ep, Say(d, what, t, ep), spoke' # Silence
    PROVE  spoke'.epoch = ep /\ spoke'.what = what /\ spoke'.track = t
  BY DEF Say

LEMMA IntroduceUtters ==
    ASSUME NEW s, NEW d, Incidental(dj, d), NEW o, Current(dj, o), NEW p \in AnyTracks, NEW t \in AnyTracks,
           Introduce(d, s, o, p, t), Within, t \in played
    PROVE  Uttered
<1>1. dj'.epoch = dj.epoch
  BY IntroduceInner DEF Inner, SameRun
<1>2. Say(d, "intro", t, o.epoch)
  BY DEF Introduce
<1> QED
  BY <1>1, <1>2, Said DEF Uttered, Current

LEMMA FindThrowsUtters == ASSUME RadioInv, NEW s \in Slots, FindThrows(s) PROVE Uttered
<1> DEFINE o == ops[s]
           d == Done(dj, s)
           e == [d EXCEPT !.st = "music_only", !.notices = @ \cup {"replace"}]
<1>1. CASE Quiet
  BY <1>1, Mute
<1>2. CASE ~Quiet
  <2>1. o # Free /\ o.kind = "replace" /\ Current(dj, o) /\ dj' = e /\ Say(dj, "notice", None, o.epoch)
    <3>1. o # Free /\ o.kind # "next" /\ o.pc \in {"find", "retry"}
      BY DEF FindThrows
    <3>2. o.kind \in {"start", "realtime", "replace"}
      BY <3>1, WaitsElsewhere DEF Fits, Awaits
    <3> QED
      BY <1>2, <3>1, <3>2 DEF FindThrows, StartThrows
  <2>2. Becomes(dj, d, dj.st, IF dj.replacing = s THEN None ELSE dj.replacing) /\ dj \in Dj
    BY InvTypes, DoneKeeps
  <2> HIDE DEF d
  <2>3. Becomes(d, e, "music_only", d.replacing)
    BY <2>2, NoticedMusic DEF Becomes
  <2> HIDE DEF e
  <2>4. dj'.epoch = dj.epoch
    BY <2>1, <2>2, <2>3 DEF Becomes, SameRun
  <2> QED
    BY <2>1, <2>4, Said DEF Uttered, Current
<1> QED
  BY <1>1, <1>2

LEMMA ObserveUtters == ASSUME RadioInv, Unasked, NEW s \in Slots, Observe(s) PROVE Uttered
<1> DEFINE o == ops[s]
           ok == Observed(o)
           t == o.track
           ds == AcceptTrack(Settled(dj), None, t)
           rt == RetireTrack(dj, o.prev, o.prev)
           dn == AcceptTrack(rt, None, t)
           dr == AcceptTrack(Settled(rt), None, t)
           f == Done(dj, s)
           g == [f EXCEPT !.awaiting = TRUE, !.st = "music_only", !.notices = @ \cup {"replace"}]
<1>1. Within /\ o # Free /\ o.pc \in {"observe", "observe2"} /\ dj \in Dj
  BY InvTypes DEF Observe, Calm, Within, Unasked
<1>2. o \in Operation /\ Fits(dj, opened, o, s) /\ t \in AnyTracks /\ o.prev \in AnyTracks /\ None \in AnyTracks
  BY <1>1, WaitsElsewhere, NoTrack DEF Operation
<1>3. o.kind \in {"start", "next", "replace", "realtime"}
  BY <1>1, <1>2 DEF Fits, Awaits
<1>4. ok => t \in played
  BY DEF Observed, RadioInv, PlayerPart
<1>5. CASE Quiet
  BY <1>5, Mute
<1>6. CASE ~Quiet
  <2>1. Current(dj, o)
    BY <1>6 DEF Observe, Compensate
  <2>2. \/ o.kind = "start" /\ ok /\ Introduce(ds, s, o, ds.playback, t)
        \/ o.kind = "next" /\ ok /\ Introduce(dn, s, o, None, t)
        \/ o.kind = "replace" /\ ok /\ Introduce(dr, s, o, dr.playback, t)
        \/ o.kind = "replace" /\ dj' = g /\ Say(dj, "notice", None, o.epoch)
    <3>1. \/ o.kind = "start" /\ StartResult(s, o, ok)
          \/ o.kind = "next" /\ NextResult(s, o, ok)
          \/ o.kind = "replace" /\ ReplaceResult(s, o, ok)
      BY <1>3, <1>6, <2>1 DEF Observe
    <3> HIDE DEF ok
    <3>2. CASE o.kind = "start" /\ StartResult(s, o, ok)
      BY <1>6, <3>2 DEF StartResult
    <3>3. CASE o.kind = "next" /\ NextResult(s, o, ok)
      BY <1>6, <3>3 DEF NextResult, Replace
    <3>4. CASE o.kind = "replace" /\ ReplaceResult(s, o, ok)
      BY <1>6, <3>4 DEF ReplaceResult
    <3> QED
      BY <3>1, <3>2, <3>3, <3>4
  <2> HIDE DEF ok, t
  <2>4. CASE o.kind = "start" /\ ok /\ Introduce(ds, s, o, ds.playback, t)
    <3>1. Incidental(dj, ds)
      BY <1>1, <1>2, AcceptsResult
    <3> HIDE DEF ds
    <3>2. ds.playback \in AnyTracks
      BY <3>1 DEF Incidental, Dj
    <3> QED
      BY <1>1, <1>2, <1>4, <2>1, <2>4, <3>1, <3>2, IntroduceUtters
  <2>5. Incidental(dj, rt) /\ rt \in Dj
    BY <1>1, <1>2, RetireKeeps DEF Incidental
  <2> HIDE DEF rt
  <2>6. CASE o.kind = "next" /\ ok /\ Introduce(dn, s, o, None, t)
    <3>1. Incidental(dj, dn)
      BY <1>2, <2>5, AcceptKeeps, IncidentalTwice
    <3> HIDE DEF dn
    <3> QED
      BY <1>1, <1>2, <1>4, <2>1, <2>6, <3>1, IntroduceUtters
  <2>7. CASE o.kind = "replace" /\ ok /\ Introduce(dr, s, o, dr.playback, t)
    <3>1. Incidental(dj, dr)
      BY <1>2, <2>5, AcceptsResult, IncidentalTwice
    <3> HIDE DEF dr
    <3>2. dr.playback \in AnyTracks
      BY <3>1 DEF Incidental, Dj
    <3> QED
      BY <1>1, <1>2, <1>4, <2>1, <2>7, <3>1, <3>2, IntroduceUtters
  <2>8. CASE o.kind = "replace" /\ dj' = g /\ Say(dj, "notice", None, o.epoch)
    <3>1. Becomes(dj, f, dj.st, IF dj.replacing = s THEN None ELSE dj.replacing)
      BY <1>1, DoneKeeps
    <3> HIDE DEF f
    <3>2. Becomes(f, g, "music_only", f.replacing)
      BY <3>1, GivesUp DEF Becomes
    <3> HIDE DEF g
    <3>3. dj'.epoch = dj.epoch
      BY <2>8, <3>1, <3>2 DEF Becomes, SameRun
    <3> QED
      BY <2>1, <2>8, <3>3, Said DEF Uttered, Current
  <2> QED
    BY <2>2, <2>4, <2>6, <2>7, <2>8
<1> QED
  BY <1>5, <1>6

LEMMA RecheckUtters == ASSUME RadioInv, Unasked, NEW s \in Slots, Recheck(s) PROVE Uttered
<1> DEFINE o == ops[s]
           t == player.track
           left == RetireTrack(dj, o.prev, o.prev)
           q == Settled(left)
           d == AcceptTrack(q, t, t)
<1>1. Within /\ o # Free /\ o.pc = "recheck" /\ dj \in Dj
  BY InvTypes DEF Recheck, Calm, Within, Unasked
<1>2. o \in Operation /\ Fits(dj, opened, o, s) /\ t \in AnyTracks /\ o.prev \in AnyTracks /\ o.kind = "replace"
  <2>1. o \in Operation /\ Fits(dj, opened, o, s)
    BY <1>1, WaitsElsewhere
  <2> QED
    BY <1>1, <2>1, InvTypes DEF Operation, Fits, Awaits
<1>3. CASE Quiet
  BY <1>3, Mute
<1>4. CASE ~Quiet
  <2>1. Current(dj, o) /\ player.status = "playing" /\ Introduce(d, s, o, t, t)
    BY <1>4 DEF Recheck
  <2>2. t \in played
    BY <2>1, PlayerTypes
  <2> HIDE DEF t
  <2>3. Incidental(dj, left) /\ left \in Dj
    BY <1>1, <1>2, RetireKeeps DEF Incidental
  <2> HIDE DEF left
  <2>4. Incidental(left, q) /\ q \in Dj
    BY <2>3, SettledKeeps DEF Incidental
  <2> HIDE DEF q
  <2>5. Incidental(q, d)
    BY <1>2, <2>4, AcceptKeeps
  <2> HIDE DEF d
  <2>6. Incidental(dj, d)
    BY <2>3, <2>4, <2>5, IncidentalTwice
  <2> QED
    BY <1>1, <1>2, <2>1, <2>2, <2>6, IntroduceUtters
<1> QED
  BY <1>3, <1>4

LEMMA CommentUtters == ASSUME RadioInv, NEW s, NEW o, Comment(s, o) PROVE Uttered
<1>1. CASE Quiet
  BY <1>1, Mute
<1>2. CASE ~Quiet
  <2>1. Current(dj, o) /\ dj.st = "dj_speaking" /\ dj' = ScheduleComment(dj) /\ Say(dj, "comment", None, o.epoch)
    BY <1>2 DEF Comment
  <2>2. dj'.epoch = dj.epoch
    BY <2>1, InvTypes, ScheduleKeeps DEF Incidental, SameRun
  <2> QED
    BY <2>1, <2>2, Said DEF Uttered, Current
<1> QED
  BY <1>1, <1>2

LEMMA CommentStatusUtters == ASSUME RadioInv, NEW s \in Slots, CommentStatus(s) PROVE Uttered
<1> DEFINE o == ops[s]
           text == player.status = "ended"
           c == CancelFlow(dj)
           e == [c EXCEPT !.st = "selecting", !.replacing = s]
<1>1. CASE Quiet
  BY <1>1, Mute
<1>2. CASE Comment(s, o)
  BY <1>2, CommentUtters
<1>3. CASE ~Quiet /\ ~Comment(s, o)
  <2>1. dj.st = "dj_speaking" /\ Replace(dj, s, text)
    BY <1>3 DEF CommentStatus
  <2>2. dj' = e /\ Say(e, "wrap", None, e.epoch)
    BY <1>3, <2>1 DEF Replace
  <2>3. c \in Dj /\ c.epoch = dj.epoch
    BY InvTypes, CancelFlowKeeps DEF Incidental, SameRun
  <2> HIDE DEF c
  <2>4. e.epoch = dj.epoch
    BY <2>3 DEF Dj
  <2> HIDE DEF e
  <2> QED
    BY <2>1, <2>2, <2>4, Said DEF Uttered
<1> QED
  BY <1>1, <1>2, <1>3

LEMMA ChainStepUtters == ASSUME RadioInv, Unasked, ChainStep PROVE Uttered
<1> DEFINE c == Head(chain)
<1>1. CASE Quiet
  BY <1>1, Mute
<1>2. CASE ~Quiet
  <2>1. Current(dj, c) /\ \E d : Say(d, c.what, c.track, c.epoch)
    BY <1>2 DEF ChainStep
  <2>2. PICK d : Say(d, c.what, c.track, c.epoch)
    BY <2>1
  <2>3. dj'.epoch = dj.epoch
    BY ChainStepKeeps DEF Inner, SameRun
  <2>4. c = chain[1] /\ 1 \in 1..Len(chain)
    BY InvTypes DEF ChainStep
  <2>5. c.what = "intro" => c.track \in played
    BY <2>4 DEF RadioInv, ChainPart
  <2> HIDE DEF c
  <2> QED
    BY <2>1, <2>2, <2>3, <2>5, Said DEF Uttered, Current
<1> QED
  BY <1>1, <1>2

LEMMA OnBgmEventUtters == ASSUME RadioInv, Unasked, NEW e \in mail, OnBgmEvent(e) PROVE Uttered
<1> DEFINE d == AcceptTrack(dj, e.track, e.track)
           back == [ResetBackoff(d) EXCEPT !.awaiting = FALSE, !.st = "dj_speaking"]
<1>1. CASE Quiet
  BY <1>1, Mute
<1>2. CASE ~Quiet
  <2>1. e \in BgmEvent /\ (e.kind = "playing" => e.track \in played) /\ (e.kind = "changed" => e.next # None)
    BY DEF RadioInv, PlayerPart
  <2>2. /\ e.kind = "playing" /\ OnPlaying(dj, e) /\ ops' = ops /\ lanes' = lanes /\ opened' = opened /\ asked' = asked
    <3>1. e.kind \in {"playing", "changed", "ended", "error"}
      BY <2>1 DEF BgmEvent
    <3>2. CASE e.kind = "playing"
      BY <1>2, <3>2 DEF OnBgmEvent, Unasked
    <3>3. CASE e.kind # "playing"
      BY <1>2, <2>1, <3>1, <3>3 DEF OnBgmEvent, OnTransition, OnEnded, Replace
    <3> QED
      BY <3>2, <3>3
  <2>3. dj'.epoch = dj.epoch
    BY <2>2, OnPlayingKeeps DEF Inner, SameRun, Within
  <2>4. d.st = "music_only" /\ Say(back, "intro", e.track, d.epoch)
    BY <1>2, <2>2 DEF OnPlaying
  <2>5. d.st = dj.st /\ d.epoch = dj.epoch
    <3>1. e.track \in AnyTracks
      BY <2>1, NoTrack DEF BgmEvent
    <3> QED
      BY <3>1, InvTypes, AcceptKeeps DEF Incidental, SameRun
  <2> HIDE DEF back, d
  <2> QED
    BY <2>1, <2>2, <2>3, <2>4, <2>5, Said DEF Uttered
<1> QED
  BY <1>1, <1>2

LEMMA EveryStepUtters == RadioInv /\ DjNext => Uttered
<1> SUFFICES ASSUME RadioInv, DjNext PROVE Uttered
  OBVIOUS
<1>1. CASE asked < MaxRequests /\ People /\ Record(1)
  <2>1. Quiet
    <3>1. CASE ChangeVibe
      BY <3>1 DEF ChangeVibe, Replace
    <3> QED
      BY <1>1, <3>1 DEF People, Configure, Unsubscribe, YieldForUserTurn, MusicOnly, TalkLess, TalkMore, NextTrack, StopDj
  <2> QED
    BY <2>1, Mute
<1>2. ASSUME Record(0) PROVE Unasked
  <2>1. asked' = asked + 0 /\ Noted /\ asked \in Nat
    BY <1>2, RecordNotes, AskedMoves
  <2> QED
    BY <2>1 DEF Unasked
<1>3. CASE (Subscribe \/ Resumes \/ IdleFires \/ CommentFires) /\ Record(0)
  <2>1. Quiet
    BY <1>3 DEF Subscribe, Resumes, ResumeAfterUserTurn, IdleFires, CommentFires
  <2> QED
    BY <2>1, Mute
<1>4. CASE ChainStep /\ Record(0)
  BY <1>2, <1>4, ChainStepUtters
<1>5. ASSUME NEW s \in Slots, Work(s), Record(0) PROVE Uttered
  <2>1. CASE StopReturns(s) \/ Find(s)
    BY <2>1, Mute DEF StopReturns, Find
  <2>2. CASE PreQueue(s)
    BY <2>2, CommentUtters DEF PreQueue
  <2> QED
    BY <1>2, <1>5, <2>1, <2>2, FindThrowsUtters, ObserveUtters, RecheckUtters, CommentStatusUtters DEF Work
<1>6. CASE Deliveries /\ Record(0)
  BY <1>2, <1>6, OnBgmEventUtters DEF Deliveries
<1>7. CASE (PlayerStarts \/ PlayerEnds \/ PlayerFails \/ ShellSkips) /\ Record(0)
  <2>1. Quiet
    BY <1>7 DEF PlayerStarts, PlayerEnds, PlayerFails, ShellSkips, PlayerUnmoved
  <2> QED
    BY <2>1, Mute
<1> QED
  BY <1>1, <1>3, <1>4, <1>5, <1>6, <1>7 DEF DjNext

\* What was begun before a stop, a yield, a "music only", a new profile or the loss of the
\* subscriber never speaks afterwards (CancelledWorkIsSilent).
THEOREM CancelledWorkStaysSilent == DjSpec => CancelledWorkIsSilent
<1>1. RadioInv /\ [DjNext]_djVars => [spoke' # Silence => spoke'.epoch = dj'.epoch]_djVars
  BY EveryStepUtters DEF Uttered
<1> QED
  BY <1>1, RadioInductive, PTL DEF DjSpec, CancelledWorkIsSilent

\* A title is spoken only of a track the player has confirmed (ConfirmedBeforeIntroduced).
THEOREM OnlyConfirmedTracksAreIntroduced == DjSpec => ConfirmedBeforeIntroduced
<1>1. RadioInv /\ [DjNext]_djVars => [spoke'.what = "intro" => spoke'.track \in played']_djVars
  <2> SUFFICES ASSUME RadioInv, DjNext, spoke'.what = "intro" PROVE spoke'.track \in played'
    OBVIOUS
  <2>1. spoke' # Silence
    BY DEF Silence
  <2>2. played \subseteq played'
    BY DEF DjNext, Record
  <2> QED
    BY <2>1, <2>2, EveryStepUtters DEF Uttered
<1> QED
  BY <1>1, RadioInductive, PTL DEF DjSpec, ConfirmedBeforeIntroduced

-----------------------------------------------------------------------------
(* The user's floor.                                                          *)

\* The controller says nothing by itself: it has yielded, or plays "music only" and waits
\* for no other report than that of the announced track.
Hushed(d) ==
    /\ \/ d.st = "yielded"
       \/ d.musicOnly /\ d.st = "music_only" /\ (d.awaiting => d.pending # NoPending)
    /\ d.timer = "none"

\* While the floor is held, all that was begun since is the search after a realtime end,
\* and a comment on its way will find the controller yielded.
HeldInv ==
    floor = "held" =>
        /\ Hushed(dj)
        /\ \A s \in Slots : ops[s] # Free /\ ops[s].epoch = dj.epoch => ops[s].kind = "realtime"
        /\ \A i \in 1..Len(chain) : chain[i].epoch = dj.epoch => ~dj.musicOnly

\* What a step of a held floor may do.
Held == floor = "held" /\ HeldInv
SlotsHeld ==
    \/ ops' = ops
    \/ \E s \in Slots, o \in {Free} \cup Operation :
          /\ ops' = [ops EXCEPT ![s] = o]
          /\ o # Free /\ o.epoch = dj.epoch => o.kind = "realtime"
ChainHeld ==
    \/ chain' = chain
    \/ chain # <<>> /\ chain' = Tail(chain)
    \/ ~dj.musicOnly /\ \E c : chain' = Append(chain, c)
Hush(d) == Hushed(d) /\ d.epoch = dj.epoch /\ d.musicOnly = dj.musicOnly
HoldsStill == Quiet /\ Hush(dj') /\ SlotsHeld /\ ChainHeld

LEMMA HoldsStillKeeps ==
    ASSUME RadioInv, Held, HoldsStill
    PROVE  HeldInv'
<1>1. Hushed(dj') /\ dj'.epoch = dj.epoch /\ dj'.musicOnly = dj.musicOnly
  BY DEF HoldsStill, Hush
<1>2. \A s \in Slots : ops'[s] # Free /\ ops'[s].epoch = dj'.epoch => ops'[s].kind = "realtime"
  <2>1. \A s \in Slots : ops[s] # Free /\ ops[s].epoch = dj.epoch => ops[s].kind = "realtime"
    BY DEF Held, HeldInv
  <2>2. ops \in [Slots -> {Free} \cup Operation]
    BY InvTypes
  <2> QED
    BY <1>1, <2>1, <2>2 DEF HoldsStill, SlotsHeld
<1>3. \A i \in 1..Len(chain') : chain'[i].epoch = dj'.epoch => ~dj'.musicOnly
  <2>1. \A i \in 1..Len(chain) : chain[i].epoch = dj.epoch => ~dj.musicOnly
    BY DEF Held, HeldInv
  <2>2. chain \in Seq(Utterance)
    BY InvTypes
  <2>3. CASE chain' = chain \/ ~dj.musicOnly
    BY <1>1, <2>1, <2>3
  <2>4. CASE chain # <<>> /\ chain' = Tail(chain)
    <3>1. ASSUME NEW i \in 1..Len(chain') PROVE i + 1 \in 1..Len(chain) /\ chain'[i] = chain[i + 1]
      BY <2>2, <2>4, <3>1
    <3> QED
      BY <1>1, <2>1, <3>1
  <2> QED
    BY <2>3, <2>4 DEF HoldsStill, ChainHeld
<1> QED
  BY <1>1, <1>2, <1>3 DEF HeldInv

\* e is d, but for what decides whether the controller speaks.
Aside(d, e) ==
    /\ e \in Dj /\ e.st = d.st /\ e.epoch = d.epoch /\ e.musicOnly = d.musicOnly
    /\ e.timer = d.timer /\ e.awaiting = d.awaiting /\ e.pending = d.pending

LEMMA AsideHush == ASSUME NEW d, Hush(d), NEW e, Aside(d, e) PROVE Hush(e)
  BY DEF Aside, Hush, Hushed

LEMMA HeldHush == ASSUME Held PROVE Hush(dj)
  BY DEF Held, HeldInv, Hush

LEMMA DoneAside == ASSUME NEW d \in Dj, NEW s PROVE Aside(d, Done(d, s))
  BY DEF Dj, Done, Aside

LEMMA RetireAside ==
    ASSUME NEW d \in Dj, NEW p \in AnyTracks, NEW v \in AnyTracks
    PROVE  Aside(d, RetireTrack(d, p, v))
<1> DEFINE rp == d.retP \cup ({p} \ {None})
           rv == d.retV \cup ({v} \ {None})
           pb == IF d.playback = p THEN None ELSE d.playback
           vd == IF d.video = v THEN None ELSE d.video
           e == [d EXCEPT !.retP = rp, !.retV = rv, !.playback = pb, !.video = vd]
<1>1. RetireTrack(d, p, v) = e
  BY DEF RetireTrack
<1>2. RetireTrack(d, p, v) \in Dj
  BY RetireKeeps DEF Incidental
<1> HIDE DEF rp, rv, pb, vd
<1> QED
  BY <1>1, <1>2 DEF Aside, Dj

LEMMA AcceptAside ==
    ASSUME NEW d \in Dj, NEW p \in AnyTracks, NEW v \in AnyTracks
    PROVE  Aside(d, AcceptTrack(d, p, v))
<1> DEFINE other == d.video # None /\ d.video # v
           gone  == ({d.playback} \ {None, p}) \cap (IF p # None \/ other THEN {d.playback} ELSE {})
           rp == (d.retP \cup gone) \ ({p} \ {None})
           rv == (IF other THEN d.retV \cup {d.video} ELSE d.retV) \ {v}
           av == IF other /\ d.annV # v THEN None ELSE d.annV
           pb == IF p # None THEN p ELSE IF gone # {} THEN None ELSE d.playback
           e == [d EXCEPT !.retP = rp, !.retV = rv, !.annV = av, !.playback = pb, !.video = v]
<1>1. AcceptTrack(d, p, v) = e
  BY DEF AcceptTrack
<1>2. AcceptTrack(d, p, v) \in Dj
  BY AcceptKeeps DEF Incidental
<1> HIDE DEF rp, rv, av, pb
<1> QED
  BY <1>1, <1>2 DEF Aside, Dj

LEMMA MarkAside ==
    ASSUME NEW d \in Dj, NEW p \in AnyTracks, NEW v \in AnyTracks
    PROVE  Aside(d, MarkAnnounced(d, p, v))
<1> DEFINE ap == d.annP \cup ({p} \ {None})
           e == [d EXCEPT !.annP = ap, !.annV = v]
<1>1. MarkAnnounced(d, p, v) = e
  BY DEF MarkAnnounced
<1>2. MarkAnnounced(d, p, v) \in Dj
  BY MarkKeeps DEF Incidental
<1> HIDE DEF ap
<1> QED
  BY <1>1, <1>2 DEF Aside, Dj

LEMMA SettledHush == ASSUME NEW d \in Dj, Hush(d) PROVE Hush(Settled(d))
  BY DEF Settled, ResetBackoff, Hush, Hushed, Dj

LEMMA CancelFlowHush == ASSUME NEW d \in Dj, Hush(d) PROVE Hush(CancelFlow(d))
  BY DEF CancelFlow, Hush, Hushed, Dj

LEMMA ExpectHush == ASSUME NEW d \in Dj, NEW t \in Tracks, Hush(d) PROVE Hush(Expect(d, t))
<1> DEFINE rp == d.retP \ {t}
           rv == d.retV \ {t}
           yes == TRUE
           e == [d EXCEPT !.annV = None, !.playback = t, !.video = t, !.retP = rp, !.retV = rv,
                          !.pending = t, !.awaiting = yes]
<1>1. Expect(d, t) = e
  BY DEF Expect
<1>2. t # NoPending
  BY Constants DEF Tracks, NoPending
<1> HIDE DEF rp, rv, yes
<1>3. e.st = d.st /\ e.timer = d.timer /\ e.epoch = d.epoch /\ e.musicOnly = d.musicOnly /\ e.pending = t
  BY DEF Dj
<1> HIDE DEF e
<1> QED
  BY <1>1, <1>2, <1>3 DEF Hush, Hushed

\* An operation goes on: of the kind it was, and of the run it belongs to.
LEMMA SlotGoesOn ==
    ASSUME RadioInv, Held, NEW s \in Slots, NEW o \in Operation, ops[s] # Free, o.kind = ops[s].kind,
           o.epoch = ops[s].epoch, ops' = [ops EXCEPT ![s] = o]
    PROVE  SlotsHeld
<1>1. o # Free /\ o.epoch = dj.epoch => o.kind = "realtime"
  BY DEF Held, HeldInv
<1> QED
  BY <1>1 DEF SlotsHeld

LEMMA SlotEnds == ASSUME NEW s \in Slots, ops' = [ops EXCEPT ![s] = Free] PROVE SlotsHeld
  BY DEF SlotsHeld

\* What is not of the search after a realtime end was begun before the user's turn.
LEMMA HeldNotCurrent ==
    ASSUME Held, NEW s \in Slots, ops[s] # Free, ops[s].kind # "realtime" PROVE ~Current(dj, ops[s])
  BY DEF Held, HeldInv, Current

LEMMA RealtimeResultHolds ==
    ASSUME RadioInv, Held, NEW s \in Slots, ops[s] \in Operation, ops[s] # Free, NEW ok,
           RealtimeResult(s, ops[s], ok), Quiet
    PROVE  HoldsStill
<1> DEFINE o == ops[s]
           y == o.yielded
           sd == Settled(dj)
           d == AcceptTrack(sd, None, o.track)
           m == MarkAnnounced(d, d.playback, o.track)
           yes == TRUE
           f == [dj EXCEPT !.pending = AnyTrack, !.awaiting = yes]
           fs == Done(f, s)
           ds == Done(d, s)
           ns == f.notices \cup {"next"}
           g == [f EXCEPT !.notices = ns]
           on == [o EXCEPT !.pc = "chain"]
           spare == dj.st = "yielded" \/ y
<1>1. o.track \in AnyTracks /\ dj \in Dj /\ None \in AnyTracks /\ yes \in BOOLEAN /\ Hush(dj)
      /\ (dj.st = "yielded" \/ (dj.musicOnly /\ dj.st = "music_only"))
  BY InvTypes, NoTrack, HeldHush DEF Operation, Hush, Hushed
<1>2. \/ /\ dj' = [fs EXCEPT !.st = IF spare THEN @ ELSE "music_only"]
         /\ ops' = [ops EXCEPT ![s] = Free] /\ chain' = chain
      \/ /\ ~dj.musicOnly /\ dj' = g /\ ops' = [ops EXCEPT ![s] = on]
         /\ chain' = Append(chain, Step("notice", None, dj, s, y))
      \/ /\ dj.musicOnly /\ dj' = [ds EXCEPT !.st = "music_only"]
         /\ ops' = [ops EXCEPT ![s] = Free] /\ chain' = chain
      \/ /\ ~dj.musicOnly /\ dj' = IF spare THEN ds ELSE ScheduleComment([ds EXCEPT !.st = "dj_speaking"])
         /\ ops' = [ops EXCEPT ![s] = Free] /\ chain' = chain
      \/ /\ ~dj.musicOnly /\ dj' = m /\ ops' = [ops EXCEPT ![s] = on]
         /\ chain' = Append(chain, Step("intro", o.track, dj, s, y))
  BY DEF RealtimeResult, Use, Enqueue
<1>3. Hush(sd) /\ sd \in Dj /\ sd.awaiting = FALSE /\ sd.st = dj.st
  BY <1>1, SettledHush, SettledKeeps DEF Incidental, Settled, ResetBackoff, Dj
<1> HIDE DEF sd
<1>4. Aside(sd, d) /\ d \in Dj /\ d.playback \in AnyTracks
  BY <1>1, <1>3, AcceptAside DEF Aside, Dj
<1> HIDE DEF d
<1>5. Aside(d, m)
  BY <1>1, <1>4, MarkAside
<1> HIDE DEF m
<1>6. AnyTrack # NoPending
  BY Constants DEF AnyTrack, NoPending
<1>7. f \in Dj /\ f.st = dj.st /\ f.epoch = dj.epoch /\ f.musicOnly = dj.musicOnly /\ f.timer = dj.timer
      /\ f.pending = AnyTrack
  BY <1>1 DEF Dj
<1> HIDE DEF f, yes
<1>8. Aside(f, fs) /\ Aside(d, ds)
  BY <1>4, <1>7, DoneAside
<1> HIDE DEF fs, ds
<1>9. Hush(d) /\ Hush(m) /\ Hush(ds) /\ Hush(f) /\ Hush(fs)
  BY <1>1, <1>3, <1>4, <1>5, <1>6, <1>7, <1>8, AsideHush DEF Hush, Hushed
<1>10. on \in Operation /\ on.kind = o.kind /\ on.epoch = o.epoch
  BY DEF Operation
<1> HIDE DEF on, o, y
<1>11. CASE /\ dj' = [fs EXCEPT !.st = IF spare THEN @ ELSE "music_only"]
            /\ ops' = [ops EXCEPT ![s] = Free] /\ chain' = chain
  <2>1. Hush(dj')
    <3>1. CASE spare
      <4>1. dj' = fs
        BY <1>8, <1>11, <3>1 DEF Aside, Dj
      <4> QED
        BY <1>9, <4>1
    <3>2. CASE ~spare
      <4>1. dj.musicOnly
        BY <1>1, <3>2
      <4>2. dj'.st = "music_only" /\ dj'.musicOnly = fs.musicOnly /\ dj'.timer = fs.timer /\ dj'.epoch = fs.epoch
            /\ dj'.pending = fs.pending
        BY <1>8, <1>11, <3>2 DEF Aside, Dj
      <4> QED
        BY <1>6, <1>7, <1>8, <1>9, <4>1, <4>2 DEF Hush, Hushed, Aside
    <3> QED
      BY <3>1, <3>2
  <2> QED
    BY <1>11, <2>1, SlotEnds DEF HoldsStill, ChainHeld
<1>12. CASE /\ ~dj.musicOnly /\ dj' = g /\ ops' = [ops EXCEPT ![s] = on]
            /\ chain' = Append(chain, Step("notice", None, dj, s, y))
  <2>1. g.st = f.st /\ g.epoch = f.epoch /\ g.musicOnly = f.musicOnly /\ g.timer = f.timer /\ g.pending = f.pending
    BY <1>7 DEF Dj
  <2> HIDE DEF g
  <2>2. Hush(dj')
    BY <1>6, <1>7, <1>9, <1>12, <2>1 DEF Hush, Hushed
  <2>3. SlotsHeld
    BY <1>10, <1>12, SlotGoesOn DEF o
  <2> QED
    BY <1>12, <2>2, <2>3 DEF HoldsStill, ChainHeld
<1>13. CASE /\ dj.musicOnly /\ dj' = [ds EXCEPT !.st = "music_only"]
            /\ ops' = [ops EXCEPT ![s] = Free] /\ chain' = chain
  <2>1. dj'.st = "music_only" /\ dj'.musicOnly = ds.musicOnly /\ dj'.timer = ds.timer /\ dj'.epoch = ds.epoch
        /\ dj'.awaiting = ds.awaiting
    BY <1>8, <1>13 DEF Aside, Dj
  <2>2. Hush(dj')
    BY <1>3, <1>4, <1>8, <1>9, <1>13, <2>1 DEF Hush, Hushed, Aside
  <2> QED
    BY <1>13, <2>2, SlotEnds DEF HoldsStill, ChainHeld
<1>14. CASE /\ ~dj.musicOnly /\ dj' = IF spare THEN ds ELSE ScheduleComment([ds EXCEPT !.st = "dj_speaking"])
            /\ ops' = [ops EXCEPT ![s] = Free] /\ chain' = chain
  <2>1. dj' = ds
    BY <1>1, <1>14
  <2> QED
    BY <1>9, <1>14, <2>1, SlotEnds DEF HoldsStill, ChainHeld
<1>15. CASE /\ ~dj.musicOnly /\ dj' = m /\ ops' = [ops EXCEPT ![s] = on]
            /\ chain' = Append(chain, Step("intro", o.track, dj, s, y))
  <2>1. SlotsHeld
    BY <1>10, <1>15, SlotGoesOn DEF o
  <2> QED
    BY <1>9, <1>15, <2>1 DEF HoldsStill, ChainHeld
<1> QED
  BY <1>2, <1>11, <1>12, <1>13, <1>14, <1>15

LEMMA WorkHolds ==
    ASSUME RadioInv, Held, NEW s \in Slots, Work(s),
           ~\E r \in Slots : /\ ops[r] # Free /\ ops[r].kind = "realtime" /\ ops[r].pc \in {"find", "retry"}
                             /\ ops'[r] = Free /\ dj'.st = "music_only"
    PROVE  HoldsStill
<1> DEFINE o == ops[s]
           f == Done(dj, s)
<1>1. dj \in Dj /\ Hush(dj) /\ ops \in [Slots -> {Free} \cup Operation]
  BY InvTypes, HeldHush
<1>2. o # Free /\ o \in Operation /\ Awaits(o)
  <2>1. o # Free
    BY DEF Work, StopReturns, FindThrows, Find, Observe, Recheck, CommentStatus, PreQueue
  <2> QED
    BY <2>1, InvTypes DEF Fits
<1>3. Aside(dj, f) /\ Hush(f)
  BY <1>1, DoneAside, AsideHush
<1> HIDE DEF f
<1>4. o.kind # "realtime" => ~Current(dj, o)
  BY <1>2, HeldNotCurrent
<1>5. CASE StopReturns(s)
  <2>1. dj' = [dj EXCEPT !.act = None] /\ ops' = [ops EXCEPT ![s] = Free] /\ chain' = chain /\ Quiet
    BY <1>5 DEF StopReturns, Use
  <2>2. Hush(dj')
    BY <1>1, <2>1 DEF Hush, Hushed, Dj
  <2> QED
    BY <2>1, <2>2, SlotEnds DEF HoldsStill, ChainHeld
<1>6. CASE FindThrows(s)
  <2>1. o.kind # "realtime"
    <3> SUFFICES ASSUME o.kind = "realtime" PROVE FALSE
      OBVIOUS
    <3>1. o.pc \in {"find", "retry"} /\ dj' = [f EXCEPT !.awaiting = TRUE, !.st = "music_only"]
          /\ ops' = [ops EXCEPT ![s] = Free]
      BY <1>6 DEF FindThrows, Use, f
    <3>2. dj'.st = "music_only"
      BY <1>3, <3>1 DEF Aside, Dj
    <3> QED
      BY <1>1, <1>2, <3>1, <3>2
  <2>2. o.kind \in {"start", "replace"} /\ ~Current(dj, o)
    BY <1>2, <1>4, <1>6, <2>1 DEF FindThrows, Awaits
  <2>3. (dj' = dj \/ dj' = f) /\ ops' = [ops EXCEPT ![s] = Free] /\ chain' = chain /\ Quiet
    BY <1>6, <2>2 DEF FindThrows, StartThrows, Use, f
  <2> QED
    BY <1>1, <1>3, <2>3, SlotEnds DEF HoldsStill, ChainHeld
<1>7. CASE Find(s)
  <2> DEFINE sent == [o EXCEPT !.pc = IF o.pc = "retry" THEN "observe2" ELSE "observe",
                               !.prev = IF o.pc = "retry" THEN @ ELSE player.track]
  <2>1. chain' = chain /\ Quiet
    BY <1>7 DEF Find
  <2>2. \/ dj' = f /\ ops' = [ops EXCEPT ![s] = Free]
        \/ dj' = dj /\ \/ ops' = [ops EXCEPT ![s] = sent]
                       \/ ops' = [ops EXCEPT ![s] = [sent EXCEPT !.track = player.track]]
                       \/ loaded < MaxTracks /\ ops' = [ops EXCEPT ![s] = [sent EXCEPT !.track = loaded + 1]]
    BY <1>7 DEF Find, Use, f
  <2>3. sent \in Operation /\ sent.kind = o.kind /\ sent.epoch = o.epoch
    <3> DEFINE at == IF o.pc = "retry" THEN "observe2" ELSE "observe"
               from == IF o.pc = "retry" THEN o.prev ELSE player.track
    <3>1. at \in {"observe", "observe2"} /\ from \in AnyTracks
      BY <1>2, InvTypes DEF Operation
    <3>2. sent = [o EXCEPT !.pc = at, !.prev = from]
      OBVIOUS
    <3> HIDE DEF at, from, sent
    <3> QED
      BY <1>2, <3>1, <3>2 DEF Operation
  <2> HIDE DEF sent
  <2>4. CASE dj' = f /\ ops' = [ops EXCEPT ![s] = Free]
    BY <1>3, <2>1, <2>4, SlotEnds DEF HoldsStill, ChainHeld
  <2>5. ASSUME NEW r \in Operation, r.kind = o.kind, r.epoch = o.epoch, dj' = dj, ops' = [ops EXCEPT ![s] = r]
        PROVE  HoldsStill
    <3>1. SlotsHeld
      BY <1>2, <2>5, SlotGoesOn
    <3> QED
      BY <1>1, <2>1, <2>5, <3>1 DEF HoldsStill, ChainHeld
  <2>6. \A t \in AnyTracks : LET r == [sent EXCEPT !.track = t]
                             IN  r \in Operation /\ r.kind = o.kind /\ r.epoch = o.epoch
    BY <2>3 DEF Operation
  <2>7. player.track \in AnyTracks /\ (loaded < MaxTracks => loaded + 1 \in AnyTracks)
    BY InvTypes, Constants DEF RadioInv, PlayerPart, AnyTracks
  <2> QED
    BY <2>2, <2>3, <2>4, <2>5, <2>6, <2>7
<1>8. CASE Observe(s)
  <2> DEFINE bad == Observed(o) \/ o.kind = "next"
             ok == Observed(o)
  <2>1. CASE ~Current(dj, o)
    <3> DEFINE ps == IF bad THEN f.preserve \ {o.epoch} ELSE f.preserve
               e == [f EXCEPT !.preserve = ps]
    <3>1. dj' = e /\ ops' = [ops EXCEPT ![s] = Free] /\ chain' = chain /\ Quiet
      BY <1>8, <2>1 DEF Observe, Compensate, Use, f
    <3>2. ps \in SUBSET Nat
      BY <1>3 DEF Aside, Dj
    <3> HIDE DEF ps
    <3>3. Aside(f, e)
      BY <1>3, <3>2 DEF Aside, Dj
    <3> HIDE DEF e
    <3>4. Hush(dj')
      BY <1>3, <3>1, <3>3, AsideHush
    <3> QED
      BY <3>1, <3>4, SlotEnds DEF HoldsStill, ChainHeld
  <2>2. CASE Current(dj, o)
    <3>1. RealtimeResult(s, o, ok) /\ Quiet
      BY <1>4, <1>8, <2>2 DEF Observe
    <3> HIDE DEF ok
    <3> QED
      BY <1>2, <3>1, RealtimeResultHolds
  <2> QED
    BY <2>1, <2>2
<1>9. CASE Recheck(s)
  <2>1. o.kind = "replace"
    BY <1>2, <1>9 DEF Recheck, Awaits
  <2>2. dj' = f /\ ops' = [ops EXCEPT ![s] = Free] /\ chain' = chain /\ Quiet
    BY <1>4, <1>9, <2>1 DEF Recheck, Use, f
  <2> QED
    BY <1>3, <2>2, SlotEnds DEF HoldsStill, ChainHeld
<1>10. CASE CommentStatus(s) \/ PreQueue(s)
  <2>1. o.kind = "comment"
    BY <1>2, <1>10 DEF CommentStatus, PreQueue, Awaits
  <2>2. dj' = dj /\ ops' = [ops EXCEPT ![s] = Free] /\ chain' = chain /\ Quiet
    BY <1>4, <1>10, <2>1 DEF CommentStatus, PreQueue, Comment, Use
  <2> QED
    BY <1>1, <2>2, SlotEnds DEF HoldsStill, ChainHeld
<1> QED
  BY <1>5, <1>6, <1>7, <1>8, <1>9, <1>10 DEF Work

LEMMA ChainStepHolds == ASSUME RadioInv, Held, ChainStep PROVE HoldsStill
<1> DEFINE c == Head(chain)
           yes == TRUE
           later == [dj EXCEPT !.deferred = yes]
           d == IF Current(dj, c) THEN later ELSE dj
           r == ops[c.slot]
           found == [r EXCEPT !.pc = "find"]
<1>1. dj \in Dj /\ Hush(dj) /\ ops \in [Slots -> {Free} \cup Operation] /\ yes \in BOOLEAN
  BY InvTypes, HeldHush
<1>2. c = chain[1] /\ 1 \in 1..Len(chain) /\ c \in Utterance
  BY InvTypes DEF ChainStep
<1>3. c.slot # None => c.slot \in Slots /\ r # Free /\ r \in Operation
  <2>1. c.slot # None => ops[chain[1].slot] # Free
    BY <1>2 DEF RadioInv, ChainPart
  <2> QED
    BY <1>1, <1>2, <2>1 DEF Utterance
<1>4. Current(dj, c) => dj.st = "yielded"
  <2>1. chain[1].epoch = dj.epoch => ~dj.musicOnly
    BY <1>2 DEF Held, HeldInv
  <2>2. dj.st = "yielded" \/ dj.musicOnly
    BY <1>1 DEF Hush, Hushed
  <2> QED
    BY <1>2, <2>1, <2>2 DEF Current
<1> HIDE DEF yes
<1>5. later.st = dj.st /\ later.timer = dj.timer /\ later.epoch = dj.epoch /\ later.musicOnly = dj.musicOnly
      /\ later.awaiting = dj.awaiting /\ later.pending = dj.pending /\ later \in Dj
  BY <1>1 DEF Dj
<1>6. Aside(dj, later)
  BY <1>5 DEF Aside
<1>7. d \in Dj /\ Hush(d) /\ Hush(Done(d, c.slot))
  <2>1. later \in Dj /\ Hush(later)
    BY <1>1, <1>5, <1>6, AsideHush
  <2>2. d \in Dj /\ Hush(d)
    BY <1>1, <2>1
  <2> HIDE DEF d
  <2> QED
    BY <2>2, DoneAside, AsideHush
<1>8. chain # <<>> /\ chain' = Tail(chain) /\ Quiet
  BY <1>4 DEF ChainStep
<1>9. \/ dj' = d /\ ops' = ops
      \/ c.slot # None /\ dj' = d /\ ops' = [ops EXCEPT ![c.slot] = found]
      \/ c.slot # None /\ dj' = Done(d, c.slot) /\ ops' = [ops EXCEPT ![c.slot] = Free]
  <2>1. ~Current(dj, c) \/ (Current(dj, c) /\ dj.st = "yielded" /\ d.st = "yielded")
    BY <1>4, <1>5
  <2>2. CASE ~Current(dj, c)
    BY <2>2 DEF ChainStep, Use
  <2>3. CASE Current(dj, c) /\ dj.st = "yielded" /\ d.st = "yielded"
    <3>1. d = later
      BY <2>3
    <3> QED
      BY <2>3, <3>1 DEF ChainStep, Use, yes
  <2> QED
    BY <2>1, <2>2, <2>3
<1> HIDE DEF d, c, r
<1>10. CASE dj' = d /\ ops' = ops
  BY <1>7, <1>8, <1>10 DEF HoldsStill, SlotsHeld, ChainHeld
<1>11. CASE c.slot # None /\ dj' = d /\ ops' = [ops EXCEPT ![c.slot] = found]
  <2>1. found \in Operation /\ found.kind = r.kind /\ found.epoch = r.epoch
    BY <1>3, <1>11 DEF Operation
  <2> HIDE DEF found
  <2>2. SlotsHeld
    BY <1>3, <1>11, <2>1, SlotGoesOn DEF r
  <2> QED
    BY <1>7, <1>8, <1>11, <2>2 DEF HoldsStill, ChainHeld
<1>12. CASE c.slot # None /\ dj' = Done(d, c.slot) /\ ops' = [ops EXCEPT ![c.slot] = Free]
  <2>1. SlotsHeld
    BY <1>3, <1>12, SlotEnds
  <2> QED
    BY <1>7, <1>8, <1>12, <2>1 DEF HoldsStill, ChainHeld
<1> QED
  BY <1>9, <1>10, <1>11, <1>12

LEMMA OnPlayingHolds ==
    ASSUME RadioInv, Held, NEW e \in BgmEvent, OnPlaying(dj, e), ops' = ops,
           dj.pending \in {NoPending, AnyTrack, e.track}
    PROVE  HoldsStill
<1> DEFINE t == e.track
           d == AcceptTrack(dj, t, t)
           m == MarkAnnounced(d, t, t)
<1>1. t \in AnyTracks /\ dj \in Dj /\ Hush(dj)
  BY InvTypes, HeldHush, NoTrack DEF BgmEvent
<1>2. Aside(dj, d) /\ d \in Dj
  BY <1>1, AcceptAside DEF Aside
<1>3. \/ dj' = Settled(d) /\ Quiet /\ chain' = chain
      \/ ~d.musicOnly /\ dj' = Settled(m) /\ Quiet /\ chain' = Append(chain, Step("intro", t, d, None, FALSE))
      \/ d.pending \notin {t, AnyTrack} /\ d.st = "music_only" /\ (d.awaiting \/ ~d.musicOnly)
      \/ dj' = d /\ Quiet /\ chain' = chain
  BY DEF OnPlaying, Enqueue
<1> HIDE DEF d, t
<1>4. Aside(d, m) /\ m \in Dj
  BY <1>1, <1>2, MarkAside DEF Aside
<1> HIDE DEF m
<1>5. Hush(d) /\ Hush(m)
  BY <1>1, <1>2, <1>4, AsideHush
<1>6. Hush(Settled(d)) /\ Hush(Settled(m))
  BY <1>2, <1>4, <1>5, SettledHush
<1>7. ~(d.pending \notin {t, AnyTrack} /\ d.st = "music_only" /\ (d.awaiting \/ ~d.musicOnly))
  BY <1>2, <1>5 DEF Hush, Hushed, Aside, t
<1>8. d.musicOnly = dj.musicOnly
  BY <1>2 DEF Aside
<1> QED
  BY <1>3, <1>5, <1>6, <1>7, <1>8 DEF HoldsStill, SlotsHeld, ChainHeld

LEMMA OnTransitionHolds ==
    ASSUME RadioInv, Held, NEW d \in Dj, Hush(d), NEW e, e.next \in Tracks, OnTransition(d, e)
    PROVE  HoldsStill
<1>1. dj' = Expect(d, e.next) /\ Quiet /\ ops' = ops
      /\ (chain' = chain \/ (~d.musicOnly /\ chain' = Append(chain, Step("wrap", None, d, None, FALSE))))
  BY DEF OnTransition, Enqueue
<1>2. Hush(Expect(d, e.next)) /\ d.musicOnly = dj.musicOnly
  BY ExpectHush DEF Hush
<1> QED
  BY <1>1, <1>2 DEF HoldsStill, SlotsHeld, ChainHeld

LEMMA OnEndedHolds ==
    ASSUME RadioInv, Held, NEW d \in Dj, Hush(d), OnEnded(d)
    PROVE  HoldsStill
<1> DEFINE y == d.st = "yielded"
           o == Op("realtime", IF d.musicOnly THEN "find" ELSE "chain", d, y)
           x == [d EXCEPT !.replacing = Slot]
<1>1. Quiet /\ \/ dj' = d /\ ops' = ops /\ chain' = chain
               \/ /\ FreeSlots # {} /\ dj' = x /\ ops' = [ops EXCEPT ![Slot] = o]
                  /\ \/ chain' = chain
                     \/ ~d.musicOnly /\ chain' = Append(chain, Step("wrap", None, d, Slot, y))
  BY DEF OnEnded, Enqueue, Use
<1>2. d.musicOnly = dj.musicOnly
  BY DEF Hush
<1>3. Hush(x)
  BY DEF Hush, Hushed, Dj
<1>4. o \in Operation /\ o.kind = "realtime"
  <2> DEFINE at == IF d.musicOnly THEN "find" ELSE "chain"
  <2>1. at \in {"find", "chain"} /\ y \in BOOLEAN /\ d.act \in Nat /\ d.epoch \in Nat
    BY DEF Dj
  <2> HIDE DEF at, y
  <2> QED
    BY <2>1, NoTrack DEF Op, Operation
<1> HIDE DEF o, x, y
<1>5. CASE dj' = d /\ ops' = ops /\ chain' = chain
  BY <1>1, <1>5 DEF HoldsStill, SlotsHeld, ChainHeld
<1>6. CASE /\ FreeSlots # {} /\ dj' = x /\ ops' = [ops EXCEPT ![Slot] = o]
           /\ \/ chain' = chain
              \/ ~d.musicOnly /\ chain' = Append(chain, Step("wrap", None, d, Slot, y))
  <2>1. SlotsHeld
    BY <1>4, <1>6, SlotIsFree DEF SlotsHeld
  <2> QED
    BY <1>1, <1>2, <1>3, <1>6, <2>1 DEF HoldsStill, ChainHeld
<1> QED
  BY <1>1, <1>5, <1>6

LEMMA OnBgmEventHolds ==
    ASSUME RadioInv, Held, NEW e \in mail, OnBgmEvent(e),
           ~(e.kind = "error" /\ e.next = None),
           ~(e.kind = "playing" /\ dj.pending \notin {NoPending, AnyTrack, e.track})
    PROVE  HoldsStill
<1> DEFINE rc == RetireTrack(dj, None, e.track)
           rt == RetireTrack(dj, e.track, e.track)
           left == IF e.kind = "changed" THEN rc ELSE rt
<1>1. e \in BgmEvent /\ e.kind \in {"playing", "changed", "ended", "error"} /\ e.track \in AnyTracks
      /\ None \in AnyTracks /\ (e.next # None => e.next \in Tracks) /\ (e.kind = "changed" => e.next # None)
  <2>1. e \in BgmEvent /\ (e.kind = "changed" => e.next # None)
    BY DEF RadioInv, PlayerPart
  <2> QED
    BY <2>1, NoTrack, Constants DEF BgmEvent, AnyTracks, Tracks, None
<1>2. dj \in Dj /\ Hush(dj) /\ dj.st # "idle"
  BY InvTypes, HeldHush DEF Hush, Hushed
<1>3. Aside(dj, rc) /\ Aside(dj, rt)
  BY <1>1, <1>2, RetireAside
<1>4. \/ dj' = dj /\ ops' = ops /\ chain' = chain /\ Quiet
      \/ e.kind = "playing" /\ OnPlaying(dj, e) /\ ops' = ops
      \/ e.kind = "error" /\ e.next # None /\ OnTransition(left, e)
      \/ e.kind # "playing" /\ e.next # None /\ OnTransition(CancelFlow(left), e)
      \/ e.kind = "ended" /\ OnEnded(CancelFlow(left))
  BY <1>1, <1>2 DEF OnBgmEvent
<1> HIDE DEF rc, rt
<1>5. left \in Dj /\ Hush(left)
  <2>1. rc \in Dj /\ rt \in Dj /\ Hush(rc) /\ Hush(rt)
    BY <1>2, <1>3, AsideHush DEF Aside
  <2> QED
    BY <2>1
<1> HIDE DEF left
<1>6. CancelFlow(left) \in Dj /\ Hush(CancelFlow(left))
  BY <1>5, CancelFlowKeeps, CancelFlowHush DEF Incidental
<1>7. CASE dj' = dj /\ ops' = ops /\ chain' = chain /\ Quiet
  BY <1>2, <1>7 DEF HoldsStill, SlotsHeld, ChainHeld
<1>8. CASE e.kind = "playing" /\ OnPlaying(dj, e) /\ ops' = ops
  BY <1>1, <1>8, OnPlayingHolds
<1>9. CASE e.kind # "playing" /\ e.next # None /\ (OnTransition(left, e) \/ OnTransition(CancelFlow(left), e))
  BY <1>1, <1>5, <1>6, <1>9, OnTransitionHolds
<1>10. CASE e.kind = "ended" /\ OnEnded(CancelFlow(left))
  BY <1>6, <1>10, OnEndedHolds
<1> QED
  BY <1>4, <1>7, <1>8, <1>9, <1>10

\* When the floor is held after a step, the turn has just begun, or it was held before and
\* nothing has taken it.
LEMMA FloorMoves ==
    ASSUME NEW n, Record(n), floor' = "held"
    PROVE  TurnBegins \/ (floor = "held" /\ ~TurnEnds /\ ~Disturbs)
  BY DEF Record

LEMMA TurnsDoNotBegin ==
    ASSUME RadioInv, turns' \subseteq turns, floor' = "held", Record(0), HeldInv
    PROVE  Held /\ ~TurnEnds /\ ~Disturbs
<1>1. ~TurnBegins
  BY DEF TurnBegins
<1> QED
  BY <1>1, FloorMoves DEF Held

LEMMA YieldHolds ==
    ASSUME RadioInv, YieldForUserTurn PROVE Quiet /\ HeldInv'
<1> DEFINE c == CancelFlow(dj)
           e == [c EXCEPT !.epoch = c.epoch + 1, !.st = "yielded", !.yields = c.yields + 1]
<1>1. dj' = e /\ Quiet /\ ops' = ops /\ chain' = chain
  BY DEF YieldForUserTurn, Yielded
<1>2. c \in Dj /\ c.epoch = dj.epoch /\ c.timer = "none"
  BY InvTypes, CancelFlowKeeps DEF Incidental, SameRun, CancelFlow, Dj
<1> HIDE DEF c
<1>3. e.st = "yielded" /\ e.timer = "none" /\ e.epoch = dj.epoch + 1
  BY <1>2 DEF Dj
<1> HIDE DEF e
<1>4. \A s \in Slots : ops[s] # Free => ops[s].epoch # dj'.epoch
  BY <1>1, <1>3, InvTypes DEF Fits, Operation
<1>5. \A i \in 1..Len(chain) : chain[i].epoch # dj'.epoch
  <2>1. chain \in Seq(Utterance) /\ dj.epoch \in Nat /\ Len(chain) \in Nat /\ \A i \in 1..Len(chain) : chain[i].epoch <= dj.epoch
    BY InvTypes DEF RadioInv, ChainPart
  <2>2. ASSUME NEW i \in 1..Len(chain) PROVE chain[i].epoch \in Nat
    <3>1. chain[i] \in Utterance
      BY <2>1
    <3> QED
      BY <3>1 DEF Utterance
  <2> QED
    BY <1>1, <1>3, <2>1, <2>2
<1> QED
  BY <1>1, <1>3, <1>4, <1>5 DEF HeldInv, Hushed

\* A step that leaves the controller, its operations and the chain alone.
LEMMA IdleHolds == ASSUME Held, Quiet, dj' = dj, ops' = ops, chain' = chain PROVE HoldsStill
  BY HeldHush DEF HoldsStill, SlotsHeld, ChainHeld

LEMMA HeldByStep ==
    RadioInv /\ HeldInv /\ DjNext => HeldInv' /\ (floor' = "held" => Quiet)
<1> SUFFICES ASSUME RadioInv, HeldInv, DjNext, floor' = "held" PROVE HeldInv' /\ Quiet
  BY DEF HeldInv
<1>1. CASE asked < MaxRequests /\ People /\ Record(1)
  <2>1. asked' # asked
    BY <1>1, RecordNotes, AskedMoves
  <2>2. turns' \ turns # {}
    BY <1>1, <2>1, FloorMoves DEF TurnEnds, TurnBegins
  <2>3. YieldForUserTurn
    BY <1>1, <2>2 DEF People, Configure, Unsubscribe, MusicOnly, TalkLess, TalkMore, ChangeVibe, NextTrack, StopDj, Calm
  <2> QED
    BY <2>3, YieldHolds
<1>2. ASSUME Record(0), turns' \subseteq turns, Held /\ ~TurnEnds /\ ~Disturbs => HoldsStill
      PROVE  HeldInv' /\ Quiet
  <2>1. Held /\ ~TurnEnds /\ ~Disturbs
    BY <1>2, TurnsDoNotBegin
  <2>2. HoldsStill
    BY <1>2, <2>1
  <2> QED
    BY <2>1, <2>2, HoldsStillKeeps DEF HoldsStill
<1>3. CASE Subscribe /\ Record(0)
  <2>1. turns' \subseteq turns /\ Quiet /\ ops' = ops /\ chain' = chain /\ dj' = ArmIdle(dj, TRUE)
    BY <1>3 DEF Subscribe
  <2>2. Held => dj' = dj
    BY <2>1 DEF ArmIdle, Held, HeldInv, Hushed
  <2> QED
    BY <1>2, <1>3, <2>1, <2>2, IdleHolds
<1>4. CASE Resumes /\ Record(0)
  <2>1. PICK b \in turns : ResumeAfterUserTurn(b)
    BY <1>4 DEF Resumes
  <2>2. turns' = turns \ {b} /\ Quiet /\ ops' = ops
    BY <2>1 DEF ResumeAfterUserTurn
  <2>3. ~TurnEnds => b.act # dj.act \/ b.yields # dj.yields
    BY <2>2 DEF TurnEnds
  <2>4. ~TurnEnds => dj' = dj /\ chain' = chain
    BY <2>1, <2>3 DEF ResumeAfterUserTurn
  <2> QED
    BY <1>2, <1>4, <2>2, <2>4, IdleHolds
<1>5. CASE (IdleFires \/ CommentFires) /\ Record(0)
  <2>1. turns' \subseteq turns /\ dj.timer # "none"
    BY <1>5 DEF IdleFires, CommentFires, Calm
  <2>2. ~Held
    BY <2>1 DEF Held, HeldInv, Hushed
  <2> QED
    BY <1>2, <1>5, <2>1, <2>2
<1>6. CASE ChainStep /\ Record(0)
  <2>1. turns' \subseteq turns
    BY <1>6 DEF ChainStep, Calm
  <2> QED
    BY <1>2, <1>6, <2>1, ChainStepHolds
<1>7. ASSUME NEW s \in Slots, Work(s), Record(0) PROVE HeldInv' /\ Quiet
  <2>1. turns' \subseteq turns
    BY <1>7 DEF Work, StopReturns, FindThrows, Find, Observe, Recheck, CommentStatus, PreQueue, Calm
  <2>2. ~Disturbs =>
          ~\E r \in Slots : /\ ops[r] # Free /\ ops[r].kind = "realtime" /\ ops[r].pc \in {"find", "retry"}
                            /\ ops'[r] = Free /\ dj'.st = "music_only"
    BY DEF Disturbs
  <2> QED
    BY <1>2, <1>7, <2>1, <2>2, WorkHolds
<1>8. CASE Deliveries /\ Record(0)
  <2>1. PICK e \in mail : OnBgmEvent(e)
    BY <1>8 DEF Deliveries
  <2>2. turns' \subseteq turns /\ e \in mail \ mail'
    BY <2>1 DEF OnBgmEvent
  <2>3. ~Disturbs => /\ ~(e.kind = "error" /\ e.next = None)
                     /\ ~(e.kind = "playing" /\ dj.pending \notin {NoPending, AnyTrack, e.track})
    BY <2>2 DEF Disturbs
  <2> QED
    BY <1>2, <1>8, <2>1, <2>2, <2>3, OnBgmEventHolds
<1>9. CASE (PlayerStarts \/ PlayerEnds \/ PlayerFails \/ ShellSkips) /\ Record(0)
  <2>1. Quiet /\ dj' = dj /\ ops' = ops /\ chain' = chain /\ turns' = turns
    BY <1>9 DEF PlayerStarts, PlayerEnds, PlayerFails, ShellSkips, PlayerUnmoved, Calm
  <2> QED
    BY <1>2, <1>9, <2>1, IdleHolds
<1> QED
  BY <1>1, <1>3, <1>4, <1>5, <1>6, <1>7, <1>8, <1>9 DEF DjNext

LEMMA HeldInductive == DjSpec => [](RadioInv /\ HeldInv)
<1>1. DjInit => HeldInv
  BY DEF DjInit, HeldInv
<1>2. RadioInv /\ HeldInv /\ [DjNext]_djVars => HeldInv'
  <2>1. HeldInv /\ UNCHANGED djVars => HeldInv'
    BY DEF HeldInv, Hushed, djVars
  <2> QED
    BY <2>1, HeldByStep
<1> QED
  BY <1>1, <1>2, RadioInductive, PTL DEF DjSpec

\* While the user's turn is open nothing is said, whatever plays, ends, is found or is resumed
\* late meanwhile - unless the user asks for it, the player or the search for the next track
\* fails, or the player reports its tracks out of order (UserHasTheFloor).
THEOREM UserKeepsTheFloor == DjSpec => UserHasTheFloor
<1>1. RadioInv /\ HeldInv /\ [DjNext]_djVars => [floor' = "held" => spoke' = Silence]_djVars
  BY HeldByStep DEF Quiet
<1> QED
  BY <1>1, HeldInductive, PTL DEF DjSpec, UserHasTheFloor

=============================================================================
