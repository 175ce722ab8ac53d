------------------------------- MODULE ChatTurn -------------------------------
(* One chat turn per request (src/src/main/app/chat-turn-handler.ts) with the  *)
(* guard that authorises every operation of a request carrying a processing    *)
(* profile (adapters/processing-guard.ts), the one-time consents it reserves   *)
(* (adapters/discord-consent-store.ts) and the approvals of gated tools        *)
(* (adapters/approval.ts).  Memory, compaction and the transcript are there    *)
(* for every turn but those of Discord.  What is said between two waits is one *)
(* step; the text of the answer, its normalisation and its price are left out. *)
EXTENDS Integers, Sequences, FiniteSets, FiniteSetsExt, Functions

CONSTANTS
    Turns,              \* request ids, each used once
    Channels,           \* the channels a request may come from
    Carried,            \* the processing profiles it may carry, "none" for no profile
    Offered,            \* the kinds of tool call the provider may make
    Consents, Covers,   \* one-time consents and the workload each one covers
    MaxToolRounds,      \* MAX_TOOL_ROUNDS
    MaxUtterances,      \* CONTINUE_MAX_UTTERANCES
    MaxCalls,           \* bound: tool calls of one round
    MaxNative           \* bound: provider-native tool calls of one turn

(* A control call asks to go on speaking; a plain tool has no approval and no  *)
(* processing, a proc tool processes outside, a gated one also needs approval, *)
(* save is the built-in skill_memory_save, unknown a tool that is not offered. *)
Kinds == {"control", "plain", "proc", "gated", "save", "unknown"}
NativeKinds == {"plain", "proc"}
Workloads == {"main_llm", "memory_llm", "embedding", "network_tool"}
Profiles == {"none", "local_only", "cloud_enabled", "ask_before_external"}

ASSUME TurnAssumption ==
    /\ Channels \subseteq {"private", "discord"}
    /\ Carried \subseteq Profiles
    /\ Offered \subseteq Kinds
    /\ Covers \in [Consents -> Workloads]
    /\ MaxToolRounds \in Nat /\ MaxUtterances \in Nat \ {0}
    /\ MaxCalls \in Nat /\ MaxNative \in Nat

VARIABLES
    channel,    \* the channel of the request
    profile,    \* the profile it carries
    turn,       \* the entry of the turns map: its state, whether it is there, its abort signal
    pc,         \* where onChatRequest is
    wire,       \* what the client was told: usage and endings, events after the ending, open tool calls
    prog,       \* counters and flags of the turn loop
    queue,      \* calls of this round still to handle
    answer,     \* the approval the turn waits for
    plan,       \* disclosures each process of the turn still has to deliver
    role,       \* the memory model request behind a compaction or a save
    native,     \* the provider-native tool call
    taken,      \* consents reserved in the store
    spent,      \* history: operations let through under each consent
    due,        \* history: disclosures accepted less operations begun, approvals less gated runs
    kept        \* history: memory saves and transcript appends of the turn

request == <<channel, profile>>
said == <<turn, wire>>
own == <<queue, answer>>
vars == <<channel, profile, turn, pc, wire, prog, queue, answer, plan, role, native, taken, spent, due, kept>>

Who == {"main", "role", "native"}
NoPlan == [list |-> <<>>, allow |-> FALSE, holds |-> {}]
IdleRole == [at |-> "idle", tries |-> 0, stale |-> FALSE]

(* Stages of the turn that authorise what they are about to do, the workloads  *)
(* they declare, and where the turn is once they may go on.                    *)
Stages == {"compact", "recall", "main", "tool", "save"}
Declared == [compact |-> <<"memory_llm">>, recall |-> <<"embedding">>, main |-> <<"main_llm">>,
             tool |-> <<"network_tool">>, save |-> <<"memory_llm", "embedding">>]
Busy == [compact |-> "compacting", recall |-> "recalling", main |-> "streaming",
         tool |-> "running", save |-> "saving"]
Ops(t, who) ==
    CASE who = "main" -> Declared[pc[t]]
      [] who = "role" -> <<"memory_llm">>
      [] who = "native" -> <<"network_tool">>

(* decideProcessingPolicy, over the destinations an endpoint may turn out to have *)
Verdicts == [none |-> {"allowed"},
             local_only |-> {"allowed", "blocked"},
             cloud_enabled |-> {"allowed"},
             ask_before_external |-> {"allowed", "confirmation_required"}]

Ended(t) == wire[t].end # "none"
Cancelled(t, who) == turn[t].aborted \/ (who = "role" /\ role[t].stale)
Why(t) == IF turn[t].aborted THEN "cancelled" ELSE "error"

\* mutant: the ending does not latch
TerminalUnlatched(w, why) ==
    [w EXCEPT !.usage = @ + 1, !.end = why]
(* terminalFinish and terminalError: usage, then one ending *)
Terminal(w, why) ==
    IF w.end # "none" THEN w ELSE [w EXCEPT !.usage = @ + 1, !.end = why]

StateAfter(t, why) ==
    IF Ended(t) THEN turn[t].state ELSE IF why = "finish" THEN "finished" ELSE "errored"

(* The last ending and the `finally`: the turn leaves the map. *)
EndTurn(t, why) ==
    /\ wire' = [wire EXCEPT ![t] = Terminal(@, why)]
    /\ turn' = [turn EXCEPT ![t].live = FALSE, ![t].state = StateAfter(t, why)]
    /\ pc' = [pc EXCEPT ![t] = "done"]
    /\ queue' = [queue EXCEPT ![t] = <<>>]
    /\ answer' = [answer EXCEPT ![t] = "none"]

(* emitCritical does not look at the terminal latch. *)
Disclose(t) == wire' = [wire EXCEPT ![t].late = @ \/ Ended(t)]
-----------------------------------------------------------------------------
Init ==
    /\ channel = [t \in Turns |-> "private"]
    /\ profile = [t \in Turns |-> "none"]
    /\ turn = [t \in Turns |-> [state |-> "none", live |-> FALSE, aborted |-> FALSE]]
    /\ pc = [t \in Turns |-> "idle"]
    /\ wire = [t \in Turns |-> [usage |-> 0, end |-> "none", late |-> FALSE, open |-> 0]]
    /\ prog = [t \in Turns |-> [rounds |-> 0, asked |-> 0, utterances |-> 0, control |-> FALSE,
                                speaking |-> FALSE, retried |-> FALSE, native |-> 0, denied |-> FALSE]]
    /\ queue = [t \in Turns |-> <<>>]
    /\ answer = [t \in Turns |-> "none"]
    /\ plan = [t \in Turns |-> [who \in Who |-> NoPlan]]
    /\ role = [t \in Turns |-> IdleRole]
    /\ native = [t \in Turns |-> "idle"]
    /\ taken = {}
    /\ spent = [c \in Consents |-> 0]
    /\ due = [t \in Turns |-> [w \in Workloads \cup {"approval"} |-> 0]]
    /\ kept = [t \in Turns |-> [saved |-> 0, logged |-> 0]]

(* A request enters.  It compacts when its history is over the threshold and   *)
(* recalls when the latest message can be searched for.                        *)
Request(t) ==
    /\ turn[t].state = "none"
    /\ \E c \in Channels : channel' = [channel EXCEPT ![t] = c]
    /\ \E p \in Carried : profile' = [profile EXCEPT ![t] = p]
    /\ turn' = [turn EXCEPT ![t].state = "streaming", ![t].live = TRUE]
    /\ \E first \in IF channel'[t] = "discord" THEN {"main"} ELSE {"compact", "recall", "main"} :
           pc' = [pc EXCEPT ![t] = first]
    /\ UNCHANGED <<wire, prog, own, plan, role, native, taken, spent, due, kept>>

\* mutant: the waiting approval is left to the user
CancelUnsettled(t) ==
    /\ turn[t].live /\ turn[t].state = "streaming"
    /\ turn' = [turn EXCEPT ![t].state = "cancelling", ![t].aborted = TRUE]
    /\ UNCHANGED <<pc, wire, prog, own, plan, role, native, taken, spent, due, kept>>

(* onCancel, which also settles an approval the turn is waiting for *)
Cancel(t) ==
    /\ turn[t].live /\ turn[t].state = "streaming"
    /\ turn' = [turn EXCEPT ![t].state = "cancelling", ![t].aborted = TRUE]
    /\ answer' = [answer EXCEPT ![t] = IF @ = "waiting" THEN "reject" ELSE @]
    /\ UNCHANGED <<pc, wire, prog, queue, plan, role, native, taken, spent, due, kept>>
-----------------------------------------------------------------------------
(* authorizeOperations: classify what is declared, reserve a consent for every *)
(* operation the profile wants confirmed, disclose, and only then go on.       *)

Counted(t, shown, keys) ==
    [w \in DOMAIN due[t] |-> due[t][w] + (IF w \in shown THEN 1 ELSE 0) - (IF w \in keys THEN 1 ELSE 0)]

Begins(t, who) ==
    (IF profile[t] = "none" THEN {} ELSE Range(Ops(t, who)))
        \cup IF who = "main" /\ pc[t] = "tool" /\ Head(queue[t]) = "gated" THEN {"approval"} ELSE {}

(* The operation is let through and begins. *)
Granted(t, who, shown, holds) ==
    /\ plan' = [plan EXCEPT ![t][who] = NoPlan]
    /\ due' = [due EXCEPT ![t] = Counted(t, shown, Begins(t, who))]
    /\ spent' = [c \in Consents |-> spent[c] + IF c \in holds THEN 1 ELSE 0]
    /\ pc' = IF who = "main" THEN [pc EXCEPT ![t] = Busy[@]] ELSE pc
    /\ prog' = IF who = "main" /\ pc[t] = "main" THEN [prog EXCEPT ![t].asked = @ + 1] ELSE prog
    /\ kept' = IF who = "main" /\ pc[t] = "save" THEN [kept EXCEPT ![t].saved = @ + 1] ELSE kept
    /\ role' = IF who = "role" THEN [role EXCEPT ![t].at = "calling"] ELSE role
    /\ native' = IF who = "native" THEN [native EXCEPT ![t] = "running"] ELSE native
    /\ UNCHANGED <<turn, wire, own>>

(* The operation is refused: loudly with an ending of the turn (of the round,  *)
(* for a provider-native call), silently when it was cancelled.                *)
Refused(t, who, loud) ==
    /\ plan' = [plan EXCEPT ![t][who] = NoPlan]
    /\ CASE who = "main" ->
              /\ EndTurn(t, IF loud THEN "error" ELSE Why(t))
              /\ UNCHANGED <<prog, role, native>>
         [] who = "role" ->
              /\ role' = [role EXCEPT ![t] = [@ EXCEPT !.at = "idle", !.tries = 2]]
              /\ wire' = IF loud THEN [wire EXCEPT ![t] = Terminal(@, "error")] ELSE wire
              /\ turn' = IF loud THEN [turn EXCEPT ![t].state = StateAfter(t, "error")] ELSE turn
              /\ UNCHANGED <<pc, prog, own, native>>
         [] who = "native" ->
              /\ native' = [native EXCEPT ![t] = "answered"]
              /\ prog' = [prog EXCEPT ![t].denied = @ \/ loud]
              /\ UNCHANGED <<said, pc, own, role>>

Asking(t, who) ==
    CASE who = "main" -> pc[t] \in Stages
      [] who = "role" -> role[t].at = "auth"
      [] who = "native" -> native[t] = "auth"

(* preparePlan, the commit of its reservation, and the first disclosure.       *)
(* `consents` are what the store reserved for the operations to confirm,       *)
(* nothing when one is missing or the reservation could not be written; the    *)
(* commit re-reads the store.                                                  *)
Deliver(t, who, verdict, consents, committed) ==
    LET ops == Ops(t, who)
        refused == {i \in DOMAIN ops : verdict[i] = "blocked"
                        \/ (verdict[i] = "confirmation_required" /\ consents = {})}
    IN  /\ plan' = [plan EXCEPT ![t][who] =
                       [list |-> IF refused # {} THEN <<ops[Min(refused)]>> ELSE ops,
                        allow |-> refused = {} /\ (consents = {} \/ committed),
                        holds |-> consents]]
        /\ taken' = taken \cup consents
        /\ Disclose(t)
        /\ UNCHANGED <<turn, pc, prog, own, role, native, spent, due, kept>>

Reservable(t, who, verdict) ==
    LET asked == {i \in DOMAIN Ops(t, who) : verdict[i] = "confirmation_required"}
    IN  {S \in SUBSET (Consents \ taken) :
            /\ Cardinality(S) = Cardinality(asked)
            /\ {Covers[c] : c \in S} = {Ops(t, who)[i] : i \in asked}} \cup {{}}

\* mutant: one plan authorises the later rounds of the turn too
PrepareOnce(t, who) ==
    /\ Asking(t, who) /\ plan[t][who] = NoPlan
    /\ ~(who = "main" /\ pc[t] = "main" /\ Ended(t))
    /\ IF Cancelled(t, who) \/ (who = "native" /\ prog[t].denied)
       THEN Refused(t, who, FALSE) /\ UNCHANGED <<taken, spent, due, kept>>
       ELSE IF profile[t] = "none" \/ (who = "main" /\ pc[t] = "main" /\ prog[t].asked > 0)
       THEN Granted(t, who, {}, {}) /\ UNCHANGED taken
       ELSE \/ Refused(t, who, TRUE) /\ UNCHANGED <<taken, spent, due, kept>>
            \/ \E verdict \in [DOMAIN Ops(t, who) -> Verdicts[profile[t]]], committed \in BOOLEAN :
                   \E consents \in Reservable(t, who, verdict) :
                       Deliver(t, who, verdict, consents, committed)

Prepare(t, who) ==
    /\ Asking(t, who) /\ plan[t][who] = NoPlan
    /\ ~(who = "main" /\ pc[t] = "main" /\ Ended(t))
    /\ IF Cancelled(t, who) \/ (who = "native" /\ prog[t].denied)
       THEN Refused(t, who, FALSE) /\ UNCHANGED <<taken, spent, due, kept>>
       ELSE IF profile[t] = "none" THEN Granted(t, who, {}, {}) /\ UNCHANGED taken
       ELSE \/ Refused(t, who, TRUE) /\ UNCHANGED <<taken, spent, due, kept>>
            \/ \E verdict \in [DOMAIN Ops(t, who) -> Verdicts[profile[t]]], committed \in BOOLEAN :
                   \E consents \in Reservable(t, who, verdict) :
                       Deliver(t, who, verdict, consents, committed)

\* mutant: the signal is not looked at again after the disclosure
UndeliveredUnchecked(t, who, accepted) == ~accepted

(* The disclosure was not accepted, or the signal fired while it was under way. *)
Undelivered(t, who, accepted) == Cancelled(t, who) \/ ~accepted

(* The transport accepts or refuses the disclosure that is under way.  A       *)
(* cancelled or undelivered plan gives its reservation back.                   *)
Ack(t, who, accepted) ==
    LET p == plan[t][who]
        shown == IF p.allow THEN {Head(p.list)} ELSE {}
    IN  /\ p # NoPlan
        /\ IF Undelivered(t, who, accepted)
           THEN /\ Refused(t, who, ~Cancelled(t, who))
                /\ taken' = taken \ p.holds
                /\ UNCHANGED <<spent, due, kept>>
           ELSE IF Len(p.list) > 1
           THEN /\ plan' = [plan EXCEPT ![t][who].list = Tail(@)]
                /\ due' = [due EXCEPT ![t] = Counted(t, shown, {})]
                /\ Disclose(t)
                /\ UNCHANGED <<turn, pc, prog, own, role, native, taken, spent, kept>>
           ELSE IF p.allow
           THEN Granted(t, who, shown, p.holds) /\ UNCHANGED taken
           ELSE Refused(t, who, TRUE) /\ UNCHANGED <<taken, spent, due, kept>>
-----------------------------------------------------------------------------
(* A memory model request made by the memory package while it compacts or      *)
(* saves: a second one is tried when the first was let through and failed.     *)
(* Without a profile the user approves it; with one it is authorised.          *)
RoleAsks(t) ==
    /\ pc[t] \in {"compacting", "saving"}
    /\ role[t].at = "idle" /\ role[t].tries < 2
    /\ ~turn[t].aborted
    /\ profile[t] = "none" => ~Ended(t)
    /\ role' = [role EXCEPT ![t].at = IF profile[t] = "none" THEN "approval" ELSE "auth",
                            ![t].tries = @ + 1]
    /\ UNCHANGED <<said, pc, prog, own, plan, native, taken, spent, due, kept>>

(* The approval settles: the user's answer, or the signal. *)
RoleApproval(t, approved) ==
    /\ role[t].at = "approval"
    /\ Cancelled(t, "role") => ~approved
    /\ role' = [role EXCEPT ![t].at = IF approved THEN "calling" ELSE "idle",
                            ![t].tries = IF approved THEN @ ELSE 2]
    /\ UNCHANGED <<said, pc, prog, own, plan, native, taken, spent, due, kept>>

RoleEnds(t) ==
    /\ role[t].at = "calling"
    /\ role' = [role EXCEPT ![t].at = "idle"]
    /\ UNCHANGED <<said, pc, prog, own, plan, native, taken, spent, due, kept>>

(* What the turn stops waiting for: its signal has fired for the role. *)
LeftBehind(t) == [role EXCEPT ![t] = IF @.at = "idle" THEN IdleRole ELSE [@ EXCEPT !.stale = TRUE, !.tries = 2]]

(* The compaction answers, fails, times out or is cut short by a cancellation. *)
CompactEnds(t) ==
    /\ pc[t] = "compacting"
    /\ role' = LeftBehind(t)
    /\ \E next \in {"recall", "main"} : pc' = [pc EXCEPT ![t] = next]
    /\ UNCHANGED <<said, prog, own, plan, native, taken, spent, due, kept>>

RecallEnds(t) ==
    /\ pc[t] = "recalling"
    /\ pc' = [pc EXCEPT ![t] = "main"]
    /\ UNCHANGED <<said, prog, own, plan, role, native, taken, spent, due, kept>>
-----------------------------------------------------------------------------
(* One round of the provider. *)
rest == <<plan, role, taken, spent, due, kept>>

Break(t) ==
    /\ pc[t] = "main" /\ plan[t]["main"] = NoPlan /\ Ended(t)
    /\ EndTurn(t, "error")
    /\ UNCHANGED <<prog, native, rest>>

(* The provider runs a tool itself and the stream waits for it. *)
NativeCall(t, kind) ==
    /\ pc[t] = "streaming" /\ native[t] = "idle" /\ ~turn[t].aborted
    /\ kind \in NativeKinds \cap Offered /\ prog[t].native < MaxNative
    /\ native' = [native EXCEPT ![t] = IF kind = "proc" THEN "auth" ELSE "running"]
    /\ prog' = [prog EXCEPT ![t].native = @ + 1]
    /\ wire' = IF prog[t].denied THEN wire ELSE [wire EXCEPT ![t].open = @ + 1]
    /\ UNCHANGED <<turn, pc, own, rest>>

NativeEnds(t) ==
    /\ native[t] \in {"running", "answered"}
    /\ native' = [native EXCEPT ![t] = "idle"]
    /\ wire' = IF pc[t] = "streaming" THEN [wire EXCEPT ![t].open = @ - 1] ELSE wire
    /\ UNCHANGED <<turn, pc, prog, own, rest>>

(* The round is cut short, rejected, left without a finish, or was denied.     *)
RoundFails(t) ==
    /\ pc[t] = "streaming"
    /\ turn[t].aborted \/ native[t] = "idle"
    /\ EndTurn(t, IF prog[t].denied THEN "error" ELSE Why(t))
    /\ UNCHANGED <<prog, native, rest>>

RoundFinished(t) ==
    /\ pc[t] = "streaming" /\ native[t] = "idle"
    /\ ~turn[t].aborted /\ ~prog[t].denied

(* Where the last text of a turn leads: Discord keeps nothing. *)
Commit(t) ==
    IF channel[t] = "discord" THEN EndTurn(t, "finish")
    ELSE pc' = [pc EXCEPT ![t] = "save"] /\ UNCHANGED <<said, own>>

Retry(t) ==
    /\ ~prog[t].retried
    /\ prog' = [prog EXCEPT ![t].retried = TRUE]
    /\ pc' = [pc EXCEPT ![t] = "main"]
    /\ UNCHANGED <<said, own>>

(* A final text that is empty, promises an action or was cut is asked for once more. *)
Reasks(t, kind) ==
    CASE kind = "blank" -> TRUE
      [] kind = "promise" -> /\ Offered \cap {"plain", "proc", "gated", "save"} # {}
                             /\ ~prog[t].retried /\ ~prog[t].control
                             /\ prog[t].rounds = 0 /\ prog[t].native = 0
      [] kind = "cut" -> ~prog[t].retried
      [] kind = "answer" -> FALSE

RoundAnswers(t, kind) ==
    /\ RoundFinished(t)
    /\ IF Reasks(t, kind)
       THEN \/ Retry(t)
            \/ /\ prog[t].retried
               /\ EndTurn(t, "error") /\ UNCHANGED prog
       ELSE IF prog[t].speaking
       THEN /\ prog' = [prog EXCEPT ![t].utterances = @ + 1]
            /\ \/ Commit(t)     \* the last utterance, or the deadline has passed
               \/ /\ prog[t].utterances + 1 < MaxUtterances
                  /\ pc' = [pc EXCEPT ![t] = "pausing"] /\ UNCHANGED <<said, own>>
       ELSE Commit(t) /\ UNCHANGED prog
    /\ UNCHANGED <<native, rest>>

PauseEnds(t) ==
    /\ pc[t] = "pausing"
    /\ IF turn[t].aborted THEN EndTurn(t, "cancelled")
       ELSE \/ Commit(t)
            \/ pc' = [pc EXCEPT ![t] = "main"] /\ UNCHANGED <<said, own>>
    /\ UNCHANGED <<prog, native, rest>>

(* The round asks for tools.  Going on speaking is granted once, when the user *)
(* is quoted; it does not count as a tool round.                               *)
RoundCalls(t, calls) ==
    LET control == "control" \in Range(calls)
        external == Range(calls) # {"control"}
    IN  /\ RoundFinished(t)
        /\ IF (control /\ prog[t].control) \/ (external /\ prog[t].rounds >= MaxToolRounds)
           THEN EndTurn(t, "error") /\ UNCHANGED prog
           ELSE /\ \E quoted \in IF control THEN BOOLEAN ELSE {FALSE} :
                       prog' = [prog EXCEPT ![t].control = @ \/ control,
                                            ![t].speaking = @ \/ quoted,
                                            ![t].rounds = @ + IF external THEN 1 ELSE 0]
                /\ queue' = [queue EXCEPT ![t] = calls]
                /\ pc' = [pc EXCEPT ![t] = "tools"]
                /\ UNCHANGED <<said, answer>>
        /\ UNCHANGED <<native, rest>>
-----------------------------------------------------------------------------
(* The calls of the round, one after the other. *)
Handled(t) == queue' = [queue EXCEPT ![t] = Tail(@)]
Goes(t, place) == pc' = [pc EXCEPT ![t] = place]

NextCall(t) ==
    /\ pc[t] = "tools"
    /\ IF queue[t] = <<>> THEN Goes(t, "main") /\ UNCHANGED <<said, own>>
       ELSE IF turn[t].aborted THEN EndTurn(t, "cancelled")
       ELSE CASE Head(queue[t]) \in {"control", "unknown"} ->
                    Handled(t) /\ UNCHANGED <<said, pc, answer>>
              [] Head(queue[t]) = "gated" ->
                    /\ wire' = [wire EXCEPT ![t].open = @ + 1]
                    /\ answer' = [answer EXCEPT ![t] = "waiting"]
                    /\ Goes(t, "approval")
                    /\ UNCHANGED <<turn, queue>>
              [] Head(queue[t]) \in {"plain", "proc", "save"} ->
                    /\ wire' = [wire EXCEPT ![t].open = @ + 1]
                    /\ Goes(t, CASE Head(queue[t]) = "plain" -> "running"
                                [] Head(queue[t]) = "proc" -> "tool"
                                [] Head(queue[t]) = "save" -> "storing")
                    /\ UNCHANGED <<turn, own>>
    /\ UNCHANGED <<prog, native, rest>>

(* onApprovalResponse: the first answer counts; one for a call that is not     *)
(* waiting is dropped.                                                         *)
Approve(t, decision) ==
    /\ answer[t] = "waiting"
    /\ answer' = [answer EXCEPT ![t] = decision]
    /\ due' = IF decision = "approve" THEN [due EXCEPT ![t]["approval"] = @ + 1] ELSE due
    /\ UNCHANGED <<said, pc, prog, queue, plan, role, native, taken, spent, kept>>

ApprovalEnds(t) ==
    /\ pc[t] = "approval" /\ answer[t] # "waiting"
    /\ IF turn[t].aborted THEN EndTurn(t, "cancelled")
       ELSE /\ answer' = [answer EXCEPT ![t] = "none"]
            /\ IF answer[t] = "approve" THEN Goes(t, "tool") /\ UNCHANGED <<said, queue>>
               ELSE /\ wire' = [wire EXCEPT ![t].open = @ - 1]
                    /\ Handled(t) /\ Goes(t, "tools") /\ UNCHANGED turn
    /\ UNCHANGED <<prog, native, rest>>

(* The tool answers, throws, times out or is cut short; the built-in save has  *)
(* no deadline and does not watch the signal.                                  *)
ToolEnds(t) ==
    /\ pc[t] \in {"running", "storing"}
    /\ IF turn[t].aborted THEN EndTurn(t, "cancelled")
       ELSE /\ wire' = [wire EXCEPT ![t].open = @ - 1]
            /\ Handled(t) /\ Goes(t, "tools") /\ UNCHANGED <<turn, answer>>
    /\ UNCHANGED <<prog, native, rest>>
-----------------------------------------------------------------------------
\* mutant: a cancellation during the save ends the turn without its transcript
SaveEndsCancelled(t) ==
    /\ pc[t] = "saving"
    /\ role' = LeftBehind(t)
    /\ IF turn[t].aborted THEN EndTurn(t, "cancelled") /\ UNCHANGED kept
       ELSE /\ Goes(t, "logging")
            /\ kept' = [kept EXCEPT ![t].logged = @ + 1]
            /\ UNCHANGED <<said, own>>
    /\ UNCHANGED <<prog, plan, native, taken, spent, due>>

(* The save answers, fails or times out, and the transcript is appended to. *)
SaveEnds(t) ==
    /\ pc[t] = "saving"
    /\ role' = LeftBehind(t)
    /\ Goes(t, "logging")
    /\ kept' = [kept EXCEPT ![t].logged = @ + 1]
    /\ UNCHANGED <<said, prog, own, plan, native, taken, spent, due>>

LogEnds(t) ==
    /\ pc[t] = "logging"
    /\ EndTurn(t, "finish")
    /\ UNCHANGED <<prog, native, rest>>

(* Memory tools are offered to private requests without a profile only. *)
Callable(t) == Offered \ (IF profile[t] = "none" /\ channel[t] = "private" THEN {} ELSE {"save"})
CallSeqs(t) == UNION {[1 .. n -> Callable(t)] : n \in 1 .. MaxCalls}

TurnStep(t) ==
    \/ CompactEnds(t) \/ RecallEnds(t) \/ Break(t) \/ PauseEnds(t) \/ NextCall(t)
    \/ ApprovalEnds(t) \/ SaveEnds(t)
    \/ \E who \in Who : Prepare(t, who)

Environment(t) ==
    \/ Cancel(t)
    \/ \E who \in Who, accepted \in BOOLEAN : Ack(t, who, accepted)
    \/ RoleAsks(t) \/ RoleEnds(t) \/ \E approved \in BOOLEAN : RoleApproval(t, approved)
    \/ \E kind \in NativeKinds : NativeCall(t, kind)
    \/ NativeEnds(t) \/ RoundFails(t)
    \/ \E kind \in {"answer", "promise", "cut", "blank"} : RoundAnswers(t, kind)
    \/ \E calls \in CallSeqs(t) : RoundCalls(t, calls)
    \/ \E decision \in {"approve", "reject"} : Approve(t, decision)
    \/ ToolEnds(t) \/ LogEnds(t)

Next == \E t \in Turns : Request(t) \/ ((TurnStep(t) \/ Environment(t)) /\ UNCHANGED request)

(* The handler goes on whenever it can.  Deliveries, the transcript and the    *)
(* built-in save come back, tools have a deadline, and a cancelled stream      *)
(* loses its race; the provider, the user and the memory model may be silent.  *)
Fairness ==
    \A t \in Turns :
        /\ WF_vars(TurnStep(t) /\ UNCHANGED request)
        /\ \A who \in Who : WF_vars((\E accepted \in BOOLEAN : Ack(t, who, accepted)) /\ UNCHANGED request)
        /\ WF_vars((ToolEnds(t) \/ LogEnds(t)) /\ UNCHANGED request)
        /\ WF_vars(turn[t].aborted /\ RoundFails(t) /\ UNCHANGED request)

Spec == Init /\ [][Next]_vars /\ Fairness
-----------------------------------------------------------------------------
(* Type of every variable. *)
TypeOK ==
    /\ channel \in [Turns -> {"private", "discord"}]
    /\ profile \in [Turns -> Profiles]
    /\ turn \in [Turns -> [state : {"none", "streaming", "cancelling", "finished", "errored"},
                          live : BOOLEAN, aborted : BOOLEAN]]
    /\ pc \in [Turns -> Stages \cup {Busy[s] : s \in Stages}
                       \cup {"idle", "pausing", "tools", "approval", "storing", "logging", "done"}]
    /\ wire \in [Turns -> [usage : Nat, end : {"none", "finish", "error", "cancelled"},
                          late : BOOLEAN, open : Int]]
    /\ prog \in [Turns -> [rounds : Nat, asked : Nat, utterances : Nat, control : BOOLEAN,
                          speaking : BOOLEAN, retried : BOOLEAN, native : Nat, denied : BOOLEAN]]
    /\ queue \in [Turns -> Seq(Kinds)]
    /\ answer \in [Turns -> {"none", "waiting", "approve", "reject"}]
    /\ plan \in [Turns -> [Who -> [list : Seq(Workloads), allow : BOOLEAN, holds : SUBSET Consents]]]
    /\ role \in [Turns -> [at : {"idle", "approval", "auth", "calling"}, tries : Nat, stale : BOOLEAN]]
    /\ native \in [Turns -> {"idle", "auth", "running", "answered"}]
    /\ taken \subseteq Consents
    /\ spent \in [Consents -> Nat]
    /\ due \in [Turns -> [Workloads \cup {"approval"} -> Int]]
    /\ kept \in [Turns -> [saved : Nat, logged : Nat]]

(* A turn is told its usage and its ending once, and is released exactly when  *)
(* it has been; a turn that finished has closed every tool call it announced.  *)
(* It asks the provider no more often than its tool rounds, its one control    *)
(* round, its one retry and its utterances allow.                              *)
OneEnding ==
    /\ TypeOK
    /\ \A t \in Turns :
           /\ wire[t].usage = IF Ended(t) THEN 1 ELSE 0
           /\ turn[t].live <=> pc[t] \notin {"idle", "done"}
           /\ pc[t] = "done" => Ended(t)
           /\ wire[t].end = "finish" => wire[t].open = 0
           /\ prog[t].asked <= MaxToolRounds + MaxUtterances + 2

(* A one-time consent lets one operation through. *)
ConsentOnce == \A c \in Consents : spent[c] <= 1

(* Every model request, recall, save and processing tool of a request with a   *)
(* profile was disclosed and accepted before it began, in its own round; every *)
(* gated tool was approved; and no consent was used twice for it.              *)
OnlyAuthorised ==
    /\ \A t \in Turns : \A w \in DOMAIN due[t] : due[t][w] >= 0
    /\ ConsentOnce

(* A finished turn was saved and written to the transcript once (a Discord     *)
(* turn never), a cancelled one neither.                                       *)
Recorded ==
    \A t \in Turns :
        LET times == IF channel[t] = "discord" THEN 0 ELSE 1
        IN  /\ kept[t].saved <= times /\ kept[t].logged <= times
            /\ wire[t].end = "finish" => kept[t].saved = times /\ kept[t].logged = times
            /\ wire[t].end = "cancelled" => kept[t].saved = 0 /\ kept[t].logged = 0

(* Once cancelled, a turn begins nothing that works for it. *)
NothingBeginsAfterCancel ==
    [][\A t \in Turns : turn[t].aborted =>
          /\ pc'[t] = pc[t] \/ pc'[t] \notin {Busy[s] : s \in Stages} \cup {"storing"}
          /\ role'[t].at = "calling" => role[t].at = "calling"
          /\ native'[t] = "running" => native[t] = "running"]_vars

(* A cancelled turn ends, whatever the provider, the user and the memory model do. *)
CancelledEnds == \A t \in Turns : turn[t].aborted ~> pc[t] = "done"

(* Nothing is sent for a turn after its ending. *)
NothingAfterTerminal == \A t \in Turns : ~wire[t].late
=============================================================================
