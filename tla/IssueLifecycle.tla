--------------------------- MODULE IssueLifecycle ---------------------------
(***************************************************************************)
(* What the single-issue orchestrator promises about one issue, whoever    *)
(* drives it: the lifecycle its users may rely on, without its actors,     *)
(* claims, versions and receipts.                                          *)
(***************************************************************************)
EXTENDS Naturals

\* an issue that has ended has the same outcome for ever
Ended == {"completed", "failed", "cancelled", "outcome_unknown"}

\* "open": before the worker is dispatched; "working": from the dispatch on
Issue ==
    [state : {"open", "awaiting", "working"} \cup Ended,
     cancel : BOOLEAN,      \* a cancellation is on record
     answers : Nat]         \* questions answered so far

NewIssue == [state |-> "open", cancel |-> FALSE, answers |-> 0]

In(i, states) == {[i EXCEPT !.state = st] : st \in states}

\* what the issue may become while a call works on it
Advances(i) ==
    CASE i.cancel /\ i.state \in {"open", "awaiting"} -> In(i, {"cancelled"})
      [] ~i.cancel /\ i.state = "open" ->
            In(i, {"awaiting", "working", "completed", "failed", "outcome_unknown"})
      [] i.state = "working" -> In(i, {"completed", "failed", "outcome_unknown"})
      [] OTHER -> {}

MayAnswer(i) == i.state = "awaiting"
Answered(i) == [state |-> "open", cancel |-> i.cancel, answers |-> i.answers + 1]

\* the cancellation window closes with the dispatch of the worker
MayCancel(i) == i.state \in {"open", "awaiting"}
CancelRequested(i) == [state |-> i.state, cancel |-> TRUE, answers |-> i.answers]
=============================================================================
