--------------------------- MODULE IssueRefinement ---------------------------
(***************************************************************************)
(* The persisted row of IssueOrchestrator, seen as the issue of            *)
(* IssueContract.                                                          *)
(***************************************************************************)
EXTENDS IssueOrchestrator

Phase(state) ==
    CASE state \in {"accepted", "classifying", "classified", "planning",
                    "moderator_running", "dispatch_ready"} -> "open"
      [] state = "awaiting_user" -> "awaiting"
      [] state \in AfterDispatch -> "working"
      [] OTHER -> state

Seen == [state |-> Phase(row.state), cancel |-> row.cancel, answers |-> row.answers]

Contract == INSTANCE IssueContract WITH issue <- Seen

\* Whatever the calls, processes, crashes and lost claims, the persisted issue
\* follows its contract: it is dispatched and completed only without a
\* cancellation on record, a cancelled issue ends cancelled and nothing else,
\* an answer reopens only a pending question, and an outcome is final.
ImplementsContract == Contract!Spec
=============================================================================
