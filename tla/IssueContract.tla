---------------------------- MODULE IssueContract ----------------------------
(* The lifecycle of one issue as a specification; IssueOrchestrator implements it. *)
EXTENDS IssueLifecycle

VARIABLE issue

Init == issue = NewIssue

Answer == MayAnswer(issue) /\ issue' = Answered(issue)
Cancel == MayCancel(issue) /\ issue' = CancelRequested(issue)
Advance == issue' \in Advances(issue)

Next == Advance \/ Answer \/ Cancel

Spec == Init /\ [][Next]_issue
=============================================================================
