----------------------------- MODULE MCIssueTeam -----------------------------
(* One dispatch, executed once and recovered up to twice, beside one other     *)
(* actor that shares the budget.                                               *)
EXTENDS IssueTeam, TLC

CONSTANTS recover1, recover2, reporter

MCRecoveries == {recover1, recover2}
MCActors == {reporter}
Symmetric == Permutations(MCRecoveries)
=============================================================================
