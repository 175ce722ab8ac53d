----------------------------- MODULE MCCodingJobs -----------------------------
\* Two requests, each for a worktree of its own or for the selected workspace.
EXTENDS CodingJobs, TLC

Requests == Permutations(Jobs)
=============================================================================
