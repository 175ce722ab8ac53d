------------------------ MODULE MCIssueOrchestrator ------------------------
(***************************************************************************)
(* Instances of IssueOrchestrator for TLC: which process runs which call.  *)
(***************************************************************************)
EXTENDS IssueRefinement, TLC

CONSTANTS c1, c2, c3, p1, p2

\* a start and its cancel in one process, an answer in another
SharedProcess == c1 :> p1 @@ c2 :> p2 @@ c3 :> p1
StartAnswerCancel == c1 :> "resume" @@ c2 :> "answer" @@ c3 :> "cancel"

\* for the observation about fencing: two resumes of one process
OneProcess == c1 :> p1 @@ c2 :> p1 @@ c3 :> p2
StartResumeCancel == c1 :> "resume" @@ c2 :> "resume" @@ c3 :> "cancel"

\* every call has returned, or died with its process
Finished == \A c \in Calls : pc[c] \in {"done", "dead"}
MCNext == Next \/ (Finished /\ UNCHANGED vars)
MCSpec == Init /\ [][MCNext]_vars /\ Fairness
=============================================================================
