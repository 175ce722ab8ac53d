------------------------ MODULE MCDurableSupervisor ------------------------
(* DurableSupervisor on small instances; runs are interchangeable. *)
EXTENDS DurableSupervisor, TLC

Symmetry == Permutations(Runs) \cup Permutations(Starters)
=============================================================================
