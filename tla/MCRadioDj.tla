----------------------------- MODULE MCRadioDj -----------------------------
(* Instances of RadioDj for TLC. *)
EXTENDS RadioDj
=============================================================================
