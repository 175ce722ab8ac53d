--------------------------- MODULE MCDiscordChannel ---------------------------
(* The Discord channel on small instances: a hand-over and one fault of any   *)
(* kind.                                                                      *)
EXTENDS DiscordChannel

OneFault == [configures |-> 1, switches |-> 1, crashes |-> 1, losses |-> 1, writes |-> 1, all |-> 1]
===============================================================================
