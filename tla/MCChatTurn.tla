------------------------------ MODULE MCChatTurn ------------------------------
(* One consent for a model request and one for a tool. *)
EXTENDS ChatTurn, TLC

CONSTANTS t1, c1, c2

MCCovers == (c1 :> "main_llm") @@ (c2 :> "network_tool")
=============================================================================
