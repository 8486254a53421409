---------------------------- MODULE MCPDTransfer ----------------------------
(* Two requests whose prompts share their first chunk. *)
EXTENDS PDTransfer

MCPDReqs == {"p", "q"}
MCPDKeysOf == [p |-> <<1, 2>>, q |-> <<1, 3>>]
=============================================================================
