---------------------------- MODULE MCMcpBroker ----------------------------
(* McpBroker with a caller that calls twice and one that calls once.         *)
EXTENDS McpBroker, TLC

CONSTANTS c1, c2

TwoCallers == {c1, c2}
CallsOf == (c1 :> 2) @@ (c2 :> 1)
=============================================================================
