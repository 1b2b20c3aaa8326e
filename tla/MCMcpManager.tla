---------------------------- MODULE MCMcpManager ----------------------------
(* The instance of McpManager. *)
EXTENDS McpManager, TLC

CONSTANTS t1, t2, t3, a, b
=============================================================================
