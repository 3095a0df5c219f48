---------------------------- MODULE MCMcpClients ----------------------------
(* Instances of McpClients. *)
EXTENDS McpClients
=============================================================================
