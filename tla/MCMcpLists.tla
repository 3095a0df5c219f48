----------------------------- MODULE MCMcpLists -----------------------------
(* Instances of McpLists: two cursors make every chain, repeated cursor    *)
(* and cycle of two possible; the page limit is reached by a cycle.        *)
EXTENDS McpLists
=============================================================================
