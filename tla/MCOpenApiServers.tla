-------------------------- MODULE MCOpenApiServers --------------------------
(***************************************************************************)
(* Small instances of OpenApiServers.  Three operations and two revisions  *)
(* of a spec: in the first all can be served; in the second a and b derive *)
(* the same tool name, so that they need an override, and c is no longer   *)
(* supported.                                                              *)
(***************************************************************************)
EXTENDS OpenApiServers

CONSTANTS a, b, c, v1, v2, n, m, x

MCDerived ==
    [v \in Specs |-> [o \in Ops |-> CASE o = a -> n
                                     [] o = b -> IF v = v1 THEN m ELSE n
                                     [] o = c -> IF v = v1 THEN x ELSE Unsupported]]

MCProbeable == [v \in Specs |-> IF v = v1 THEN {a, c} ELSE {a}]

MCChoices ==
    {[sel |-> {a, b, c}, ov |-> Keep, probe |-> Keep],
     [sel |-> Keep, ov |-> [o \in Ops |-> IF o = b THEN m ELSE NoName], probe |-> c]}

(* One operation, where jobs, stale tools and restarts are the question. *)
OneChoice == {[sel |-> {a}, ov |-> Keep, probe |-> Keep]}
=============================================================================
