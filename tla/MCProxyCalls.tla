---------------------------- MODULE MCProxyCalls ----------------------------
(* Instances of ProxyCalls for TLC. *)
EXTENDS ProxyCalls, TLC

CONSTANTS a1, a2

HttpConf(auth, aud, actor) ==
    [kind |-> "http", auth |-> auth, aud |-> aud, actor |-> actor, fault |-> FALSE]

(* A record of each kind.  The exchanging ones differ in what their tokens *)
(* are good for.                                                           *)
MCConfs ==
    {HttpConf("obo", a1, FALSE), HttpConf("obo", a2, TRUE), HttpConf("ema", a1, FALSE),
     [HttpConf("service", a1, FALSE) EXCEPT !.fault = TRUE],
     [HttpConf("service", a1, FALSE) EXCEPT !.kind = "openapi"]}

(* Calls are interchangeable, and so are the users. *)
Symmetry == Permutations(Calls) \cup Permutations(Users)
=============================================================================
