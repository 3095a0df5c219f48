---------------------------- MODULE MCCallerAuth ----------------------------
(***************************************************************************)
(* Small instances of CallerAuth: two keys, so that one can be rotated     *)
(* out; a user and an admin; one server with a scope and one without.      *)
(***************************************************************************)
EXTENDS CallerAuth

CONSTANTS k1, k2, u1, u2, use, adm, s1, s2

MCScopeOf == [s \in Servers |-> IF s = s1 THEN use ELSE NoScope]

Signed(k, u, sc) ==
    [kid |-> k, by |-> k, sub |-> u, valid |-> TRUE, forHub |-> TRUE, scopes |-> sc]

IdToken(k, u) == [Signed(k, u, {}) EXCEPT !.forHub = FALSE]

(* A user who attaches another's ID Token, one who asks for the server     *)
(* without a scope, and an admin whose token names no key.                 *)
MCCalls ==
    {[tok |-> Signed(k1, u1, {use}), asr |-> IdToken(k2, u2), target |-> s1],
     [tok |-> Signed(k2, u1, {use}), asr |-> NoToken, target |-> s2],
     [tok |-> [Signed(k1, u2, {use, adm}) EXCEPT !.kid = NoKid], asr |-> NoToken, target |-> Admin]}
=============================================================================
