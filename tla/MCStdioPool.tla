---------------------------- MODULE MCStdioPool ----------------------------
(* Instances of StdioPool for TLC; the configurations give the constants. *)
EXTENDS StdioPool, TLC

(* Callers with the same copy of the record are interchangeable. *)
Symmetry == Permutations(Callers \ Barred)
=============================================================================
