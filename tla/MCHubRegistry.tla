--------------------------- MODULE MCHubRegistry ---------------------------
(* Instances of HubRegistry for TLC; the configurations give the constants. *)
EXTENDS HubRegistry
=============================================================================
