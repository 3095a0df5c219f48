------------------------------ MODULE MCHubUi ------------------------------
(* Instances of HubUi for TLC; the configurations give the constants. *)
EXTENDS HubUi
=============================================================================
