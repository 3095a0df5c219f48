--------------------------- MODULE SingleProcess ---------------------------
(***************************************************************************)
(* What the stdio pool promises for one registered server: a single        *)
(* long-lived process, started again only after the one before was stopped *)
(* or ended.                                                               *)
(***************************************************************************)
CONSTANT Processes

VARIABLE running   \* the processes nobody has asked to stop, at most one

Init == running = {}

Start(p) == running = {} /\ running' = {p}

StopOrExit == running # {} /\ running' = {}

Next == StopOrExit \/ \E p \in Processes : Start(p)

Spec == Init /\ [][Next]_running
=============================================================================
