------------------------- MODULE MCSprintSimulation -------------------------
(* Two members who share a step, and a step from which items move back.     *)
EXTENDS SprintSimulation

MCCanWork == <<{1, 2}, {2}, {}>>
MCMoveLeft == <<{}, {1, 3}, {}>>
=============================================================================
