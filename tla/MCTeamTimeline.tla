--------------------------- MODULE MCTeamTimeline ---------------------------
(* Small instance of TeamTimeline: one team, two items, three sprints. *)
EXTENDS TeamTimeline

MCBoundary == [o \in 0..MaxOrd |-> <<1, 3, 4, 6>>[o + 1]]
MCPoints == [i \in Items |-> <<2, 1>>[i]]
MCLongSteps == [i \in Items |-> 3]
MCSteps == [i \in Items |-> <<2, 1>>[i]]
=============================================================================
