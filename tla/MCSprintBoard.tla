--------------------------- MODULE MCSprintBoard ----------------------------
(* Small instances of SprintBoard: two days of work, a day off, more work.  *)
EXTENDS SprintBoard

MCWorkingDays == {0, 2} \cup 3..14
MCPoints == [i \in Issues |-> IF i = 1 THEN 2 ELSE 1]
=============================================================================
