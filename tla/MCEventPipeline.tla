--------------------------- MODULE MCEventPipeline ---------------------------
(* Instances of EventPipeline: one issue, created by the engine, with its    *)
(* transitions on the schedule.                                              *)
EXTENDS EventPipeline

\* Transitions of one issue in one sprint, due at the same instant; the third is
\* there only when the sprint is computed anew, and then comes before the second.
MCPlan ==
  [e \in Events |->
     [sprint |-> 1, op |-> "TRANSITION_ISSUE", issue |-> 1, arg |-> e, at |-> 0, seq |-> IF e = 3 THEN 1 ELSE e]]
=============================================================================
