---------------------------- MODULE MCSliceCommit ----------------------------
(***************************************************************************)
(* SliceCommit with one process that may lose its answers beside others    *)
(* that commit at once, two work items of two visits and two business      *)
(* dates: enough for a replay, a stale first attempt and a command that    *)
(* mixes both to meet a later command of another process.  Dates are only  *)
(* compared for equality, so they are interchangeable.                     *)
(***************************************************************************)
EXTENDS SliceCommit, TLC

MCRoute == {"todo", "doing"}
DateSymmetry == Permutations(Dates)
=============================================================================
