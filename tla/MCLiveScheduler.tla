--------------------------- MODULE MCLiveScheduler ---------------------------
(* Small instances of LiveScheduler. *)
EXTENDS LiveScheduler, TLC

MCBoundary == [o \in 0..MaxOrd |-> <<1, 2, 3, 6>>[o + 1]]
MCLiveBoundary == [o \in 0..MaxOrd |-> <<1, 2, 4, 6>>[o + 1]]
MCPoints == [i \in Items |-> 1]
MCSteps == [i \in Items |-> 1]
WorkerSymmetry == Permutations(Workers)
=============================================================================
