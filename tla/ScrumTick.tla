------------------------------ MODULE ScrumTick ------------------------------
(***************************************************************************)
(* One Scrum tick of a team, as functions on the team's state              *)
(* (v2/domain/scrum_tick.py, v2/domain/risks.py).  A tick first crosses a  *)
(* sprint boundary that lies exactly on its cursor and does nothing else;  *)
(* otherwise it evaluates the due risks at the cursor and works from the   *)
(* cursor to an effective end: the requested end, the next sprint boundary *)
(* or the next workday start, shortened to the first visit completion.     *)
(*                                                                         *)
(* Abstraction: which visits complete, and when, follows from sampled      *)
(* durations, owners and daily capacity; here any set of open visits may   *)
(* complete at any instant after their entry.  The seeded draws (review    *)
(* verdicts, cancellations, capacity targets) are free choices; a review's *)
(* verdict is drawn once, with its visit, and stays.                       *)
(***************************************************************************)
EXTENDS SprintLifecycle

CONSTANTS
  WorkdayStarts,  \* instants at which a working interval starts
  Cancellation,   \* whether the CANCELLATION rule is configured
  ReviewSteps,    \* route steps whose status is a supported review status
  ReturnStep      \* step of REVIEW_REJECTION's return_status

ASSUME RiskAssumption ==
  /\ WorkdayStarts \subseteq Time
  /\ Cancellation \in BOOLEAN
  /\ ReviewSteps \subseteq Nat
  /\ ReturnStep \in Nat \ {0}
  /\ \A r \in ReviewSteps : ReturnStep < r

AtReview(s) == {i \in Items : s.step[i] \in ReviewSteps}

\* Mutation: the slice is not cut at the sprint boundary.
SliceUncut(s, asof) == {asof}

\* _effective_end, as the set of instants a slice may not pass: the request,
\* the start of a planned sprint or else the end of the active one, and, when
\* work is active, the workday starts ahead.  None lies before the cursor.
SliceLimits(s, asof) ==
  LET planned == {o \in Ordinals : s.sprint[o] = "PLANNED" /\ Boundary[o] > s.sim}
      active == {o \in Ordinals : s.sprint[o] = "ACTIVE"}
      fixed == IF planned # {} THEN {Boundary[o] : o \in planned}
               ELSE {Boundary[o + 1] : o \in active}
      days == {d \in WorkdayStarts : s.sim < d /\ ItemsIn(s, "ACTIVE") # {}}
  IN {IF l < s.sim THEN s.sim ELSE l : l \in {asof} \cup fixed \cup days}
-----------------------------------------------------------------------------
(* Risks due at the cursor, in catalog order: cancellation, then review    *)
(* rejection.                                                              *)

\* CANCELLATION of the items in X; W are those whose closed visit is a
\* review with a rejecting draw.
AfterCancel(s, X, W) ==
  [s EXCEPT
     !.cancelled = @ \cup X,
     !.life = [i \in Items |-> IF i \in X THEN "CANCELLED" ELSE s.life[i]],
     !.exited = [i \in Items |-> IF i \in X \cap AtReview(s) THEN s.sim ELSE s.exited[i]],
     !.rejects = [i \in Items |-> IF i \in X \cap AtReview(s)
                                  THEN i \in W \/ (s.rejects[i] /\ s.exited[i] = s.sim)
                                  ELSE s.rejects[i]]]

CancelAllowed(s, X, W, e) ==
  /\ X \subseteq ItemsIn(s, "ACTIVE")
  /\ X # {} => (Cancellation /\ s.sim \in WorkdayStarts /\ s.sim < e)
  /\ W \subseteq X \cap AtReview(s)

\* The reviews due at the cursor (_review_due) whose draw rejects.
Rejected(s) == {i \in Items : s.exited[i] = s.sim /\ s.rejects[i]}

\* A rejected item that already has an open visit gets a second one: the
\* snapshot's validation refuses it and the whole tick raises.
RejectionConflict(s) == Rejected(s) \cap ItemsIn(s, "ACTIVE") # {}

\* REVIEW_REJECTION: the item returns to an earlier step with a new visit.
AfterRejection(s) ==
  [s EXCEPT
     !.life = [i \in Items |-> IF i \in Rejected(s) THEN "ACTIVE" ELSE s.life[i]],
     !.step = [i \in Items |-> IF i \in Rejected(s) THEN ReturnStep ELSE s.step[i]],
     !.entered = [i \in Items |-> IF i \in Rejected(s) THEN s.sim ELSE s.entered[i]]]

AfterRisks(s, X, W) == AfterRejection(AfterCancel(s, X, W))
-----------------------------------------------------------------------------
(* Progress to the effective end.                                          *)

\* The visits of the items in C complete at e: the next timed step opens, or
\* the item is DONE; V are the completed reviews with a rejecting draw.
AdvanceVisits(s, e, C, V) ==
  [s EXCEPT
     !.life = [i \in Items |-> IF i \in C /\ s.step[i] >= Steps[i] THEN "DONE" ELSE s.life[i]],
     !.step = [i \in Items |-> IF i \in C /\ s.step[i] < Steps[i] THEN s.step[i] + 1 ELSE s.step[i]],
     !.entered = [i \in Items |-> IF i \in C /\ s.step[i] < Steps[i] THEN e ELSE s.entered[i]],
     !.exited = [i \in Items |-> IF i \in C \cap AtReview(s) THEN e ELSE s.exited[i]],
     !.rejects = [i \in Items |-> IF i \in C \cap AtReview(s) THEN i \in V ELSE s.rejects[i]]]

\* What calculate_scrum_tick may commit from s: a slice that ends at e, the
\* first limit or the first completion before it.  A visit opened by a rejection
\* cannot complete in the same slice: its successor would take the same ordinal.
TickAllowed(s, asof, X, W, e, C, V) ==
  LET r == AfterRisks(s, X, W)
  IN /\ s.sim <= asof
     /\ ~HasBoundaryAt(s, s.sim)
     /\ CancelAllowed(s, X, W, e)
     /\ ~RejectionConflict(AfterCancel(s, X, W))
     /\ C \cap Rejected(AfterCancel(s, X, W)) = {}
     /\ \A l \in SliceLimits(s, asof) : e <= l
     /\ e \in SliceLimits(s, asof) \/ C # {}
     /\ C \subseteq {i \in ItemsIn(r, "ACTIVE") : r.entered[i] < e /\ s.sim < e}
     /\ V \subseteq C \cap AtReview(r)

TickResult(s, X, W, e, C, V) ==
  [AdvanceVisits(AfterRisks(s, X, W), e, C, V) EXCEPT !.sim = e, !.wake = e]

\* The calculation raises: the request lies before the cursor, a rejected
\* item already has its next visit open, the visit a rejection opens would
\* complete in the same slice, or (after an interrupted restart) a visit is
\* evaluated before its own entry.
TickMayRaise(s, asof) ==
  \/ asof < s.sim
  \/ /\ ~HasBoundaryAt(s, s.sim)
     /\ \/ RejectionConflict(s)
        \/ Rejected(s) # {} /\ s.sim < asof
        \/ \E i \in ItemsIn(s, "ACTIVE") : s.entered[i] > s.sim
=============================================================================
