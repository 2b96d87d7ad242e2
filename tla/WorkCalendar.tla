---------------------------- MODULE WorkCalendar ----------------------------
(***************************************************************************)
(* The v1 working calendar (engine/calendar.py and the date arithmetic of  *)
(* engine/precompute.py).  An instant is 4 * day + slot: slot 0 is before  *)
(* the working hours, slot 1 within them, slot 2 at their end and slot 3   *)
(* later.  A tick is as long as the working hours of a day.                *)
(***************************************************************************)
EXTENDS Naturals, FiniteSets, FiniteSetsExt

CONSTANTS
  WorkingDays,  \* days of the calendar that are weekdays and no holidays
  LookAhead     \* MAX_LOOKAHEAD_DAYS

ASSUME CalendarAssumption == WorkingDays \subseteq Nat /\ LookAhead \in Nat

DayOf(t) == t \div 4
SlotOf(t) == t % 4
StartOf(d) == 4 * d + 1
EndOf(d) == 4 * d + 2

\* _is_working_local
IsWorking(t) == DayOf(t) \in WorkingDays /\ SlotOf(t) = 1

\* next_working_moment, with its fallback when no working day is in reach.
NextWorkingMoment(t) ==
  LET ahead == (DayOf(t) + 1)..(DayOf(t) + LookAhead) \cap WorkingDays IN
  CASE IsWorking(t) -> t
    [] DayOf(t) \in WorkingDays /\ SlotOf(t) = 0 -> StartOf(DayOf(t))
    [] OTHER -> IF ahead = {} THEN t ELSE StartOf(Min(ahead))

\* _compute_sprint_end: the end of the length-th working day, the start date
\* counted even when its working hours are over.
SprintEnd(t, length) ==
  IF length = 0 THEN t
  ELSE EndOf(Min({d \in WorkingDays :
         d >= DayOf(t) /\ Cardinality(WorkingDays \cap DayOf(t)..d) = length}))

\* _compute_tick_wall_times: from the first working moment to before the end.
TickTimes(t, length) ==
  {u \in NextWorkingMoment(t)..SprintEnd(t, length) : IsWorking(u) /\ u < SprintEnd(t, length)}
=============================================================================
