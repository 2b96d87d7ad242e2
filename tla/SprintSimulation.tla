-------------------------- MODULE SprintSimulation --------------------------
(***************************************************************************)
(* The in-memory simulation of a v1 sprint: the tick loop of precompute_   *)
(* sprint (engine/precompute.py) over process_item_tick (engine/workflow_  *)
(* engine.py) and the members' tick states (engine/capacity.py).           *)
(*                                                                         *)
(* Times are counted in ticks; a sampled time is any value of a small set, *)
(* a choice of the random generator any of its outcomes.                   *)
(***************************************************************************)
EXTENDS Naturals, FiniteSets, Sequences

CONSTANTS
  Items,        \* the selected issues, 1..n in planning order
  LastStep,     \* workflow steps are 1..LastStep in their order
  Members,
  CanWork,      \* CanWork[s]: members with a role of step s
  WorkTimes,    \* sampled work times
  FullTimes,    \* sampled full times
  MoveLeft,     \* MoveLeft[s]: targets of the move-left configuration of step s
  Ticks,        \* number of ticks of the sprint
  KnownToJira   \* the sprint has a Jira id

ASSUME SimulationAssumption ==
  /\ IsFiniteSet(Items) /\ Items = 1..Cardinality(Items)
  /\ LastStep \in Nat \ {0} /\ Ticks \in Nat \ {0}
  /\ CanWork \in [1..LastStep -> SUBSET Members]
  /\ WorkTimes \subseteq Nat /\ FullTimes \subseteq Nat /\ WorkTimes # {} /\ FullTimes # {}
  /\ MoveLeft \in [1..LastStep -> SUBSET (1..LastStep)]
  /\ KnownToJira \in BOOLEAN /\ Members \subseteq Nat \ {0}

VARIABLES
  item,    \* item -> [step, work, full, worked, spent, worker, done]; worker 0: none
  member,  \* member -> [busy, on]: MemberTickState of this tick; on = 0: unassigned
  tick,    \* index of the tick
  turn,    \* the next item of this tick
  events,  \* the schedule: <<[item, step, tick, least]>>; item 0 is COMPLETE_SPRINT, least
           \* the ticks the item had to spend in the step it leaves
  over

vars == <<item, member, tick, turn, events, over>>

\* build_member_states, anew for every tick with nobody assigned.
FreshMembers == [m \in Members |-> [busy |-> FALSE, on |-> 0]]

\* enter_status: the times are sampled, the counters and the worker reset.
Entered(s, work, full) ==
  [step |-> s, work |-> work, full |-> full, worked |-> 0, spent |-> 0, worker |-> 0, done |-> FALSE]

Entries(s) == {Entered(s, w, f) : w \in WorkTimes, f \in FullTimes}

Event(i, s, least) == [item |-> i, step |-> s, tick |-> tick, least |-> least]

\* Tick 0: every selected issue enters the first step.
Init ==
  /\ tick = 0
  /\ item \in [Items -> Entries(1)]
  /\ events = [i \in Items |-> [item |-> i, step |-> 1, tick |-> 0, least |-> 0]]
  /\ member = FreshMembers
  /\ turn = Len(events) + 1
  /\ over = FALSE
-----------------------------------------------------------------------------
(* One item in one tick: process_item_tick.                                *)

\* find_available_member: free this tick, and unassigned or assigned to the item.
Available(i, s) == {m \in CanWork[s] : ~member[m].busy /\ member[m].on \in {0, i}}

MarkBusy(table, m, i) == [table EXCEPT ![m] = [busy |-> TRUE, on |-> i]]

\* The workers of item i in this tick: the one it has keeps it without a question, even
\* when another item has made that member busy; an item that needs one takes anyone
\* available; 0 if there is none.
Workers(i) ==
  IF item[i].worker # 0 THEN {item[i].worker}
  ELSE IF item[i].work = 0 \/ Available(i, item[i].step) = {} THEN {0}
  ELSE Available(i, item[i].step)

\* Steps 1 to 3: the item with its worker and its advanced times.
Worked(i, m) ==
  [item[i] EXCEPT !.worker = m, !.spent = @ + 1, !.worked = IF m = 0 THEN @ ELSE @ + 1]

\* Mutation: only the work counts.
WorkReady(x) == x.work = 0 \/ x.worked >= x.work

\* check_transition_ready
Ready(x) == (x.work = 0 \/ x.worked >= x.work) /\ x.spent >= x.full

\* Steps 5 and 6: forward, or left when a configuration of the step says so.
Forward(s) == IF s = LastStep THEN {} ELSE {s + 1}
Targets(s) == MoveLeft[s] \cup Forward(s)

Least(x) == IF x.work > x.full THEN x.work ELSE x.full

\* Release: the member is unassigned but stays busy for this tick.
Release(table, m) == IF m = 0 THEN table ELSE [table EXCEPT ![m].on = 0]

\* enter_status of the target.
Move(i, x, s, done) ==
  /\ events' = Append(events, Event(i, s, Least(x)))
  /\ \E y \in Entries(s) : item' = [item EXCEPT ![i] = [y EXCEPT !.done = done]]

\* A ready item: forward to a step that completes it if it is the final one; left,
\* which never does; or done without a transition when it was at the final step.
Transition(i, x) ==
  \/ \E s \in Forward(x.step) : Move(i, x, s, s = LastStep)
  \/ \E s \in MoveLeft[x.step] : Move(i, x, s, FALSE)
  \/ /\ x.step = LastStep
     /\ item' = [item EXCEPT ![i] = [x EXCEPT !.done = TRUE]]
     /\ UNCHANGED events

ProcessItem(i) ==
  \E m \in Workers(i) :
    LET x == Worked(i, m)
        held == IF m = 0 THEN member ELSE MarkBusy(member, m, i)
    IN \/ /\ ~Ready(x)
          /\ item' = [item EXCEPT ![i] = x]
          /\ member' = held
          /\ UNCHANGED events
       \/ /\ Ready(x)
          /\ member' = Release(held, m)
          /\ Transition(i, x)
-----------------------------------------------------------------------------
(* The tick loop of precompute_sprint.                                     *)

AllDone == \A i \in Items : item[i].done

ProcessTurn ==
  /\ ~over /\ turn <= Cardinality(Items)
  /\ IF item[turn].done THEN UNCHANGED <<item, member, events>> ELSE ProcessItem(turn)
  /\ turn' = turn + 1
  /\ UNCHANGED <<tick, over>>

\* The end of a tick: all done ends the sprint early, at this tick.
NextTick ==
  /\ ~over /\ turn > Cardinality(Items)
  /\ tick + 1 < Ticks /\ (tick = 0 \/ ~AllDone)
  /\ tick' = tick + 1
  /\ turn' = 1
  /\ member' = FreshMembers
  /\ UNCHANGED <<item, events, over>>

\* COMPLETE_SPRINT, once, at the tick that ends the sprint.
Complete ==
  /\ ~over /\ turn > Cardinality(Items)
  /\ tick + 1 >= Ticks \/ (tick # 0 /\ AllDone)
  /\ over' = TRUE
  /\ events' = IF KnownToJira THEN Append(events, Event(0, 0, 0)) ELSE events
  /\ UNCHANGED <<item, member, tick, turn>>

Done == over /\ UNCHANGED vars

Next == ProcessTurn \/ NextTick \/ Complete \/ Done

Spec == Init /\ [][Next]_vars /\ WF_vars(Next)
-----------------------------------------------------------------------------
(* Properties.                                                             *)

\* The event at k is the next one of the item of the event at j.
Follows(h, j, k) ==
  /\ j < k /\ h[j].item = h[k].item
  /\ \A l \in (j + 1)..(k - 1) : h[l].item # h[j].item

\* How an item comes from one event to its next.
Lawful(from, to) ==
  /\ to.step \in Targets(from.step)
  /\ to.tick >= from.tick + to.least /\ to.tick > from.tick

\* The schedule of an item is a path of the workflow: it stays in a step for the larger
\* of its two sampled times and for a tick at least, goes to the next step or to a
\* configured one, and so nothing follows the final step.
ItemsFollowWorkflow ==
  \A j, k \in DOMAIN events :
    events[j].item \in Items /\ Follows(events, j, k) => Lawful(events[j], events[k])
=============================================================================
