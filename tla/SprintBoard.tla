---------------------------- MODULE SprintBoard -----------------------------
(***************************************************************************)
(* The v1 sprints of one team: the engine's lifecycle tick and its         *)
(* precomputation (engine/simulation.py, precompute.py, sprint_lifecycle   *)
(* .py), the cadence check (sprint_cadence.py), the overlap rules (sprint_ *)
(* overlap.py) and the endpoints that create, edit, activate, reset and    *)
(* delete sprints (api/routers/scheduled_events.py, simulation.py).        *)
(*                                                                         *)
(* Ticks, cadence checks and precomputations run in the event loop and     *)
(* exclude each other, and so do the requests that create and recompute    *)
(* sprints.  The other endpoints and the dispatcher run in threads, each   *)
(* in a transaction of its own at READ COMMITTED, also between the check   *)
(* and the commit of those requests.  An edit checks and deletes first and *)
(* commits later: it holds the row of its sprint from its check on, and    *)
(* the rows it deletes; so does a recomputation with those it deletes.     *)
(***************************************************************************)
EXTENDS WorkCalendar, Sequences

CONSTANTS
  Instants,      \* instants the clock visits
  SprintDays,    \* sprint_length_days
  CadenceStarts, \* instants the cadence rule names
  Issues,        \* issue ids, in order of creation
  Initial,       \* issues that exist at first
  Points,        \* Points[i]: story points
  CapMin, CapMax,\* sprint_capacity_min, sprint_capacity_max
  DepthTarget,   \* backlog_depth_target
  Horizon,       \* bound: sprints start in 0..Horizon
  BatchCounts,   \* counts asked of the batch endpoint
  MaxSprints,    \* bound: sprints ever created
  MaxCalls       \* bound: calls of the endpoints

ASSUME BoardAssumption ==
  /\ Instants \subseteq Nat /\ 0 \in Instants
  /\ SprintDays \in Nat /\ CapMin \in Nat /\ CapMax \in Nat /\ CapMin <= CapMax
  /\ Issues \subseteq Nat \ {0} /\ Initial \subseteq Issues /\ Points \in [Issues -> Nat]
  /\ DepthTarget \in Nat /\ Horizon \in Nat /\ BatchCounts \subseteq 1..12 /\ MaxSprints \in Nat /\ MaxCalls \in Nat

VARIABLES
  now,
  sprint,    \* the sprints: id -> [phase, start, end, number, jira, checked]
  nextId,    \* the next sprint id
  issue,     \* the issues that exist: id -> [sprint, carried, priority, left]; left
             \* (history): the sprint that an edit or a deletion took it from last
  events,    \* scheduled_events: [s, i, at, fin, st]; i = 0 is CREATE_SPRINT, fin
             \* a transition to the final step
  loop,      \* the request in the event loop: idle, or one that creates or recomputes
  edits,     \* edit_sprint requests past their check: [s, start, gone, frees, stale]
  torn,      \* history: sprints whose schedule and issues two requests wrote at
             \* once, or that were recomputed after they were completed
  calls

vars == <<now, sprint, nextId, issue, events, loop, edits, torn, calls>>

Idle == [pc |-> "idle"]

Init ==
  /\ now = 0
  /\ sprint = [s \in {} |-> 0]
  /\ nextId = 1
  /\ issue = [i \in Initial |-> [sprint |-> 0, carried |-> FALSE, priority |-> i, left |-> 0]]
  /\ events = {}
  /\ loop = Idle
  /\ edits = {}
  /\ torn = {}
  /\ calls = 0

Ids == DOMAIN sprint
EventsOf(s) == {e \in events : e.s = s}
ItemsOf(s) == {i \in DOMAIN issue : issue[i].sprint = s}
Called == calls < MaxCalls /\ calls' = calls + 1
Loop == loop.pc = "idle"  \* the event loop is free

\* REOPENED: MODIFIED after it was dispatched; it waits, and an audit row refers to it.
Waiting(s) == {e \in EventsOf(s) : e.st \in {"PENDING", "REOPENED"}}

\* The audit log refers to no event of S, so the rows can be deleted.
Deletable(S) == \A e \in S : e.st = "PENDING"

\* Rows that an uncommitted request has deleted, and sprints it has written.
Locked == UNION {r.gone : r \in edits} \cup (IF loop.pc = "write" THEN loop.gone ELSE {})
Held(s) == \E r \in edits : r.s = s
Recomputing(s) == loop.pc = "write" /\ loop.s = s

\* A table with new rows.
Joined(table, new) ==
  [x \in DOMAIN table \cup DOMAIN new |-> IF x \in DOMAIN table THEN table[x] ELSE new[x]]

\* The ends and the ticks of this team's sprints, by their start.
EndFrom == [t \in 0..Horizon |-> SprintEnd(t, SprintDays)]
TicksFrom == [t \in 0..Horizon |-> TickTimes(t, SprintDays)]
NextMoment == [t \in 0..Horizon |-> NextWorkingMoment(t)]
-----------------------------------------------------------------------------
(* Planning and precomputation.                                            *)

\* Mutation: issues of other sprints can be planned.
PlannableAny(table, s) == DOMAIN table

\* Issues that can be planned: not in a sprint (or in this one).
Plannable(table, s) == {i \in DOMAIN table : table[i].sprint \in {0, s}}

Total(S) == MapThenSumSet(LAMBDA i : Points[i], S)

\* The order of plan_sprint: by backlog_priority, zero counting as 999, then id;
\* priority_randomization is off.
Rank(table, i) == IF table[i].priority = 0 THEN 999 ELSE table[i].priority
Precedes(table, a, b) ==
  \/ Rank(table, a) < Rank(table, b)
  \/ Rank(table, a) = Rank(table, b) /\ a < b

\* plan_sprint: in order up to the first item that exceeds the target once the minimum
\* is reached.
PlanSprint(table, S, target) ==
  LET before(i) == {j \in S : Precedes(table, j, i)}
      stops(i) == Total(before(i)) + Points[i] > target /\ Total(before(i)) >= CapMin
  IN {i \in S : ~stops(i) /\ \A j \in before(i) : ~stops(j)}

\* precompute_sprint: without ticks nothing is scheduled.  Else the sprint is created,
\* each selected issue enters the first step at the first tick, and those the
\* simulation finishes reach the final step at the last; a sprint known to Jira is
\* completed there at the last tick.
ScheduleFor(s, jira, start, selected, finished) ==
  LET ticks == TicksFrom[start]
      event(i, at, fin) == [s |-> s, i |-> i, at |-> at, fin |-> fin, st |-> "PENDING"]
  IN {event(i, Min(ticks), FALSE) : i \in {0} \cup selected}
     \cup {event(i, Max(ticks), TRUE) : i \in finished \cup (IF jira THEN {0} ELSE {})}

\* The outcomes of precomputing sprint s from the given issue table.
Precomputed(s, jira, start, table) ==
  LET ticks == TicksFrom[start]
      plans == {PlanSprint(table, Plannable(table, s), target) : target \in CapMin..CapMax}
      ends(selected) == IF Cardinality(ticks) < 2 THEN {{}} ELSE SUBSET selected
      outcome(selected, finished) ==
        [issue |-> [i \in DOMAIN table |->
                      IF i \in selected THEN [table[i] EXCEPT !.sprint = s] ELSE table[i]],
         events |-> ScheduleFor(s, jira, start, selected, finished)]
  IN IF ticks = {} THEN {[issue |-> table, events |-> {}]}
     ELSE UNION {{outcome(selected, fin) : fin \in ends(selected)} : selected \in plans}

\* _create_next_sprint continues the highest number.
NextNumber(table) ==
  IF DOMAIN table = {} THEN 1 ELSE Max({table[s].number : s \in DOMAIN table}) + 1

\* The first n of these dates become sprints, in one transaction.
AddSprints(phase, n, dates, checked) ==
  /\ nextId + n - 1 <= MaxSprints
  /\ sprint' = Joined(sprint, [s \in nextId..(nextId + n - 1) |->
       LET k == s - nextId + 1 IN
       [phase |-> phase, start |-> dates[k].start, end |-> dates[k].end,
        number |-> NextNumber(sprint) + k - 1, jira |-> FALSE, checked |-> checked]])
  /\ nextId' = nextId + n

\* Backlog maintenance at the end of a tick: at most five issues up to the target
\* depth, all with the same priority.
Replenished(table) ==
  LET n == Cardinality(Plannable(table, 0))
      free == Issues \ DOMAIN table
      count == IF DepthTarget > n THEN Min({DepthTarget - n, 5}) ELSE 0
      new == {i \in free : Cardinality({j \in free : j < i}) < count}
  IN Joined(table, [i \in new |-> [sprint |-> 0, carried |-> FALSE, priority |-> n + 1, left |-> 0]])

\* compute_and_schedule_sprint: a SIMULATED sprint with its events and its issues,
\* in one transaction, from the given issue table; the tick then maintains the backlog.
Compute(start, end, checked, table, refill) ==
  /\ Plannable(table, 0) # {}
  /\ AddSprints("SIMULATED", 1, <<[start |-> start, end |-> end]>>, checked)
  /\ \E r \in Precomputed(nextId, FALSE, start, table) :
       issue' = (IF refill THEN Replenished(r.issue) ELSE r.issue) /\ events' = events \cup r.events

\* With the default dates: from now, as long as the team's sprints are.
ComputeNow(table, refill) == Compute(now, EndFrom[now], FALSE, table, refill)
-----------------------------------------------------------------------------
(* The event loop: tick, cadence check, precompute, recompute.             *)

\* _get_active_or_planning_sprint: one with the latest start, of any phase.
Current == {s \in Ids : \A x \in Ids : sprint[x].start <= sprint[s].start}

\* Mutation: unfinished issues stay in the completed sprint.
ReleasedNone(s) == issue

\* The carryover of a completed sprint: completed_at is never set on an issue and
\* its status never becomes the final one, so every issue of the sprint is unfinished.
Released(s) ==
  [i \in DOMAIN issue |->
     IF i \in ItemsOf(s) THEN [issue[i] EXCEPT !.sprint = 0, !.carried = TRUE] ELSE issue[i]]

\* _tick_team without a sprint, or after a carryover (committed first): precompute
\* the next sprint if there is a backlog; a precomputation that raises is logged.
TickPlans(table) ==
  \/ ComputeNow(table, TRUE)
  \/ /\ issue' = Replenished(table)
     /\ UNCHANGED <<sprint, nextId, events>>

\* _tick_team with an active sprint: completed once nothing waits and something was
\* dispatched.
TickCompletes(s) ==
  /\ IF Waiting(s) = {} /\ EventsOf(s) # {}
     THEN ~Held(s) /\ sprint' = [sprint EXCEPT ![s].phase = "COMPLETED"]
     ELSE UNCHANGED sprint
  /\ issue' = Replenished(issue)
  /\ UNCHANGED <<nextId, events>>

TickTeam ==
  /\ Loop
  /\ \/ Ids = {} /\ TickPlans(issue)
     \/ \E s \in Current :
          \/ sprint[s].phase = "COMPLETED" /\ TickPlans(Released(s))
          \/ sprint[s].phase = "ACTIVE" /\ TickCompletes(s)
          \/ /\ sprint[s].phase \in {"PLANNING", "SIMULATED"}
             /\ issue' = Replenished(issue)
             /\ UNCHANGED <<sprint, nextId, events>>
  /\ UNCHANGED <<now, loop, edits, torn, calls>>

\* check_and_trigger and _should_trigger: no PLANNING or ACTIVE sprint (a SIMULATED
\* one does not count) and the rule's first instant after the last end has come.
CadenceCheck ==
  LET ends == {sprint[s].end : s \in Ids}
      next == {c \in CadenceStarts : IF Ids = {} THEN c + 4 > now ELSE c > Max(ends)}
  IN /\ Loop
     /\ \A s \in Ids : sprint[s].phase \notin {"PLANNING", "ACTIVE"}
     /\ next # {} /\ now >= Min(next)
     /\ ComputeNow(issue, FALSE)
     /\ UNCHANGED <<now, loop, edits, torn, calls>>

\* POST sprints/precompute
Precompute ==
  Loop /\ Called /\ ComputeNow(issue, FALSE) /\ UNCHANGED <<now, loop, edits, torn>>

\* recompute_sprint_schedule, of a sprint of any phase: it loads the sprint,
RecomputeRead(s) ==
  /\ Loop /\ Called
  /\ loop' = [pc |-> "read", s |-> s, start |-> sprint[s].start, jira |-> sprint[s].jira]
  /\ UNCHANGED <<now, sprint, nextId, issue, events, edits, torn>>

\* deletes the waiting events and plans from the issues as they are then,
RecomputePlan ==
  /\ loop.pc = "read"
  /\ Waiting(loop.s) \cap Locked = {} /\ Deletable(Waiting(loop.s))
  /\ \E r \in Precomputed(loop.s, loop.jira, loop.start, issue) :
       loop' = [pc |-> "write", s |-> loop.s, gone |-> Waiting(loop.s), new |-> r.events,
                joins |-> {i \in DOMAIN issue : r.issue[i] # issue[i]}]
  /\ UNCHANGED <<now, sprint, nextId, issue, events, edits, torn, calls>>

\* and commits: issues that it read as members and does not select stay in the sprint.
RecomputeCommit ==
  /\ loop.pc = "write" /\ loop.s \in Ids
  /\ issue' = [i \in DOMAIN issue |->
       IF i \in loop.joins THEN [issue[i] EXCEPT !.sprint = loop.s] ELSE issue[i]]
  /\ events' = (events \ loop.gone) \cup loop.new
  /\ edits' = {[r EXCEPT !.gone = r.gone \ loop.gone] : r \in edits}
  /\ torn' = IF sprint[loop.s].phase = "COMPLETED" \/ Held(loop.s) THEN torn \cup {loop.s} ELSE torn
  /\ loop' = Idle
  /\ UNCHANGED <<now, sprint, nextId, calls>>

\* The sprint or its waiting rows cannot be written, or the database refuses.
RecomputeFails ==
  /\ loop.pc \in {"read", "write"}
  /\ loop' = Idle
  /\ UNCHANGED <<now, sprint, nextId, issue, events, edits, torn, calls>>
-----------------------------------------------------------------------------
(* Creation of sprints with dates.                                         *)

\* Mutation: only a sprint that starts within the new one overlaps.
OverlapsStart(start, end, table) ==
  \E s \in DOMAIN table : start <= table[s].start /\ table[s].start < end

\* check_sprint_overlap
Overlaps(start, end, table) == \E s \in DOMAIN table : table[s].start < end /\ table[s].end > start

\* suggest_next_start: after the latest end; the first sprint starts now.
SuggestedStart ==
  NextMoment[IF Ids = {} THEN now ELSE Max({sprint[s].end : s \in Ids})]

\* The dates of n consecutive sprints, the first from the given instant.
BatchDates(n, first) ==
  LET dates[k \in 1..n] ==
        LET start == IF k = 1 THEN first ELSE NextMoment[dates[k - 1].end]
        IN [start |-> start, end |-> EndFrom[start]]
  IN dates

\* create_sprint and create_sprint_batch up to their overlap checks, against the
\* stored sprints and the batch before it; 409 otherwise.
CreateCheck ==
  /\ Loop /\ Called
  /\ \E n \in {1} \cup BatchCounts, first \in {SuggestedStart} \cup Instants, simulate \in BOOLEAN :
       LET dates == BatchDates(n, first) IN
       /\ simulate => n = 1
       /\ nextId + n - 1 <= MaxSprints
       /\ \A k \in 1..n :
            /\ ~Overlaps(dates[k].start, dates[k].end, sprint)
            /\ ~Overlaps(dates[k].start, dates[k].end, [j \in 1..(k - 1) |-> dates[j]])
       /\ loop' = [pc |-> "create", n |-> n, dates |-> dates, simulate |-> simulate, stale |-> FALSE]
  /\ UNCHANGED <<now, sprint, nextId, issue, events, edits, torn>>

\* Dates are committed: what the edits under way have checked is out of date.
OutdatedEdits(rest) == {[r EXCEPT !.stale = TRUE] : r \in rest}

\* Their commit: a precomputed sprint, or empty PLANNING sprints, all or none.
CreateCommit ==
  /\ loop.pc = "create"
  /\ loop' = Idle
  /\ \/ /\ loop.simulate
        /\ Compute(loop.dates[1].start, loop.dates[1].end, ~loop.stale, issue, FALSE)
        /\ edits' = OutdatedEdits(edits)
     \/ /\ ~loop.simulate
        /\ AddSprints("PLANNING", loop.n, loop.dates, ~loop.stale)
        /\ edits' = OutdatedEdits(edits)
        /\ UNCHANGED <<issue, events>>
     \/ \* no backlog, or any other failure
        UNCHANGED <<sprint, nextId, issue, events, edits>>
  /\ UNCHANGED <<now, torn, calls>>
-----------------------------------------------------------------------------
(* Endpoints that run in threads, also while a request creates or recomputes. *)

\* activate_sprint: it found the sprint PLANNING or SIMULATED, as every sprint is at
\* first, at any earlier moment.
Activate(s) ==
  /\ Called /\ ~Held(s)
  /\ sprint' = [sprint EXCEPT ![s].phase = "ACTIVE"]
  /\ UNCHANGED <<now, nextId, issue, events, loop, edits, torn>>

\* The issue table after s has lost these issues, which it has read as its own.
Freed(s, items) ==
  [i \in DOMAIN issue |-> IF i \in items THEN [issue[i] EXCEPT !.sprint = 0, !.left = s] ELSE issue[i]]

\* The sprints that had taken some of them since.
Robbed(s, items) == {issue[i].sprint : i \in items} \ {0, s}

\* edit_sprint with new dates, up to its check against the other sprints (which
\* writes the row of its own) and its DELETE.  As activate_sprint, it has found the
\* sprint PLANNING or SIMULATED, and not yet in Jira, at any earlier moment.  (Of a
\* sprint it finds in Jira it raises: app.state has no jira_write_queue.)
EditCheck(s) ==
  /\ Called /\ ~Held(s)
  /\ Deletable(Waiting(s))
  /\ \E start \in Instants :
       /\ ~Overlaps(start, EndFrom[start], [x \in Ids \ {s} |-> sprint[x]])
       /\ edits' = edits \cup
            {[s |-> s, start |-> start, gone |-> Waiting(s), frees |-> ItemsOf(s), stale |-> FALSE]}
  /\ UNCHANGED <<now, sprint, nextId, issue, events, loop, torn>>

\* Its commit.  It has read the issues to free at its check or only now, and writes
\* the phase only if it had found another than PLANNING.
EditCommit(r) ==
  /\ ~(Recomputing(r.s) /\ loop.gone # {})   \* its DELETE waits for those rows
  /\ \E frees \in {r.frees, ItemsOf(r.s)} :
       /\ issue' = Freed(r.s, frees)
       /\ torn' = torn \cup Robbed(r.s, frees) \cup (IF Recomputing(r.s) THEN {r.s} ELSE {})
  /\ events' = events \ r.gone
  /\ \E phase \in {"PLANNING", sprint[r.s].phase} :
       /\ sprint[r.s].phase = "SIMULATED" => phase = "PLANNING"
       /\ sprint' = [sprint EXCEPT ![r.s].phase = phase, ![r.s].start = r.start,
                                   ![r.s].end = EndFrom[r.start], ![r.s].checked = ~r.stale]
  /\ edits' = OutdatedEdits(edits \ {r})
  /\ loop' = IF loop.pc = "create" THEN [loop EXCEPT !.stale = TRUE] ELSE loop
  /\ UNCHANGED <<now, nextId, calls>>

\* The database refuses: a deadlock with a recomputation, or any other failure.
EditFails(r) ==
  /\ edits' = edits \ {r}
  /\ UNCHANGED <<now, sprint, nextId, issue, events, loop, torn, calls>>

\* delete_sprint: raises for a sprint known to Jira, and for one with dispatched
\* events, which the audit log refers to.  The moment that counts is the commit, but
\* it may have read the issues to free before an edit took some of them.
Delete(s) ==
  /\ Called /\ ~Held(s)
  /\ ~sprint[s].jira
  /\ Deletable(EventsOf(s)) /\ EventsOf(s) \cap Locked = {}
  /\ sprint' = [x \in Ids \ {s} |-> sprint[x]]
  /\ \E earlier \in SUBSET {i \in DOMAIN issue : issue[i].left = s} :
       /\ issue' = Freed(s, ItemsOf(s) \cup earlier)
       /\ torn' = torn \cup Robbed(s, earlier)
  /\ events' = events \ EventsOf(s)
  /\ UNCHANGED <<now, nextId, loop, edits>>

\* cancel_all_pending_events of a sprint: it deletes the rows, all or none.
CancelAll(s) ==
  /\ Called
  /\ Waiting(s) # {} /\ Deletable(Waiting(s)) /\ Waiting(s) \cap Locked = {}
  /\ events' = events \ Waiting(s)
  /\ UNCHANGED <<now, sprint, nextId, issue, loop, edits, torn>>

\* modify_scheduled_event, committed after the dispatch of the row it had found
\* waiting.  A new time for a row that waits is left out.
Reopen(e) ==
  /\ Called
  /\ e.st = "DISPATCHED"
  /\ events' = (events \ {e}) \cup {[e EXCEPT !.st = "REOPENED"]}
  /\ UNCHANGED <<now, sprint, nextId, issue, loop, edits, torn>>

\* reset_sprint: the newest sprint is in PLANNING again; its events and issues stay.
ResetSprint(s) ==
  /\ Called /\ ~Held(s)
  /\ s = Max(Ids)
  /\ sprint' = [sprint EXCEPT ![s].phase = "PLANNING"]
  /\ UNCHANGED <<now, nextId, issue, events, loop, edits, torn>>

\* dispatch_due_events: every due event, whatever the phase of its sprint.
Dispatch ==
  LET due == {e \in events : e.st # "DISPATCHED" /\ e.at <= now} IN
  /\ due # {} /\ due \cap Locked = {}
  /\ events' = (events \ due) \cup {[e EXCEPT !.st = "DISPATCHED"] : e \in due}
  /\ UNCHANGED <<now, sprint, nextId, issue, loop, edits, torn, calls>>

\* _map_sprint_id: the queue has created the sprint in Jira.
MapSprintId(s) ==
  /\ ~sprint[s].jira /\ ~Held(s)
  /\ \E e \in EventsOf(s) : e.i = 0 /\ e.st # "PENDING"
  /\ sprint' = [sprint EXCEPT ![s].jira = TRUE]
  /\ UNCHANGED <<now, nextId, issue, events, loop, edits, torn, calls>>

Advance ==
  /\ \E t \in Instants : t > now
  /\ now' = Min({t \in Instants : t > now})
  /\ UNCHANGED <<sprint, nextId, issue, events, loop, edits, torn, calls>>
-----------------------------------------------------------------------------
Next ==
  \/ TickTeam \/ CadenceCheck \/ Precompute
  \/ RecomputePlan \/ RecomputeCommit \/ RecomputeFails
  \/ CreateCheck \/ CreateCommit
  \/ Dispatch \/ Advance
  \/ \E s \in Ids : \/ RecomputeRead(s) \/ Activate(s) \/ EditCheck(s) \/ Delete(s)
                    \/ CancelAll(s) \/ ResetSprint(s) \/ MapSprintId(s)
  \/ \E r \in edits : EditCommit(r) \/ EditFails(r)
  \/ \E e \in events : Reopen(e)

Spec == Init /\ [][Next]_vars

\* The tick and the dispatcher are interval jobs, the clock runs, and a request
\* under way is answered.
Fairness ==
  /\ WF_vars(TickTeam) /\ WF_vars(Dispatch) /\ WF_vars(Advance)
  /\ WF_vars(CreateCommit \/ RecomputePlan \/ RecomputeCommit \/ RecomputeFails)
  /\ WF_vars(\E r \in edits : EditCommit(r) \/ EditFails(r))

FairSpec == Spec /\ Fairness
-----------------------------------------------------------------------------
(* Properties.                                                             *)

\* An event still to be dispatched for the first time is about an issue of its own
\* sprint: planning, editing, deleting and carryover keep the schedule and the
\* assignment in step.  Three things break this: a recomputation of a sprint that is
\* already completed, one that runs beside an edit of the same sprint, and an edit or a
\* deletion that frees issues another sprint has taken since it read them.
EventsInScope ==
  \A e \in events :
    e.st = "PENDING" /\ e.i # 0 /\ e.s \notin torn => issue[e.i].sprint = e.s

\* Sprints whose dates went through check_sprint_overlap, and for which no other
\* request committed dates between that check and their own commit, never overlap
\* each other, however the requests interleave.
CheckedSprintsDisjoint ==
  \A s, x \in Ids :
    s # x /\ sprint[s].checked /\ sprint[x].checked
      => ~(sprint[s].start < sprint[x].end /\ sprint[s].end > sprint[x].start)

Latest(s) == s \in Ids /\ \A x \in Ids \ {s} : sprint[x].start < sprint[s].start
InReach(s) == \A e \in Waiting(s) : e.at <= Max(Instants)

\* An active sprint with a schedule that stays the latest one is completed and its
\* issues are released for the next, unless it is reset or all its events are cancelled.
LatestSprintConcludes ==
  \A s \in 1..MaxSprints :
    (Latest(s) /\ sprint[s].phase = "ACTIVE" /\ EventsOf(s) # {})
      ~> \/ ~Latest(s) \/ EventsOf(s) = {} \/ ~InReach(s)
         \/ sprint[s].phase \in {"PLANNING", "SIMULATED"}
         \/ sprint[s].phase = "COMPLETED" /\ \A i \in DOMAIN issue : issue[i].sprint # s
=============================================================================
