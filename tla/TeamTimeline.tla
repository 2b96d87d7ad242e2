---------------------------- MODULE TeamTimeline ----------------------------
(***************************************************************************)
(* What the v2 scheduler promises about a team's persisted timeline: every *)
(* change of a team is one indivisible step from a coherent state of that  *)
(* team, whoever makes it and however many processes are running.  The     *)
(* steps are the commits of                                                *)
(*   LiveTeamStore.ensure_bootstrapped       Bootstrap                     *)
(*   TeamTickService.advance                 TickBoundary, TickSlice       *)
(*   LiveScheduler._record_downtime_evidence Evidence                      *)
(*   LiveScheduler._commit_lifecycle_boundary CrossInDowntime              *)
(*   LiveScheduler._skip_silent_downtime     SkipDowntime                  *)
(* LiveScheduler.tla refines this specification.                           *)
(***************************************************************************)
EXTENDS ScrumTick

CONSTANT MaxVersion   \* bound on a team's runtime version

ASSUME VersionAssumption == MaxVersion \in Nat

VARIABLES
  now,   \* the wall clock
  db     \* the persisted state of each team

vars == <<now, db>>

Targets == CapMin..CapMax

Init == now = 0 /\ db = [t \in Teams |-> NewTeam]

\* The commit's compare-and-swap moves the version on by one.
Commit(t, s) ==
  /\ db[t].version < MaxVersion
  /\ db' = [db EXCEPT ![t] = [s EXCEPT !.version = db[t].version + 1]]
  /\ UNCHANGED now

Running(t) == db[t].state = "RUNNING"
-----------------------------------------------------------------------------
Bootstrap(t) ==
  /\ db[t].state = "CREATED"
  /\ \E o \in Ordinals, target \in Targets :
       /\ ContainingOrdinal(o, now)
       /\ db' = [db EXCEPT ![t] = EnsureBootstrapped(db[t], now, o, target)]
  /\ UNCHANGED now

\* calculate_scrum_tick with a sprint boundary on the cursor.
TickBoundary(t) ==
  /\ Running(t)
  /\ HasBoundaryAt(db[t], db[t].sim)
  /\ \E target \in Targets :
       Commit(t, [CrossSprintBoundary(db[t], db[t].sim, target) EXCEPT !.wake = db[t].sim])

TickSlice(t) ==
  /\ Running(t)
  /\ \E asof \in db[t].sim..now : \E e \in db[t].sim..asof :
       \E X, C \in SUBSET Items : \E W \in SUBSET X, V \in SUBSET C :
         /\ TickAllowed(db[t], asof, X, W, e, C, V)
         /\ Commit(t, TickResult(db[t], X, W, e, C, V))

\* The downtime window is recorded before anything else is reconciled.
Evidence(t) ==
  /\ Running(t)
  /\ \E asof \in db[t].sim..now :
       /\ db[t].sim < asof
       /\ Commit(t, [db[t] EXCEPT !.gaps = @ \cup {<<db[t].sim, asof>>}])

\* A restart crosses the earliest overdue boundary; the cursor stays.
CrossInDowntime(t) ==
  /\ Running(t)
  /\ \E asof \in db[t].sim..now : \E at \in PendingBoundaries(db[t], asof) :
       /\ \A b \in PendingBoundaries(db[t], asof) : at <= b
       /\ \E target \in Targets : Commit(t, CrossSprintBoundary(db[t], at, target))

\* Mutation: the downtime is skipped to an instant before the cursor.
SkipToAny(t) ==
  /\ Running(t)
  /\ \E asof \in 0..now :
       /\ PendingBoundaries(db[t], asof) = {}
       /\ Commit(t, [db[t] EXCEPT !.sim = asof, !.wake = asof])

\* No boundary is left before `asof`: the rest of the downtime is skipped.
SkipDowntime(t) ==
  /\ Running(t)
  /\ \E asof \in db[t].sim..now :
       /\ PendingBoundaries(db[t], asof) = {}
       /\ Commit(t, [db[t] EXCEPT !.sim = asof, !.wake = asof])

Clock == now < MaxTime /\ now' = now + 1 /\ UNCHANGED db

TeamStep(t) ==
  \/ Bootstrap(t)
  \/ TickBoundary(t)
  \/ TickSlice(t)
  \/ Evidence(t)
  \/ CrossInDowntime(t)
  \/ SkipDowntime(t)

Next == Clock \/ \E t \in Teams : TeamStep(t)

Spec == Init /\ [][Next]_vars
-----------------------------------------------------------------------------
\* Type invariant: the clock and every team's persisted rows have their shape
\* (live_team_store._load_aggregate rebuilds and validates them on every load).
TypeOK == now \in Time /\ db \in [Teams -> TeamState]

\* Active work always belongs to a sprint.
ActiveScoped(s) ==
  \A i \in ItemsIn(s, "ACTIVE") : \E o \in Ordinals : <<o, i>> \in s.scope

\* Every running team has exactly one planned or active sprint, the last
\* ordinal it claimed, whichever of bootstrap, tick and restart made it
\* (sprint_lifecycle._successor, scrum_bootstrap._initial_sprint).
SprintChainInv == \A t \in Teams : SprintChain(db[t])

\* No slice and no skipped downtime moves a team's cursor over the boundary its
\* sprint waits for (scrum_tick._effective_end, LiveScheduler._resume).
BoundaryAheadInv == \A t \in Teams : BoundaryAhead(db[t])

\* Open scope rows are of the active sprint and of planned work, so no item is
\* in two sprints (sprint_lifecycle._roll_active_sprint closes the old rows).
ScopeInv == \A t \in Teams : ScopeInActive(db[t]) /\ BacklogUnscoped(db[t])

\* The projection ledger and the sprint rows never disagree
\* (sprint_lifecycle._build_projection_intents, unit_of_work._persist_ledgers).
IntentsInv == \A t \in Teams : IntentsTellSprints(db[t])

\* Unfinished work is always in the active sprint: no step of bootstrap, tick
\* or rollover leaves an active item without a scope row
\* (sprint_lifecycle._roll_active_sprint, risks._review_records).
ActiveScopedInv == \A t \in Teams : ActiveScoped(db[t])

\* What no commit may do to a running team: lose its version, move its cursor
\* back, reopen a completed sprint or rewrite the ledgers.
HistoryStep(s, n) == AddsTo(n, s) /\ s.sim <= n.sim

\* Every commit on a running team is such a step
\* (unit_of_work._commit_authoritative_in_session).
HistoryKept ==
  [][\A t \in Teams : Running(t) /\ db'[t] # db[t] => HistoryStep(db[t], db'[t])]_vars

\* Every rollover, of a tick or of a restart, hands its unfinished work on
\* (sprint_lifecycle._carryover_ids, _successor).
UnfinishedCarriesOver == [][\A t \in Teams : CarriesOver(db[t], db'[t])]_vars
=============================================================================
