--------------------------- MODULE SprintLifecycle ---------------------------
(***************************************************************************)
(* The fixed-boundary Scrum lifecycle of one team, as functions on the     *)
(* team's persisted state: bootstrap, activation of the first sprint and   *)
(* the rollover at a sprint's planned end                                  *)
(* (v2/domain/sprint_lifecycle.py, v2/domain/scrum_bootstrap.py).          *)
(*                                                                         *)
(* A team's state is one record, the coherent read of                      *)
(* LiveTeamStore.load:                                                     *)
(*   version, state, sim, wake   the runtime row: its compare-and-swap     *)
(*                               version, CREATED or RUNNING, the          *)
(*                               simulation_time and next_wake_at          *)
(*   sprint     lifecycle of the sprint of each ordinal                    *)
(*   nextOrd    the SPRINT_ORDINAL semantic counter                        *)
(*   scope      the current (not removed) sprint-scope rows                *)
(*   life       lifecycle of each work item                                *)
(*   step       timed route step of the item's latest visit                *)
(*   entered    entered_at of that visit                                   *)
(*   exited     closed_at of the item's last closed review visit           *)
(*   rejects    the seeded review draw of that visit                       *)
(*   cancelled  the items with an ISSUE_CANCELLED activity                  *)
(*   gaps       the DOWNTIME_SKIPPED windows of the ground-truth ledger    *)
(*   intents    the sprint intents of the projection ledger, append order  *)
(* A work item is named by its simulator_rank, a team by its id.           *)
(***************************************************************************)
EXTENDS Naturals, Sequences, FiniteSets, Functions

CONSTANTS
  Teams,      \* team ids, compared by their order
  Items,      \* work items of a team, named by simulator_rank
  MaxTime,    \* bound: the last instant the wall clock reaches
  MaxOrd,     \* bound: sprint ordinals are below MaxOrd
  Boundary,   \* cadence_boundary: the instant at which sprint o starts
  Points,     \* story points of an item
  Steps,      \* number of timed steps on an item's route
  CapMin,     \* scrum.capacity_min_points
  CapMax      \* scrum.capacity_max_points

Time == 0..MaxTime

NoTime == MaxTime + 1

Ordinals == 0..(MaxOrd - 1)

ASSUME TeamsAssumption == Teams \subseteq Nat
ASSUME ItemsAssumption == Items \subseteq Nat /\ IsFiniteSet(Items)
ASSUME TimeAssumption == MaxTime \in Nat
ASSUME OrdAssumption == MaxOrd \in Nat \ {0}
ASSUME BoundaryAssumption ==
  /\ Boundary \in [0..MaxOrd -> Nat]
  /\ \A o \in Ordinals : Boundary[o] < Boundary[o + 1]
  /\ MaxTime < Boundary[MaxOrd]
ASSUME ItemAssumption == Points \in [Items -> Nat] /\ Steps \in [Items -> Nat]
ASSUME CapacityAssumption == CapMin \in Nat /\ CapMax \in Nat /\ CapMin <= CapMax

SprintLife == {"NONE", "PLANNED", "ACTIVE", "COMPLETED"}

ItemLife == {"BACKLOG", "ACTIVE", "DONE", "CANCELLED"}

SprintOps == {"CREATE_SPRINT", "SCOPE_SPRINT", "START_SPRINT", "COMPLETE_SPRINT"}

Intent == [op : SprintOps, ord : Ordinals]

\* The persisted state of a team.
TeamState ==
  [version : Nat, state : {"CREATED", "RUNNING"}, sim : Time, wake : 0..(MaxTime + 1),
   sprint : [Ordinals -> SprintLife], nextOrd : 0..MaxOrd,
   scope : SUBSET (Ordinals \X Items), life : [Items -> ItemLife],
   step : [Items -> Nat], entered : [Items -> 0..(MaxTime + 1)],
   exited : [Items -> 0..(MaxTime + 1)], rejects : [Items -> BOOLEAN],
   cancelled : SUBSET Items, gaps : SUBSET (Time \X Time), intents : Seq(Intent)]

ItemsIn(s, l) == {i \in Items : s.life[i] = l}
-----------------------------------------------------------------------------
(* Planning: ranked backlog up to a drawn capacity target.                 *)

\* Story points of the candidates ranked before item i, on top of `used`.
UsedBefore(cands, used, i) == used + SumFunctionOnSet(Points, {k \in cands : k < i})

\* The candidates taken in rank order until the team has its minimum and the
\* next one would exceed the drawn target: the loop stops there, it does not
\* look for a smaller one further down.
RankedSelection(cands, used, target) ==
  {i \in cands : \A j \in cands :
     j <= i => \/ UsedBefore(cands, used, j) < CapMin
               \/ UsedBefore(cands, used, j) + Points[j] <= target}

\* Mutation: a selected item gets a status name instead of a lifecycle.
ActivateWithStatus(s, sel, at) ==
  [s EXCEPT
     !.life = [i \in Items |-> IF i \in sel THEN "IN_PROGRESS" ELSE s.life[i]],
     !.step = [i \in Items |-> IF i \in sel THEN 1 ELSE s.step[i]],
     !.entered = [i \in Items |-> IF i \in sel THEN at ELSE s.entered[i]]]

\* _activate_selected_work: the first timed step opens a visit; an item
\* whose route has no timed step is DONE at once.
ActivateItems(s, sel, at) ==
  [s EXCEPT
     !.life = [i \in Items |-> IF i \notin sel THEN s.life[i]
                               ELSE IF Steps[i] = 0 THEN "DONE" ELSE "ACTIVE"],
     !.step = [i \in Items |-> IF i \in sel /\ Steps[i] > 0 THEN 1 ELSE s.step[i]],
     !.entered = [i \in Items |-> IF i \in sel /\ Steps[i] > 0 THEN at ELSE s.entered[i]]]

IntentsFor(ops, o) == [k \in 1..Len(ops) |-> [op |-> ops[k], ord |-> o]]

StartChain(o) == IntentsFor(<<"CREATE_SPRINT", "SCOPE_SPRINT", "START_SPRINT">>, o)
-----------------------------------------------------------------------------
(* Bootstrap: CREATED -> RUNNING, once.                                    *)

\* The ordinal of the first sprint: the one whose window contains the start,
\* or 0 before the first boundary.
ContainingOrdinal(o, started) ==
  IF started < Boundary[0] THEN o = 0
  ELSE Boundary[o] <= started /\ started < Boundary[o + 1]

NewTeam ==
  [version |-> 0, state |-> "CREATED", sim |-> 0, wake |-> NoTime,
   sprint |-> [o \in Ordinals |-> "NONE"], nextOrd |-> 0, scope |-> {},
   life |-> [i \in Items |-> "BACKLOG"], step |-> [i \in Items |-> 0],
   entered |-> [i \in Items |-> NoTime], exited |-> [i \in Items |-> NoTime],
   rejects |-> [i \in Items |-> FALSE], cancelled |-> {}, gaps |-> {}, intents |-> <<>>]

Started(s, started, wake) == [s EXCEPT !.state = "RUNNING", !.sim = started, !.wake = wake]

WithSprints(s, sprint, nextOrd, scope, intents) ==
  [s EXCEPT !.sprint = sprint, !.nextOrd = nextOrd, !.scope = scope, !.intents = intents]

\* _first_wake_at before the first boundary, the anchor that cadence_boundary returns for 0.
FirstWake == IF Boundary[0] <= MaxTime THEN Boundary[0] ELSE NoTime

PlannedStart(s, started) ==
  WithSprints(Started(s, started, FirstWake),
              [s.sprint EXCEPT ![0] = "PLANNED"], 1, s.scope, s.intents)

ActiveStart(s, started, o, target) ==
  LET sel == RankedSelection(Items, 0, target)
  IN WithSprints(Started(ActivateItems(s, sel, started), started, started),
                 [s.sprint EXCEPT ![o] = "ACTIVE"], o + 1, {o} \X sel, StartChain(o))

\* ensure_bootstrapped: the runtime version is not advanced.
EnsureBootstrapped(s, started, o, target) ==
  IF started < Boundary[o] THEN PlannedStart(s, started)
  ELSE ActiveStart(s, started, o, target)
-----------------------------------------------------------------------------
(* The lifecycle transitions at a fixed boundary.                          *)

ActivatePlannedSprint(s, o, at, target) ==
  LET sel == RankedSelection(Items, 0, target)
  IN WithSprints(ActivateItems(s, sel, at), [s.sprint EXCEPT ![o] = "ACTIVE"], s.nextOrd,
                 s.scope \cup ({o} \X sel), s.intents \o StartChain(o))

CarryoverIds(s, o) == {i \in Items : <<o, i>> \in s.scope /\ s.life[i] = "ACTIVE"}

\* Mutations of the rollover: the old sprint stays active; the old scope rows
\* stay open; the successor is started before the old sprint is completed;
\* unfinished items are left behind.
Rolled(s, at, sprint, scope, sel, intents) ==
  WithSprints(ActivateItems(s, sel, at), sprint, s.nextOrd + 1, scope, s.intents \o intents)

RollOrdinal(s, o) == [s.sprint EXCEPT ![o] = "COMPLETED", ![s.nextOrd] = "ACTIVE"]

RollChain(s, o) == <<[op |-> "COMPLETE_SPRINT", ord |-> o]>> \o StartChain(s.nextOrd)

RollLeavesActive(s, o, at, target) ==
  Rolled(s, at, [s.sprint EXCEPT ![s.nextOrd] = "ACTIVE"], {}, {}, RollChain(s, o))

RollKeepsScope(s, o, at, target) ==
  Rolled(s, at, RollOrdinal(s, o), s.scope \cup ({s.nextOrd} \X CarryoverIds(s, o)), {}, RollChain(s, o))

RollStartsFirst(s, o, at, target) ==
  Rolled(s, at, RollOrdinal(s, o), {s.nextOrd} \X CarryoverIds(s, o), {},
         StartChain(s.nextOrd) \o <<[op |-> "COMPLETE_SPRINT", ord |-> o]>>)

RollDropsCarryover(s, o, at, target) ==
  Rolled(s, at, RollOrdinal(s, o), {}, {}, RollChain(s, o))

RollActiveSprint(s, o, at, target) ==
  LET new == s.nextOrd
      carry == CarryoverIds(s, o)
      sel == RankedSelection(ItemsIn(s, "BACKLOG"), SumFunctionOnSet(Points, carry), target)
  IN WithSprints(ActivateItems(s, sel, at),
                 [s.sprint EXCEPT ![o] = "COMPLETED", ![new] = "ACTIVE"], new + 1,
                 {r \in s.scope : r[1] # o} \cup ({new} \X (carry \cup sel)),
                 s.intents \o (<<[op |-> "COMPLETE_SPRINT", ord |-> o]>> \o StartChain(new)))

\* The sprints whose boundary is exactly `at`.
PlannedAt(s, at) == {o \in Ordinals : s.sprint[o] = "PLANNED" /\ Boundary[o] = at}

EndingAt(s, at) == {o \in Ordinals : s.sprint[o] = "ACTIVE" /\ Boundary[o + 1] = at}

HasBoundaryAt(s, at) == PlannedAt(s, at) \cup EndingAt(s, at) # {}

CrossSprintBoundary(s, at, target) ==
  IF PlannedAt(s, at) # {}
  THEN ActivatePlannedSprint(s, CHOOSE o \in PlannedAt(s, at) : TRUE, at, target)
  ELSE IF EndingAt(s, at) # {}
  THEN RollActiveSprint(s, CHOOSE o \in EndingAt(s, at) : TRUE, at, target)
  ELSE s

\* Mutation: a boundary exactly on the cursor is not seen.
PendingAfterCursor(s, asof) == {b \in (s.sim + 1)..asof : HasBoundaryAt(s, b)}

\* _next_boundary: the pending boundaries between the cursor and `asof`.
PendingBoundaries(s, asof) ==
  {b \in s.sim..asof : HasBoundaryAt(s, b)}
-----------------------------------------------------------------------------
(* What the transitions keep: the shape of a team's sprints.               *)

\* The sprints of a running team form a chain: the last claimed ordinal is
\* planned or active, the earlier ones are completed or were never used, the
\* later ones do not exist.  (counter claim and sprint rows of
\* sprint_lifecycle._successor and scrum_bootstrap._initial_sprint)
SprintChain(s) ==
  s.state = "RUNNING" =>
    /\ s.nextOrd \in 1..MaxOrd
    /\ s.sprint[s.nextOrd - 1] \in {"PLANNED", "ACTIVE"}
    /\ \A o \in Ordinals : o < s.nextOrd - 1 => s.sprint[o] \in {"NONE", "COMPLETED"}
    /\ \A o \in Ordinals : o >= s.nextOrd => s.sprint[o] = "NONE"

\* The cursor never passes the boundary of a sprint that still waits for it.
\* cross_sprint_boundary compares instants for equality, so a cursor that had
\* jumped over a boundary would leave the sprint active for ever.
BoundaryAhead(s) ==
  \A o \in Ordinals :
    /\ s.sprint[o] = "PLANNED" => s.sim <= Boundary[o]
    /\ s.sprint[o] = "ACTIVE" => s.sim <= Boundary[o + 1]

\* The current scope rows belong to the active sprint; with one active sprint
\* an item is never a member of two.
ScopeInActive(s) ==
  \A r \in s.scope : s.sprint[r[1]] = "ACTIVE"

\* An item still in the backlog has no row.
BacklogUnscoped(s) ==
  \A r \in s.scope : s.life[r[2]] # "BACKLOG"

\* Where the ledger tells of an operation on a sprint.
TellsOf(s, op, o) == {k \in DOMAIN s.intents : s.intents[k] = [op |-> op, ord |-> o]}

ToldOnce(s, op, o) == \E k \in DOMAIN s.intents : TellsOf(s, op, o) = {k}

\* The ledger tells the sprint's story once and in order: an active sprint
\* has been created, scoped and started, a completed one also completed, each
\* exactly once, and the completion of a sprint precedes the start of its
\* successor.
IntentsTellSprints(s) ==
  /\ \A o \in Ordinals, op \in SprintOps :
       LET states == IF op = "COMPLETE_SPRINT" THEN {"COMPLETED"} ELSE {"ACTIVE", "COMPLETED"}
       IN IF s.sprint[o] \in states THEN ToldOnce(s, op, o) ELSE TellsOf(s, op, o) = {}
  /\ \A j, k \in DOMAIN s.intents :
       (s.intents[j].op = "COMPLETE_SPRINT" /\ s.intents[k].op = "START_SPRINT"
          /\ s.intents[k].ord > s.intents[j].ord) => j < k

\* State n is s plus one commit: the version moved on by one, the ledgers only
\* grew and a completed sprint stayed completed.
AddsTo(n, s) ==
  /\ n.version = s.version + 1
  /\ n.state = "RUNNING"
  /\ \A o \in Ordinals : s.sprint[o] = "COMPLETED" => n.sprint[o] = "COMPLETED"
  /\ s.gaps \subseteq n.gaps
  /\ Len(s.intents) <= Len(n.intents)
  /\ \A k \in DOMAIN s.intents : n.intents[k] = s.intents[k]

\* From s to n a sprint ends only by handing every active item of its scope,
\* with its status visit untouched, to the one successor that starts with it.
CarriesOver(s, n) ==
  \A o \in Ordinals :
    (s.sprint[o] = "ACTIVE" /\ n.sprint[o] = "COMPLETED") =>
      \E p \in Ordinals :
        /\ p > o /\ s.sprint[p] = "NONE" /\ n.sprint[p] = "ACTIVE"
        /\ \A i \in CarryoverIds(s, o) :
             /\ <<p, i>> \in n.scope
             /\ n.life[i] = "ACTIVE" /\ n.step[i] = s.step[i] /\ n.entered[i] = s.entered[i]
=============================================================================
