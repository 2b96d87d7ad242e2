------------------------- MODULE TeamTimelineProofs -------------------------
(***************************************************************************)
(* Proofs about TeamTimeline for every value of its constants: any number  *)
(* of teams and work items, any cadence and any length of time.            *)
(*                                                                         *)
(* None of the invariants is inductive alone.  A rollover claims the next  *)
(* ordinal, which exists only because the ending sprint is the last one    *)
(* claimed (SprintChain) and its boundary lies before the end of time; a   *)
(* slice or a skip stays before a boundary only because the boundary was   *)
(* ahead of the cursor before (BoundaryAhead) and only one sprint waits.   *)
(* The ledger tells a new sprint's story once only because the later       *)
(* ordinals are unused (SprintChain) and untold (IntentsTellSprints); the  *)
(* scope rows a rollover keeps would be of an old sprint if more than the  *)
(* current one were active.  Sound is the conjunction of them all; the     *)
(* cursor's bound by the clock joins it.                                   *)
(***************************************************************************)
EXTENDS TeamTimeline, LifecycleProofs

TeamInv(t) == Sound(db[t]) /\ db[t].sim <= now

IInv == now \in Time /\ db \in [Teams -> TeamState] /\ \A t \in Teams : TeamInv(t)

\* What every commit of a running team gives: soundness and kept history.
Kept(s, n) ==
  /\ Sound(n)
  /\ n.version = s.version /\ n.state = "RUNNING"
  /\ s.sim <= n.sim /\ n.sim <= now
  /\ \A o \in Ordinals : s.sprint[o] = "COMPLETED" => n.sprint[o] = "COMPLETED"
  /\ s.gaps \subseteq n.gaps
  /\ \E q \in Seq(Intent) : n.intents = s.intents \o q
  /\ CarriesOver(s, n)

USE DEF Time, NoTime, Ordinals

\* What is handed over is handed over by every state with the same sprints,
\* items and scope.
LEMMA SameCarried ==
  ASSUME NEW s, NEW c, CarriesOver(s, c), NEW n, n.sprint = c.sprint, SameItems(n, c)
  PROVE  CarriesOver(s, n)
<1>1. n.sprint = c.sprint /\ n.scope = c.scope /\ n.life = c.life /\ n.step = c.step /\ n.entered = c.entered
  BY DEF SameItems
<1> QED
  BY <1>1 DEF CarriesOver

\* A crossing's result is a kept state.
LEMMA ExtendsKept ==
  ASSUME NEW s, s.state = "RUNNING", s.sim \in Time, s.sim <= now,
         NEW c, Extends(c, s), NEW n, Sound(n),
         n.version = c.version, n.sim = c.sim, n.state = c.state,
         n.sprint = c.sprint, n.gaps = c.gaps, n.intents = c.intents, SameItems(n, c)
  PROVE  Kept(s, n)
<1>1. s.sim <= n.sim /\ n.sim <= now
  BY DEF Extends
<1>2. /\ n.version = s.version /\ n.state = "RUNNING" /\ s.gaps \subseteq n.gaps
      /\ \A o \in Ordinals : s.sprint[o] = "COMPLETED" => n.sprint[o] = "COMPLETED"
  BY DEF Extends
<1>3. \E q \in Seq(Intent) : n.intents = s.intents \o q
  BY DEF Extends
<1>4. CarriesOver(s, n)
  BY SameCarried DEF Extends
<1> QED
  BY <1>1, <1>2, <1>3, <1>4 DEF Kept

\* A commit of a kept state preserves the invariant.
LEMMA CommitKeeps ==
  ASSUME IInv, NEW t \in Teams, NEW n, Kept(db[t], n), Commit(t, n)
  PROVE  /\ IInv'
         /\ \A u \in Teams : db'[u] # db[u] => u = t
         /\ Running(t) => HistoryStep(db[t], db'[t])
         /\ \A u \in Teams : CarriesOver(db[u], db'[u])
<1>1. db[t] \in TeamState /\ db[t].version + 1 \in Nat /\ db[t].intents \in Seq(Intent)
  <2>1. db[t] \in TeamState
    BY DEF IInv
  <2>2. db[t].version \in Nat /\ db[t].intents \in Seq(Intent)
    BY <2>1 DEF TeamState
  <2> QED
    BY <2>1, <2>2
<1> DEFINE m == [n EXCEPT !.version = db[t].version + 1]
<1>2. /\ Sound(m) /\ m.version = db[t].version + 1 /\ m.sim = n.sim /\ m.state = n.state
      /\ m.sprint = n.sprint /\ m.gaps = n.gaps /\ m.intents = n.intents /\ SameItems(m, n)
  BY <1>1, VersionSound DEF Kept
<1>3. now' = now /\ db' = [db EXCEPT ![t] = m]
  BY DEF Commit
<1> HIDE DEF m
<1>4. db'[t] = m /\ \A u \in Teams : u # t => db'[u] = db[u]
  BY <1>3 DEF IInv
<1>5. IInv'
  <2>1. m \in TeamState /\ m.sim <= now
    BY <1>2 DEF Sound, Kept
  <2>2. db' \in [Teams -> TeamState]
    BY <1>3, <2>1 DEF IInv
  <2>3. \A u \in Teams : Sound(db'[u]) /\ db'[u].sim <= now'
    BY <1>2, <1>3, <1>4, <2>1 DEF IInv, TeamInv
  <2> QED
    BY <1>3, <2>2, <2>3 DEF IInv, TeamInv
<1>6. HistoryStep(db[t], db'[t])
  <2>1. PICK q \in Seq(Intent) : n.intents = db[t].intents \o q
    BY DEF Kept
  <2>2. /\ Len(db[t].intents) <= Len(m.intents)
        /\ \A k \in DOMAIN db[t].intents : m.intents[k] = db[t].intents[k]
    BY <1>1, <1>2, <2>1
  <2> QED
    BY <1>2, <1>4, <2>2 DEF HistoryStep, AddsTo, Kept
<1>7. ASSUME NEW u \in Teams PROVE CarriesOver(db[u], db'[u])
  <2>1. CASE u = t
    <3>1. CarriesOver(db[t], n)
      BY DEF Kept
    <3> QED
      BY <1>2, <1>4, <2>1, <3>1, SameCarried
  <2>2. CASE u # t
    BY <1>4, <2>2, NothingToCarry
  <2> QED
    BY <2>1, <2>2
<1> QED
  BY <1>4, <1>5, <1>6, <1>7

\* Every step keeps the invariant, every change of a running team keeps its
\* history, and every rollover hands its work on: one case per action.
LEMMA StepKeeps ==
  ASSUME IInv, [Next]_vars
  PROVE  /\ IInv'
         /\ \A t \in Teams : Running(t) /\ db'[t] # db[t] => HistoryStep(db[t], db'[t])
         /\ \A t \in Teams : CarriesOver(db[t], db'[t])
<1>1. CASE Clock
  <2>1. now \in Nat /\ now' \in Time /\ now <= now' /\ db' = db
    BY <1>1, TimeAssumption DEF Clock, IInv
  <2>2. \A t \in Teams : db[t].sim \in Nat
    BY DEF IInv, TeamState
  <2> QED
    BY <2>1, <2>2, NothingToCarry DEF IInv, TeamInv
<1>2. ASSUME NEW t \in Teams, Bootstrap(t)
      PROVE  /\ IInv'
             /\ \A u \in Teams : Running(u) => db'[u] = db[u]
             /\ \A u \in Teams : CarriesOver(db[u], db'[u])
  <2>1. PICK o \in Ordinals, target \in Targets :
          /\ ContainingOrdinal(o, now)
          /\ db' = [db EXCEPT ![t] = EnsureBootstrapped(db[t], now, o, target)]
    BY <1>2 DEF Bootstrap
  <2> DEFINE n == EnsureBootstrapped(db[t], now, o, target)
  <2>2. Sound(n) /\ n.sim = now
    BY <1>2, <2>1, BootstrapSound DEF Bootstrap, IInv, TeamInv
  <2> HIDE DEF n
  <2>3. now' = now /\ db' = [db EXCEPT ![t] = n] /\ db[t].state = "CREATED"
    BY <1>2, <2>1 DEF Bootstrap, n
  <2>4. db'[t] = n /\ \A u \in Teams : u # t => db'[u] = db[u]
    BY <2>3 DEF IInv
  <2>5. n \in TeamState /\ n.sim <= now
    BY <2>2 DEF Sound, IInv
  <2>6. db' \in [Teams -> TeamState]
    BY <2>3, <2>5 DEF IInv
  <2>7. \A u \in Teams : Sound(db'[u]) /\ db'[u].sim <= now
    BY <2>2, <2>4, <2>5 DEF IInv, TeamInv
  <2>8. IInv'
    BY <2>3, <2>6, <2>7 DEF IInv, TeamInv
  <2>9. ASSUME NEW u \in Teams PROVE CarriesOver(db[u], db'[u])
    <3>1. \A q \in Ordinals : db[t].sprint[q] = "NONE"
      BY <2>3 DEF IInv, TeamInv, Sound, Unstarted
    <3> QED
      BY <2>4, <3>1, NothingToCarry
  <2> QED
    BY <2>3, <2>4, <2>8, <2>9 DEF Running
<1>3. ASSUME NEW t \in Teams, TickBoundary(t)
      PROVE  \E n : Kept(db[t], n) /\ Commit(t, n)
  <2>1. PICK target \in Targets :
          Commit(t, [CrossSprintBoundary(db[t], db[t].sim, target) EXCEPT !.wake = db[t].sim])
    BY <1>3 DEF TickBoundary
  <2> DEFINE c == CrossSprintBoundary(db[t], db[t].sim, target)
             n == [c EXCEPT !.wake = db[t].sim]
  <2>2. Sound(db[t]) /\ db[t].state = "RUNNING" /\ db[t].sim \in Time /\ db[t].sim <= now
    BY <1>3 DEF TickBoundary, Running, IInv, TeamInv, TeamState
  <2>3. Sound(c) /\ Extends(c, db[t])
    BY <2>2, CrossSound
  <2> HIDE DEF c
  <2>4. /\ Sound(n) /\ n.version = c.version /\ n.sim = c.sim /\ n.state = c.state
        /\ n.sprint = c.sprint /\ n.gaps = c.gaps /\ n.intents = c.intents /\ SameItems(n, c)
    BY <2>2, <2>3, WakeSound
  <2> HIDE DEF n
  <2>5. Kept(db[t], n)
    BY <2>2, <2>3, <2>4, ExtendsKept DEF Extends
  <2> QED
    BY <2>1, <2>5 DEF c, n
<1>4. ASSUME NEW t \in Teams, TickSlice(t)
      PROVE  \E n : Kept(db[t], n) /\ Commit(t, n)
  <2>a. PICK asof \in db[t].sim..now : \E e \in db[t].sim..asof :
          \E X, C \in SUBSET Items : \E W \in SUBSET X, V \in SUBSET C :
            /\ TickAllowed(db[t], asof, X, W, e, C, V)
            /\ Commit(t, TickResult(db[t], X, W, e, C, V))
    BY <1>4 DEF TickSlice
  <2>b. PICK e \in db[t].sim..asof : \E X, C \in SUBSET Items :
          \E W \in SUBSET X, V \in SUBSET C :
            /\ TickAllowed(db[t], asof, X, W, e, C, V)
            /\ Commit(t, TickResult(db[t], X, W, e, C, V))
    BY <2>a
  <2>1. PICK X \in SUBSET Items, C \in SUBSET Items,
             W \in SUBSET Items, V \in SUBSET Items :
          /\ TickAllowed(db[t], asof, X, W, e, C, V)
          /\ Commit(t, TickResult(db[t], X, W, e, C, V))
    BY <2>b
  <2> DEFINE n == TickResult(db[t], X, W, e, C, V)
  <2>2. Sound(db[t]) /\ db[t].state = "RUNNING" /\ db[t].sim \in Time /\ now \in Time
    BY <1>4 DEF TickSlice, Running, IInv, TeamInv, TeamState
  <2>3. asof \in Time /\ e \in Time /\ db[t].sim <= e /\ e <= now
    BY <2>2, TimeAssumption
  <2>4. /\ Sound(n) /\ n.sim = e /\ n.version = db[t].version /\ n.state = db[t].state
        /\ n.sprint = db[t].sprint /\ n.gaps = db[t].gaps /\ n.intents = db[t].intents
    BY <2>1, <2>2, <2>3, SliceSound
  <2> HIDE DEF n
  <2>5. \E q \in Seq(Intent) : n.intents = db[t].intents \o q
    BY <2>2, <2>4, SameIntents
  <2>6. CarriesOver(db[t], n)
    BY <2>4, NothingToCarry
  <2>7. Kept(db[t], n)
    BY <2>2, <2>3, <2>4, <2>5, <2>6 DEF Kept
  <2> QED
    BY <2>1, <2>7 DEF n
<1>5. ASSUME NEW t \in Teams, Evidence(t)
      PROVE  \E n : Kept(db[t], n) /\ Commit(t, n)
  <2>1. PICK asof \in db[t].sim..now :
          Commit(t, [db[t] EXCEPT !.gaps = @ \cup {<<db[t].sim, asof>>}])
    BY <1>5 DEF Evidence
  <2> DEFINE n == [db[t] EXCEPT !.gaps = @ \cup {<<db[t].sim, asof>>}]
  <2>2. /\ Sound(db[t]) /\ db[t].state = "RUNNING" /\ db[t].sim \in Time /\ now \in Time
        /\ db[t].sim <= now
    BY <1>5 DEF Evidence, Running, IInv, TeamInv, TeamState
  <2>3. <<db[t].sim, asof>> \in Time \X Time
    BY <2>2, TimeAssumption
  <2>4. /\ Sound(n) /\ n.gaps = db[t].gaps \cup {<<db[t].sim, asof>>} /\ n.sim = db[t].sim
        /\ n.version = db[t].version /\ n.state = db[t].state
        /\ n.sprint = db[t].sprint /\ n.intents = db[t].intents
    BY <2>2, <2>3, EvidenceSound
  <2> HIDE DEF n
  <2>5. \E q \in Seq(Intent) : n.intents = db[t].intents \o q
    BY <2>2, <2>4, SameIntents
  <2>6. Kept(db[t], n)
    <3>1. db[t].sim <= n.sim /\ n.sim <= now /\ db[t].gaps \subseteq n.gaps
      BY <2>2, <2>4
    <3>2. \A o \in Ordinals : db[t].sprint[o] = "COMPLETED" => n.sprint[o] = "COMPLETED"
      BY <2>4
    <3>3. CarriesOver(db[t], n)
      BY <2>4, NothingToCarry
    <3> QED
      BY <2>2, <2>4, <2>5, <3>1, <3>2, <3>3 DEF Kept
  <2> QED
    BY <2>1, <2>6 DEF n
<1>6. ASSUME NEW t \in Teams, CrossInDowntime(t)
      PROVE  \E n : Kept(db[t], n) /\ Commit(t, n)
  <2>a. PICK asof \in db[t].sim..now : \E at \in PendingBoundaries(db[t], asof) :
          \E target \in Targets : Commit(t, CrossSprintBoundary(db[t], at, target))
    BY <1>6 DEF CrossInDowntime
  <2>1. PICK at \in PendingBoundaries(db[t], asof), target \in Targets :
          Commit(t, CrossSprintBoundary(db[t], at, target))
    BY <2>a
  <2> DEFINE n == CrossSprintBoundary(db[t], at, target)
  <2>2. /\ Sound(db[t]) /\ db[t].state = "RUNNING" /\ db[t].sim \in Time /\ now \in Time
        /\ db[t].sim <= now
    BY <1>6 DEF CrossInDowntime, Running, IInv, TeamInv, TeamState
  <2>3. at \in Time
    BY <2>2, TimeAssumption DEF PendingBoundaries
  <2>4. Sound(n) /\ Extends(n, db[t])
    BY <2>2, <2>3, CrossSound
  <2> HIDE DEF n
  <2>5. Kept(db[t], n)
    BY <2>2, <2>4, ExtendsKept DEF SameItems
  <2> QED
    BY <2>1, <2>5 DEF n
<1>7. ASSUME NEW t \in Teams, SkipDowntime(t)
      PROVE  \E n : Kept(db[t], n) /\ Commit(t, n)
  <2>1. PICK asof \in db[t].sim..now :
          /\ PendingBoundaries(db[t], asof) = {}
          /\ Commit(t, [db[t] EXCEPT !.sim = asof, !.wake = asof])
    BY <1>7 DEF SkipDowntime
  <2> DEFINE n == [db[t] EXCEPT !.sim = asof, !.wake = asof]
  <2>2. Sound(db[t]) /\ db[t].state = "RUNNING" /\ db[t].sim \in Time /\ now \in Time
    BY <1>7 DEF SkipDowntime, Running, IInv, TeamInv, TeamState
  <2>3. asof \in Time /\ db[t].sim <= asof /\ asof <= now
    BY <2>2, TimeAssumption
  <2>4. /\ Sound(n) /\ n.sim = asof /\ n.version = db[t].version /\ n.state = db[t].state
        /\ n.sprint = db[t].sprint /\ n.gaps = db[t].gaps /\ n.intents = db[t].intents
    BY <2>1, <2>2, <2>3, SkipSound
  <2> HIDE DEF n
  <2>5. \E q \in Seq(Intent) : n.intents = db[t].intents \o q
    BY <2>2, <2>4, SameIntents
  <2>6. CarriesOver(db[t], n)
    BY <2>4, NothingToCarry
  <2>7. Kept(db[t], n)
    BY <2>2, <2>3, <2>4, <2>5, <2>6 DEF Kept
  <2> QED
    BY <2>1, <2>7 DEF n
<1>8. CASE UNCHANGED vars
  BY <1>8, NothingToCarry DEF vars, IInv, TeamInv
<1>9. ASSUME NEW t \in Teams, \E n : Kept(db[t], n) /\ Commit(t, n)
      PROVE  /\ IInv'
             /\ \A u \in Teams : Running(u) /\ db'[u] # db[u] => HistoryStep(db[u], db'[u])
             /\ \A u \in Teams : CarriesOver(db[u], db'[u])
  BY <1>9, CommitKeeps
<1> QED
  BY <1>1, <1>2, <1>3, <1>4, <1>5, <1>6, <1>7, <1>8, <1>9 DEF Next, TeamStep
-----------------------------------------------------------------------------
\* The inductive invariant holds initially.
LEMMA InitInv == Init => IInv
<1>1. 0 \in Time /\ NewTeam \in TeamState
  BY TimeAssumption, NewTeamSound DEF Sound
<1> QED
  BY <1>1, NewTeamSound DEF Init, IInv, TeamInv

\* The inductive invariant holds in every reachable state.
LEMMA Invariant == Spec => []IInv
<1>1. IInv /\ [Next]_vars => IInv'
  BY StepKeeps
<1> QED
  BY InitInv, <1>1, PTL DEF Spec

\* The persisted state of every team keeps its type: no tick, crossing,
\* restart or skip writes a row outside the ranges of the model.
THEOREM TypeCorrect == Spec => []TypeOK
<1>1. IInv => TypeOK
  BY DEF IInv, TypeOK
<1> QED
  BY <1>1, Invariant, PTL

\* The sprints of a running team form a chain with one current sprint at its
\* end (counter claim of sprint_lifecycle._successor), for every cadence.
THEOREM SprintChainHolds == Spec => []SprintChainInv
<1>1. IInv => SprintChainInv
  BY DEF IInv, TeamInv, Sound, SprintChainInv
<1> QED
  BY <1>1, Invariant, PTL

\* The cursor never jumps over the boundary of a sprint that waits for it, so
\* the equality test of cross_sprint_boundary is met.
THEOREM BoundaryStaysAhead == Spec => []BoundaryAheadInv
<1>1. IInv => BoundaryAheadInv
  BY DEF IInv, TeamInv, Sound, BoundaryAheadInv
<1> QED
  BY <1>1, Invariant, PTL

\* Open scope rows are of the active sprint and of planned work, so no item is
\* in two sprints, for every number of items and every rollover.
THEOREM ScopeHolds == Spec => []ScopeInv
<1>1. IInv => ScopeInv
  BY DEF IInv, TeamInv, Sound, Scoped, ScopeInv
<1> QED
  BY <1>1, Invariant, PTL

\* The projection ledger tells every sprint's story once and in order
\* (sprint_lifecycle._build_projection_intents).
THEOREM IntentsHold == Spec => []IntentsInv
<1>1. IInv => IntentsInv
  BY DEF IInv, TeamInv, Sound, IntentsInv
<1> QED
  BY <1>1, Invariant, PTL

\* Every rollover hands every unfinished item, with its visit, to the sprint
\* that starts with it (sprint_lifecycle._carryover_ids, _successor).
THEOREM WorkCarriedOver == Spec => UnfinishedCarriesOver
<1>1. IInv /\ [Next]_vars => [\A t \in Teams : CarriesOver(db[t], db'[t])]_vars
  BY StepKeeps
<1> QED
  BY <1>1, Invariant, PTL DEF Spec, UnfinishedCarriesOver

\* No commit loses a version, moves a cursor back, reopens a completed sprint
\* or rewrites a ledger.
THEOREM HistoryIsKept == Spec => HistoryKept
<1>1. IInv /\ [Next]_vars =>
        [\A t \in Teams : Running(t) /\ db'[t] # db[t] => HistoryStep(db[t], db'[t])]_vars
  BY StepKeeps
<1> QED
  BY <1>1, Invariant, PTL DEF Spec, HistoryKept
=============================================================================
