------------------------- MODULE LiveSchedulerProofs -------------------------
(***************************************************************************)
(* Proofs about LiveScheduler for every number of workers and teams: the   *)
(* version check makes each commit a step from the team's current state,   *)
(* so overlapping deployments lose nothing.                                *)
(*                                                                         *)
(* SnapshotCoherent is not inductive alone: that a loaded team is running  *)
(* rests on the work lists holding running teams only (TodoRunning), and   *)
(* that a commit moves the version on rests on the types.  That the types  *)
(* are kept rests in turn on the soundness of what is loaded and stored.   *)
(***************************************************************************)
EXTENDS LiveScheduler, LifecycleProofs, FiniteSetTheorems

LoadedPCs == {"evidence", "cross", "tick"}

TodoRunning == \A p \in Workers : \A t \in w[p].todo : Running(t)

AllSound == (\A t \in Teams : Sound(db[t])) /\ (\A p \in Workers : Sound(w[p].snap))

LInv == TypeOK /\ AllSound /\ TodoRunning /\ SnapshotCoherent

\* A worker state that holds no loaded team.
Quiet(r) ==
  /\ r \in Worker /\ Sound(r.snap)
  /\ \A t \in r.todo : Running(t)
  /\ r.pc \notin LoadedPCs

\* The counters and histories besides db and w keep their types.
OthersTyped ==
  /\ now' \in Time /\ crashes' \in 0..MaxCrashes /\ faults' \in 0..MaxFaults
  /\ down' \subseteq Time /\ from' \in [Teams -> Time] /\ worked' \in [Teams -> SUBSET Time]

\* What a commit of a loaded state s may write, its version aside.
Grows(n, s) ==
  /\ Sound(n) /\ n.state = "RUNNING"
  /\ \A o \in Ordinals : s.sprint[o] = "COMPLETED" => n.sprint[o] = "COMPLETED"
  /\ s.gaps \subseteq n.gaps
  /\ \E q \in Seq(Intent) : n.intents = s.intents \o q

USE DEF Time, NoTime, Ordinals

\* A step that only moves one worker to a state without a loaded team.
LEMMA QuietStep ==
  ASSUME LInv, NEW p \in Workers, NEW r, Quiet(r), w' = [w EXCEPT ![p] = r],
         db' = db, OthersTyped
  PROVE  LInv'
<1>1. w'[p] = r /\ \A q \in Workers : q # p => w'[q] = w[q]
  BY DEF LInv, TypeOK
<1>2. TypeOK'
  BY DEF LInv, TypeOK, OthersTyped, Quiet
<1>3. AllSound'
  BY <1>1 DEF LInv, AllSound, Quiet
<1>4. TodoRunning'
  BY <1>1 DEF LInv, TodoRunning, Quiet, Running
<1>5. SnapshotCoherent'
  BY <1>1 DEF LInv, SnapshotCoherent, Loaded, IsCurrent, Quiet, LoadedPCs, Running
<1> QED
  BY <1>2, <1>3, <1>4, <1>5 DEF LInv

\* A worker loads the team it is at.
LEMMA LoadStep ==
  ASSUME LInv, NEW p \in Workers, NEW t \in Teams, IsCurrent(p, t), NEW pc \in LoadedPCs,
         w' = [w EXCEPT ![p] = [w[p] EXCEPT !.pc = pc, !.snap = db[t]]],
         db' = db, OthersTyped
  PROVE  LInv'
<1> DEFINE r == [w[p] EXCEPT !.pc = pc, !.snap = db[t]]
<1>1. r \in Worker /\ r.pc = pc /\ r.snap = db[t] /\ r.todo = w[p].todo
  <2>1. w[p] \in Worker /\ db[t] \in TeamState /\ pc \in PCs
    BY DEF LInv, TypeOK, LoadedPCs, PCs
  <2> QED
    BY <2>1 DEF Worker
<1> HIDE DEF r
<1>2. w' = [w EXCEPT ![p] = r]
  BY DEF r
<1>3. w'[p] = r /\ \A q \in Workers : q # p => w'[q] = w[q]
  BY <1>2 DEF LInv, TypeOK
<1>4. TypeOK'
  BY <1>1, <1>2 DEF LInv, TypeOK, OthersTyped
<1>5. AllSound'
  BY <1>1, <1>3 DEF LInv, AllSound
<1>6. TodoRunning'
  BY <1>1, <1>3 DEF LInv, TodoRunning, Running
<1>7. SnapshotCoherent'
  <2> SUFFICES ASSUME NEW q \in Workers, NEW u \in Teams, Loaded(q, u)'
               PROVE  /\ db[u].state = "RUNNING"
                      /\ w'[q].snap.version <= db[u].version
                      /\ w'[q].snap.version = db[u].version => w'[q].snap = db[u]
    BY DEF SnapshotCoherent, Running
  <2>1. CASE q # p
    BY <1>3, <2>1 DEF LInv, SnapshotCoherent, Loaded, IsCurrent, Running
  <2>2. CASE q = p
    <3>1. u = t
      <4>1. t \in w[p].todo /\ u \in w[p].todo /\ u <= t /\ t <= u
        BY <1>1, <1>3, <2>2 DEF Loaded, IsCurrent
      <4> QED
        BY <4>1, TeamsAssumption
    <3>2. db[u].version \in Nat /\ db[u].state = "RUNNING"
      BY <3>1 DEF LInv, TypeOK, TeamState, TodoRunning, Running, IsCurrent
    <3> QED
      BY <1>1, <1>3, <2>2, <3>1, <3>2
  <2> QED
    BY <2>1, <2>2
<1> QED
  BY <1>4, <1>5, <1>6, <1>7 DEF LInv

\* A commit whose version check succeeded writes the successor of the team's
\* current state, and no other worker's snapshot passes for current.
LEMMA CommitStep ==
  ASSUME LInv, NEW p \in Workers, NEW t \in Teams, IsCurrent(p, t), w[p].pc \in LoadedPCs,
         Fresh(p, t), NEW n, Grows(n, w[p].snap), Store(p, t, n),
         NEW r, Quiet(r), w' = [w EXCEPT ![p] = r], OthersTyped
  PROVE  /\ LInv'
         /\ \A u \in Teams : db'[u] # db[u] => AddsTo(db'[u], db[u])
<1>1. Loaded(p, t)
  BY DEF Loaded, LoadedPCs
<1>2. /\ w[p].snap = db[t] /\ db[t] \in TeamState /\ db[t].intents \in Seq(Intent)
      /\ db[t].version \in Nat /\ db[t].version + 1 \in Nat
  <2>1. w[p].snap = db[t]
    BY <1>1 DEF LInv, SnapshotCoherent, Fresh
  <2>2. db[t] \in TeamState
    BY DEF LInv, TypeOK
  <2>3. db[t].version \in Nat /\ db[t].intents \in Seq(Intent)
    BY <2>2 DEF TeamState
  <2> QED
    BY <2>1, <2>2, <2>3
<1> DEFINE m == [n EXCEPT !.version = db[t].version + 1]
<1>3. /\ Sound(m) /\ m.version = db[t].version + 1 /\ m.state = n.state
      /\ m.sprint = n.sprint /\ m.gaps = n.gaps /\ m.intents = n.intents
  BY <1>2, VersionSound DEF Grows
<1>4. db' = [db EXCEPT ![t] = m]
  BY <1>2 DEF Store
<1> HIDE DEF m
<1>5. db'[t] = m /\ \A u \in Teams : u # t => db'[u] = db[u]
  BY <1>4 DEF LInv, TypeOK
<1>6. w'[p] = r /\ \A q \in Workers : q # p => w'[q] = w[q]
  BY DEF LInv, TypeOK
<1>7. TypeOK'
  <2>1. db' \in [Teams -> TeamState]
    BY <1>3, <1>4 DEF LInv, TypeOK, Sound
  <2>2. w' \in [Workers -> Worker]
    BY DEF LInv, TypeOK, Quiet
  <2> QED
    BY <2>1, <2>2 DEF TypeOK, OthersTyped
<1>8. AllSound'
  BY <1>3, <1>5, <1>6 DEF LInv, AllSound, Quiet
<1>9. \A u \in Teams : Running(u) => Running(u)'
  BY <1>3, <1>5 DEF Running, Grows
<1>10. TodoRunning'
  <2> SUFFICES ASSUME NEW q \in Workers, NEW u \in w'[q].todo PROVE Running(u)'
    BY DEF TodoRunning
  <2>1. u \in Teams
    BY <1>7 DEF TypeOK, Worker
  <2>2. Running(u)
    BY <1>6 DEF LInv, TodoRunning, Quiet
  <2> QED
    BY <1>9, <2>1, <2>2
<1>11. SnapshotCoherent'
  <2> SUFFICES ASSUME NEW q \in Workers, NEW u \in Teams, Loaded(q, u)'
               PROVE  /\ Running(u)'
                      /\ w'[q].snap.version <= db'[u].version
                      /\ w'[q].snap.version = db'[u].version => w'[q].snap = db'[u]
    BY DEF SnapshotCoherent
  <2>1. q # p
    BY <1>6 DEF Loaded, Quiet, LoadedPCs
  <2>2. Loaded(q, u) /\ w'[q].snap = w[q].snap
    BY <1>6, <2>1 DEF Loaded, IsCurrent
  <2>3. /\ Running(u) /\ w[q].snap.version <= db[u].version
        /\ w[q].snap.version = db[u].version => w[q].snap = db[u]
    BY <2>2 DEF LInv, SnapshotCoherent
  <2>4. w[q].snap.version \in Nat
    BY DEF LInv, TypeOK, Worker, TeamState
  <2>5. CASE u = t
    BY <1>2, <1>3, <1>5, <1>9, <2>2, <2>3, <2>4, <2>5
  <2>6. CASE u # t
    BY <1>5, <1>9, <2>2, <2>3, <2>6
  <2> QED
    BY <2>5, <2>6
<1>12. AddsTo(db'[t], db[t])
  <2>1. PICK q \in Seq(Intent) : n.intents = db[t].intents \o q
    BY <1>2 DEF Grows
  <2>2. /\ Len(db[t].intents) <= Len(m.intents)
        /\ \A k \in DOMAIN db[t].intents : m.intents[k] = db[t].intents[k]
    BY <1>2, <1>3, <2>1
  <2> QED
    BY <1>2, <1>3, <1>5, <2>2 DEF AddsTo, Grows
<1> QED
  BY <1>5, <1>7, <1>8, <1>10, <1>11, <1>12 DEF LInv
-----------------------------------------------------------------------------
(* Worker states.                                                          *)

\* Leaving a team keeps the rest of the work list and drops the snapshot.
LEMMA LeaveQuiet ==
  ASSUME LInv, NEW p \in Workers, NEW t \in Teams, Leave(p, t)
  PROVE  \E r : Quiet(r) /\ w' = [w EXCEPT ![p] = r]
<1> DEFINE pc == IF w[p].pc \in ResumePCs THEN "resume" ELSE "team"
           a == [w[p] EXCEPT !.pc = pc, !.todo = w[p].todo \ {t}, !.owed = w[p].owed \ {t}]
           r == [a EXCEPT !.snap = NewTeam, !.before = 0, !.attempt = 0]
<1>1. w[p] \in Worker /\ NewTeam \in TeamState /\ Sound(NewTeam)
  BY NewTeamSound DEF LInv, TypeOK, Sound
<1>2. a \in Worker /\ a.pc = pc /\ a.todo = w[p].todo \ {t}
  BY <1>1 DEF Worker, PCs
<1> HIDE DEF a
<1>3. r \in Worker /\ r.pc = pc /\ r.todo = w[p].todo \ {t} /\ r.snap = NewTeam
  BY <1>1, <1>2 DEF Worker
<1>4. w' = [w EXCEPT ![p] = r]
  BY DEF Leave, Become, a
<1> HIDE DEF r
<1>5. Quiet(r)
  BY <1>1, <1>3 DEF Quiet, LInv, TodoRunning, LoadedPCs
<1> QED
  BY <1>4, <1>5

\* Moving the control state alone keeps a worker quiet.
LEMMA GotoQuiet ==
  ASSUME LInv, NEW p \in Workers, NEW pc \in PCs \ LoadedPCs, Goto(p, pc)
  PROVE  \E r : Quiet(r) /\ w' = [w EXCEPT ![p] = r]
<1> DEFINE r == [w[p] EXCEPT !.pc = pc]
<1>1. w[p] \in Worker
  BY DEF LInv, TypeOK
<1>2. r \in Worker /\ r.pc = pc /\ r.todo = w[p].todo /\ r.snap = w[p].snap
  BY <1>1 DEF Worker
<1>3. w' = [w EXCEPT ![p] = r]
  BY DEF Goto, Become
<1> HIDE DEF r
<1>4. Quiet(r)
  BY <1>2 DEF Quiet, LInv, TodoRunning, AllSound
<1> QED
  BY <1>3, <1>4

\* After a commit of a resuming or ticking worker: the snapshot is dropped.
LEMMA DropQuiet ==
  ASSUME LInv, NEW p \in Workers, NEW pc \in PCs \ LoadedPCs
  PROVE  Quiet([w[p] EXCEPT !.pc = pc, !.snap = NewTeam])
<1> DEFINE r == [w[p] EXCEPT !.pc = pc, !.snap = NewTeam]
<1>1. w[p] \in Worker /\ NewTeam \in TeamState /\ Sound(NewTeam)
  BY NewTeamSound DEF LInv, TypeOK, Sound
<1>2. r \in Worker /\ r.pc = pc /\ r.todo = w[p].todo /\ r.snap = NewTeam
  BY <1>1 DEF Worker
<1> HIDE DEF r
<1>3. Quiet(r)
  BY <1>1, <1>2 DEF Quiet, LInv, TodoRunning
<1> QED
  BY <1>3 DEF r

\* A worker without a process is quiet.
LEMMA NoWorkQuiet == Quiet(NoWork)
<1>1. NewTeam \in TeamState /\ Sound(NewTeam)
  BY NewTeamSound DEF Sound
<1>2. NoWork \in Worker /\ NoWork.snap = NewTeam /\ NoWork.todo = {} /\ NoWork.pc = "down"
  BY <1>1, TimeAssumption DEF NoWork, Worker, PCs
<1> QED
  BY <1>1, <1>2 DEF Quiet, LoadedPCs
-----------------------------------------------------------------------------
(* One lemma per action that commits; the others follow from the lemmas    *)
(* above in StepKeeps.                                                     *)

\* The guarantee of a step: the invariant, and nothing lost.
Keeps == LInv' /\ \A t \in Teams : (Running(t) /\ db'[t] # db[t]) => AddsTo(db'[t], db[t])

\* The variables the scheduler's own steps leave alone keep their types.
LEMMA Unobserved ==
  ASSUME LInv, UNCHANGED unobserved, worked' \in [Teams -> SUBSET Time]
  PROVE  OthersTyped
BY DEF LInv, TypeOK, unobserved, OthersTyped

\* A quiet step of one worker keeps the invariant and writes nothing.
LEMMA QuietKeeps ==
  ASSUME LInv, NEW p \in Workers, \E r : Quiet(r) /\ w' = [w EXCEPT ![p] = r],
         db' = db, OthersTyped
  PROVE  Keeps
BY QuietStep DEF Keeps

\* Loading or committing concerns a running team whose snapshot is sound.
LEMMA LoadedFacts ==
  ASSUME LInv, NEW p \in Workers, NEW t \in Teams, IsCurrent(p, t), w[p].pc \in LoadedPCs,
         Fresh(p, t)
  PROVE  /\ w[p].snap = db[t] /\ Sound(w[p].snap) /\ w[p].snap.state = "RUNNING"
         /\ w[p].snap.sim \in Time /\ w[p].asof \in Time
<1>1. Loaded(p, t)
  BY DEF Loaded, LoadedPCs
<1>2. w[p].snap = db[t] /\ Running(t)
  BY <1>1 DEF LInv, SnapshotCoherent, Fresh
<1>3. Sound(w[p].snap) /\ w[p].asof \in Time
  BY DEF LInv, AllSound, TypeOK, Worker
<1>4. w[p].snap.sim \in Time
  BY <1>3 DEF Sound, TeamState
<1> QED
  BY <1>2, <1>3, <1>4 DEF Running

\* _record_downtime_evidence.
LEMMA EvidenceKeeps ==
  ASSUME LInv, NEW p \in Workers, NEW t \in Teams, CommitEvidence(p, t)
  PROVE  Keeps
<1>1. OthersTyped
  BY Unobserved DEF CommitEvidence, LInv, TypeOK
<1>2. CASE ~Fresh(p, t)
  BY <1>1, <1>2, LeaveQuiet, QuietKeeps DEF CommitEvidence
<1>3. CASE Fresh(p, t)
  <2> DEFINE s == w[p].snap
             n == [s EXCEPT !.gaps = @ \cup {<<s.sim, w[p].asof>>}]
             r == [w[p] EXCEPT !.pc = "crossload", !.snap = NewTeam]
  <2>1. w[p].pc \in LoadedPCs /\ IsCurrent(p, t)
    BY DEF CommitEvidence, LoadedPCs
  <2>2. /\ s = db[t] /\ Sound(s) /\ s.state = "RUNNING" /\ s.sim \in Time /\ w[p].asof \in Time
    BY <1>3, <2>1, LoadedFacts
  <2>3. Store(p, t, n) /\ w' = [w EXCEPT ![p] = r]
    BY <1>3 DEF CommitEvidence, Become
  <2>4. Quiet(r)
    BY DropQuiet DEF PCs, LoadedPCs
  <2>5. /\ Sound(n) /\ n.gaps = s.gaps \cup {<<s.sim, w[p].asof>>} /\ n.state = s.state
        /\ n.sprint = s.sprint /\ n.intents = s.intents
    <3>1. <<s.sim, w[p].asof>> \in Time \X Time
      BY <2>2
    <3> QED
      BY <2>2, <3>1, EvidenceSound
  <2> HIDE DEF s, n, r
  <2>6. Grows(n, s)
    <3>a. Sound(s) /\ n.intents = s.intents
      BY <2>2, <2>5
    <3>1. \E q \in Seq(Intent) : n.intents = s.intents \o q
      BY <3>a, SameIntents
    <3>2. s.gaps \subseteq n.gaps /\ n.state = "RUNNING"
      BY <2>2, <2>5
    <3> QED
      BY <2>5, <3>1, <3>2 DEF Grows
  <2>7. Grows(n, w[p].snap)
    BY <2>6 DEF s
  <2> QED
    BY <1>1, <1>3, <2>1, <2>3, <2>4, <2>7, CommitStep DEF Keeps
<1> QED
  BY <1>2, <1>3

\* _skip_silent_downtime.
LEMMA SkipKeeps ==
  ASSUME LInv, NEW p \in Workers, NEW t \in Teams, CommitSkip(p, t)
  PROVE  Keeps
<1>1. OthersTyped /\ Leave(p, t)
  BY Unobserved DEF CommitSkip, LInv, TypeOK
<1>2. PICK r : Quiet(r) /\ w' = [w EXCEPT ![p] = r]
  BY <1>1, LeaveQuiet
<1>3. CASE ~Fresh(p, t)
  BY <1>1, <1>2, <1>3, QuietKeeps DEF CommitSkip
<1>4. CASE Fresh(p, t)
  <2> DEFINE s == w[p].snap
             n == [s EXCEPT !.sim = w[p].asof, !.wake = w[p].asof]
  <2>1. /\ w[p].pc \in LoadedPCs /\ IsCurrent(p, t)
        /\ PendingBoundaries(s, w[p].asof) = {} /\ Store(p, t, n)
    BY <1>4 DEF CommitSkip, LoadedPCs
  <2>2. /\ Sound(s) /\ s.state = "RUNNING" /\ s.sim \in Time /\ w[p].asof \in Time
    BY <1>4, <2>1, LoadedFacts
  <2>3. /\ Sound(n) /\ n.state = s.state /\ n.sprint = s.sprint /\ n.gaps = s.gaps
        /\ n.intents = s.intents
    BY <2>1, <2>2, SkipSound
  <2> HIDE DEF s, n
  <2>4. Grows(n, s)
    BY <2>2, <2>3, SameIntents DEF Grows
  <2>5. Grows(n, w[p].snap)
    BY <2>4 DEF s
  <2> QED
    BY <1>1, <1>2, <1>4, <2>1, <2>5, CommitStep DEF Keeps
<1> QED
  BY <1>3, <1>4

\* _commit_lifecycle_boundary.
LEMMA CrossKeeps ==
  ASSUME LInv, NEW p \in Workers, NEW t \in Teams, CommitCross(p, t)
  PROVE  Keeps
<1>1. OthersTyped
  BY Unobserved DEF CommitCross, LInv, TypeOK
<1>2. CASE ~Fresh(p, t)
  BY <1>1, <1>2, LeaveQuiet, QuietKeeps DEF CommitCross
<1>3. CASE Fresh(p, t)
  <2> DEFINE s == w[p].snap
             r == [w[p] EXCEPT !.pc = "crossload", !.snap = NewTeam]
  <2>1. /\ w[p].pc \in LoadedPCs /\ IsCurrent(p, t)
        /\ w' = [w EXCEPT ![p] = r]
        /\ \E at \in PendingBoundaries(s, w[p].asof), target \in Targets :
             Store(p, t, CrossSprintBoundary(s, at, target))
    BY <1>3 DEF CommitCross, Become, LoadedPCs
  <2>2. PICK at \in PendingBoundaries(s, w[p].asof), target \in Targets :
          Store(p, t, CrossSprintBoundary(s, at, target))
    BY <2>1
  <2> DEFINE n == CrossSprintBoundary(s, at, target)
  <2>3. /\ Sound(s) /\ s.state = "RUNNING" /\ s.sim \in Time /\ w[p].asof \in Time
    BY <1>3, <2>1, LoadedFacts
  <2>4. at \in Time
    BY <2>3, TimeAssumption DEF PendingBoundaries
  <2>5. Sound(n) /\ Extends(n, s)
    BY <2>3, <2>4, CrossSound
  <2>6. Quiet(r)
    <3>1. w[p] \in Worker /\ NewTeam \in TeamState /\ Sound(NewTeam)
      BY NewTeamSound DEF LInv, TypeOK, Sound
    <3>2. r \in Worker /\ r.pc = "crossload" /\ r.todo = w[p].todo /\ r.snap = NewTeam
      BY <3>1 DEF Worker, PCs
    <3> QED
      BY <3>1, <3>2 DEF Quiet, LInv, TodoRunning, LoadedPCs
  <2> HIDE DEF s, n, r
  <2>7. Grows(n, s)
    BY <2>3, <2>5 DEF Grows, Extends
  <2>8. Grows(n, w[p].snap) /\ Store(p, t, n)
    BY <2>2, <2>7 DEF s, n
  <2> QED
    BY <1>1, <1>3, <2>1, <2>6, <2>8, CommitStep DEF Keeps
<1> QED
  BY <1>2, <1>3

\* TeamTickService.advance: a boundary on the cursor, or a slice.
LEMMA TickKeeps ==
  ASSUME LInv, NEW p \in Workers, NEW t \in Teams, CommitTick(p, t)
  PROVE  Keeps
<1> DEFINE s == w[p].snap
           r == [w[p] EXCEPT !.pc = "after", !.snap = NewTeam]
<1>1. /\ w[p].pc \in LoadedPCs /\ IsCurrent(p, t) /\ Fresh(p, t) /\ s.sim <= w[p].asof
      /\ w' = [w EXCEPT ![p] = r] /\ UNCHANGED unobserved
  BY DEF CommitTick, Become, LoadedPCs
<1>2. /\ Sound(s) /\ s.state = "RUNNING" /\ s.sim \in Time /\ w[p].asof \in Time
  BY <1>1, LoadedFacts
<1>3. Quiet(r)
  BY DropQuiet DEF PCs, LoadedPCs
<1>4. CASE /\ \E target \in Targets :
                Store(p, t, [CrossSprintBoundary(s, s.sim, target) EXCEPT !.wake = s.sim])
           /\ UNCHANGED worked
  <2>1. PICK target \in Targets :
          Store(p, t, [CrossSprintBoundary(s, s.sim, target) EXCEPT !.wake = s.sim])
    BY <1>4
  <2> DEFINE c == CrossSprintBoundary(s, s.sim, target)
             n == [c EXCEPT !.wake = s.sim]
  <2>2. Sound(c) /\ Extends(c, s)
    BY <1>2, CrossSound
  <2> HIDE DEF c
  <2>3. /\ Sound(n) /\ n.state = c.state /\ n.sprint = c.sprint /\ n.gaps = c.gaps
        /\ n.intents = c.intents
    BY <1>2, <2>2, WakeSound
  <2> HIDE DEF n, s, r
  <2>4. Grows(n, s)
    BY <1>2, <2>2, <2>3 DEF Grows, Extends
  <2>5. Grows(n, w[p].snap) /\ Store(p, t, n)
    BY <2>1, <2>4 DEF s, n, c
  <2>6. OthersTyped
    BY <1>1, <1>4, Unobserved DEF LInv, TypeOK
  <2> QED
    BY <1>1, <1>3, <2>5, <2>6, CommitStep DEF Keeps
<1>5. CASE \E e \in s.sim..w[p].asof, X, C \in SUBSET Items :
             \E W \in SUBSET X, V \in SUBSET C :
               /\ TickAllowed(s, w[p].asof, X, W, e, C, V)
               /\ Store(p, t, TickResult(s, X, W, e, C, V))
               /\ worked' = [worked EXCEPT ![t] = @ \cup (s.sim..(e - 1))]
  <2>1. PICK e \in s.sim..w[p].asof, X \in SUBSET Items, C \in SUBSET Items,
             W \in SUBSET Items, V \in SUBSET Items :
          /\ TickAllowed(s, w[p].asof, X, W, e, C, V)
          /\ Store(p, t, TickResult(s, X, W, e, C, V))
          /\ worked' = [worked EXCEPT ![t] = @ \cup (s.sim..(e - 1))]
    BY <1>5
  <2> DEFINE n == TickResult(s, X, W, e, C, V)
  <2>2. e \in Time /\ s.sim <= e /\ s.sim..(e - 1) \subseteq Time
    BY <1>2, TimeAssumption
  <2>3. /\ Sound(n) /\ n.state = s.state /\ n.sprint = s.sprint /\ n.gaps = s.gaps
        /\ n.intents = s.intents
    BY <1>2, <2>1, <2>2, SliceSound
  <2>4. worked' \in [Teams -> SUBSET Time]
    BY <2>1, <2>2 DEF LInv, TypeOK
  <2>5. OthersTyped
    BY <1>1, <2>4, Unobserved
  <2> HIDE DEF n, s, r
  <2>6. Grows(n, s)
    <3>1. \E q \in Seq(Intent) : n.intents = s.intents \o q
      BY <1>2, <2>3, SameIntents
    <3> QED
      BY <1>2, <2>3, <3>1 DEF Grows
  <2>7. Grows(n, w[p].snap) /\ Store(p, t, n)
    BY <2>1, <2>6 DEF s, n
  <2> QED
    BY <1>1, <1>3, <2>5, <2>7, CommitStep DEF Keeps
<1> QED
  BY <1>4, <1>5 DEF CommitTick

\* ensure_bootstrapped starts a team nobody has loaded.
LEMMA BootstrapKeeps ==
  ASSUME LInv, NEW t \in Teams, Bootstrap(t)
  PROVE  Keeps
<1>1. PICK o \in Ordinals, target \in Targets :
        /\ ContainingOrdinal(o, now)
        /\ db' = [db EXCEPT ![t] = EnsureBootstrapped(db[t], now, o, target)]
  BY DEF Bootstrap
<1> DEFINE n == EnsureBootstrapped(db[t], now, o, target)
<1>2. Sound(n) /\ db[t].state = "CREATED"
  BY <1>1, BootstrapSound DEF Bootstrap, LInv, AllSound, TypeOK
<1> HIDE DEF n
<1>3. db' = [db EXCEPT ![t] = n]
  BY <1>1 DEF n
<1>4. db'[t] = n /\ \A u \in Teams : u # t => db'[u] = db[u]
  BY <1>3 DEF LInv, TypeOK
<1>5. w' = w /\ now' = now /\ OthersTyped
  BY DEF Bootstrap, LInv, TypeOK, OthersTyped
<1>6. \A u \in Teams : Running(u) => u # t
  BY <1>2 DEF Running
<1>7. TypeOK'
  <2>1. db' \in [Teams -> TeamState]
    BY <1>2, <1>3 DEF LInv, TypeOK, Sound
  <2> QED
    BY <1>5, <2>1 DEF LInv, TypeOK, OthersTyped
<1>8. AllSound'
  BY <1>2, <1>4, <1>5 DEF LInv, AllSound
<1>9. \A u \in Teams : Running(u) => (Running(u)' /\ db'[u] = db[u])
  BY <1>4, <1>6 DEF Running
<1>10. TodoRunning'
  <2> SUFFICES ASSUME NEW q \in Workers, NEW u \in w[q].todo PROVE Running(u)'
    BY <1>5 DEF TodoRunning
  <2>1. u \in Teams /\ Running(u)
    BY DEF LInv, TypeOK, Worker, TodoRunning
  <2> QED
    BY <1>9, <2>1
<1>11. SnapshotCoherent'
  <2> SUFFICES ASSUME NEW q \in Workers, NEW u \in Teams, Loaded(q, u)'
               PROVE  /\ Running(u)'
                      /\ w'[q].snap.version <= db'[u].version
                      /\ w'[q].snap.version = db'[u].version => w'[q].snap = db'[u]
    BY DEF SnapshotCoherent
  <2>1. Loaded(q, u)
    BY <1>5 DEF Loaded, IsCurrent
  <2> QED
    BY <1>5, <1>9, <2>1 DEF LInv, SnapshotCoherent
<1> QED
  BY <1>7, <1>8, <1>9, <1>10, <1>11 DEF LInv, Keeps

\* Starting a process puts the running teams on its list.
LEMMA StartKeeps ==
  ASSUME LInv, NEW p \in Workers, StartProcess(p)
  PROVE  Keeps
<1> DEFINE todo == {t \in Teams : Running(t)}
           r == [NoWork EXCEPT !.pc = "resume", !.asof = now, !.todo = todo]
<1>1. NoWork \in Worker /\ Sound(NoWork.snap) /\ now \in Time
  BY NoWorkQuiet DEF Quiet, LInv, TypeOK
<1>2. todo \in SUBSET Teams /\ \A t \in todo : Running(t)
  OBVIOUS
<1> HIDE DEF todo
<1>3. r \in Worker /\ r.pc = "resume" /\ r.todo = todo /\ r.snap = NoWork.snap
  BY <1>1, <1>2 DEF Worker, PCs
<1>4. w' = [w EXCEPT ![p] = r] /\ db' = db /\ OthersTyped
  BY Unobserved DEF StartProcess, Become, todo, LInv, TypeOK
<1> HIDE DEF r
<1>5. Quiet(r)
  BY <1>1, <1>2, <1>3 DEF Quiet, LoadedPCs
<1> QED
  BY <1>4, <1>5, QuietKeeps

\* A poll keeps the work list it had, which it finished before.
LEMMA PollKeeps ==
  ASSUME LInv, NEW p \in Workers, Poll(p)
  PROVE  Keeps
<1> DEFINE owed == DueTeams(now, 0)
           r == [w[p] EXCEPT !.pc = "page", !.asof = now, !.last = 0, !.owed = owed]
<1>1. w[p] \in Worker /\ now \in Time /\ owed \in SUBSET Teams
  BY DEF LInv, TypeOK, DueTeams
<1> HIDE DEF owed
<1>2. r \in Worker /\ r.pc = "page" /\ r.todo = w[p].todo /\ r.snap = w[p].snap
  BY <1>1 DEF Worker, PCs
<1>3. w' = [w EXCEPT ![p] = r] /\ db' = db /\ OthersTyped
  BY Unobserved DEF Poll, Become, owed, LInv, TypeOK
<1> HIDE DEF r
<1>4. Quiet(r)
  BY <1>2 DEF Quiet, LInv, AllSound, TodoRunning, LoadedPCs
<1> QED
  BY <1>3, <1>4, QuietKeeps

\* A fetched page holds running teams only.
LEMMA FetchKeeps ==
  ASSUME LInv, NEW p \in Workers, FetchPage(p)
  PROVE  Keeps
<1> DEFINE due == DueTeams(w[p].asof, w[p].last)
           page == {t \in due : Cardinality({u \in due : u < t}) < PageSize}
<1>1. db' = db /\ OthersTyped
  BY Unobserved DEF FetchPage, LInv, TypeOK
<1>2. CASE Goto(p, "idle")
  BY <1>1, <1>2, GotoQuiet, QuietKeeps DEF PCs, LoadedPCs
<1>3. ASSUME NEW l \in page,
             Become(p, [w[p] EXCEPT !.pc = "team", !.todo = page, !.last = l])
      PROVE  Keeps
  <2> DEFINE r == [w[p] EXCEPT !.pc = "team", !.todo = page, !.last = l]
  <2>1. w[p] \in Worker /\ page \in SUBSET Teams /\ l \in Teams /\ \A t \in page : Running(t)
    BY DEF LInv, TypeOK, DueTeams
  <2> HIDE DEF page, due
  <2>2. r \in Worker /\ r.pc = "team" /\ r.todo = page /\ r.snap = w[p].snap
    BY <2>1 DEF Worker, PCs
  <2>3. w' = [w EXCEPT ![p] = r]
    BY <1>3 DEF Become
  <2> HIDE DEF r
  <2>4. Quiet(r)
    BY <2>1, <2>2 DEF Quiet, LInv, AllSound, LoadedPCs
  <2> QED
    BY <1>1, <2>3, <2>4, QuietKeeps
<1> QED
  BY <1>2, <1>3 DEF FetchPage

\* The load of _advance remembers the version only.
LEMMA BeforeKeeps ==
  ASSUME LInv, NEW p \in Workers, NEW t \in Teams, LoadBefore(p, t)
  PROVE  Keeps
<1> DEFINE r == [w[p] EXCEPT !.pc = "load", !.before = db[t].version, !.attempt = 0]
<1>1. w[p] \in Worker /\ db[t].version \in Nat
  BY DEF LInv, TypeOK, TeamState
<1>2. r \in Worker /\ r.pc = "load" /\ r.todo = w[p].todo /\ r.snap = w[p].snap
  BY <1>1 DEF Worker, PCs
<1>3. w' = [w EXCEPT ![p] = r] /\ db' = db /\ OthersTyped
  BY Unobserved DEF LoadBefore, Become, LInv, TypeOK
<1> HIDE DEF r
<1>4. Quiet(r)
  BY <1>2 DEF Quiet, LInv, AllSound, TodoRunning, LoadedPCs
<1> QED
  BY <1>3, <1>4, QuietKeeps

\* A stale commit reloads once and then gives the team up.
LEMMA StaleKeeps ==
  ASSUME LInv, NEW p \in Workers, NEW t \in Teams, TickStale(p, t)
  PROVE  Keeps
<1>1. db' = db /\ OthersTyped
  BY Unobserved DEF TickStale, LInv, TypeOK
<1>2. CASE w[p].attempt # 0
  BY <1>1, <1>2, LeaveQuiet, QuietKeeps DEF TickStale
<1>3. CASE w[p].attempt = 0
  <2> DEFINE r == [w[p] EXCEPT !.pc = "load", !.attempt = 1, !.snap = NewTeam]
  <2>1. w[p] \in Worker /\ NewTeam \in TeamState /\ Sound(NewTeam)
    BY NewTeamSound DEF LInv, TypeOK, Sound
  <2>2. r \in Worker /\ r.pc = "load" /\ r.todo = w[p].todo /\ r.snap = NewTeam
    BY <2>1 DEF Worker, PCs
  <2>3. w' = [w EXCEPT ![p] = r]
    BY <1>3 DEF TickStale, Become
  <2> HIDE DEF r
  <2>4. Quiet(r)
    BY <2>1, <2>2 DEF Quiet, LInv, TodoRunning, LoadedPCs
  <2> QED
    BY <1>1, <2>3, <2>4, QuietKeeps
<1> QED
  BY <1>2, <1>3

\* A transient exception leaves the team or ends the poll.
LEMMA FaultKeeps ==
  ASSUME LInv, NEW p \in Workers, Fault(p)
  PROVE  Keeps
<1>1. db' = db /\ OthersTyped
  BY SchedulerAssumption DEF Fault, LInv, TypeOK, OthersTyped
<1>2. CASE \E t \in Teams : Leave(p, t)
  BY <1>1, <1>2, LeaveQuiet, QuietKeeps
<1>3. CASE Become(p, [w[p] EXCEPT !.pc = "idle", !.owed = {}])
  <2> DEFINE r == [w[p] EXCEPT !.pc = "idle", !.owed = {}]
  <2>1. w[p] \in Worker
    BY DEF LInv, TypeOK
  <2>2. r \in Worker /\ r.pc = "idle" /\ r.todo = w[p].todo /\ r.snap = w[p].snap
    BY <2>1 DEF Worker, PCs
  <2>3. w' = [w EXCEPT ![p] = r]
    BY <1>3 DEF Become
  <2> HIDE DEF r
  <2>4. Quiet(r)
    BY <2>2 DEF Quiet, LInv, AllSound, TodoRunning, LoadedPCs
  <2> QED
    BY <1>1, <2>3, <2>4, QuietKeeps
<1> QED
  BY <1>2, <1>3 DEF Fault

\* A load step keeps the invariant and writes nothing.
LEMMA LoadKeeps ==
  ASSUME LInv, NEW p \in Workers, NEW t \in Teams, IsCurrent(p, t), NEW pc \in LoadedPCs,
         Become(p, [w[p] EXCEPT !.pc = pc, !.snap = db[t]]), db' = db, OthersTyped
  PROVE  Keeps
BY LoadStep DEF Become, Keeps
-----------------------------------------------------------------------------
\* Every action on a team keeps the invariant and loses nothing.
LEMMA TeamActionKeeps ==
  ASSUME LInv, NEW p \in Workers, NEW t \in Teams, TeamAction(p, t)
  PROVE  Keeps
<1>1. CASE ResumeLoad(p, t)
  <2>1. db' = db /\ OthersTyped /\ IsCurrent(p, t)
    BY <1>1, Unobserved DEF ResumeLoad, LInv, TypeOK
  <2>2. CASE Leave(p, t)
    BY <2>1, <2>2, LeaveQuiet, QuietKeeps
  <2>3. CASE Become(p, [w[p] EXCEPT !.pc = "evidence", !.snap = db[t]])
    BY <2>1, <2>3, LoadKeeps DEF LoadedPCs
  <2> QED
    BY <1>1, <2>2, <2>3 DEF ResumeLoad
<1>2. CASE CommitEvidence(p, t)
  BY <1>2, EvidenceKeeps
<1>3. CASE CrossLoad(p, t)
  <2>1. db' = db /\ OthersTyped /\ IsCurrent(p, t)
    BY <1>3, Unobserved DEF CrossLoad, LInv, TypeOK
  <2> QED
    BY <1>3, <2>1, LoadKeeps DEF CrossLoad, LoadedPCs
<1>4. CASE CommitCross(p, t)
  BY <1>4, CrossKeeps
<1>5. CASE CommitSkip(p, t)
  BY <1>5, SkipKeeps
<1>6. CASE LoadBefore(p, t)
  BY <1>6, BeforeKeeps
<1>7. CASE LoadTick(p, t)
  <2>1. db' = db /\ OthersTyped /\ IsCurrent(p, t)
    BY <1>7, Unobserved DEF LoadTick, LInv, TypeOK
  <2> QED
    BY <1>7, <2>1, LoadKeeps DEF LoadTick, LoadedPCs
<1>8. CASE CommitTick(p, t)
  BY <1>8, TickKeeps
<1>9. CASE TickRaises(p, t)
  <2>1. db' = db /\ OthersTyped /\ Leave(p, t)
    BY <1>9, Unobserved DEF TickRaises, LInv, TypeOK
  <2> QED
    BY <2>1, LeaveQuiet, QuietKeeps
<1>10. CASE TickStale(p, t)
  BY <1>10, StaleKeeps
<1>11. CASE After(p, t)
  <2>1. db' = db /\ OthersTyped
    BY <1>11, Unobserved DEF After, LInv, TypeOK
  <2>2. CASE Leave(p, t)
    BY <2>1, <2>2, LeaveQuiet, QuietKeeps
  <2>3. CASE Goto(p, "team")
    BY <2>1, <2>3, GotoQuiet, QuietKeeps DEF PCs, LoadedPCs
  <2> QED
    BY <1>11, <2>2, <2>3 DEF After
<1> QED
  BY <1>1, <1>2, <1>3, <1>4, <1>5, <1>6, <1>7, <1>8, <1>9, <1>10, <1>11 DEF TeamAction

\* Every step of the specification keeps the invariant and loses nothing.
LEMMA StepKeeps ==
  ASSUME LInv, [Next]_vars
  PROVE  Keeps
<1>1. ASSUME NEW p \in Workers, Work(p) PROVE Keeps
  <2>1. CASE StartProcess(p)
    BY <2>1, StartKeeps
  <2>2. CASE ResumeDone(p)
    <3>1. db' = db /\ OthersTyped /\ Goto(p, "idle")
      BY <2>2, Unobserved DEF ResumeDone, LInv, TypeOK
    <3> QED
      BY <3>1, GotoQuiet, QuietKeeps DEF PCs, LoadedPCs
  <2>3. CASE Poll(p)
    BY <2>3, PollKeeps
  <2>4. CASE FetchPage(p)
    BY <2>4, FetchKeeps
  <2>5. CASE PageDone(p)
    <3>1. db' = db /\ OthersTyped /\ Goto(p, "page")
      BY <2>5, Unobserved DEF PageDone, LInv, TypeOK
    <3> QED
      BY <3>1, GotoQuiet, QuietKeeps DEF PCs, LoadedPCs
  <2>6. CASE \E t \in Teams : TeamAction(p, t)
    BY <2>6, TeamActionKeeps
  <2> QED
    BY <1>1, <2>1, <2>2, <2>3, <2>4, <2>5, <2>6 DEF Work
<1>2. ASSUME NEW p \in Workers, Crash(p) PROVE Keeps
  <2>1. db' = db /\ OthersTyped /\ w' = [w EXCEPT ![p] = NoWork]
    BY <1>2, SchedulerAssumption DEF Crash, Become, LInv, TypeOK, OthersTyped
  <2> QED
    BY <2>1, NoWorkQuiet, QuietKeeps
<1>3. CASE Clock
  <2>1. db' = db /\ w' = w
    BY <1>3 DEF Clock
  <2>2. OthersTyped
    BY <1>3, TimeAssumption DEF Clock, LInv, TypeOK, OthersTyped
  <2> QED
    BY <2>1, <2>2 DEF Keeps, LInv, TypeOK, OthersTyped, AllSound, TodoRunning,
                      SnapshotCoherent, Loaded, IsCurrent, Running
<1>4. CASE UNCHANGED vars
  BY <1>4 DEF vars, Keeps, LInv, TypeOK, AllSound, TodoRunning,
              SnapshotCoherent, Loaded, IsCurrent, Running
<1> QED
  BY <1>1, <1>2, <1>3, <1>4, FaultKeeps, BootstrapKeeps DEF Next

\* The inductive invariant holds initially.
LEMMA InitInv == Init => LInv
<1> SUFFICES ASSUME Init PROVE LInv
  OBVIOUS
<1>1. NewTeam \in TeamState /\ Sound(NewTeam) /\ Quiet(NoWork)
  BY NewTeamSound, NoWorkQuiet DEF Sound
<1>2. TypeOK
  BY <1>1, TimeAssumption, SchedulerAssumption DEF Init, TypeOK, Quiet
<1>3. \A p \in Workers : w[p] = NoWork
  BY DEF Init
<1>4. AllSound /\ TodoRunning
  BY <1>1, <1>3 DEF Init, AllSound, TodoRunning, Quiet
<1>5. SnapshotCoherent
  BY <1>1, <1>3 DEF SnapshotCoherent, Loaded, Quiet, LoadedPCs
<1> QED
  BY <1>2, <1>4, <1>5 DEF LInv

\* The inductive invariant holds in every reachable state.
LEMMA Invariant == Spec => []LInv
<1>1. LInv /\ [Next]_vars => LInv'
  BY StepKeeps DEF Keeps
<1> QED
  BY InitInv, <1>1, PTL DEF Spec

\* The state of the database and of every worker keeps its type, whatever
\* the interleaving of workers, crashes and exceptions.
THEOREM TypeCorrect == Spec => []TypeOK
<1>1. LInv => TypeOK
  BY DEF LInv
<1> QED
  BY <1>1, Invariant, PTL

\* What a worker holds between load and commit is current whenever the version
\* check of unit_of_work._advance_runtime lets the commit pass, for any number
\* of overlapping workers.
THEOREM SnapshotsAreCoherent == Spec => []SnapshotCoherent
<1>1. LInv => SnapshotCoherent
  BY DEF LInv
<1> QED
  BY <1>1, Invariant, PTL

\* No commit of any worker overwrites what another one wrote.
THEOREM NothingIsLost == Spec => NothingLost
<1>1. LInv /\ [Next]_vars =>
        [\A t \in Teams : (Running(t) /\ db'[t] # db[t]) => AddsTo(db'[t], db[t])]_vars
  BY StepKeeps DEF Keeps
<1> QED
  BY <1>1, Invariant, PTL DEF Spec, NothingLost

\* However many workers race, every sprint is started and completed once, its
\* ledger entries are in order, and its boundary is still ahead: what the
\* timeline promises of indivisible steps holds of interleaved ones.
THEOREM SprintsHappenOnce == Spec => []SprintsOnce
<1>1. ASSUME LInv PROVE SprintsOnce
  <2>1. \A t \in Teams : SprintChain(db[t]) /\ IntentsTellSprints(db[t]) /\ BoundaryAhead(db[t])
    BY <1>1 DEF LInv, AllSound, Sound
  <2>2. \A t \in Teams : Timeline!SprintChain(db[t])
    BY <2>1 DEF SprintChain, Timeline!SprintChain, Timeline!Ordinals
  <2>3. \A t \in Teams : Timeline!IntentsTellSprints(db[t])
    BY <2>1 DEF IntentsTellSprints, ToldOnce, TellsOf, SprintOps, Timeline!IntentsTellSprints,
                Timeline!ToldOnce, Timeline!TellsOf, Timeline!SprintOps, Timeline!Ordinals
  <2>4. \A t \in Teams : Timeline!BoundaryAhead(db[t])
    BY <2>1 DEF BoundaryAhead, Timeline!BoundaryAhead, Timeline!Ordinals
  <2> QED
    BY <2>2, <2>3, <2>4 DEF SprintsOnce, Timeline!SprintChainInv, Timeline!IntentsInv,
                            Timeline!BoundaryAheadInv
<1> QED
  BY <1>1, Invariant, PTL
-----------------------------------------------------------------------------
(* What the scheduler does to time: every slot behind a team's cursor is   *)
(* simulated or recorded as downtime, with any number of workers; and,     *)
(* with one process, downtime is never simulated as work, no due team is   *)
(* overlooked, and the scheduler implements TeamTimeline.                  *)
(*                                                                         *)
(* TimeAccounted is not inductive alone: a resuming worker moves the       *)
(* cursor over a downtime window it has recorded before, so the slots up   *)
(* to the instant of its restart must be accounted for meanwhile.          *)

Accounted(t, k) == k \in worked[t] \/ Covered(t, k)

Crossing(p, t) == w[p].pc \in {"crossload", "cross"} /\ IsCurrent(p, t)

\* The time up to a restart is accounted for before the cursor moves there.
AccountInv ==
  /\ TimeAccounted
  /\ \A p \in Workers, t \in Teams :
       Crossing(p, t) => \A k \in from[t]..(w[p].asof - 1) : Accounted(t, k)

\* What has happened lies in the past.
PastInv ==
  /\ \A k \in down : k < now
  /\ \A t \in Teams : \A k \in worked[t] : k < now
  /\ \A p \in Workers : w[p].asof <= now

\* One process: what it has loaded is current, and the team it resumes is
\* behind its restart.
Current(p) ==
  \A t \in Teams :
    /\ Loaded(p, t) => w[p].snap = db[t]
    /\ w[p].pc = "evidence" /\ IsCurrent(p, t) => db[t].sim < w[p].asof
    /\ Crossing(p, t) => db[t].sim <= w[p].asof

\* What a poll owes is on its page or after its page cursor.
Owing(p) ==
  /\ w[p].pc \in {"idle", "page"} => w[p].todo = {}
  /\ w[p].pc \in {"down", "idle"} \cup ResumePCs => w[p].owed = {}
  /\ \A t \in w[p].owed : t \in w[p].todo \/ (t > w[p].last /\ Running(t) /\ db[t].wake <= w[p].asof)

SoloInv == \A p \in Workers : Current(p) /\ Owing(p)

\* The teams a live process need not resume any more.
Resumed(p, t) == w[p].pc # "down" /\ ~(w[p].pc \in ResumePCs /\ t \in w[p].todo)

\* No downtime lies after the cursor of a team that has been resumed.
ResumedInv ==
  \A p \in Workers :
    /\ w[p].pc # "down" => \A k \in down : k < w[p].asof
    /\ \A t \in Teams : Running(t) /\ Resumed(p, t) => \A k \in down : k < db[t].sim

OneProcess == \A p, q \in Workers : p = q

-----------------------------------------------------------------------------
(* What the steps do to the fields of a worker.                            *)


\* The worker that takes a step keeps its instant and its page.
Steady(p) ==
  /\ \A q \in Workers : q # p => w'[q] = w[q]
  /\ w'[p].asof = w[p].asof /\ w'[p].last = w[p].last

Left(p, t) ==
  /\ Steady(p)
  /\ w'[p].pc = IF w[p].pc \in ResumePCs THEN "resume" ELSE "team"
  /\ w'[p].todo = w[p].todo \ {t} /\ w'[p].owed = w[p].owed \ {t}

Moved(p, pc) ==
  Steady(p) /\ w'[p].pc = pc /\ w'[p].todo = w[p].todo /\ w'[p].owed = w[p].owed

LEMMA LeaveEffect ==
  ASSUME LInv, NEW p \in Workers, NEW t, Leave(p, t)
  PROVE  Left(p, t)
<1> DEFINE pc == IF w[p].pc \in ResumePCs THEN "resume" ELSE "team"
           a == [w[p] EXCEPT !.pc = pc, !.todo = w[p].todo \ {t}, !.owed = w[p].owed \ {t}]
           r == [a EXCEPT !.snap = NewTeam, !.before = 0, !.attempt = 0]
<1>1. w[p] \in Worker /\ w \in [Workers -> Worker]
  BY DEF LInv, TypeOK
<1>2. /\ a \in [pc : {pc}, asof : Time, todo : {w[p].todo \ {t}}, last : Teams \cup {0}, snap : TeamState,
                before : Nat, attempt : {0, 1}, owed : {w[p].owed \ {t}}]
      /\ a.asof = w[p].asof /\ a.last = w[p].last
  BY <1>1 DEF Worker
<1> HIDE DEF a
<1>3. /\ r.pc = pc /\ r.todo = w[p].todo \ {t} /\ r.owed = w[p].owed \ {t}
      /\ r.asof = w[p].asof /\ r.last = w[p].last
  BY <1>2
<1>4. w' = [w EXCEPT ![p] = r]
  BY DEF Leave, Become, a
<1> HIDE DEF r
<1> QED
  BY <1>1, <1>3, <1>4 DEF Left, Steady

LEMMA GotoEffect ==
  ASSUME LInv, NEW p \in Workers, NEW pc, Goto(p, pc)
  PROVE  Moved(p, pc)
<1>1. w[p] \in Worker /\ w \in [Workers -> Worker]
  BY DEF LInv, TypeOK
<1> QED
  BY <1>1 DEF Goto, Become, Worker, Moved, Steady

LEMMA SnapEffect ==
  ASSUME LInv, NEW p \in Workers, NEW pc, NEW s, Become(p, [w[p] EXCEPT !.pc = pc, !.snap = s])
  PROVE  Moved(p, pc) /\ w'[p].snap = s
<1> DEFINE r == [w[p] EXCEPT !.pc = pc, !.snap = s]
<1>1. w[p] \in Worker /\ w \in [Workers -> Worker]
  BY DEF LInv, TypeOK
<1>2. /\ r.pc = pc /\ r.snap = s /\ r.todo = w[p].todo /\ r.owed = w[p].owed
      /\ r.asof = w[p].asof /\ r.last = w[p].last
  BY <1>1 DEF Worker
<1>3. w' = [w EXCEPT ![p] = r]
  BY DEF Become
<1> HIDE DEF r
<1> QED
  BY <1>1, <1>2, <1>3 DEF Moved, Steady

LEMMA BeforeEffect ==
  ASSUME LInv, NEW p \in Workers, NEW t \in Teams, LoadBefore(p, t)
  PROVE  Moved(p, "load")
<1> DEFINE r == [w[p] EXCEPT !.pc = "load", !.before = db[t].version, !.attempt = 0]
<1>1. w[p] \in Worker /\ w \in [Workers -> Worker]
  BY DEF LInv, TypeOK
<1>2. /\ r.pc = "load" /\ r.todo = w[p].todo /\ r.owed = w[p].owed
      /\ r.asof = w[p].asof /\ r.last = w[p].last
  BY <1>1 DEF Worker
<1>3. w' = [w EXCEPT ![p] = r]
  BY DEF LoadBefore, Become
<1> HIDE DEF r
<1> QED
  BY <1>1, <1>2, <1>3 DEF Moved, Steady

LEMMA StaleEffect ==
  ASSUME LInv, NEW p \in Workers, NEW t \in Teams, TickStale(p, t)
  PROVE  Moved(p, "load") \/ Left(p, t)
<1>1. CASE Leave(p, t)
  BY <1>1, LeaveEffect
<1>2. CASE ~Leave(p, t)
  <2> DEFINE r == [w[p] EXCEPT !.pc = "load", !.attempt = 1, !.snap = NewTeam]
  <2>1. w[p] \in Worker /\ w \in [Workers -> Worker]
    BY DEF LInv, TypeOK
  <2>2. /\ r.pc = "load" /\ r.todo = w[p].todo /\ r.owed = w[p].owed
        /\ r.asof = w[p].asof /\ r.last = w[p].last
    BY <2>1 DEF Worker
  <2>3. w' = [w EXCEPT ![p] = r]
    BY <1>2 DEF TickStale, Become
  <2> HIDE DEF r
  <2> QED
    BY <2>1, <2>2, <2>3 DEF Moved, Steady
<1> QED
  BY <1>1, <1>2

LEMMA StartEffect ==
  ASSUME LInv, NEW p \in Workers, StartProcess(p)
  PROVE  /\ \A q \in Workers : q # p => w'[q] = w[q]
         /\ w'[p].pc = "resume" /\ w'[p].asof = now /\ w'[p].todo = {t \in Teams : Running(t)}
         /\ w'[p].owed = {}
<1> DEFINE todo == {t \in Teams : Running(t)}
           r == [NoWork EXCEPT !.pc = "resume", !.asof = now, !.todo = todo]
<1>1. w \in [Workers -> Worker] /\ NoWork \in Worker /\ NoWork.owed = {}
  BY NoWorkQuiet DEF LInv, TypeOK, Quiet, NoWork
<1>2. w' = [w EXCEPT ![p] = r]
  BY DEF StartProcess, Become
<1> HIDE DEF todo
<1>3. r.pc = "resume" /\ r.asof = now /\ r.todo = todo /\ r.owed = {}
  BY <1>1 DEF Worker
<1> HIDE DEF r
<1> QED
  BY <1>1, <1>2, <1>3 DEF todo

LEMMA PollEffect ==
  ASSUME LInv, NEW p \in Workers, Poll(p)
  PROVE  /\ \A q \in Workers : q # p => w'[q] = w[q]
         /\ w'[p].pc = "page" /\ w'[p].asof = now /\ w'[p].todo = w[p].todo
         /\ w'[p].owed = DueTeams(now, 0) /\ w'[p].last = 0
<1> DEFINE owed == DueTeams(now, 0)
           r == [w[p] EXCEPT !.pc = "page", !.asof = now, !.last = 0, !.owed = owed]
<1>1. w[p] \in Worker /\ w \in [Workers -> Worker]
  BY DEF LInv, TypeOK
<1>2. w' = [w EXCEPT ![p] = r]
  BY DEF Poll, Become
<1> HIDE DEF owed
<1>3. r.pc = "page" /\ r.asof = now /\ r.todo = w[p].todo /\ r.owed = owed /\ r.last = 0
  BY <1>1 DEF Worker
<1> HIDE DEF r
<1> QED
  BY <1>1, <1>2, <1>3 DEF owed

Page(p) ==
  LET due == DueTeams(w[p].asof, w[p].last)
  IN {t \in due : Cardinality({u \in due : u < t}) < PageSize}

LEMMA FetchEffect ==
  ASSUME LInv, NEW p \in Workers, FetchPage(p)
  PROVE  \/ DueTeams(w[p].asof, w[p].last) = {} /\ Moved(p, "idle")
         \/ /\ \A q \in Workers : q # p => w'[q] = w[q]
            /\ w'[p].pc = "team" /\ w'[p].asof = w[p].asof /\ w'[p].todo = Page(p)
            /\ w'[p].owed = w[p].owed /\ w'[p].last \in Page(p) /\ \A u \in Page(p) : u <= w'[p].last
<1>1. CASE DueTeams(w[p].asof, w[p].last) = {}
  BY <1>1, GotoEffect DEF FetchPage
<1>2. CASE DueTeams(w[p].asof, w[p].last) # {}
  <2> DEFINE page == Page(p)
  <2>1. PICK l \in page :
          /\ \A u \in page : u <= l
          /\ w' = [w EXCEPT ![p] = [w[p] EXCEPT !.pc = "team", !.todo = page, !.last = l]]
    BY <1>2 DEF FetchPage, Page, Become
  <2> DEFINE r == [w[p] EXCEPT !.pc = "team", !.todo = page, !.last = l]
  <2>2. w[p] \in Worker /\ w \in [Workers -> Worker]
    BY DEF LInv, TypeOK
  <2> HIDE DEF page
  <2>3. r.pc = "team" /\ r.asof = w[p].asof /\ r.todo = page /\ r.owed = w[p].owed /\ r.last = l
    BY <2>2 DEF Worker
  <2>4. w' = [w EXCEPT ![p] = r]
    BY <2>1
  <2> HIDE DEF r
  <2> QED
    BY <2>1, <2>2, <2>3, <2>4 DEF page
<1> QED
  BY <1>1, <1>2

LEMMA FaultEffect ==
  ASSUME LInv, NEW p \in Workers, Fault(p)
  PROVE  \/ \E t \in Teams :
              /\ IsCurrent(p, t) /\ Left(p, t)
              /\ w[p].pc \in {"team", "load", "tick", "after"} \/ (ResumeFaults /\ w[p].pc \in ResumePCs)
         \/ /\ Steady(p) /\ w[p].pc = "page" /\ w'[p].pc = "idle"
            /\ w'[p].todo = w[p].todo /\ w'[p].owed = {}
<1>1. ASSUME NEW t \in Teams, IsCurrent(p, t), Leave(p, t),
             w[p].pc \in {"team", "load", "tick", "after"} \/ (ResumeFaults /\ w[p].pc \in ResumePCs)
      PROVE  \E u \in Teams :
              /\ IsCurrent(p, u) /\ Left(p, u)
              /\ w[p].pc \in {"team", "load", "tick", "after"} \/ (ResumeFaults /\ w[p].pc \in ResumePCs)
  BY <1>1, LeaveEffect
<1>2. ASSUME w[p].pc = "page", Become(p, [w[p] EXCEPT !.pc = "idle", !.owed = {}])
      PROVE  /\ Steady(p) /\ w[p].pc = "page" /\ w'[p].pc = "idle"
             /\ w'[p].todo = w[p].todo /\ w'[p].owed = {}
  <2> DEFINE r == [w[p] EXCEPT !.pc = "idle", !.owed = {}]
  <2>1. w[p] \in Worker /\ w \in [Workers -> Worker]
    BY DEF LInv, TypeOK
  <2>2. r.pc = "idle" /\ r.todo = w[p].todo /\ r.owed = {} /\ r.asof = w[p].asof /\ r.last = w[p].last
    BY <2>1 DEF Worker
  <2>3. w' = [w EXCEPT ![p] = r]
    BY <1>2 DEF Become
  <2> HIDE DEF r
  <2> QED
    BY <1>2, <2>1, <2>2, <2>3 DEF Steady
<1> QED
  BY <1>1, <1>2 DEF Fault

LEMMA CrashEffect ==
  ASSUME LInv, NEW p \in Workers, Crash(p)
  PROVE  /\ \A q \in Workers : q # p => w'[q] = w[q]
         /\ w'[p] = NoWork /\ w'[p].pc = "down" /\ w'[p].asof = 0 /\ w'[p].todo = {} /\ w'[p].owed = {}
<1>1. w \in [Workers -> Worker] /\ w' = [w EXCEPT ![p] = NoWork]
  BY DEF LInv, TypeOK, Crash, Become
<1> QED
  BY <1>1 DEF NoWork
-----------------------------------------------------------------------------
(* What the commits do to cursors, windows and simulated slots.            *)

\* A commit of worker p on team t that leaves the cursor at sim.
Wrote(p, t, sim, gaps) ==
  /\ IsCurrent(p, t) /\ w[p].snap = db[t] /\ db[t].sim \in Time /\ w[p].asof \in Time
  /\ \A u \in Teams : u # t => db'[u] = db[u]
  /\ db'[t].sim = sim /\ db'[t].gaps = gaps /\ db'[t].state = "RUNNING"

LEMMA StoreEffect ==
  ASSUME LInv, NEW p \in Workers, NEW t \in Teams, IsCurrent(p, t), w[p].pc \in LoadedPCs, Fresh(p, t),
         NEW n, Sound(n), n.state = "RUNNING", Store(p, t, n)
  PROVE  Wrote(p, t, n.sim, n.gaps)
<1>1. w[p].snap = db[t] /\ w[p].snap.sim \in Time /\ w[p].asof \in Time
  BY LoadedFacts
<1>2. db \in [Teams -> TeamState] /\ w[p].snap.version + 1 \in Nat
  <2>1. w[p] \in Worker /\ db \in [Teams -> TeamState]
    BY DEF LInv, TypeOK
  <2>2. w[p].snap \in TeamState
    BY <2>1 DEF Worker
  <2>3. w[p].snap.version \in Nat
    BY <2>2 DEF TeamState
  <2> QED
    BY <2>1, <2>3
<1> DEFINE m == [n EXCEPT !.version = w[p].snap.version + 1]
<1>3. m.sim = n.sim /\ m.gaps = n.gaps /\ m.state = n.state
  BY <1>2, VersionSound
<1>4. db' = [db EXCEPT ![t] = m]
  BY DEF Store
<1> HIDE DEF m
<1> QED
  BY <1>1, <1>2, <1>3, <1>4 DEF Wrote

LEMMA EvidenceEffect ==
  ASSUME LInv, NEW p \in Workers, NEW t \in Teams, CommitEvidence(p, t)
  PROVE  /\ UNCHANGED <<worked, unobserved>> /\ w[p].pc = "evidence" /\ IsCurrent(p, t)
         /\ \/ ~Fresh(p, t) /\ db' = db /\ Left(p, t)
            \/ Wrote(p, t, db[t].sim, db[t].gaps \cup {<<db[t].sim, w[p].asof>>}) /\ Moved(p, "crossload")
<1>1. UNCHANGED <<worked, unobserved>> /\ w[p].pc = "evidence" /\ IsCurrent(p, t)
  BY DEF CommitEvidence
<1>2. CASE ~Fresh(p, t)
  BY <1>1, <1>2, LeaveEffect DEF CommitEvidence
<1>3. CASE Fresh(p, t)
  <2> DEFINE s == w[p].snap
             g == <<s.sim, w[p].asof>>
             n == [s EXCEPT !.gaps = @ \cup {g}]
  <2>1. w[p].pc \in LoadedPCs
    BY <1>1 DEF LoadedPCs
  <2>2. Sound(s) /\ s = db[t] /\ s.state = "RUNNING" /\ s.sim \in Time /\ w[p].asof \in Time
    BY <1>1, <1>3, <2>1, LoadedFacts
  <2>3. Store(p, t, n) /\ Moved(p, "crossload")
    <3>1. Store(p, t, n) /\ Become(p, [w[p] EXCEPT !.pc = "crossload", !.snap = NewTeam])
      BY <1>3 DEF CommitEvidence
    <3> QED
      BY <3>1, SnapEffect
  <2>4. g \in Time \X Time
    BY <2>2
  <2> HIDE DEF g
  <2>5. Sound(n) /\ n.sim = s.sim /\ n.gaps = s.gaps \cup {g} /\ n.state = "RUNNING"
    BY <2>2, <2>4, EvidenceSound
  <2> HIDE DEF n, s
  <2>6. Wrote(p, t, n.sim, n.gaps)
    BY <1>1, <1>3, <2>1, <2>3, <2>5, StoreEffect
  <2> QED
    BY <1>1, <2>2, <2>3, <2>5, <2>6 DEF g
<1> QED
  BY <1>2, <1>3

LEMMA SkipEffect ==
  ASSUME LInv, NEW p \in Workers, NEW t \in Teams, CommitSkip(p, t)
  PROVE  /\ UNCHANGED <<worked, unobserved>> /\ w[p].pc = "cross" /\ IsCurrent(p, t) /\ Left(p, t)
         /\ (~Fresh(p, t) /\ db' = db) \/ Wrote(p, t, w[p].asof, db[t].gaps)
<1>1. UNCHANGED <<worked, unobserved>> /\ w[p].pc = "cross" /\ IsCurrent(p, t) /\ Left(p, t)
  BY LeaveEffect DEF CommitSkip
<1>2. CASE ~Fresh(p, t)
  BY <1>1, <1>2 DEF CommitSkip
<1>3. CASE Fresh(p, t)
  <2> DEFINE s == w[p].snap
             n == [s EXCEPT !.sim = w[p].asof, !.wake = w[p].asof]
  <2>1. w[p].pc \in LoadedPCs
    BY <1>1 DEF LoadedPCs
  <2>2. Sound(s) /\ s = db[t] /\ s.state = "RUNNING" /\ w[p].asof \in Time
    BY <1>1, <1>3, <2>1, LoadedFacts
  <2>3. Store(p, t, n) /\ PendingBoundaries(s, w[p].asof) = {}
    BY <1>3 DEF CommitSkip
  <2>4. Sound(n) /\ n.sim = w[p].asof /\ n.gaps = s.gaps /\ n.state = "RUNNING"
    BY <2>2, <2>3, SkipSound
  <2> HIDE DEF n, s
  <2>5. Wrote(p, t, n.sim, n.gaps)
    BY <1>1, <1>3, <2>1, <2>3, <2>4, StoreEffect
  <2> QED
    BY <1>1, <2>2, <2>4, <2>5
<1> QED
  BY <1>2, <1>3

LEMMA CrossEffect ==
  ASSUME LInv, NEW p \in Workers, NEW t \in Teams, CommitCross(p, t)
  PROVE  /\ UNCHANGED <<worked, unobserved>> /\ w[p].pc = "cross" /\ IsCurrent(p, t)
         /\ \/ ~Fresh(p, t) /\ db' = db /\ Left(p, t)
            \/ Wrote(p, t, db[t].sim, db[t].gaps) /\ Moved(p, "crossload")
<1> DEFINE s == w[p].snap
           due == PendingBoundaries(s, w[p].asof)
<1>1. UNCHANGED <<worked, unobserved>> /\ w[p].pc = "cross" /\ IsCurrent(p, t)
  BY DEF CommitCross
<1>2. CASE ~Fresh(p, t)
  BY <1>1, <1>2, LeaveEffect DEF CommitCross
<1>3. CASE Fresh(p, t)
  <2>1. w[p].pc \in LoadedPCs
    BY <1>1 DEF LoadedPCs
  <2>2. Sound(s) /\ s = db[t] /\ s.state = "RUNNING" /\ s.sim \in Time /\ w[p].asof \in Time
    BY <1>1, <1>3, <2>1, LoadedFacts
  <2>3. PICK at \in due, target \in Targets : Store(p, t, CrossSprintBoundary(s, at, target))
    BY <1>3 DEF CommitCross
  <2>4. Moved(p, "crossload")
    BY <1>3, SnapEffect DEF CommitCross
  <2> DEFINE n == CrossSprintBoundary(s, at, target)
  <2>5. at \in Time
    BY <2>2, TimeAssumption DEF PendingBoundaries
  <2>6. Sound(n) /\ Extends(n, s)
    BY <2>2, <2>5, CrossSound
  <2> HIDE DEF n, s
  <2>7. n.sim = s.sim /\ n.gaps = s.gaps /\ n.state = "RUNNING"
    BY <2>2, <2>6 DEF Extends
  <2>8. Store(p, t, n)
    BY <2>3 DEF n
  <2>9. Wrote(p, t, n.sim, n.gaps)
    BY <1>1, <1>3, <2>1, <2>6, <2>7, <2>8, StoreEffect
  <2> QED
    BY <1>1, <2>2, <2>4, <2>7, <2>9
<1> QED
  BY <1>2, <1>3

LEMMA TickEffect ==
  ASSUME LInv, NEW p \in Workers, NEW t \in Teams, CommitTick(p, t)
  PROVE  /\ UNCHANGED unobserved /\ w[p].pc = "tick" /\ IsCurrent(p, t) /\ Moved(p, "after")
         /\ \A u \in Teams : u # t => worked'[u] = worked[u]
         /\ \E e \in db[t].sim..w[p].asof :
              /\ Wrote(p, t, e, db[t].gaps)
              /\ worked'[t] = worked[t] \cup (db[t].sim..(e - 1))
<1> DEFINE s == w[p].snap
<1>1. /\ UNCHANGED unobserved /\ w[p].pc = "tick" /\ IsCurrent(p, t) /\ Fresh(p, t) /\ s.sim <= w[p].asof
  BY DEF CommitTick
<1>2. Moved(p, "after")
  BY SnapEffect DEF CommitTick
<1>3. w[p].pc \in LoadedPCs
  BY <1>1 DEF LoadedPCs
<1>4. Sound(s) /\ s = db[t] /\ s.state = "RUNNING" /\ s.sim \in Time /\ w[p].asof \in Time
  BY <1>1, <1>3, LoadedFacts
<1>5. worked \in [Teams -> SUBSET Time] /\ s.sim \in Nat /\ w[p].asof \in Nat
  BY <1>4 DEF LInv, TypeOK
<1>6. CASE /\ \E target \in Targets :
                Store(p, t, [CrossSprintBoundary(s, s.sim, target) EXCEPT !.wake = s.sim])
           /\ UNCHANGED worked
  <2>1. PICK target \in Targets :
          Store(p, t, [CrossSprintBoundary(s, s.sim, target) EXCEPT !.wake = s.sim])
    BY <1>6
  <2> DEFINE c == CrossSprintBoundary(s, s.sim, target)
             n == [c EXCEPT !.wake = s.sim]
  <2>2. Sound(c) /\ Extends(c, s)
    BY <1>4, CrossSound
  <2> HIDE DEF c
  <2>3. Sound(n) /\ n.state = c.state /\ n.gaps = c.gaps /\ n.sim = c.sim
    BY <1>4, <2>2, WakeSound
  <2>4. Store(p, t, n)
    BY <2>1 DEF c
  <2> HIDE DEF n, s
  <2>5. n.sim = s.sim /\ n.gaps = s.gaps /\ n.state = "RUNNING"
    BY <1>4, <2>2, <2>3 DEF Extends
  <2>6. Wrote(p, t, s.sim, s.gaps)
    BY <1>1, <1>3, <2>3, <2>4, <2>5, StoreEffect
  <2>7. s.sim \in s.sim..w[p].asof /\ s.sim..(s.sim - 1) = {}
    BY <1>1, <1>5 DEF s
  <2>8. worked' = worked
    BY <1>6
  <2> QED
    BY <1>1, <1>2, <1>4, <2>6, <2>7, <2>8
<1>7. CASE \E e \in s.sim..w[p].asof, X, C \in SUBSET Items :
             \E W \in SUBSET X, V \in SUBSET C :
               /\ TickAllowed(s, w[p].asof, X, W, e, C, V)
               /\ Store(p, t, TickResult(s, X, W, e, C, V))
               /\ worked' = [worked EXCEPT ![t] = @ \cup (s.sim..(e - 1))]
  <2>1. PICK e \in s.sim..w[p].asof, X \in SUBSET Items, C \in SUBSET Items,
             W \in SUBSET Items, V \in SUBSET Items :
          /\ TickAllowed(s, w[p].asof, X, W, e, C, V)
          /\ Store(p, t, TickResult(s, X, W, e, C, V))
          /\ worked' = [worked EXCEPT ![t] = @ \cup (s.sim..(e - 1))]
    BY <1>7
  <2> DEFINE n == TickResult(s, X, W, e, C, V)
  <2>2. e \in Time /\ s.sim <= e
    BY <1>4, TimeAssumption
  <2>3. Sound(n) /\ n.state = "RUNNING" /\ n.gaps = s.gaps /\ n.sim = e
    BY <1>4, <2>1, <2>2, SliceSound
  <2>4. Store(p, t, n)
    BY <2>1
  <2> HIDE DEF n
  <2>5. Wrote(p, t, e, s.gaps)
    BY <1>1, <1>3, <2>3, <2>4, StoreEffect
  <2>6. worked'[t] = worked[t] \cup (s.sim..(e - 1)) /\ \A u \in Teams : u # t => worked'[u] = worked[u]
    BY <1>5, <2>1
  <2> QED
    BY <1>1, <1>2, <1>4, <2>5, <2>6
<1> QED
  BY <1>6, <1>7 DEF CommitTick

LEMMA BootstrapEffect ==
  ASSUME LInv, NEW t \in Teams, Bootstrap(t)
  PROVE  /\ ~Running(t) /\ UNCHANGED <<now, w, down, worked>>
         /\ db'[t].sim = now /\ from'[t] = now
         /\ \A u \in Teams : u # t => db'[u] = db[u] /\ from'[u] = from[u]
<1>1. PICK o \in Ordinals, target \in Targets :
        /\ ContainingOrdinal(o, now)
        /\ db' = [db EXCEPT ![t] = EnsureBootstrapped(db[t], now, o, target)]
  BY DEF Bootstrap
<1> DEFINE n == EnsureBootstrapped(db[t], now, o, target)
<1>2. n.sim = now
  BY <1>1, BootstrapSound DEF Bootstrap, LInv, AllSound, TypeOK
<1>3. db' = [db EXCEPT ![t] = n]
  BY <1>1
<1> HIDE DEF n
<1> QED
  BY <1>2, <1>3 DEF Bootstrap, Running, LInv, TypeOK
-----------------------------------------------------------------------------
(* Time is accounted for, with any number of workers.                      *)

\* The histories only grow; a cursor that moves, and a worker that starts to
\* cross, find the time behind them accounted for.
LEMMA AccountStep ==
  ASSUME LInv, AccountInv,
         \A t \in Teams : db[t].gaps \subseteq db'[t].gaps /\ worked[t] \subseteq worked'[t],
         \A t \in Teams : Running(t) => from'[t] = from[t],
         \A t \in Teams : Running(t)' =>
           \/ Running(t) /\ db'[t].sim = db[t].sim
           \/ \A k \in from'[t]..(db'[t].sim - 1) : Accounted(t, k)',
         \A p \in Workers, t \in Teams : Crossing(p, t)' =>
           \/ Crossing(p, t) /\ w'[p].asof = w[p].asof
           \/ \A k \in from'[t]..(w'[p].asof - 1) : Accounted(t, k)'
  PROVE  AccountInv'
<1>1. \A t \in Teams : \A k : Accounted(t, k) => Accounted(t, k)'
  BY DEF Accounted, Covered
<1>2. TimeAccounted'
  <2> SUFFICES ASSUME NEW t \in Teams, Running(t)', NEW k \in from'[t]..(db'[t].sim - 1)
               PROVE  Accounted(t, k)'
    BY DEF TimeAccounted, Accounted
  <2>1. CASE Running(t) /\ db'[t].sim = db[t].sim
    BY <1>1, <2>1 DEF AccountInv, TimeAccounted, Accounted
  <2> QED
    BY <2>1
<1>3. ASSUME NEW p \in Workers, NEW t \in Teams, Crossing(p, t)', NEW k \in from'[t]..(w'[p].asof - 1)
      PROVE  Accounted(t, k)'
  <2>1. CASE Crossing(p, t) /\ w'[p].asof = w[p].asof
    <3>1. Running(t)
      BY <2>1 DEF Crossing, IsCurrent, LInv, TodoRunning
    <3> QED
      BY <1>1, <1>3, <2>1, <3>1 DEF AccountInv
  <2> QED
    BY <1>3, <2>1
<1> QED
  BY <1>2, <1>3 DEF AccountInv

\* A worker that reads, leaves a team or stops moves no cursor.
LEMMA CalmAccount ==
  ASSUME LInv, AccountInv, UNCHANGED <<db, worked, from>>,
         \A p \in Workers, t \in Teams : Crossing(p, t)' => Crossing(p, t) /\ w'[p].asof = w[p].asof
  PROVE  AccountInv'
<1>1. \A t \in Teams : Running(t)' => Running(t)
  BY DEF Running
<1> QED
  BY <1>1, AccountStep

LEMMA LeftAccount ==
  ASSUME LInv, AccountInv, NEW p \in Workers, NEW t, Left(p, t), UNCHANGED <<db, worked, from>>
  PROVE  AccountInv'
<1>1. w'[p].pc \notin {"crossload", "cross"}
  BY DEF Left
<1>2. \A q \in Workers, u \in Teams : Crossing(q, u)' => Crossing(q, u) /\ w'[q].asof = w[q].asof
  BY <1>1 DEF Left, Steady, Crossing, IsCurrent
<1> QED
  BY <1>2, CalmAccount

LEMMA MovedAccount ==
  ASSUME LInv, AccountInv, NEW p \in Workers, NEW pc, Moved(p, pc), UNCHANGED <<db, worked, from>>,
         pc \in {"crossload", "cross"} => w[p].pc \in {"crossload", "cross"}
  PROVE  AccountInv'
<1>1. \A q \in Workers, u \in Teams : Crossing(q, u)' => Crossing(q, u) /\ w'[q].asof = w[q].asof
  BY DEF Moved, Steady, Crossing, IsCurrent
<1> QED
  BY <1>1, CalmAccount

\* A commit that moves the cursor to an accounted instant.
LEMMA WroteAccount ==
  ASSUME LInv, AccountInv, NEW p \in Workers, NEW t \in Teams, NEW sim, NEW gaps,
         Wrote(p, t, sim, gaps), db[t].gaps \subseteq gaps, from' = from,
         \A u \in Teams : worked[u] \subseteq worked'[u],
         sim = db[t].sim \/ \A k \in from[t]..(sim - 1) : Accounted(t, k)',
         \A q \in Workers, u \in Teams : Crossing(q, u)' =>
           \/ Crossing(q, u) /\ w'[q].asof = w[q].asof
           \/ \A k \in from[u]..(w'[q].asof - 1) : Accounted(u, k)'
  PROVE  AccountInv'
<1>1. \A u \in Teams : db[u].gaps \subseteq db'[u].gaps
  BY DEF Wrote
<1>2. Running(t)
  BY DEF Wrote, IsCurrent, LInv, TodoRunning
<1>3. \A u \in Teams : Running(u)' =>
           \/ Running(u) /\ db'[u].sim = db[u].sim
           \/ \A k \in from'[u]..(db'[u].sim - 1) : Accounted(u, k)'
  <2> SUFFICES ASSUME NEW u \in Teams, Running(u)'
               PROVE  \/ Running(u) /\ db'[u].sim = db[u].sim
                      \/ \A k \in from'[u]..(db'[u].sim - 1) : Accounted(u, k)'
    OBVIOUS
  <2>1. CASE u = t
    BY <1>2, <2>1 DEF Wrote
  <2>2. CASE u # t
    BY <2>2 DEF Wrote, Running
  <2> QED
    BY <2>1, <2>2
<1> QED
  BY <1>1, <1>3, AccountStep

LEMMA EvidenceAccount ==
  ASSUME LInv, AccountInv, NEW p \in Workers, NEW t \in Teams, CommitEvidence(p, t)
  PROVE  AccountInv'
<1>1. UNCHANGED <<worked, from>> /\ IsCurrent(p, t)
  BY EvidenceEffect DEF unobserved
<1>2. CASE db' = db /\ Left(p, t)
  BY <1>1, <1>2, LeftAccount
<1>3. CASE /\ Wrote(p, t, db[t].sim, db[t].gaps \cup {<<db[t].sim, w[p].asof>>})
           /\ Moved(p, "crossload")
  <2>1. /\ db'[t].gaps = db[t].gaps \cup {<<db[t].sim, w[p].asof>>}
        /\ db[t].sim \in Time /\ w[p].asof \in Time
    BY <1>3 DEF Wrote
  <2>2. from[t] \in Time /\ Running(t)
    BY <1>1 DEF LInv, TypeOK, IsCurrent, TodoRunning
  <2>3. \A k \in from[t]..(w[p].asof - 1) : Accounted(t, k)'
    <3> TAKE k \in from[t]..(w[p].asof - 1)
    <3>1. CASE k < db[t].sim
      <4>1. k \in from[t]..(db[t].sim - 1)
        BY <2>1, <2>2, <3>1
      <4>2. Accounted(t, k)
        BY <2>2, <4>1 DEF AccountInv, TimeAccounted, Accounted
      <4> QED
        BY <1>1, <2>1, <4>2 DEF Accounted, Covered
    <3>2. CASE ~(k < db[t].sim)
      <4>1. db[t].sim <= k /\ k < w[p].asof
        BY <2>1, <2>2, <3>2
      <4> DEFINE g == <<db[t].sim, w[p].asof>>
      <4>2. g \in db'[t].gaps /\ g[1] <= k /\ k < g[2]
        BY <2>1, <4>1
      <4> QED
        BY <4>2 DEF Accounted, Covered
    <3> QED
      BY <3>1, <3>2
  <2>4. \A q \in Workers, u \in Teams : Crossing(q, u)' =>
           \/ Crossing(q, u) /\ w'[q].asof = w[q].asof
           \/ \A k \in from[u]..(w'[q].asof - 1) : Accounted(u, k)'
    <3> SUFFICES ASSUME NEW q \in Workers, NEW u \in Teams, Crossing(q, u)'
                 PROVE  \/ Crossing(q, u) /\ w'[q].asof = w[q].asof
                        \/ \A k \in from[u]..(w'[q].asof - 1) : Accounted(u, k)'
      OBVIOUS
    <3>1. CASE q # p
      BY <1>3, <3>1 DEF Moved, Steady, Crossing, IsCurrent
    <3>2. CASE q = p
      <4>1. u \in w[p].todo /\ u <= t /\ t <= u
        BY <1>1, <1>3, <3>2 DEF Moved, Steady, Crossing, IsCurrent
      <4>2. u = t
        BY <4>1, TeamsAssumption
      <4> QED
        BY <1>3, <2>3, <3>2, <4>2 DEF Moved, Steady
    <3> QED
      BY <3>1, <3>2
  <2>5. \A u \in Teams : worked[u] \subseteq worked'[u]
    BY <1>1
  <2> QED
    BY <1>1, <1>3, <2>4, <2>5, WroteAccount
<1> QED
  BY <1>2, <1>3, EvidenceEffect

LEMMA SkipAccount ==
  ASSUME LInv, AccountInv, NEW p \in Workers, NEW t \in Teams, CommitSkip(p, t)
  PROVE  AccountInv'
<1>1. /\ UNCHANGED <<worked, from>> /\ Crossing(p, t) /\ Left(p, t)
      /\ db' = db \/ Wrote(p, t, w[p].asof, db[t].gaps)
  BY SkipEffect DEF unobserved, Crossing
<1>2. CASE db' = db
  BY <1>1, <1>2, LeftAccount
<1>3. CASE Wrote(p, t, w[p].asof, db[t].gaps)
  <2>1. \A k \in from[t]..(w[p].asof - 1) : Accounted(t, k)'
    BY <1>1, <1>3 DEF AccountInv, Accounted, Covered, Wrote
  <2>2. w'[p].pc \notin {"crossload", "cross"}
    BY <1>1 DEF Left
  <2>3. \A q \in Workers, u \in Teams : Crossing(q, u)' => Crossing(q, u) /\ w'[q].asof = w[q].asof
    BY <1>1, <2>2 DEF Left, Steady, Crossing, IsCurrent
  <2>4. \A u \in Teams : worked[u] \subseteq worked'[u]
    BY <1>1
  <2> QED
    BY <1>1, <1>3, <2>1, <2>3, <2>4, WroteAccount
<1> QED
  BY <1>1, <1>2, <1>3

LEMMA CrossAccount ==
  ASSUME LInv, AccountInv, NEW p \in Workers, NEW t \in Teams, CommitCross(p, t)
  PROVE  AccountInv'
<1>1. UNCHANGED <<worked, from>> /\ w[p].pc = "cross"
  BY CrossEffect DEF unobserved
<1>2. CASE db' = db /\ Left(p, t)
  BY <1>1, <1>2, LeftAccount
<1>3. CASE Wrote(p, t, db[t].sim, db[t].gaps) /\ Moved(p, "crossload")
  <2>1. \A q \in Workers, u \in Teams : Crossing(q, u)' => Crossing(q, u) /\ w'[q].asof = w[q].asof
    BY <1>1, <1>3 DEF Moved, Steady, Crossing, IsCurrent
  <2>2. \A u \in Teams : worked[u] \subseteq worked'[u]
    BY <1>1
  <2> QED
    BY <1>1, <1>3, <2>1, <2>2, WroteAccount
<1> QED
  BY <1>2, <1>3, CrossEffect

LEMMA TickAccount ==
  ASSUME LInv, AccountInv, NEW p \in Workers, NEW t \in Teams, CommitTick(p, t)
  PROVE  AccountInv'
<1>1. /\ from' = from /\ Moved(p, "after") /\ IsCurrent(p, t)
      /\ \A u \in Teams : u # t => worked'[u] = worked[u]
  BY TickEffect DEF unobserved
<1>2. PICK e \in db[t].sim..w[p].asof :
        Wrote(p, t, e, db[t].gaps) /\ worked'[t] = worked[t] \cup (db[t].sim..(e - 1))
  BY TickEffect
<1>3. db[t].sim \in Nat /\ w[p].asof \in Nat /\ from[t] \in Nat /\ Running(t) /\ db'[t].gaps = db[t].gaps
  BY <1>1, <1>2 DEF Wrote, LInv, TypeOK, IsCurrent, TodoRunning
<1>4. \A k \in from[t]..(e - 1) : Accounted(t, k)'
  <2> TAKE k \in from[t]..(e - 1)
  <2>1. CASE k < db[t].sim
    <3>1. k \in from[t]..(db[t].sim - 1)
      BY <1>3, <2>1
    <3>2. Accounted(t, k)
      BY <1>3, <3>1 DEF AccountInv, TimeAccounted, Accounted
    <3> QED
      BY <1>2, <1>3, <3>2 DEF Accounted, Covered
  <2>2. CASE ~(k < db[t].sim)
    <3>1. k \in db[t].sim..(e - 1)
      BY <1>3, <2>2
    <3> QED
      BY <1>2, <3>1 DEF Accounted
  <2> QED
    BY <2>1, <2>2
<1>5. \A q \in Workers, u \in Teams : Crossing(q, u)' => Crossing(q, u) /\ w'[q].asof = w[q].asof
  BY <1>1 DEF Moved, Steady, Crossing, IsCurrent
<1>6. \A u \in Teams : worked[u] \subseteq worked'[u]
  BY <1>1, <1>2
<1> QED
  BY <1>1, <1>2, <1>4, <1>5, <1>6, WroteAccount

LEMMA BootstrapAccount ==
  ASSUME LInv, AccountInv, NEW t \in Teams, Bootstrap(t)
  PROVE  AccountInv'
<1>1. /\ ~Running(t) /\ UNCHANGED <<now, w, down, worked>>
      /\ db'[t].sim = now /\ from'[t] = now
      /\ \A u \in Teams : u # t => db'[u] = db[u] /\ from'[u] = from[u]
  BY BootstrapEffect
<1>2. now \in Nat /\ db[t].gaps \subseteq db'[t].gaps
  <2>1. Keeps /\ now \in Nat
    BY BootstrapKeeps DEF LInv, TypeOK
  <2>2. PICK o \in Ordinals, target \in Targets :
          /\ ContainingOrdinal(o, now)
          /\ db' = [db EXCEPT ![t] = EnsureBootstrapped(db[t], now, o, target)]
    BY DEF Bootstrap
  <2>3. db[t] \in TeamState
    BY DEF LInv, TypeOK
  <2> DEFINE n == EnsureBootstrapped(db[t], now, o, target)
  <2>4. n.gaps = db[t].gaps
    BY <2>3 DEF EnsureBootstrapped, PlannedStart, ActiveStart, WithSprints, Started, ActivateItems, TeamState
  <2> HIDE DEF n
  <2>5. db'[t] = n
    BY <2>2 DEF LInv, TypeOK, n
  <2> QED
    BY <2>1, <2>4, <2>5
<1>3. \A u \in Teams : db[u].gaps \subseteq db'[u].gaps /\ worked[u] \subseteq worked'[u]
  BY <1>1, <1>2
<1>4. \A u \in Teams : Running(u) => from'[u] = from[u]
  BY <1>1
<1>5. \A u \in Teams : Running(u)' =>
           \/ Running(u) /\ db'[u].sim = db[u].sim
           \/ \A k \in from'[u]..(db'[u].sim - 1) : Accounted(u, k)'
  <2> SUFFICES ASSUME NEW u \in Teams, Running(u)'
               PROVE  \/ Running(u) /\ db'[u].sim = db[u].sim
                      \/ \A k \in from'[u]..(db'[u].sim - 1) : Accounted(u, k)'
    OBVIOUS
  <2>1. CASE u = t
    <3>1. from'[u]..(db'[u].sim - 1) = {}
      BY <1>1, <1>2, <2>1
    <3> QED
      BY <3>1
  <2>2. CASE u # t
    BY <1>1, <2>2 DEF Running
  <2> QED
    BY <2>1, <2>2
<1>6. \A q \in Workers, u \in Teams : Crossing(q, u)' => Crossing(q, u) /\ w'[q].asof = w[q].asof
  BY <1>1 DEF Crossing, IsCurrent
<1> QED
  BY <1>3, <1>4, <1>5, <1>6, AccountStep

\* A step on a team that writes nothing.
Read(p, t) ==
  /\ UNCHANGED <<db, worked, unobserved>> /\ IsCurrent(p, t)
  /\ \/ Left(p, t) /\ (w[p].pc \in ResumePCs => w[p].pc = "resume" /\ db[t].sim >= w[p].asof)
     \/ w[p].pc = "resume" /\ Moved(p, "evidence") /\ w'[p].snap = db[t] /\ ~(db[t].sim >= w[p].asof)
     \/ w[p].pc = "crossload" /\ Moved(p, "cross") /\ w'[p].snap = db[t]
     \/ w[p].pc = "load" /\ Moved(p, "tick") /\ w'[p].snap = db[t]
     \/ w[p].pc \in {"team", "tick", "after"} /\ \E pc \in {"load", "team"} : Moved(p, pc)

LEMMA TeamForms ==
  ASSUME LInv, NEW p \in Workers, NEW t \in Teams, TeamAction(p, t)
  PROVE  Read(p, t) \/ CommitEvidence(p, t) \/ CommitCross(p, t) \/ CommitSkip(p, t) \/ CommitTick(p, t)
<1>1. CASE ResumeLoad(p, t)
  <2>1. CASE db[t].sim >= w[p].asof
    BY <1>1, <2>1, LeaveEffect DEF ResumeLoad, Read
  <2>2. CASE ~(db[t].sim >= w[p].asof)
    <3>1. Become(p, [w[p] EXCEPT !.pc = "evidence", !.snap = db[t]])
      BY <1>1, <2>2 DEF ResumeLoad
    <3>2. Moved(p, "evidence") /\ w'[p].snap = db[t]
      BY <3>1, SnapEffect
    <3> QED
      BY <1>1, <2>2, <3>2 DEF ResumeLoad, Read
  <2> QED
    BY <2>1, <2>2
<1>2. CASE CrossLoad(p, t)
  <2>1. Moved(p, "cross") /\ w'[p].snap = db[t]
    BY <1>2, SnapEffect DEF CrossLoad
  <2> QED
    BY <1>2, <2>1 DEF CrossLoad, Read
<1>3. CASE LoadTick(p, t)
  <2>1. Moved(p, "tick") /\ w'[p].snap = db[t]
    BY <1>3, SnapEffect DEF LoadTick
  <2> QED
    BY <1>3, <2>1 DEF LoadTick, Read
<1>4. CASE LoadBefore(p, t)
  BY <1>4, BeforeEffect DEF LoadBefore, Read
<1>5. CASE TickRaises(p, t)
  BY <1>5, LeaveEffect DEF TickRaises, Read, ResumePCs
<1>6. CASE TickStale(p, t)
  BY <1>6, StaleEffect DEF TickStale, Read, ResumePCs
<1>7. CASE After(p, t)
  BY <1>7, LeaveEffect, GotoEffect DEF After, Read, ResumePCs
<1> QED
  BY <1>1, <1>2, <1>3, <1>4, <1>5, <1>6, <1>7 DEF TeamAction

LEMMA WorkAccount ==
  ASSUME LInv, AccountInv, NEW p \in Workers, Work(p)
  PROVE  AccountInv'
<1>1. ASSUME NEW t \in Teams, Read(p, t) PROVE AccountInv'
  <2>1. UNCHANGED <<db, worked, from>>
    BY <1>1 DEF Read, unobserved
  <2>2. CASE Left(p, t)
    BY <2>1, <2>2, LeftAccount
  <2>3. ASSUME NEW pc, Moved(p, pc), pc \in {"crossload", "cross"} => w[p].pc \in {"crossload", "cross"}
        PROVE  AccountInv'
    BY <2>1, <2>3, MovedAccount
  <2> QED
    BY <1>1, <2>2, <2>3 DEF Read
<1>2. ASSUME NEW t \in Teams, TeamAction(p, t) PROVE AccountInv'
  BY <1>1, <1>2, TeamForms, EvidenceAccount, CrossAccount, SkipAccount, TickAccount
<1>3. CASE StartProcess(p)
  <2>1. UNCHANGED <<db, worked, from>>
    BY <1>3 DEF StartProcess, unobserved
  <2>2. \A q \in Workers, u \in Teams : Crossing(q, u)' => Crossing(q, u) /\ w'[q].asof = w[q].asof
    BY <1>3, StartEffect DEF Crossing, IsCurrent
  <2> QED
    BY <2>1, <2>2, CalmAccount
<1>4. CASE ResumeDone(p) \/ PageDone(p)
  <2>1. UNCHANGED <<db, worked, from>>
    BY <1>4 DEF ResumeDone, PageDone, unobserved
  <2>2. Moved(p, "idle") \/ Moved(p, "page")
    BY <1>4, GotoEffect DEF ResumeDone, PageDone
  <2> QED
    BY <2>1, <2>2, MovedAccount
<1>5. CASE Poll(p)
  <2>1. UNCHANGED <<db, worked, from>>
    BY <1>5 DEF Poll, unobserved
  <2>2. \A q \in Workers, u \in Teams : Crossing(q, u)' => Crossing(q, u) /\ w'[q].asof = w[q].asof
    BY <1>5, PollEffect DEF Crossing, IsCurrent
  <2> QED
    BY <2>1, <2>2, CalmAccount
<1>6. CASE FetchPage(p)
  <2>1. UNCHANGED <<db, worked, from>>
    BY <1>6 DEF FetchPage, unobserved
  <2>2. \A q \in Workers, u \in Teams : Crossing(q, u)' => Crossing(q, u) /\ w'[q].asof = w[q].asof
    BY <1>6, FetchEffect DEF Crossing, IsCurrent, Moved, Steady
  <2> QED
    BY <2>1, <2>2, CalmAccount
<1> QED
  BY <1>2, <1>3, <1>4, <1>5, <1>6 DEF Work

LEMMA NextAccount ==
  ASSUME LInv, AccountInv, [Next]_vars
  PROVE  AccountInv'
<1>1. ASSUME NEW p \in Workers, Fault(p) PROVE AccountInv'
  <2>1. UNCHANGED <<db, worked, from>>
    BY <1>1 DEF Fault
  <2>2. \A q \in Workers, u \in Teams : Crossing(q, u)' => Crossing(q, u) /\ w'[q].asof = w[q].asof
    BY <1>1, FaultEffect DEF Crossing, IsCurrent, Left, Steady
  <2> QED
    BY <2>1, <2>2, CalmAccount
<1>2. ASSUME NEW p \in Workers, Crash(p) PROVE AccountInv'
  <2>1. UNCHANGED <<db, worked, from>>
    BY <1>2 DEF Crash
  <2>2. \A q \in Workers, u \in Teams : Crossing(q, u)' => Crossing(q, u) /\ w'[q].asof = w[q].asof
    BY <1>2, CrashEffect DEF Crossing, IsCurrent
  <2> QED
    BY <2>1, <2>2, CalmAccount
<1>3. CASE Clock \/ UNCHANGED vars
  <2>1. UNCHANGED <<db, worked, from, w>>
    BY <1>3 DEF Clock, vars
  <2>2. \A q \in Workers, u \in Teams : Crossing(q, u)' => Crossing(q, u) /\ w'[q].asof = w[q].asof
    BY <2>1 DEF Crossing, IsCurrent
  <2> QED
    BY <2>1, <2>2, CalmAccount
<1> QED
  BY <1>1, <1>2, <1>3, WorkAccount, BootstrapAccount DEF Next

\* Every slot between a team's bootstrap and its cursor was simulated by a
\* tick or lies in a DOWNTIME_SKIPPED window, whatever workers overlap, crash
\* or fail (LiveScheduler._resume records the window before it moves the
\* cursor; TeamTickService.advance moves it only over what it simulates).
THEOREM TimeIsAccounted == Spec => []TimeAccounted
<1>1. Init => AccountInv
  <2> SUFFICES ASSUME Init PROVE AccountInv
    OBVIOUS
  <2>1. \A t \in Teams : ~Running(t)
    BY DEF Init, Running, NewTeam
  <2>2. \A p \in Workers : w[p].pc = "down"
    BY DEF Init, NoWork
  <2> QED
    BY <2>1, <2>2 DEF AccountInv, TimeAccounted, Crossing
<1>2. LInv /\ AccountInv /\ [Next]_vars => AccountInv'
  BY NextAccount
<1>3. AccountInv => TimeAccounted
  BY DEF AccountInv
<1> QED
  BY <1>1, <1>2, <1>3, Invariant, PTL DEF Spec
-----------------------------------------------------------------------------
(* What has happened lies in the past, with any number of workers.         *)

LEMMA PastStep ==
  ASSUME LInv, PastInv, now' = now, down' = down, worked' = worked,
         \A p \in Workers : w'[p].asof \in {w[p].asof, now, 0}
  PROVE  PastInv'
<1>1. now \in Nat
  BY DEF LInv, TypeOK
<1> QED
  BY <1>1 DEF PastInv

LEMMA TickPast ==
  ASSUME LInv, PastInv, NEW p \in Workers, NEW t \in Teams, CommitTick(p, t)
  PROVE  PastInv'
<1>1. /\ now' = now /\ down' = down /\ \A q \in Workers : w'[q].asof = w[q].asof
      /\ \A u \in Teams : u # t => worked'[u] = worked[u]
  BY TickEffect DEF unobserved, Moved, Steady
<1>2. PICK e \in db[t].sim..w[p].asof :
        Wrote(p, t, e, db[t].gaps) /\ worked'[t] = worked[t] \cup (db[t].sim..(e - 1))
  BY TickEffect
<1>3. db[t].sim \in Nat /\ w[p].asof \in Nat /\ now \in Nat /\ w[p].asof <= now
  BY <1>2 DEF Wrote, LInv, TypeOK, PastInv
<1>4. \A k \in worked'[t] : k < now
  BY <1>2, <1>3 DEF PastInv
<1> QED
  BY <1>1, <1>4 DEF PastInv

LEMMA WorkPast ==
  ASSUME LInv, PastInv, NEW p \in Workers, Work(p)
  PROVE  PastInv'
<1>1. ASSUME NEW t \in Teams, TeamAction(p, t) PROVE PastInv'
  <2>1. CASE CommitTick(p, t)
    BY <2>1, TickPast
  <2>2. CASE ~CommitTick(p, t)
    <3>1. UNCHANGED <<worked, unobserved>> /\ Steady(p)
      BY <1>1, <2>2, TeamForms, EvidenceEffect, CrossEffect, SkipEffect DEF Read, Moved, Left
    <3> QED
      BY <3>1, PastStep DEF Steady, unobserved
  <2> QED
    BY <2>1, <2>2
<1>2. ASSUME StartProcess(p) \/ ResumeDone(p) \/ PageDone(p) \/ Poll(p) \/ FetchPage(p) PROVE PastInv'
  <2>1. UNCHANGED <<worked, unobserved>>
    BY <1>2 DEF StartProcess, ResumeDone, PageDone, Poll, FetchPage
  <2>2. \A q \in Workers : w'[q].asof \in {w[q].asof, now, 0}
    <3>1. CASE ResumeDone(p) \/ PageDone(p)
      BY <3>1, GotoEffect DEF ResumeDone, PageDone, Moved, Steady
    <3>2. CASE StartProcess(p) \/ Poll(p)
      BY <3>2, StartEffect, PollEffect
    <3>3. CASE FetchPage(p)
      BY <3>3, FetchEffect DEF Moved, Steady
    <3> QED
      BY <1>2, <3>1, <3>2, <3>3
  <2> QED
    BY <2>1, <2>2, PastStep DEF unobserved
<1> QED
  BY <1>1, <1>2 DEF Work

LEMMA NextPast ==
  ASSUME LInv, PastInv, [Next]_vars
  PROVE  PastInv'
<1>1. ASSUME NEW p \in Workers, Fault(p) \/ Crash(p) PROVE PastInv'
  <2>1. now' = now /\ down' = down /\ worked' = worked
    BY <1>1 DEF Fault, Crash
  <2>2. \A q \in Workers : w'[q].asof \in {w[q].asof, now, 0}
    BY <1>1, FaultEffect, CrashEffect DEF Left, Steady
  <2> QED
    BY <2>1, <2>2, PastStep
<1>2. ASSUME NEW t \in Teams, Bootstrap(t) PROVE PastInv'
  <2>1. UNCHANGED <<now, w, down, worked>>
    BY <1>2, BootstrapEffect
  <2> QED
    BY <2>1, PastStep
<1>3. CASE Clock
  <2>1. UNCHANGED <<w, worked>> /\ now' = now + 1 /\ down' \subseteq down \cup {now} /\ now \in Nat
    BY <1>3 DEF Clock, LInv, TypeOK
  <2>2. \A k \in down \cup {now} : k < now + 1
    BY <2>1 DEF PastInv, LInv, TypeOK
  <2>3. \A t \in Teams : \A k \in worked[t] : k < now + 1
    BY <2>1 DEF PastInv, LInv, TypeOK
  <2>4. \A p \in Workers : w[p].asof <= now + 1
    <3>1. \A p \in Workers : w[p] \in Worker
      BY DEF LInv, TypeOK
    <3> QED
      BY <2>1, <3>1 DEF PastInv, Worker
  <2> QED
    BY <2>1, <2>2, <2>3, <2>4 DEF PastInv
<1>4. CASE UNCHANGED vars
  BY <1>4 DEF vars, PastInv
<1> QED
  BY <1>1, <1>2, <1>3, <1>4, WorkPast DEF Next
-----------------------------------------------------------------------------
(* One process: what it holds is current and no due team is overlooked.    *)

\* The team at the head of the loop is the only one.
LEMMA HeadUnique ==
  ASSUME LInv, NEW p \in Workers, NEW t \in Teams, NEW u \in Teams, IsCurrent(p, t),
         w'[p].todo = w[p].todo, IsCurrent(p, u)'
  PROVE  u = t
<1>1. u \in w[p].todo /\ t <= u /\ u <= t
  BY DEF IsCurrent
<1> QED
  BY <1>1, TeamsAssumption

\* The loop goes on with the next team; only the team that is left changed.
LEMMA LeftSolo ==
  ASSUME OneProcess, LInv, SoloInv, NEW p \in Workers, NEW t \in Teams, Left(p, t),
         \A u \in Teams : u # t => db'[u] = db[u]
  PROVE  SoloInv'
<1>1. Owing(p) /\ w[p].owed \subseteq Teams
  <2>1. w[p] \in Worker
    BY DEF LInv, TypeOK
  <2> QED
    BY <2>1 DEF SoloInv, Worker
<1>2. w'[p].pc \in {"resume", "team"} /\ (w'[p].pc = "resume" => w[p].pc \in ResumePCs)
  BY DEF Left
<1>3. Current(p)'
  BY <1>2 DEF Current, Loaded, Crossing
<1>4. w'[p].pc \in {"down", "idle"} \cup ResumePCs => w'[p].owed = {}
  <2>1. w[p].pc \in ResumePCs => w[p].owed = {}
    BY <1>1 DEF Owing
  <2> QED
    BY <1>2, <2>1 DEF Left, ResumePCs
<1>5. ASSUME NEW u \in w'[p].owed
      PROVE  u \in w'[p].todo \/ (u > w'[p].last /\ Running(u)' /\ db'[u].wake <= w'[p].asof)
  <2>1. u \in w[p].owed /\ u # t /\ u \in Teams /\ db'[u] = db[u]
    BY <1>1, <1>5 DEF Left
  <2>2. u \in w[p].todo \/ (u > w[p].last /\ Running(u) /\ db[u].wake <= w[p].asof)
    BY <1>1, <2>1 DEF Owing
  <2> QED
    BY <2>1, <2>2 DEF Left, Steady, Running
<1>6. Owing(p)'
  BY <1>2, <1>4, <1>5 DEF Owing
<1> QED
  BY <1>3, <1>6 DEF SoloInv, OneProcess

\* A worker goes on with its page; only a team on the page changed.
LEMMA MovedSolo ==
  ASSUME OneProcess, LInv, SoloInv, NEW p \in Workers, NEW pc, Moved(p, pc), Current(p)',
         \A u \in Teams : u \notin w[p].todo => db'[u] = db[u],
         pc \in {"idle", "page"} => w[p].todo = {},
         pc \in {"down", "idle"} \cup ResumePCs => w[p].owed = {}
  PROVE  SoloInv'
<1>1. Owing(p) /\ w[p].owed \subseteq Teams
  <2>1. w[p] \in Worker
    BY DEF LInv, TypeOK
  <2> QED
    BY <2>1 DEF SoloInv, Worker
<1>2. ASSUME NEW u \in w'[p].owed
      PROVE  u \in w'[p].todo \/ (u > w'[p].last /\ Running(u)' /\ db'[u].wake <= w'[p].asof)
  <2>1. u \in w[p].owed /\ u \in Teams /\ w'[p].todo = w[p].todo
    BY <1>1, <1>2 DEF Moved
  <2>2. CASE u \notin w[p].todo
    <3>1. u > w[p].last /\ Running(u) /\ db[u].wake <= w[p].asof /\ db'[u] = db[u]
      BY <1>1, <2>1, <2>2 DEF Owing
    <3> QED
      BY <3>1 DEF Moved, Steady, Running
  <2> QED
    BY <2>1, <2>2
<1>3. Owing(p)'
  BY <1>2 DEF Owing, Moved
<1> QED
  BY <1>3 DEF SoloInv, OneProcess

LEMMA ReadSolo ==
  ASSUME OneProcess, LInv, SoloInv, NEW p \in Workers, NEW t \in Teams, Read(p, t)
  PROVE  SoloInv'
<1>1. db' = db /\ IsCurrent(p, t) /\ Current(p) /\ Owing(p)
  BY DEF Read, SoloInv
<1>2. CASE Left(p, t)
  BY <1>1, <1>2, LeftSolo
<1>3. ASSUME NEW pc, Moved(p, pc) PROVE \A u \in Teams : IsCurrent(p, u)' => u = t
  BY <1>1, <1>3, HeadUnique DEF Moved
<1>4. db[t].sim \in Nat /\ w[p].asof \in Nat
  <2>1. w[p] \in Worker /\ db[t] \in TeamState
    BY DEF LInv, TypeOK
  <2> QED
    BY <2>1 DEF Worker, TeamState
<1>5. CASE w[p].pc = "resume" /\ Moved(p, "evidence") /\ w'[p].snap = db[t] /\ ~(db[t].sim >= w[p].asof)
  <2>1. Current(p)'
    BY <1>1, <1>3, <1>4, <1>5 DEF Current, Loaded, Crossing, Moved, Steady
  <2>2. w[p].owed = {}
    BY <1>1, <1>5 DEF Owing, ResumePCs
  <2> QED
    BY <1>1, <1>5, <2>1, <2>2, MovedSolo
<1>6. CASE w[p].pc = "crossload" /\ Moved(p, "cross") /\ w'[p].snap = db[t]
  <2>1. db[t].sim <= w[p].asof
    BY <1>1, <1>6 DEF Current, Crossing
  <2>2. Current(p)'
    BY <1>1, <1>3, <1>6, <2>1 DEF Current, Loaded, Crossing, Moved, Steady
  <2>3. w[p].owed = {}
    BY <1>1, <1>6 DEF Owing, ResumePCs
  <2> QED
    BY <1>1, <1>6, <2>2, <2>3, MovedSolo
<1>7. CASE w[p].pc = "load" /\ Moved(p, "tick") /\ w'[p].snap = db[t]
  <2>1. Current(p)'
    BY <1>1, <1>3, <1>7 DEF Current, Loaded, Crossing, Moved, Steady
  <2> QED
    BY <1>1, <1>7, <2>1, MovedSolo DEF ResumePCs
<1>8. ASSUME NEW pc \in {"load", "team"}, Moved(p, pc) PROVE SoloInv'
  <2>1. Current(p)'
    BY <1>8 DEF Current, Loaded, Crossing, Moved
  <2> QED
    BY <1>1, <1>8, <2>1, MovedSolo DEF ResumePCs
<1> QED
  BY <1>2, <1>5, <1>6, <1>7, <1>8 DEF Read

LEMMA CommitSolo ==
  ASSUME OneProcess, LInv, SoloInv, NEW p \in Workers, NEW t \in Teams,
         CommitEvidence(p, t) \/ CommitCross(p, t) \/ CommitSkip(p, t) \/ CommitTick(p, t)
  PROVE  SoloInv'
<1>1. IsCurrent(p, t) /\ Current(p) /\ Owing(p)
  BY EvidenceEffect, CrossEffect, SkipEffect, TickEffect DEF SoloInv
<1>2. CASE Left(p, t) /\ \A u \in Teams : u # t => db'[u] = db[u]
  BY <1>2, LeftSolo
<1>3. ASSUME NEW sim, NEW gaps, Wrote(p, t, sim, gaps)
      PROVE  /\ \A u \in Teams : u # t => db'[u] = db[u]
             /\ \A u \in Teams : u \notin w[p].todo => db'[u] = db[u]
  BY <1>1, <1>3 DEF Wrote, IsCurrent
<1>4. CASE CommitTick(p, t)
  <2>1. Moved(p, "after") /\ \E e, g : Wrote(p, t, e, g)
    BY <1>4, TickEffect
  <2>2. Current(p)'
    BY <2>1 DEF Current, Loaded, Crossing, Moved
  <2> QED
    BY <1>3, <2>1, <2>2, MovedSolo DEF ResumePCs
<1>5. CASE CommitSkip(p, t)
  <2>1. Left(p, t) /\ (db' = db \/ \E sim, g : Wrote(p, t, sim, g))
    BY <1>5, SkipEffect
  <2> QED
    BY <1>2, <1>3, <2>1
<1>6. CASE CommitEvidence(p, t) \/ CommitCross(p, t)
  <2>1. \/ db' = db /\ Left(p, t)
        \/ Moved(p, "crossload") /\ \E g : Wrote(p, t, db[t].sim, g)
    BY <1>6, EvidenceEffect, CrossEffect
  <2>2. CASE Moved(p, "crossload") /\ \E g : Wrote(p, t, db[t].sim, g)
    <3>1. w[p].pc \in {"evidence", "cross"}
      BY <1>6, EvidenceEffect, CrossEffect
    <3>2. db'[t].sim = db[t].sim /\ db[t].sim \in Nat /\ w[p].asof \in Nat
      BY <2>2 DEF Wrote
    <3>3. db[t].sim <= w[p].asof
      BY <1>1, <3>1, <3>2 DEF Current, Crossing
    <3>4. \A u \in Teams : IsCurrent(p, u)' => u = t
      BY <1>1, <2>2, HeadUnique DEF Moved
    <3>5. Current(p)'
      BY <2>2, <3>2, <3>3, <3>4 DEF Current, Loaded, Crossing, Moved, Steady
    <3>6. w[p].owed = {}
      BY <1>1, <3>1 DEF Owing, ResumePCs
    <3> QED
      BY <1>3, <2>2, <3>5, <3>6, MovedSolo
  <2> QED
    BY <1>2, <2>1, <2>2
<1> QED
  BY <1>4, <1>5, <1>6

\* The page query takes the due teams in order: a due team that is not on the
\* page comes after all of the page.
LEMMA PageOrder ==
  ASSUME LInv, NEW p \in Workers, NEW l \in Page(p),
         NEW t \in DueTeams(w[p].asof, w[p].last), t \notin Page(p)
  PROVE  t > l
<1> DEFINE due == DueTeams(w[p].asof, w[p].last)
           below(u) == {v \in due : v < u}
<1>1. due \subseteq Teams /\ l \in due /\ l \in Nat /\ t \in Nat
  BY TeamsAssumption DEF DueTeams, Page
<1>2. Cardinality(below(l)) < PageSize /\ ~(Cardinality(below(t)) < PageSize)
  BY DEF Page
<1> HIDE DEF due
<1>3. SUFFICES ASSUME ~(t > l) PROVE FALSE
  OBVIOUS
<1>4. below(t) \subseteq below(l)
  <2> SUFFICES ASSUME NEW v \in due, v < t PROVE v < l
    OBVIOUS
  <2>1. v \in Nat /\ t <= l
    BY <1>1, <1>3, TeamsAssumption
  <2> QED
    BY <1>1, <2>1
<1>5. IsFiniteSet(below(l))
  <2>1. below(l) \subseteq 0..l
    <3> SUFFICES ASSUME NEW v \in due, v < l PROVE v \in 0..l
      OBVIOUS
    <3>1. v \in Nat
      BY <1>1, TeamsAssumption
    <3> QED
      BY <1>1, <3>1
  <2>2. IsFiniteSet(0..l)
    BY <1>1, FS_Interval
  <2> QED
    BY <2>1, <2>2, FS_Subset
<1>6. Cardinality(below(t)) <= Cardinality(below(l)) /\ IsFiniteSet(below(t))
  BY <1>4, <1>5, FS_Subset
<1>7. Cardinality(below(t)) \in Nat /\ Cardinality(below(l)) \in Nat /\ PageSize \in Nat
  BY <1>5, <1>6, FS_CardinalityType, SchedulerAssumption
<1> QED
  BY <1>2, <1>6, <1>7

LEMMA FetchSolo ==
  ASSUME OneProcess, LInv, SoloInv, NEW p \in Workers, FetchPage(p)
  PROVE  SoloInv'
<1>1. db' = db /\ w[p].pc = "page" /\ Owing(p)
  BY DEF FetchPage, SoloInv
<1>2. w[p].todo = {} /\ w[p].owed \subseteq DueTeams(w[p].asof, w[p].last)
  <2>1. w[p].todo = {} /\ w[p] \in Worker
    BY <1>1 DEF Owing, LInv, TypeOK
  <2>2. w[p].owed \subseteq Teams
    BY <2>1 DEF Worker
  <2> QED
    BY <1>1, <2>1, <2>2 DEF Owing, DueTeams
<1>3. CASE DueTeams(w[p].asof, w[p].last) = {} /\ Moved(p, "idle")
  <2>1. Current(p)'
    BY <1>3 DEF Current, Loaded, Crossing, Moved
  <2> QED
    BY <1>1, <1>2, <1>3, <2>1, MovedSolo
<1>4. CASE /\ w'[p].pc = "team" /\ w'[p].asof = w[p].asof /\ w'[p].todo = Page(p)
           /\ w'[p].owed = w[p].owed /\ w'[p].last \in Page(p)
  <2>1. Current(p)'
    BY <1>4 DEF Current, Loaded, Crossing
  <2>2. ASSUME NEW u \in w'[p].owed
        PROVE  u \in w'[p].todo \/ (u > w'[p].last /\ Running(u)' /\ db'[u].wake <= w'[p].asof)
    <3>1. u \in DueTeams(w[p].asof, w[p].last)
      BY <1>2, <1>4, <2>2
    <3>2. u \notin Page(p) => u > w'[p].last
      BY <1>4, <3>1, PageOrder
    <3> QED
      BY <1>1, <1>4, <3>1, <3>2 DEF DueTeams, Running
  <2>3. Owing(p)'
    BY <1>4, <2>2 DEF Owing, ResumePCs
  <2> QED
    BY <2>1, <2>3 DEF SoloInv, OneProcess
<1> QED
  BY <1>3, <1>4, FetchEffect

LEMMA WorkSolo ==
  ASSUME OneProcess, LInv, SoloInv, NEW p \in Workers, Work(p)
  PROVE  SoloInv'
<1>1. ASSUME NEW t \in Teams, TeamAction(p, t) PROVE SoloInv'
  BY <1>1, TeamForms, ReadSolo, CommitSolo
<1>2. CASE StartProcess(p)
  <2>1. w'[p].pc = "resume" /\ w'[p].owed = {}
    BY <1>2, StartEffect
  <2>2. Current(p)' /\ Owing(p)'
    BY <2>1 DEF Current, Loaded, Crossing, Owing
  <2> QED
    BY <2>2 DEF SoloInv, OneProcess
<1>3. CASE ResumeDone(p)
  <2>1. db' = db /\ Moved(p, "idle") /\ w[p].todo = {} /\ w[p].owed = {}
    BY <1>3, GotoEffect DEF ResumeDone, SoloInv, Owing, ResumePCs
  <2>2. Current(p)'
    BY <2>1 DEF Current, Loaded, Crossing, Moved
  <2> QED
    BY <2>1, <2>2, MovedSolo
<1>4. CASE PageDone(p)
  <2>1. db' = db /\ Moved(p, "page") /\ w[p].todo = {}
    BY <1>4, GotoEffect DEF PageDone
  <2>2. Current(p)'
    BY <2>1 DEF Current, Loaded, Crossing, Moved
  <2> QED
    BY <2>1, <2>2, MovedSolo DEF ResumePCs
<1>5. CASE Poll(p)
  <2>1. db' = db /\ w[p].todo = {}
    BY <1>5 DEF Poll, SoloInv, Owing
  <2>2. /\ w'[p].pc = "page" /\ w'[p].asof = now /\ w'[p].todo = w[p].todo
        /\ w'[p].owed = DueTeams(now, 0) /\ w'[p].last = 0
    BY <1>5, PollEffect
  <2>3. Current(p)'
    BY <2>2 DEF Current, Loaded, Crossing
  <2>4. Owing(p)'
    BY <2>1, <2>2 DEF Owing, DueTeams, Running, ResumePCs
  <2> QED
    BY <2>3, <2>4 DEF SoloInv, OneProcess
<1> QED
  BY <1>1, <1>2, <1>3, <1>4, <1>5, FetchSolo DEF Work

LEMMA NextSolo ==
  ASSUME OneProcess, LInv, SoloInv, [Next]_vars
  PROVE  SoloInv'
<1>1. ASSUME NEW p \in Workers, Fault(p) PROVE SoloInv'
  <2>1. db' = db
    BY <1>1 DEF Fault
  <2>2. ASSUME NEW t \in Teams, Left(p, t) PROVE SoloInv'
    BY <2>1, <2>2, LeftSolo
  <2>3. CASE w[p].pc = "page" /\ w'[p].pc = "idle" /\ w'[p].todo = w[p].todo /\ w'[p].owed = {}
    <3>1. w[p].todo = {}
      BY <2>3 DEF SoloInv, Owing
    <3>2. Current(p)' /\ Owing(p)'
      BY <2>3, <3>1 DEF Current, Loaded, Crossing, Owing
    <3> QED
      BY <3>2 DEF SoloInv, OneProcess
  <2> QED
    BY <1>1, <2>2, <2>3, FaultEffect
<1>2. ASSUME NEW p \in Workers, Crash(p) PROVE SoloInv'
  <2>1. w'[p].pc = "down" /\ w'[p].todo = {} /\ w'[p].owed = {}
    BY <1>2, CrashEffect
  <2>2. Current(p)' /\ Owing(p)'
    BY <2>1 DEF Current, Loaded, Crossing, Owing
  <2> QED
    BY <2>2 DEF SoloInv, OneProcess
<1>3. ASSUME NEW t \in Teams, Bootstrap(t) PROVE SoloInv'
  <2>1. w' = w /\ ~Running(t) /\ \A u \in Teams : u # t => db'[u] = db[u]
    BY <1>3, BootstrapEffect
  <2> SUFFICES ASSUME NEW p \in Workers PROVE Current(p)' /\ Owing(p)'
    BY DEF SoloInv
  <2>2. Current(p) /\ Owing(p) /\ t \notin w[p].todo /\ w[p].owed \subseteq Teams
    <3>1. w[p] \in Worker
      BY DEF LInv, TypeOK
    <3> QED
      BY <2>1, <3>1 DEF SoloInv, LInv, TodoRunning, Worker
  <2>3. t \notin w[p].owed
    BY <2>1, <2>2 DEF Owing
  <2>4. Current(p)'
    BY <2>1, <2>2 DEF Current, Loaded, Crossing, IsCurrent
  <2>5. Owing(p)'
    BY <2>1, <2>2, <2>3 DEF Owing, Running
  <2> QED
    BY <2>4, <2>5
<1>4. CASE Clock \/ UNCHANGED vars
  <2>1. w' = w /\ db' = db
    BY <1>4 DEF Clock, vars
  <2> QED
    BY <2>1 DEF SoloInv, Current, Owing, Loaded, Crossing, IsCurrent, Running
<1> QED
  BY <1>1, <1>2, <1>3, <1>4, WorkSolo DEF Next

LEMMA SoloInvariant ==
  ASSUME OneProcess PROVE Spec => []SoloInv
<1>1. Init => SoloInv
  <2> SUFFICES ASSUME Init PROVE SoloInv
    OBVIOUS
  <2>1. \A p \in Workers : w[p].pc = "down" /\ w[p].todo = {} /\ w[p].owed = {}
    BY DEF Init, NoWork
  <2> QED
    BY <2>1 DEF SoloInv, Current, Owing, Loaded, Crossing
<1>2. LInv /\ SoloInv /\ [Next]_vars => SoloInv'
  BY NextSolo
<1> QED
  BY <1>1, <1>2, Invariant, PTL DEF Spec

\* With one process, a poll that has ended has attempted every team that was
\* due when it began, although teams it ticks move their wake-ups, new teams
\* start and operations fail meanwhile (LiveScheduler._drain_due_pages pages
\* by team id, due_team_store.due_team_ids orders and limits).
THEOREM NobodyOverlooked ==
  ASSUME OneProcess PROVE Spec => []NoTeamOverlooked
<1>1. SoloInv => NoTeamOverlooked
  BY DEF SoloInv, Owing, NoTeamOverlooked
<1> QED
  BY <1>1, SoloInvariant, PTL
-----------------------------------------------------------------------------
(* One process whose resumption fails for no team: downtime is no work.    *)

CreditInv == ResumedInv /\ NoDowntimeCredit

\* A step while the process lives: a team that becomes resumed has its cursor
\* after the restart, and a cursor that moves moves on.
LEMMA CreditStep ==
  ASSUME OneProcess, LInv, LInv', CreditInv, NEW p \in Workers, down' = down, NoDowntimeCredit',
         w[p].pc # "down", w'[p].asof = w[p].asof,
         \A t \in Teams : Running(t)' /\ Resumed(p, t)' =>
           \/ Running(t) /\ Resumed(p, t) /\ db[t].sim <= db'[t].sim
           \/ w[p].asof <= db'[t].sim
  PROVE  CreditInv'
<1>1. \A k \in down : k \in Nat /\ k < w[p].asof
  BY DEF CreditInv, ResumedInv, LInv, TypeOK
<1>2. w[p].asof \in Nat /\ \A t \in Teams : db[t].sim \in Nat /\ db'[t].sim \in Nat
  <2>1. w[p] \in Worker /\ \A t \in Teams : db[t] \in TeamState /\ db'[t] \in TeamState
    BY DEF LInv, TypeOK
  <2> QED
    BY <2>1 DEF Worker, TeamState
<1>3. ASSUME NEW t \in Teams, Running(t)', Resumed(p, t)', NEW k \in down
      PROVE  k < db'[t].sim
  <2>1. CASE Running(t) /\ Resumed(p, t) /\ db[t].sim <= db'[t].sim
    <3>1. k < db[t].sim
      BY <2>1 DEF CreditInv, ResumedInv
    <3> QED
      BY <1>1, <1>2, <2>1, <3>1
  <2>2. CASE w[p].asof <= db'[t].sim
    BY <1>1, <1>2, <2>2
  <2> QED
    BY <1>3, <2>1, <2>2
<1> QED
  BY <1>1, <1>3 DEF CreditInv, ResumedInv, OneProcess

LEMMA TeamCredit ==
  ASSUME OneProcess, LInv, LInv', SoloInv, CreditInv, NEW p \in Workers, NEW t \in Teams, TeamAction(p, t)
  PROVE  CreditInv'
<1>1. \A u \in Teams : db[u].sim \in Nat /\ w[p].asof \in Nat
  <2>1. w[p] \in Worker /\ \A u \in Teams : db[u] \in TeamState
    BY DEF LInv, TypeOK
  <2> QED
    BY <2>1 DEF Worker, TeamState
<1>2. IsCurrent(p, t) /\ Current(p) /\ Running(t)
  <2>1. IsCurrent(p, t)
    BY TeamForms, EvidenceEffect, CrossEffect, SkipEffect, TickEffect DEF Read
  <2> QED
    BY <2>1 DEF SoloInv, LInv, TodoRunning, IsCurrent
<1>3. w[p].pc \in LoadedPCs => Fresh(p, t)
  <2>1. Loaded(p, t) => w[p].snap = db[t]
    BY <1>2 DEF Current
  <2> QED
    BY <1>2, <2>1 DEF Loaded, LoadedPCs, Fresh
<1>4. CASE Read(p, t)
  <2>1. db' = db /\ worked' = worked /\ down' = down /\ w'[p].asof = w[p].asof
    BY <1>4 DEF Read, unobserved, Left, Moved, Steady
  <2>2. w[p].pc # "down" /\ NoDowntimeCredit'
    <3>1. w[p].pc # "down"
      <4>1. w[p].pc = "down" => Left(p, t) /\ w[p].pc \notin ResumePCs
        BY <1>4 DEF Read, ResumePCs
      <4> QED
        BY <1>2 DEF TeamAction, ResumeLoad, CommitEvidence, CrossLoad, CommitCross, CommitSkip,
                    LoadBefore, LoadTick, CommitTick, TickRaises, TickStale, After
    <3> QED
      BY <2>1, <3>1 DEF CreditInv, NoDowntimeCredit
  <2>3. ASSUME NEW u \in Teams, Running(u)', Resumed(p, u)'
        PROVE  \/ Running(u) /\ Resumed(p, u) /\ db[u].sim <= db'[u].sim
               \/ w[p].asof <= db'[u].sim
    <3>1. Running(u) /\ db'[u].sim = db[u].sim /\ db[u].sim \in Nat
      BY <1>1, <2>1, <2>3 DEF Running
    <3>2. CASE Left(p, t) /\ (w[p].pc \in ResumePCs => w[p].pc = "resume" /\ db[t].sim >= w[p].asof)
      <4>1. CASE w[p].pc \notin ResumePCs
        BY <2>2, <3>1, <4>1 DEF Resumed
      <4>2. CASE w[p].pc \in ResumePCs /\ u = t
        BY <1>1, <3>1, <3>2, <4>2
      <4>3. CASE w[p].pc \in ResumePCs /\ u # t
        BY <2>2, <2>3, <3>1, <3>2, <4>3 DEF Resumed, Left, ResumePCs
      <4> QED
        BY <4>1, <4>2, <4>3
    <3>3. ASSUME NEW pc, Moved(p, pc), w[p].pc \in ResumePCs => pc \in ResumePCs
          PROVE  Resumed(p, u)
      BY <2>2, <2>3, <3>3 DEF Resumed, Moved
    <3> QED
      BY <1>4, <3>1, <3>2, <3>3 DEF Read, ResumePCs
  <2> QED
    BY <2>1, <2>2, <2>3, CreditStep
<1>5. CASE CommitEvidence(p, t) \/ CommitCross(p, t)
  <2>1. /\ UNCHANGED <<worked, unobserved>> /\ w[p].pc \in {"evidence", "cross"}
        /\ Moved(p, "crossload") /\ \E g : Wrote(p, t, db[t].sim, g)
    BY <1>3, <1>5, EvidenceEffect, CrossEffect DEF LoadedPCs
  <2>2. NoDowntimeCredit' /\ down' = down
    BY <2>1 DEF CreditInv, NoDowntimeCredit, unobserved
  <2>3. ASSUME NEW u \in Teams, Running(u)', Resumed(p, u)'
        PROVE  Running(u) /\ Resumed(p, u) /\ db[u].sim <= db'[u].sim
    BY <1>1, <1>2, <2>1, <2>3 DEF Resumed, Moved, ResumePCs, Wrote, Running
  <2> QED
    BY <2>1, <2>2, <2>3, CreditStep DEF Moved, Steady
<1>6. CASE CommitSkip(p, t)
  <2>1. /\ UNCHANGED <<worked, unobserved>> /\ w[p].pc = "cross" /\ Left(p, t)
        /\ Wrote(p, t, w[p].asof, db[t].gaps)
    BY <1>3, <1>6, SkipEffect DEF LoadedPCs
  <2>2. NoDowntimeCredit' /\ down' = down
    BY <2>1 DEF CreditInv, NoDowntimeCredit, unobserved
  <2>3. ASSUME NEW u \in Teams, Running(u)', Resumed(p, u)'
        PROVE  \/ Running(u) /\ Resumed(p, u) /\ db[u].sim <= db'[u].sim
               \/ w[p].asof <= db'[u].sim
    <3>1. CASE u = t
      BY <1>1, <2>1, <3>1 DEF Wrote
    <3>2. CASE u # t
      BY <1>1, <2>1, <2>3, <3>2 DEF Resumed, Left, ResumePCs, Wrote, Running
    <3> QED
      BY <3>1, <3>2
  <2> QED
    BY <2>1, <2>2, <2>3, CreditStep DEF Left, Steady
<1>7. CASE CommitTick(p, t)
  <2>1. /\ UNCHANGED unobserved /\ w[p].pc = "tick" /\ Moved(p, "after")
        /\ \A u \in Teams : u # t => worked'[u] = worked[u]
    BY <1>7, TickEffect
  <2>2. PICK e \in db[t].sim..w[p].asof :
          Wrote(p, t, e, db[t].gaps) /\ worked'[t] = worked[t] \cup (db[t].sim..(e - 1))
    BY <1>7, TickEffect
  <2>3. \A k \in down : k < db[t].sim /\ k \in Nat
    BY <1>2, <2>1 DEF CreditInv, ResumedInv, Resumed, ResumePCs, LInv, TypeOK
  <2>4. worked'[t] \cap down = {}
    <3>1. worked[t] \cap down = {}
      BY DEF CreditInv, NoDowntimeCredit
    <3>2. \A k \in db[t].sim..(e - 1) : k \notin down
      BY <1>1, <2>3
    <3> QED
      BY <2>2, <3>1, <3>2
  <2>5. NoDowntimeCredit' /\ down' = down
    BY <2>1, <2>4 DEF CreditInv, NoDowntimeCredit, unobserved
  <2>6. ASSUME NEW u \in Teams, Running(u)', Resumed(p, u)'
        PROVE  Running(u) /\ Resumed(p, u) /\ db[u].sim <= db'[u].sim
    <3>1. Resumed(p, u)
      BY <2>1 DEF Resumed, ResumePCs
    <3>2. CASE u = t
      BY <1>1, <1>2, <2>2, <3>1, <3>2 DEF Wrote
    <3>3. CASE u # t
      BY <1>1, <2>2, <2>6, <3>1, <3>3 DEF Wrote, Running
    <3> QED
      BY <3>2, <3>3
  <2> QED
    BY <2>1, <2>5, <2>6, CreditStep DEF Moved, Steady
<1> QED
  BY <1>4, <1>5, <1>6, <1>7, TeamForms

LEMMA WorkCredit ==
  ASSUME OneProcess, LInv, LInv', SoloInv, PastInv, CreditInv, NEW p \in Workers, Work(p)
  PROVE  CreditInv'
<1>1. ASSUME UNCHANGED <<db, worked, unobserved>> PROVE NoDowntimeCredit' /\ down' = down
  BY <1>1 DEF CreditInv, NoDowntimeCredit, unobserved
<1>2. CASE StartProcess(p)
  <2>1. /\ UNCHANGED <<db, worked, unobserved>> /\ w'[p].pc = "resume" /\ w'[p].asof = now
        /\ w'[p].todo = {t \in Teams : Running(t)}
    BY <1>2, StartEffect DEF StartProcess
  <2>2. \A t \in Teams : Running(t)' => ~Resumed(p, t)'
    BY <2>1 DEF Resumed, ResumePCs, Running
  <2>3. \A k \in down : k < now
    BY DEF PastInv
  <2> QED
    BY <1>1, <2>1, <2>2, <2>3 DEF CreditInv, ResumedInv, OneProcess
<1>3. CASE Poll(p)
  <2>1. UNCHANGED <<db, worked, unobserved>> /\ w[p].pc = "idle" /\ w'[p].asof = now
    BY <1>3, PollEffect DEF Poll
  <2>2. \A k \in down : k < now
    BY DEF PastInv
  <2>3. \A t \in Teams : Running(t)' => \A k \in down : k < db'[t].sim
    BY <2>1 DEF CreditInv, ResumedInv, Resumed, ResumePCs, Running
  <2> QED
    BY <1>1, <2>1, <2>2, <2>3 DEF CreditInv, ResumedInv, OneProcess
<1>4. CASE ResumeDone(p) \/ PageDone(p) \/ FetchPage(p)
  <2>1. UNCHANGED <<db, worked, unobserved>> /\ w[p].pc # "down"
    BY <1>4 DEF ResumeDone, PageDone, FetchPage
  <2>2. w'[p].asof = w[p].asof
    <3>1. CASE ResumeDone(p) \/ PageDone(p)
      BY <3>1, GotoEffect DEF ResumeDone, PageDone, Moved, Steady
    <3>2. CASE FetchPage(p)
      BY <3>2, FetchEffect DEF Moved, Steady
    <3> QED
      BY <1>4, <3>1, <3>2
  <2>3. \A t \in Teams : Running(t)' => Running(t) /\ Resumed(p, t) /\ db[t].sim <= db'[t].sim
    <3>1. \A t \in Teams : Resumed(p, t)
      BY <1>4 DEF ResumeDone, PageDone, FetchPage, Resumed, ResumePCs
    <3>2. \A t \in Teams : db[t].sim \in Nat
      BY DEF LInv, TypeOK, TeamState
    <3> QED
      BY <2>1, <3>1, <3>2 DEF Running
  <2> QED
    BY <1>1, <2>1, <2>2, <2>3, CreditStep
<1> QED
  BY <1>2, <1>3, <1>4, TeamCredit DEF Work

LEMMA NextCredit ==
  ASSUME OneProcess, ResumeFaults = FALSE, LInv, LInv', SoloInv, PastInv, CreditInv, [Next]_vars
  PROVE  CreditInv'
<1>1. ASSUME NEW p \in Workers, Fault(p) PROVE CreditInv'
  <2>1. UNCHANGED <<db, worked, down>>
    BY <1>1 DEF Fault
  <2>2. NoDowntimeCredit'
    BY <2>1 DEF CreditInv, NoDowntimeCredit
  <2>3. w'[p].asof = w[p].asof /\ w[p].pc \in {"page", "team", "load", "tick", "after"}
    BY <1>1, FaultEffect DEF Left, Steady
  <2>4. \A t \in Teams : Running(t)' => Running(t) /\ Resumed(p, t) /\ db[t].sim <= db'[t].sim
    <3>1. \A t \in Teams : db[t].sim \in Nat
      BY DEF LInv, TypeOK, TeamState
    <3> QED
      BY <2>1, <2>3, <3>1 DEF Running, Resumed, ResumePCs
  <2> QED
    BY <2>1, <2>2, <2>3, <2>4, CreditStep
<1>2. ASSUME NEW p \in Workers, Crash(p) PROVE CreditInv'
  <2>1. UNCHANGED <<db, worked, down>> /\ w'[p].pc = "down"
    BY <1>2, CrashEffect DEF Crash
  <2> QED
    BY <2>1 DEF CreditInv, NoDowntimeCredit, ResumedInv, Resumed, OneProcess
<1>3. ASSUME NEW t \in Teams, Bootstrap(t) PROVE CreditInv'
  <2>1. /\ UNCHANGED <<now, w, down, worked>> /\ db'[t].sim = now
        /\ \A u \in Teams : u # t => db'[u] = db[u]
    BY <1>3, BootstrapEffect
  <2>2. NoDowntimeCredit'
    BY <2>1 DEF CreditInv, NoDowntimeCredit
  <2>3. \A p \in Workers, u \in Teams : Resumed(p, u)' = Resumed(p, u)
    BY <2>1 DEF Resumed
  <2>4. ASSUME NEW p \in Workers, NEW u \in Teams, Running(u)', Resumed(p, u)', NEW k \in down
        PROVE  k < db'[u].sim
    <3>1. CASE u = t
      BY <2>1, <3>1 DEF PastInv
    <3>2. CASE u # t
      BY <2>1, <2>3, <2>4, <3>2 DEF CreditInv, ResumedInv, Running
    <3> QED
      BY <3>1, <3>2
  <2> QED
    BY <2>1, <2>2, <2>4 DEF CreditInv, ResumedInv
<1>4. CASE Clock
  <2>1. UNCHANGED <<w, db, worked>> /\ now \in Nat
    BY <1>4 DEF Clock, LInv, TypeOK
  <2>2. down' \subseteq down \cup {now}
    BY <1>4 DEF Clock
  <2>3. NoDowntimeCredit'
    <3>1. ASSUME NEW t \in Teams, NEW k \in worked[t] PROVE k \notin down \cup {now}
      <4>1. k < now /\ k \in Nat
        BY DEF PastInv, LInv, TypeOK
      <4> QED
        BY <2>1, <4>1 DEF CreditInv, NoDowntimeCredit
    <3> QED
      BY <2>1, <2>2, <3>1 DEF NoDowntimeCredit
  <2>4. ASSUME NEW p \in Workers, w[p].pc # "down" PROVE down' = down
    BY <1>4, <2>4 DEF Clock
  <2>5. ResumedInv'
    BY <2>1, <2>4 DEF CreditInv, ResumedInv, Resumed, Running
  <2> QED
    BY <2>3, <2>5 DEF CreditInv
<1>5. CASE UNCHANGED vars
  BY <1>5 DEF vars, CreditInv, ResumedInv, NoDowntimeCredit, Resumed, Running
<1> QED
  BY <1>1, <1>2, <1>3, <1>4, <1>5, WorkCredit DEF Next

LEMMA PastInvariant == Spec => []PastInv
<1>1. Init => PastInv
  BY DEF Init, PastInv, NoWork
<1>2. LInv /\ PastInv /\ [Next]_vars => PastInv'
  BY NextPast
<1> QED
  BY <1>1, <1>2, Invariant, PTL DEF Spec

\* With one process whose resumption raises for no team, no tick ever
\* simulates a slot in which no process was running: the crashes and the
\* time until each restart never turn into work (LiveScheduler._resume).  The
\* run downtime_credit shows that the second hypothesis is needed.
THEOREM DowntimeNotCredited ==
  ASSUME OneProcess, ResumeFaults = FALSE PROVE Spec => []NoDowntimeCredit
<1>1. Init => CreditInv
  <2> SUFFICES ASSUME Init PROVE CreditInv
    OBVIOUS
  <2>1. \A p \in Workers : w[p].pc = "down"
    BY DEF Init, NoWork
  <2> QED
    BY <2>1 DEF Init, CreditInv, ResumedInv, NoDowntimeCredit, Resumed
<1>2. LInv /\ LInv' /\ SoloInv /\ PastInv /\ CreditInv /\ [Next]_vars => CreditInv'
  BY NextCredit
<1>3. CreditInv => NoDowntimeCredit
  BY DEF CreditInv
<1> QED
  BY <1>1, <1>2, <1>3, Invariant, SoloInvariant, PastInvariant, PTL DEF Spec
-----------------------------------------------------------------------------
(* One process: the scheduler implements TeamTimeline.                     *)

\* The functions on a team's state mean the same on both levels.
LEMMA SameBoundaries ==
  /\ \A s, a : Timeline!PlannedAt(s, a) = PlannedAt(s, a) /\ Timeline!EndingAt(s, a) = EndingAt(s, a)
  /\ \A s, a : Timeline!HasBoundaryAt(s, a) = HasBoundaryAt(s, a)
  /\ \A s, a : Timeline!PendingBoundaries(s, a) = PendingBoundaries(s, a)
<1>1. \A s, a : Timeline!PlannedAt(s, a) = PlannedAt(s, a) /\ Timeline!EndingAt(s, a) = EndingAt(s, a)
  BY DEF Timeline!PlannedAt, PlannedAt, Timeline!EndingAt, EndingAt, Timeline!Ordinals, Ordinals
<1>2. \A s, a : Timeline!HasBoundaryAt(s, a) = HasBoundaryAt(s, a)
  BY <1>1, Zenon DEF Timeline!HasBoundaryAt, HasBoundaryAt
<1> QED
  BY <1>1, <1>2 DEF Timeline!PendingBoundaries, PendingBoundaries

LEMMA SameCrossing ==
  \A s, at, g : Timeline!CrossSprintBoundary(s, at, g) = CrossSprintBoundary(s, at, g)
<1>1. \A s, o, at, g : Timeline!ActivatePlannedSprint(s, o, at, g) = ActivatePlannedSprint(s, o, at, g)
  BY DEF Timeline!RankedSelection, RankedSelection, Timeline!UsedBefore, UsedBefore,
     Timeline!SumFunctionOnSet, SumFunctionOnSet, Timeline!FoldFunctionOnSet, FoldFunctionOnSet,
     Timeline!MapThenFoldSet, MapThenFoldSet,
     Timeline!ActivatePlannedSprint, ActivatePlannedSprint, Timeline!WithSprints, WithSprints,
     Timeline!ActivateItems, ActivateItems, Timeline!StartChain, StartChain, Timeline!IntentsFor, IntentsFor
<1>2. \A s, o, at, g : Timeline!RollActiveSprint(s, o, at, g) = RollActiveSprint(s, o, at, g)
  BY DEF Timeline!RankedSelection, RankedSelection, Timeline!UsedBefore, UsedBefore,
     Timeline!SumFunctionOnSet, SumFunctionOnSet, Timeline!FoldFunctionOnSet, FoldFunctionOnSet,
     Timeline!MapThenFoldSet, MapThenFoldSet,
     Timeline!RollActiveSprint, RollActiveSprint, Timeline!WithSprints, WithSprints,
     Timeline!ActivateItems, ActivateItems, Timeline!StartChain, StartChain, Timeline!IntentsFor, IntentsFor,
     Timeline!CarryoverIds, CarryoverIds, Timeline!ItemsIn, ItemsIn
<1>3. \A s, a : Timeline!PlannedAt(s, a) = PlannedAt(s, a) /\ Timeline!EndingAt(s, a) = EndingAt(s, a)
  BY SameBoundaries
<1> QED
  BY <1>1, <1>2 DEF Timeline!CrossSprintBoundary, CrossSprintBoundary, Timeline!PlannedAt, PlannedAt,
     Timeline!EndingAt, EndingAt, Timeline!Ordinals, Ordinals

LEMMA SameBootstrap ==
  /\ \A o, a : Timeline!ContainingOrdinal(o, a) = ContainingOrdinal(o, a)
  /\ \A s, a, o, g : Timeline!EnsureBootstrapped(s, a, o, g) = EnsureBootstrapped(s, a, o, g)
<1>1. \A o, a : Timeline!ContainingOrdinal(o, a) = ContainingOrdinal(o, a)
  BY DEF Timeline!ContainingOrdinal, ContainingOrdinal
<1>2. \A s, a, o, g : Timeline!EnsureBootstrapped(s, a, o, g) = EnsureBootstrapped(s, a, o, g)
  BY DEF Timeline!RankedSelection, RankedSelection, Timeline!UsedBefore, UsedBefore,
     Timeline!SumFunctionOnSet, SumFunctionOnSet, Timeline!FoldFunctionOnSet, FoldFunctionOnSet,
     Timeline!MapThenFoldSet, MapThenFoldSet,
     Timeline!EnsureBootstrapped, EnsureBootstrapped, Timeline!PlannedStart, PlannedStart,
     Timeline!ActiveStart, ActiveStart, Timeline!WithSprints, WithSprints, Timeline!Started, Started,
     Timeline!ActivateItems, ActivateItems, Timeline!StartChain, StartChain, Timeline!IntentsFor, IntentsFor,
     Timeline!FirstWake, FirstWake, Timeline!NoTime, NoTime
<1> QED
  BY <1>1, <1>2

LEMMA SameTick ==
  /\ \A s, a, X, W, e, C, V : Timeline!TickAllowed(s, a, X, W, e, C, V) = TickAllowed(s, a, X, W, e, C, V)
  /\ \A s, X, W, e, C, V : Timeline!TickResult(s, X, W, e, C, V) = TickResult(s, X, W, e, C, V)
<1>1. \A s, X, W : Timeline!AfterCancel(s, X, W) = AfterCancel(s, X, W)
  BY DEF Timeline!AfterCancel, AfterCancel, Timeline!AtReview, AtReview
<1>2. \A s : Timeline!AfterRejection(s) = AfterRejection(s)
  BY DEF Timeline!AfterRejection, AfterRejection, Timeline!Rejected, Rejected
<1>3. \A s, X, W : Timeline!AfterRisks(s, X, W) = AfterRisks(s, X, W)
  BY <1>1, <1>2 DEF Timeline!AfterRisks, AfterRisks
<1>4. \A s, e, C, V : Timeline!AdvanceVisits(s, e, C, V) = AdvanceVisits(s, e, C, V)
  BY DEF Timeline!AdvanceVisits, AdvanceVisits, Timeline!AtReview, AtReview
<1>5. \A s, a : Timeline!SliceLimits(s, a) = SliceLimits(s, a)
  BY DEF Timeline!SliceLimits, SliceLimits, Timeline!Ordinals, Ordinals, Timeline!ItemsIn, ItemsIn
<1>6. \A s, X, W, e : Timeline!CancelAllowed(s, X, W, e) = CancelAllowed(s, X, W, e)
  BY DEF Timeline!CancelAllowed, CancelAllowed, Timeline!ItemsIn, ItemsIn, Timeline!AtReview, AtReview
<1>7. \A s : Timeline!Rejected(s) = Rejected(s) /\ Timeline!AtReview(s) = AtReview(s)
  BY DEF Timeline!Rejected, Rejected, Timeline!AtReview, AtReview
<1>8. \A s : Timeline!RejectionConflict(s) = RejectionConflict(s)
  BY DEF Timeline!RejectionConflict, RejectionConflict, Timeline!Rejected, Rejected, Timeline!ItemsIn, ItemsIn
<1>9. \A s, l : Timeline!ItemsIn(s, l) = ItemsIn(s, l)
  BY DEF Timeline!ItemsIn, ItemsIn
<1>10. \A s, X, W, e, C, V : Timeline!TickResult(s, X, W, e, C, V) = TickResult(s, X, W, e, C, V)
  BY <1>3, <1>4 DEF Timeline!TickResult, TickResult
<1>11. ASSUME NEW s, NEW a, NEW X, NEW W, NEW e, NEW C, NEW V
       PROVE  Timeline!TickAllowed(s, a, X, W, e, C, V) = TickAllowed(s, a, X, W, e, C, V)
  <2>1. Timeline!HasBoundaryAt(s, s.sim) = HasBoundaryAt(s, s.sim)
    BY SameBoundaries
  <2> QED
    BY <1>1, <1>3, <1>5, <1>6, <1>7, <1>8, <1>9, <2>1 DEF Timeline!TickAllowed, TickAllowed
<1> QED
  BY <1>10, <1>11

\* The bound on versions that TeamTimeline's steps observe.
VersionsBounded == \A t \in Teams : db[t].version < MaxVersion

\* A commit of the only process is a commit of the timeline.
LEMMA StoreCommits ==
  ASSUME NEW p \in Workers, NEW t \in Teams, VersionsBounded, w[p].snap = db[t],
         now' = now, NEW n, Store(p, t, n)
  PROVE  Timeline!Commit(t, n)
BY DEF VersionsBounded, Store, Timeline!Commit

LEMMA CommitRefines ==
  ASSUME LInv, PastInv, SoloInv, VersionsBounded, NEW p \in Workers, NEW t \in Teams,
         CommitEvidence(p, t) \/ CommitCross(p, t) \/ CommitSkip(p, t) \/ CommitTick(p, t)
  PROVE  Timeline!TeamStep(t)
<1> DEFINE s == w[p].snap
<1>1. /\ IsCurrent(p, t) /\ w[p].pc \in LoadedPCs /\ now' = now
      /\ CommitTick(p, t) \/ w[p].pc = "evidence" \/ w[p].pc = "cross"
  BY DEF CommitEvidence, CommitCross, CommitSkip, CommitTick, LoadedPCs, unobserved
<1>2. /\ s = db[t] /\ Fresh(p, t) /\ Timeline!Running(t) /\ Current(p)
      /\ db[t].sim \in Time /\ w[p].asof \in Time /\ now \in Time /\ w[p].asof <= now
  <2>1. s = db[t] /\ Current(p)
    BY <1>1 DEF SoloInv, Current, Loaded, LoadedPCs
  <2>2. Fresh(p, t)
    BY <2>1 DEF Fresh
  <2>3. s.sim \in Time /\ w[p].asof \in Time /\ s.state = "RUNNING"
    BY <1>1, <2>2, LoadedFacts
  <2> QED
    BY <2>1, <2>2, <2>3 DEF Timeline!Running, PastInv, LInv, TypeOK
<1>3. CASE CommitEvidence(p, t)
  <2>1. Store(p, t, [s EXCEPT !.gaps = @ \cup {<<s.sim, w[p].asof>>}])
    BY <1>2, <1>3 DEF CommitEvidence
  <2>2. Timeline!Commit(t, [db[t] EXCEPT !.gaps = @ \cup {<<db[t].sim, w[p].asof>>}])
    BY <1>1, <1>2, <2>1, StoreCommits
  <2>3. db[t].sim < w[p].asof
    BY <1>1, <1>2, <1>3 DEF Current, CommitEvidence
  <2>4. w[p].asof \in db[t].sim..now
    BY <1>2, <2>3
  <2> QED
    BY <1>2, <2>2, <2>3, <2>4 DEF Timeline!Evidence, Timeline!TeamStep
<1>4. CASE CommitCross(p, t) \/ CommitSkip(p, t)
  <2>1. db[t].sim <= w[p].asof
    BY <1>1, <1>2, <1>4 DEF Current, Crossing, CommitCross, CommitSkip
  <2>2. w[p].asof \in db[t].sim..now
    BY <1>2, <2>1
  <2>3. CASE CommitSkip(p, t)
    <3>1. Store(p, t, [s EXCEPT !.sim = w[p].asof, !.wake = w[p].asof])
      BY <1>2, <2>3 DEF CommitSkip
    <3>2. Timeline!Commit(t, [db[t] EXCEPT !.sim = w[p].asof, !.wake = w[p].asof])
      BY <1>1, <1>2, <3>1, StoreCommits
    <3>3. Timeline!PendingBoundaries(db[t], w[p].asof) = {}
      BY <1>2, <2>3, SameBoundaries DEF CommitSkip
    <3> QED
      BY <1>2, <2>2, <3>2, <3>3 DEF Timeline!SkipDowntime, Timeline!TeamStep
  <2>4. CASE CommitCross(p, t)
    <3> DEFINE due == PendingBoundaries(db[t], w[p].asof)
    <3>1. PICK at \in due, target \in Targets :
            (\A b \in due : at <= b) /\ Store(p, t, CrossSprintBoundary(db[t], at, target))
      BY <1>2, <2>4 DEF CommitCross
    <3>2. Timeline!Commit(t, CrossSprintBoundary(db[t], at, target))
      BY <1>1, <1>2, <3>1, StoreCommits
    <3>3. due = Timeline!PendingBoundaries(db[t], w[p].asof) /\ target \in Timeline!Targets
      BY SameBoundaries DEF Targets, Timeline!Targets
    <3> HIDE DEF due
    <3>4. Timeline!Commit(t, Timeline!CrossSprintBoundary(db[t], at, target))
      BY <3>2, SameCrossing
    <3> QED
      BY <1>2, <2>2, <3>1, <3>3, <3>4 DEF Timeline!CrossInDowntime, Timeline!TeamStep
  <2> QED
    BY <1>4, <2>3, <2>4
<1>5. CASE CommitTick(p, t)
  <2>1. CASE /\ HasBoundaryAt(s, s.sim)
             /\ \E target \in Targets :
                  Store(p, t, [CrossSprintBoundary(s, s.sim, target) EXCEPT !.wake = s.sim])
    <3>1. PICK target \in Targets :
            Store(p, t, [CrossSprintBoundary(db[t], db[t].sim, target) EXCEPT !.wake = db[t].sim])
      BY <1>2, <2>1
    <3>2. Timeline!Commit(t, [CrossSprintBoundary(db[t], db[t].sim, target) EXCEPT !.wake = db[t].sim])
      BY <1>1, <1>2, <3>1, StoreCommits
    <3>3. Timeline!HasBoundaryAt(db[t], db[t].sim) /\ target \in Timeline!Targets
      BY <1>2, <2>1, SameBoundaries DEF Targets, Timeline!Targets
    <3>4. Timeline!Commit(t, [Timeline!CrossSprintBoundary(db[t], db[t].sim, target) EXCEPT !.wake = db[t].sim])
      BY <3>2, SameCrossing
    <3> QED
      BY <1>2, <3>3, <3>4 DEF Timeline!TickBoundary, Timeline!TeamStep
  <2>2. CASE \E e \in s.sim..w[p].asof, X, C \in SUBSET Items :
             \E W \in SUBSET X, V \in SUBSET C :
               /\ TickAllowed(s, w[p].asof, X, W, e, C, V)
               /\ Store(p, t, TickResult(s, X, W, e, C, V))
    <3>1. PICK e \in db[t].sim..w[p].asof, X \in SUBSET Items, C \in SUBSET Items :
            \E W \in SUBSET X, V \in SUBSET C :
              /\ TickAllowed(db[t], w[p].asof, X, W, e, C, V)
              /\ Store(p, t, TickResult(db[t], X, W, e, C, V))
      BY <1>2, <2>2
    <3>2. PICK W \in SUBSET X, V \in SUBSET C :
              /\ TickAllowed(db[t], w[p].asof, X, W, e, C, V)
              /\ Store(p, t, TickResult(db[t], X, W, e, C, V))
      BY <3>1
    <3>3. Timeline!Commit(t, TickResult(db[t], X, W, e, C, V))
      BY <1>1, <1>2, <3>2, StoreCommits
    <3>4. /\ Timeline!Commit(t, Timeline!TickResult(db[t], X, W, e, C, V))
          /\ Timeline!TickAllowed(db[t], w[p].asof, X, W, e, C, V)
      BY <3>2, <3>3, SameTick
    <3>5. w[p].asof \in db[t].sim..now
      BY <1>2, <3>1
    <3> HIDE DEF s
    <3> QED
      BY <1>2, <3>4, <3>5 DEF Timeline!TickSlice, Timeline!TeamStep
  <2> QED
    BY <1>5, <2>1, <2>2 DEF CommitTick
<1> QED
  BY <1>3, <1>4, <1>5

LEMMA StepRefines ==
  ASSUME LInv, PastInv, SoloInv, VersionsBounded, [Next]_vars
  PROVE  [Timeline!Next]_(Timeline!vars)
<1>1. ASSUME NEW p \in Workers, Work(p) \/ Fault(p) \/ Crash(p)
      PROVE  UNCHANGED <<now, db>> \/ \E t \in Teams : Timeline!TeamStep(t)
  <2>1. ASSUME NEW t \in Teams, TeamAction(p, t)
        PROVE  UNCHANGED <<now, db>> \/ Timeline!TeamStep(t)
    BY <2>1, TeamForms, CommitRefines DEF Read, unobserved
  <2> QED
    BY <1>1, <2>1 DEF Work, StartProcess, ResumeDone, Poll, FetchPage, PageDone, Fault, Crash, unobserved
<1>2. ASSUME NEW t \in Teams, Bootstrap(t) PROVE Timeline!TeamStep(t)
  <2>1. PICK o \in Ordinals, target \in Targets :
          /\ ContainingOrdinal(o, now)
          /\ db' = [db EXCEPT ![t] = EnsureBootstrapped(db[t], now, o, target)]
    BY <1>2 DEF Bootstrap
  <2>2. /\ o \in Timeline!Ordinals /\ target \in Timeline!Targets /\ Timeline!ContainingOrdinal(o, now)
        /\ db' = [db EXCEPT ![t] = Timeline!EnsureBootstrapped(db[t], now, o, target)]
    BY <2>1, SameBootstrap DEF Timeline!Ordinals, Targets, Timeline!Targets
  <2> QED
    BY <1>2, <2>2 DEF Bootstrap, Timeline!Bootstrap, Timeline!TeamStep
<1>3. CASE Clock
  BY <1>3 DEF Clock, Timeline!Clock, Timeline!Next
<1>4. CASE UNCHANGED vars
  BY <1>4 DEF vars, Timeline!vars
<1> QED
  BY <1>1, <1>2, <1>3, <1>4 DEF Next, Timeline!Next, Timeline!vars

\* With one process every step of the scheduler, crashes, restarts, retries
\* and failures included, is one of TeamTimeline's indivisible commits from
\* the team's current state, or leaves the teams alone (while versions stay
\* below the bound of TeamTimeline's instance).
THEOREM ImplementsTimeline ==
  ASSUME OneProcess PROVE Spec /\ []VersionsBounded => RefinesTimeline
<1>1. Init => Timeline!Init
  <2>1. NewTeam = Timeline!NewTeam
    BY DEF NewTeam, Timeline!NewTeam, Timeline!Ordinals, Timeline!NoTime
  <2> QED
    BY <2>1 DEF Init, Timeline!Init
<1>2. LInv /\ PastInv /\ SoloInv /\ VersionsBounded /\ [Next]_vars => [Timeline!Next]_(Timeline!vars)
  BY StepRefines
<1> QED
  BY <1>1, <1>2, Invariant, PastInvariant, SoloInvariant, PTL DEF Spec, RefinesTimeline, Timeline!Spec
=============================================================================
