---------------------------- MODULE LiveScheduler ----------------------------
(***************************************************************************)
(* The v2 live scheduler: a process that resumes every running team after  *)
(* a restart and then polls the due teams page by page, ticking each until *)
(* it has caught up (v2/application/live_scheduler.py, team_tick.py,       *)
(* persistence/due_team_store.py, live_team_store.py, unit_of_work.py,     *)
(* v2/runtime.py).                                                         *)
(*                                                                         *)
(* Every database operation is an action: between loading a team and       *)
(* committing its slice the clock, another process or a crash may come     *)
(* first.  The commit compares the loaded runtime version with the stored  *)
(* one.  A worker is the process of one deployment of the application;     *)
(* more than one worker models deployments that overlap.                   *)
(*                                                                         *)
(* A worker's control state (pc) is                                        *)
(*   down       no process                                                 *)
(*   resume     resume_after_restart, at the head of its loop over teams   *)
(*   evidence   a team is loaded, its downtime window to be recorded       *)
(*   crossload  at the head of _resume's loop                              *)
(*   cross      a team is loaded, its next boundary or the skip to commit  *)
(*   idle       between polls                                              *)
(*   page       _drain_due_pages is about to query a page                  *)
(*   team       _run, at the head of its loop over the page                *)
(*   load       TeamTickService.advance is about to load the team          *)
(*   tick       a team is loaded, its slice to be calculated and committed *)
(*   after      the tick committed, the team is about to be reloaded       *)
(* The field owed of a worker is history: the teams that were due when its *)
(* poll began and that it has not attempted yet.                           *)
(***************************************************************************)
EXTENDS ScrumTick

CONSTANTS
  Workers,      \* scheduler processes
  PageSize,     \* limit of due_team_ids
  BadTeams,     \* teams whose tick calculation always raises
  ResumeFaults, \* whether an exception may hit a team while it is resumed
  MaxCrashes,   \* bound on process crashes
  MaxFaults,    \* bound on transient exceptions
  MaxVersion    \* bound on runtime versions of the abstract timeline

ASSUME SchedulerAssumption ==
  /\ 0 \notin Teams
  /\ PageSize \in Nat \ {0}
  /\ BadTeams \subseteq Teams
  /\ ResumeFaults \in BOOLEAN
  /\ MaxCrashes \in Nat /\ MaxFaults \in Nat

VARIABLES
  now,      \* the wall clock
  db,       \* the persisted state of each team
  w,        \* each worker's local state
  crashes,  \* crashes so far
  faults,   \* transient exceptions so far
  down,     \* history: the time slots in which no process was running
  from,     \* history: when each team was bootstrapped
  worked    \* history: the slots each team's ticks have simulated

vars == <<now, db, w, crashes, faults, down, from, worked>>

Timeline == INSTANCE TeamTimeline

Targets == CapMin..CapMax

PCs == {"down", "resume", "evidence", "crossload", "cross",
        "idle", "page", "team", "load", "tick", "after"}

ResumePCs == {"resume", "evidence", "crossload", "cross"}

Running(t) == db[t].state = "RUNNING"

NoWork == [pc |-> "down", asof |-> 0, todo |-> {}, last |-> 0, snap |-> NewTeam,
           before |-> 0, attempt |-> 0, owed |-> {}]

Init ==
  /\ now = 0
  /\ db = [t \in Teams |-> NewTeam]
  /\ w = [p \in Workers |-> NoWork]
  /\ crashes = 0 /\ faults = 0
  /\ down = {}
  /\ from = [t \in Teams |-> 0]
  /\ worked = [t \in Teams |-> {}]

\* The loops take the teams in the order of their ids.
IsCurrent(p, t) == t \in w[p].todo /\ \A u \in w[p].todo : t <= u

Become(p, r) == w' = [w EXCEPT ![p] = r]

Goto(p, pc) == Become(p, [w[p] EXCEPT !.pc = pc])

\* The operation on team t is over, normally or by an exception that _run
\* catches: the loop goes on with the next team.
Leave(p, t) ==
  Become(p, [w[p] EXCEPT !.pc = IF w[p].pc \in ResumePCs THEN "resume" ELSE "team",
                         !.todo = @ \ {t}, !.owed = @ \ {t},
                         !.snap = NewTeam, !.before = 0, !.attempt = 0])

\* Mutation: the commit does not compare versions.
FreshAlways(p, t) == TRUE

\* commit_authoritative_slice: the compare-and-swap on the runtime version.
Fresh(p, t) == db[t].version = w[p].snap.version

Store(p, t, s) == db' = [db EXCEPT ![t] = [s EXCEPT !.version = w[p].snap.version + 1]]

unobserved == <<now, crashes, faults, down, from>>
-----------------------------------------------------------------------------
(* Process start: resume_after_restart.                                    *)

\* Mutation: polling is enabled without resuming the teams.
StartPolling(p) ==
  /\ w[p].pc = "down"
  /\ Become(p, [NoWork EXCEPT !.pc = "idle", !.asof = now])
  /\ UNCHANGED <<db, worked, unobserved>>

StartProcess(p) ==
  /\ w[p].pc = "down"
  /\ Become(p, [NoWork EXCEPT !.pc = "resume", !.asof = now,
                              !.todo = {t \in Teams : Running(t)}])
  /\ UNCHANGED <<db, worked, unobserved>>

ResumeDone(p) ==
  /\ w[p].pc = "resume" /\ w[p].todo = {}
  /\ Goto(p, "idle")
  /\ UNCHANGED <<db, worked, unobserved>>

\* Mutation: a team that is not behind gets a downtime window, too.
ResumeAlways(p, t) ==
  /\ w[p].pc = "resume" /\ IsCurrent(p, t)
  /\ Become(p, [w[p] EXCEPT !.pc = "evidence", !.snap = db[t]])
  /\ UNCHANGED <<db, worked, unobserved>>

ResumeLoad(p, t) ==
  /\ w[p].pc = "resume" /\ IsCurrent(p, t)
  /\ IF db[t].sim >= w[p].asof
     THEN Leave(p, t)
     ELSE Become(p, [w[p] EXCEPT !.pc = "evidence", !.snap = db[t]])
  /\ UNCHANGED <<db, worked, unobserved>>

\* Mutation: the downtime window is not written.
CommitNoEvidence(p, t) ==
  /\ w[p].pc = "evidence" /\ IsCurrent(p, t) /\ Fresh(p, t)
  /\ Store(p, t, w[p].snap)
  /\ Become(p, [w[p] EXCEPT !.pc = "crossload", !.snap = NewTeam])
  /\ UNCHANGED <<worked, unobserved>>

CommitEvidence(p, t) ==
  /\ w[p].pc = "evidence" /\ IsCurrent(p, t)
  /\ IF Fresh(p, t)
     THEN /\ Store(p, t, [w[p].snap EXCEPT !.gaps = @ \cup {<<w[p].snap.sim, w[p].asof>>}])
          /\ Become(p, [w[p] EXCEPT !.pc = "crossload", !.snap = NewTeam])
     ELSE UNCHANGED db /\ Leave(p, t)
  /\ UNCHANGED <<worked, unobserved>>

CrossLoad(p, t) ==
  /\ w[p].pc = "crossload" /\ IsCurrent(p, t)
  /\ Become(p, [w[p] EXCEPT !.pc = "cross", !.snap = db[t]])
  /\ UNCHANGED <<db, worked, unobserved>>

CommitCross(p, t) ==
  LET s == w[p].snap
      due == PendingBoundaries(s, w[p].asof)
  IN /\ w[p].pc = "cross" /\ IsCurrent(p, t) /\ due # {}
     /\ IF Fresh(p, t)
        THEN /\ \E at \in due, target \in Targets :
                  /\ \A b \in due : at <= b
                  /\ Store(p, t, CrossSprintBoundary(s, at, target))
             /\ Become(p, [w[p] EXCEPT !.pc = "crossload", !.snap = NewTeam])
        ELSE UNCHANGED db /\ Leave(p, t)
     /\ UNCHANGED <<worked, unobserved>>

CommitSkip(p, t) ==
  LET s == w[p].snap
  IN /\ w[p].pc = "cross" /\ IsCurrent(p, t)
     /\ PendingBoundaries(s, w[p].asof) = {}
     /\ IF Fresh(p, t)
        THEN Store(p, t, [s EXCEPT !.sim = w[p].asof, !.wake = w[p].asof])
        ELSE UNCHANGED db
     /\ Leave(p, t)
     /\ UNCHANGED <<worked, unobserved>>
-----------------------------------------------------------------------------
(* Polling: run_due.  Successive polls have different instants.            *)

DueTeams(asof, after) ==
  {t \in Teams : Running(t) /\ db[t].wake <= asof /\ t > after}

Poll(p) ==
  /\ w[p].pc = "idle" /\ w[p].asof < now
  /\ Become(p, [w[p] EXCEPT !.pc = "page", !.asof = now, !.last = 0,
                            !.owed = DueTeams(now, 0)])
  /\ UNCHANGED <<db, worked, unobserved>>

\* Mutations: only the first page is drained; the page cursor is one too far.
FetchFirstPage(p) ==
  LET due == DueTeams(w[p].asof, w[p].last)
  IN /\ w[p].pc = "page"
     /\ IF due = {} \/ w[p].last # 0
        THEN Goto(p, "idle")
        ELSE \E l \in due :
               /\ \A u \in due : l <= u
               /\ Become(p, [w[p] EXCEPT !.pc = "team", !.todo = {l}, !.last = l])
     /\ UNCHANGED <<db, worked, unobserved>>

FetchPastLast(p) ==
  LET due == DueTeams(w[p].asof, w[p].last)
  IN /\ w[p].pc = "page"
     /\ IF due = {}
        THEN Goto(p, "idle")
        ELSE \E l \in due :
               /\ \A u \in due : l <= u
               /\ Become(p, [w[p] EXCEPT !.pc = "team", !.todo = {l}, !.last = l + 1])
     /\ UNCHANGED <<db, worked, unobserved>>

FetchPage(p) ==
  LET due == DueTeams(w[p].asof, w[p].last)
      page == {t \in due : Cardinality({u \in due : u < t}) < PageSize}
  IN /\ w[p].pc = "page"
     /\ IF due = {}
        THEN Goto(p, "idle")
        ELSE \E l \in page :
               /\ \A u \in page : u <= l
               /\ Become(p, [w[p] EXCEPT !.pc = "team", !.todo = page, !.last = l])
     /\ UNCHANGED <<db, worked, unobserved>>

PageDone(p) ==
  /\ w[p].pc = "team" /\ w[p].todo = {}
  /\ Goto(p, "page")
  /\ UNCHANGED <<db, worked, unobserved>>

\* _advance: the load whose version is compared after the tick.
LoadBefore(p, t) ==
  /\ w[p].pc = "team" /\ IsCurrent(p, t)
  /\ Become(p, [w[p] EXCEPT !.pc = "load", !.before = db[t].version, !.attempt = 0])
  /\ UNCHANGED <<db, worked, unobserved>>

LoadTick(p, t) ==
  /\ w[p].pc = "load" /\ IsCurrent(p, t)
  /\ Become(p, [w[p] EXCEPT !.pc = "tick", !.snap = db[t]])
  /\ UNCHANGED <<db, worked, unobserved>>

\* The slice is calculated from the loaded state and committed.
CommitTick(p, t) ==
  LET s == w[p].snap
      committed == Become(p, [w[p] EXCEPT !.pc = "after", !.snap = NewTeam])
  IN /\ w[p].pc = "tick" /\ IsCurrent(p, t) /\ t \notin BadTeams /\ Fresh(p, t)
     /\ s.sim <= w[p].asof
     /\ committed
     /\ \/ /\ HasBoundaryAt(s, s.sim)
           /\ \E target \in Targets :
                Store(p, t, [CrossSprintBoundary(s, s.sim, target) EXCEPT !.wake = s.sim])
           /\ UNCHANGED worked
        \/ \E e \in s.sim..w[p].asof, X, C \in SUBSET Items :
             \E W \in SUBSET X, V \in SUBSET C :
               /\ TickAllowed(s, w[p].asof, X, W, e, C, V)
               /\ Store(p, t, TickResult(s, X, W, e, C, V))
               /\ worked' = [worked EXCEPT ![t] = @ \cup (s.sim..(e - 1))]
     /\ UNCHANGED unobserved

\* Mutation: the exception of one team ends the poll.
TickRaisesOut(p, t) ==
  /\ w[p].pc = "tick" /\ IsCurrent(p, t)
  /\ t \in BadTeams \/ TickMayRaise(w[p].snap, w[p].asof)
  /\ Become(p, [NoWork EXCEPT !.pc = "idle", !.asof = w[p].asof])
  /\ UNCHANGED <<db, worked, unobserved>>

\* The calculation raises before anything is committed.
TickRaises(p, t) ==
  /\ w[p].pc = "tick" /\ IsCurrent(p, t)
  /\ t \in BadTeams \/ TickMayRaise(w[p].snap, w[p].asof)
  /\ Leave(p, t)
  /\ UNCHANGED <<db, worked, unobserved>>

\* Mutation: the retry takes the new version but keeps the loaded state.
TickStaleNoReload(p, t) ==
  /\ w[p].pc = "tick" /\ IsCurrent(p, t) /\ ~Fresh(p, t) /\ w[p].attempt = 0
  /\ Become(p, [w[p] EXCEPT !.attempt = 1, !.snap.version = db[t].version])
  /\ UNCHANGED <<db, worked, unobserved>>

\* StaleRuntimeVersion: one reload and retry, then the team fails.
TickStale(p, t) ==
  /\ w[p].pc = "tick" /\ IsCurrent(p, t) /\ t \notin BadTeams /\ ~Fresh(p, t)
  /\ w[p].snap.sim <= w[p].asof
  /\ IF w[p].attempt = 0
     THEN Become(p, [w[p] EXCEPT !.pc = "load", !.attempt = 1, !.snap = NewTeam])
     ELSE Leave(p, t)
  /\ UNCHANGED <<db, worked, unobserved>>

CaughtUp(s, asof) == s.sim >= asof /\ PendingBoundaries(s, asof) = {}

After(p, t) ==
  /\ w[p].pc = "after" /\ IsCurrent(p, t)
  /\ IF db[t].version <= w[p].before \/ CaughtUp(db[t], w[p].asof)
     THEN Leave(p, t)
     ELSE Goto(p, "team")
  /\ UNCHANGED <<db, worked, unobserved>>
-----------------------------------------------------------------------------
(* The environment.                                                        *)

Bootstrap(t) ==
  /\ db[t].state = "CREATED"
  /\ \E o \in Ordinals, target \in Targets :
       /\ ContainingOrdinal(o, now)
       /\ db' = [db EXCEPT ![t] = EnsureBootstrapped(db[t], now, o, target)]
  /\ from' = [from EXCEPT ![t] = now]
  /\ UNCHANGED <<now, w, crashes, faults, down, worked>>

\* A transient exception in a team's operation (isolated by _run) or in the
\* page query (which ends the poll).
Fault(p) ==
  /\ faults < MaxFaults /\ w[p].asof < MaxTime
  /\ faults' = faults + 1
  /\ \/ \E t \in Teams :
          /\ IsCurrent(p, t)
          /\ w[p].pc \in {"team", "load", "tick", "after"} \/ (ResumeFaults /\ w[p].pc \in ResumePCs)
          /\ Leave(p, t)
     \/ w[p].pc = "page" /\ Become(p, [w[p] EXCEPT !.pc = "idle", !.owed = {}])
  /\ UNCHANGED <<now, db, crashes, down, from, worked>>

Crash(p) ==
  /\ w[p].pc # "down" /\ crashes < MaxCrashes
  /\ crashes' = crashes + 1
  /\ Become(p, NoWork)
  /\ UNCHANGED <<now, db, faults, down, from, worked>>

Clock ==
  /\ now < MaxTime
  /\ now' = now + 1
  /\ down' = IF \A p \in Workers : w[p].pc = "down" THEN down \cup {now} ELSE down
  /\ UNCHANGED <<db, w, crashes, faults, from, worked>>

TeamAction(p, t) ==
  \/ ResumeLoad(p, t)
  \/ CommitEvidence(p, t)
  \/ CrossLoad(p, t)
  \/ CommitCross(p, t)
  \/ CommitSkip(p, t)
  \/ LoadBefore(p, t)
  \/ LoadTick(p, t)
  \/ CommitTick(p, t)
  \/ TickRaises(p, t)
  \/ TickStale(p, t)
  \/ After(p, t)

Work(p) ==
  \/ StartProcess(p)
  \/ ResumeDone(p)
  \/ Poll(p)
  \/ FetchPage(p)
  \/ PageDone(p)
  \/ \E t \in Teams : TeamAction(p, t)

Next ==
  \/ \E p \in Workers : Work(p) \/ Fault(p) \/ Crash(p)
  \/ \E t \in Teams : Bootstrap(t)
  \/ Clock

Spec == Init /\ [][Next]_vars

\* The process is restarted when it dies, its loops run on, the clock moves.
Fairness == WF_vars(Clock) /\ \A p \in Workers : WF_vars(Work(p))

FairSpec == Spec /\ Fairness
-----------------------------------------------------------------------------
Worker ==
  [pc : PCs, asof : Time, todo : SUBSET Teams, last : Teams \cup {0}, snap : TeamState,
   before : Nat, attempt : {0, 1}, owed : SUBSET Teams]

\* Type invariant: the persisted rows, what a worker holds of them and the
\* histories have their shape; the page cursor names a team (due_team_ids).
TypeOK ==
  /\ now \in Time
  /\ db \in [Teams -> TeamState]
  /\ w \in [Workers -> Worker]
  /\ crashes \in 0..MaxCrashes /\ faults \in 0..MaxFaults
  /\ down \subseteq Time
  /\ from \in [Teams -> Time]
  /\ worked \in [Teams -> SUBSET Time]

Loaded(p, t) == w[p].pc \in {"evidence", "cross", "tick"} /\ IsCurrent(p, t)

\* What a worker holds between load and commit is a state the team was in: if
\* the version has not moved, it is the team's state.  The version check of
\* unit_of_work._advance_runtime therefore guards all of the team's rows.
SnapshotCoherent ==
  \A p \in Workers, t \in Teams :
    Loaded(p, t) =>
      /\ Running(t)
      /\ w[p].snap.version <= db[t].version
      /\ w[p].snap.version = db[t].version => w[p].snap = db[t]

\* However many workers race, a commit adds to what earlier commits wrote: the
\* version moves on by one, ledgers grow, a completed sprint stays completed.
NothingLost ==
  [][\A t \in Teams : (Running(t) /\ db'[t] # db[t]) => AddsTo(db'[t], db[t])]_vars

\* However many workers race, each sprint of a team is started and completed
\* once, its ledger entries are in order, and its boundary is still ahead.
SprintsOnce ==
  Timeline!SprintChainInv /\ Timeline!IntentsInv /\ Timeline!BoundaryAheadInv

\* With one process the scheduler implements the timeline of indivisible
\* steps, crashes and restarts included.
RefinesTimeline == Timeline!Spec

\* A poll attempts every team that was due when it began: the page cursor of
\* _drain_due_pages skips nobody although wake-ups move while it pages.
NoTeamOverlooked ==
  \A p \in Workers : w[p].pc = "idle" => w[p].owed = {}

Covered(t, k) == \E g \in db[t].gaps : g[1] <= k /\ k < g[2]

\* Every slot behind a team's cursor was simulated by a tick or lies in a
\* recorded downtime window: time never disappears from the evidence.
TimeAccounted ==
  \A t \in Teams : Running(t) =>
    \A k \in from[t]..(db[t].sim - 1) : k \in worked[t] \/ Covered(t, k)

\* No tick simulates a slot in which no process was running.
NoDowntimeCredit == \A t \in Teams : worked[t] \cap down = {}

\* Every running team whose tick can be calculated reaches the end of time
\* with no boundary left behind, whatever happens to the other teams.
CatchesUp ==
  \A t \in Teams \ BadTeams : Running(t) ~> CaughtUp(db[t], MaxTime)
=============================================================================
