# Verification of the Jira simulator

TLA+ specifications of the Jira team simulator in `src/`, the TLC instances
that check them, and TLAPS proofs. The simulator invents the life of Scrum
teams (sprints, work items, statuses, risks) and writes it to Jira. The
repository holds two generations that run in one process: v1
(`backend/app/engine`, `backend/app/integrations`, `backend/app/api`)
precomputes a sprint as scheduled events and sends them through a write queue;
v2 (`backend/app/v2`) is a persisted live simulator that must survive restarts,
races and an unreliable Jira. Both are modelled.

## 1. Inventory

| Component | State it keeps | Operations | Hard part | Module |
|---|---|---|---|---|
| v2 live scheduler, tick service (`live_scheduler.py`, `due_team_store.py`, `team_tick.py`, `runtime.py`) | a page cursor and a loaded team while it runs | `resume_after_restart`, `run_due`, `advance` | crash between commits, paging while wake-ups move, failure isolation, stale snapshot | `LiveScheduler` |
| v2 unit of work, Scrum state mapper, authoritative slice (`unit_of_work.py`, `scrum_state_mapper.py`, `authoritative_slice.py`) | runtime row, Scrum rows, counters, evaluations, three ledgers | `commit_authoritative_slice` | one transaction of many checks, claims, replays after a lost answer | `SliceCommit` |
| v2 live team store (`live_team_store.py`) | the CREATED/RUNNING row | `load`, `ensure_bootstrapped` | one transaction | `SprintLifecycle`, `LiveScheduler` |
| v2 sprint lifecycle, bootstrap (`sprint_lifecycle.py`, `scrum_bootstrap.py`) | sprints, scope, items, visits | activate, roll over, plan | exact-instant boundaries, carryover | `SprintLifecycle` |
| v2 Scrum tick, risks, calendar (`scrum_tick.py`, `risks.py`, `business_calendar.py`) | visits, labor consumption, overlays, cursor | slice to the effective end; five risk rules | decisions at the cursor after the state moved on; segments, rounding, capacity | `ScrumTick`, `VisitLabor` |
| v2 Jira delivery (`jira_delivery.py`, `jira_delivery_store.py`, `v2_jira_intent_adapter.py`, `jira_provisioning.py`) | receipts, resource mappings; Jira itself | `drain_once`: fetch, read, write, record | effect and receipt are separate | `JiraDelivery`, `IntentDelivery` |
| v1 write queue and health monitor (`jira_write_queue.py`, `jira_health.py`, `jira_client.py`) | queue entries, health status | `enqueue`, `process_batch`, `retry_failed`, `check` | overlapping callers, crash in flight, rate limits | `WriteQueue` |
| v1 dispatcher, auditor, jobs (`event_dispatcher.py`, `event_auditor.py`, `scheduler.py`) | scheduled events, audit rows | dispatch, audit, start, pause, edit, cancel and recompute events | read and commit are apart, in threads; batch limits; timeouts | `EventPipeline` |
| v1 engine, cadence, overlap, sprint endpoints (`simulation.py`, `sprint_cadence.py`, `sprint_overlap.py`, `scheduled_events.py`) | sprints, issues, scheduled events | tick, compute, recompute, create, edit, activate, reset, delete | which sprint is current; requests that check, delete and free first and commit later, in threads | `SprintBoard`, `WorkCalendar` |
| v1 precomputation (`precompute.py`, `workflow_engine.py`, `capacity.py`) | items and member states in memory | tick loop | assignment, work and release within a tick | `SprintSimulation` |
| draws, sampling, templates, blueprint, team creation, alerting, bootstrap of custom fields, frontend, migrations, deployment | | | | not modelled |

Interaction. v2: the scheduler calls the tick service, which computes a slice
with pure functions and commits it through the unit of work; the commit writes
rows and projection intents together; the delivery worker, a separate job,
reads the intents and calls Jira. v1: a tick, the cadence check or an endpoint
precomputes a sprint and stores its events; the dispatcher turns due events
into queue entries; the queue writes them to Jira; the auditor compares. Nothing
flows back from Jira except the keys of what was created.

What makes the system correct: each sprint of a team starts and ends once, at
its boundary; unfinished work is carried over; a commit never overwrites
another and a repeated one changes nothing; all simulated time is either worked,
waited or recorded as downtime; every team is served whatever happens to
others; Jira receives each write once and in order, or the reason is known.
`PROJECT.json` lists the hazards line by line with the properties that cover
them.

## 2. Modules

`SprintLifecycle` - the team's persisted state as one record and the lifecycle
functions on it: `EnsureBootstrapped`, `ActivatePlannedSprint`,
`RollActiveSprint`, `CrossSprintBoundary`, `RankedSelection`. A work item is
named by its `simulator_rank`; instants are integers; the cadence is the
constant `Boundary`. The conditions on one state that the properties are made
of (`ScopeInActive`, `BacklogUnscoped`, `IntentsTellSprints`, `CarriesOver`)
stand here too, so that the proofs can speak of the functions alone.

`ScrumTick` - one tick as functions: `SliceLimits` (`_effective_end`),
`AfterCancel`, `AfterRejection` (risks in catalog order), `AdvanceVisits`,
`TickAllowed`/`TickResult` (the slices `calculate_scrum_tick` may commit) and
`TickMayRaise`. Here any set of open visits may complete at any instant after
its entry; draws are free choices. A review's verdict is seeded by the visit, so
it is drawn once and kept in `rejects`.

`VisitLabor` - what decides the completions: business segments
(`_business_segments`, cut at absences), the assignment of owners by
proficiency, WIP and rank, the labor a segment credits under the availability
fraction and the daily ceiling, the queue clock, the estimate of the next
completion and the second run of the shortened segment (`AdvanceVisits`), and
the dependency wait, leave and long-stay rules around it (`RiskAwareAdvance`).
Time is counted in the smallest unit, so rounding is the code's: `\div`.

`TeamTimeline` - the abstract specification: every change of a team is one
indivisible step from a coherent state (`Bootstrap`, `TickBoundary`,
`TickSlice`, `Evidence`, `CrossInDowntime`, `SkipDowntime`).

`LiveScheduler` - the processes. Each database operation is an action of a
worker whose `pc` follows `resume_after_restart`/`_resume` and
`run_due`/`_drain_due_pages`/`_run`/`_advance`/`TeamTickService.advance`.
Between load and commit anything may happen: the clock, another worker, a
crash, an exception. `Fresh` is the compare-and-swap. `down`, `from`, `worked`,
`crossed` and `owed` are history.

`SliceCommit` - the inside of the commit that the modules above treat as one
step. A command has after-images, counter claims, natural claims and ledger
drafts; `Accepted` is the conjunction of what the transaction checks, in
its order, and `Committed` what it writes. A process computes a command, submits
it, may lose the answer or be rolled back, and may submit the same command for
the runtime version of then; other processes commit at any time. Of the eleven
collections work items, visits, counters and evaluations are kept.

`IntentDelivery` - what delivery promises: per team, effects in ledger order,
each at most once, the next one only after the last is acknowledged.

`JiraDelivery` - the drain loop, the store's selection (`Heads`, `Due`,
`DependenciesDelivered`), the adapter's read-before-write (`InPlace`,
`Unreadable`, `RequiredMappings`) and the provider (`Written`, external). The
environment loses answers after the write, answers with errors or rate limits,
aborts the receipt's transaction and kills the process. The intents of a team
are the constant `Script`, which reaches the ledger in `Slices` commits of
growing size (`SizeAfter`); what is due is a set of ledger rows, taken in append
order. `ScriptAssumption` says what the simulator's scripts are like: an intent
uses only what an earlier one creates (`_provisioning_intents`), and a sprint
starts after it was scoped and its predecessors were completed, which is what
the theorem `IntentsHold` says of the ledger that feeds the worker.

`WriteQueue` - the v1 queue table and the calls of `process_batch` as
coroutines that read a batch, then claim, write and settle entry by entry
(`Claim`, `Land`, `Succeed`, `RateLimited`, `Fail`); the health monitor; Jira
that is up, down or slow. The database may refuse a commit: in the handler's own
commit, on a session that needs a rollback, the exception leaves `process_batch`
and the entry IN_FLIGHT (`CallBreaks`); at the next claim the batch ends without
harm (`ClaimBreaks`); a commit that leaves the session usable is one more way to
`Fail`. What was in flight then is recorded in `lost`.

`EventPipeline` - composes `WriteQueue` with the dispatchers (`ReadDue`,
`CommitDispatch`, `RollbackDispatch`), the auditor (`RunAudit`), the operator's
start and pause, modifications (`EditRead`, `EditCommit`, `EditFails`),
cancellations, recomputed schedules (`Reschedule`) and the death of the process.
`Events` are all rows the table may ever hold, those of a recomputation
included; `First` are the rows of the first computation. A dispatcher and a
modification each run in a thread and keep what they have read until they commit,
so one can commit between the two steps of the other. `excuse` records what
happened that the code does not guard against: overlapping dispatchers or queue
calls, a modification (and one that came `late`, after the dispatch), a schedule
computed anew behind what was dispatched, a manual retry, a Retry-After of zero.

`WorkCalendar` - the v1 working calendar as functions of instants.

`SprintBoard` - the sprints, issues and events of a v1 team under the tick,
the cadence check, precomputation, recomputation and every endpoint that
creates or changes a sprint. Coroutines of the event loop exclude each other, but
not the endpoints in the thread pool and the dispatcher, so every request that
reads in one place and commits in another is split: `create_sprint` and the batch
at the commit (`CreateCheck`, `CreateCommit`), `recompute_sprint_schedule` at its
load, its DELETE and its commit (`RecomputeRead`, `RecomputePlan`,
`RecomputeCommit`), `edit_sprint` at its overlap check and its commit
(`EditCheck`, `EditCommit`). Rows that an uncommitted request wrote or deleted are
locked for others (`Held`, `Locked`); what it inserted is not visible to them, and
the issues an edit or a deletion frees are those it has read, now or earlier.
Guards on the phase and the Jira id of a sprint are taken to have been read at any
earlier moment. `checked` marks sprints whose dates stood the overlap check and
for which no dates were committed meanwhile (`stale`); `torn` the sprints whose
schedule and issues two requests wrote at once.

`SprintSimulation` - the tick loop of `precompute_sprint`, one item per step,
with all samples and choices. A member is found free or not by the items without a
worker only, as in `process_item_tick`.

`MC...` modules give the constants that a cfg cannot write. `LifecycleProofs`,
`TeamTimelineProofs`, `LiveSchedulerProofs`, `DeliveryProofs`, `PipelineProofs`,
`SliceProofs` (the commit of a slice and its labor), `SimulationProofs` and
`BoardProofs` hold the proofs. Definitions whose comment begins with "Mutation" are faulty variants that show that a
property can fail; no specification uses them.

## 3. Runs

| Run | What it checks | Result |
|---|---|---|
| `timeline` | one team, 2 items, 3 sprints, review and cancellation: chain of sprints, boundary never passed, scope, intents, history, carryover | holds |
| `review_orphan` | what the design says of unfinished items at a sprint end | violated, see 6 |
| `scheduler` | 1 process, 2 teams (one always fails), page size 1, 1 crash, 1 fault: nobody overlooked, time accounted for, no work in downtime, refinement of `TeamTimeline`, the healthy team catches up | holds |
| `scheduler_overlap` | 2 processes on 1 team: snapshot coherence, sprints once, nothing lost | holds |
| `downtime_credit` | what the plan says of downtime when a resume fails | violated, see 6 |
| `delivery` | 2 teams (one refused for ever), lost answers, rate limits, failed receipts, a crash: Jira is the replay of the ledger, mappings present, sprints in order, refinement of `IntentDelivery`, the other team's intents delivered | holds |
| `v1_pipeline` | 2 dispatchers, 2 callers of `process_batch`, 2 disturbances (outages, rate limits, retries, database errors, crashes, modifications, cancellations, recomputed schedules): nothing stranded, duplicated or disordered but for recorded causes, verdicts true | holds |
| `v1_pipeline_live` | jobs running: every dispatched event gets a verdict, the queue drains | holds |
| `v1_board` | up to 3 sprints, 2 endpoint calls whose steps interleave: waiting events are about the sprint's own issues, checked sprints are disjoint, the latest active sprint concludes | holds |
| `v1_simulation` | 3 items, 3 steps, 2 members, 4 ticks: stored schedules are workflow paths | holds |
| `v2_labor` | 3 items, 2 members, days of 4 instants, absence, leave, wait, the catalog's order of rules: labor bounded and conserved, time accounted, slices progress, slicing changes nothing, a long stay detected exactly once | holds |
| `v2_commit` | commands lost, rolled back and resubmitted among others' commits: rows, counters, evaluations and ledger agree, fresh commands accepted, replays harmless | holds |

Bounds. Three sprints are the fewest in which a completed, an active and a new
sprint coexist, and the boundaries are unevenly spaced so that a downtime can
contain none, one or two of them. Two items separate selected from backlog
work, with points for which capacity takes one, both, or stops. One crash
suffices to stop between any two commits, the restart included. Two teams and
pages of one make paging real. The two overlapping workers are symmetric model
values. `MaxVersion` bounds the commits and is out of reach in the scheduler's
runs. The scheduler runs have no review steps: with them active work can leave
its scope as `review_orphan` shows, which is a matter of the tick and not of
restarts. In the pipeline one issue of one sprint with two transitions due at
once, a third that only a recomputation adds, and batches of one give every order
the queue can produce; two disturbances are a failure and what an operator does
about it, or a modification and what it races with, and an event may be moved past
the last dispatch while a dispatcher holds it. That run audits all rows at once; the
liveness run takes them one by one, has one dispatcher and one caller and no
modifications. The board's instants are a start, the middle and a time after the
first sprint, and its calendar has a day off inside the sprint. Ticks and cadence
checks make sprints without a call, so two calls are two requests that overlap, or
one that meets what another has left; three and more are covered by the theorems of
`BoardProofs`. In `v2_labor` a day has three worked instants of four, capacities
below the day's length, and an absence of half a day, so that fractions round; the
rules stand in the catalog's order, the other order is the theorem's.
`v2_commit` has one process that may lose answers; four versions let it be
overtaken twice between its attempt and its second one. Business dates are only
compared there, so they are symmetric.

Deadlock is not checked where the behaviour ends with a bounded clock, supply
or horizon (timeline, scheduler, pipeline, labor, commit); it is checked for
the delivery worker, which always polls, for the board and for the simulation.

What the v1 models take from the database: PostgreSQL at READ COMMITTED, where a
row that an uncommitted transaction wrote can be read but not written, a DELETE
does not see uncommitted inserts, and an event that the audit log refers to cannot
be deleted. The tick, a precomputation, an activation, a reset and the recording of
a Jira id are one step each: what a thread commits between their reads and their
commit is not shown, but for the guards named in section 2.

Fairness. `FairSpec` of the scheduler assumes that the clock advances and that
a process that can take a step does: docker restarts it (`restart:
unless-stopped`), APScheduler polls every 30 seconds with `max_instances=1`
and the loops contain no wait. Faults and crashes are bounded and not fair.
Delivery assumes the same of its job. The v1 pipeline assumes it of the
interval jobs (dispatch, queue, health, audit), of calls under way, and of
Jira's answers (a call ends, by success, refusal or timeout, and database errors are
bounded disturbances); `QueueDrains` asks
for a drained queue only while the jobs run and Jira is up. The board assumes
the tick and dispatch jobs, the clock, and that a checked request is answered.

## 4. Proofs

The theorems hold for every value of the constants that satisfies the named
assumptions of the modules: teams and items are numbers, boundaries increase and
the last lies beyond the clock, capacities are ordered, a rejection returns to
an earlier step, batches and delays are numbers, `ScriptAssumption`. Where a
theorem needs more, it says so as a hypothesis.

**Lifecycle and timeline.** `LifecycleProofs` shows that each function keeps
`Sound(s)`: the state has its type, a running team has its chain of sprints, no
boundary is behind the cursor, the scope and the intents agree with the sprints.
Alone none of these is inductive. The claimed ordinal of a rollover is a legal
one only because the last boundary is beyond the clock and the active sprint's
end is not; the cursor stays behind the boundary because `SliceLimits` contains
it, which in turn needs the chain (exactly one sprint waits); a skip is harmless
because a boundary before it would be pending; the ledger tells of an operation
once because the chain says which sprint the operation belongs to.
`TeamTimelineProofs` uses `IInv` (typed clock, every team sound, cursor not ahead
of the clock):

| Theorem | Property |
|---|---|
| `TypeCorrect` | `TypeOK` |
| `SprintChainHolds` | `SprintChainInv`: one sprint waits, the last claimed |
| `BoundaryStaysAhead` | `BoundaryAheadInv` |
| `ScopeHolds` | `ScopeInv`: scope of active sprints only, nothing of the backlog |
| `IntentsHold` | `IntentsInv`: each sprint operation told once, completions before later starts |
| `HistoryIsKept` | `HistoryKept` (action property) |
| `WorkCarriedOver` | `UnfinishedCarriesOver` (action property) |

**Scheduler.** `LiveSchedulerProofs`, for any set of workers, crashes and faults.
The invariant `LInv` is that all persisted and all loaded states are sound, that
a team being worked on is running, and snapshot coherence itself: a commit
writes version `v + 1`, so every other worker that holds version `v` is out of
date and every one that holds `v + 1` must have loaded it afterwards.
Its second part is about what happens to time. `TimeAccounted` needs the slots
between the cursor and a recorded downtime's end accounted for while a resuming
worker is crossing (`AccountInv`); the last three theorems are about one process,
where what is loaded is current and what a poll owes is on its page or behind its
page cursor (`SoloInv`), and where no downtime lies after the cursor of a team
that has been resumed (`ResumedInv`).

| Theorem | Property | Under |
|---|---|---|
| `TypeCorrect`, `SnapshotsAreCoherent`, `NothingIsLost`, `SprintsHappenOnce` | `TypeOK`, `SnapshotCoherent`, `NothingLost`, `SprintsOnce` | |
| `TimeIsAccounted` | `TimeAccounted` | |
| `NobodyOverlooked` | `NoTeamOverlooked` | `OneProcess` |
| `DowntimeNotCredited` | `NoDowntimeCredit` | `OneProcess`, no resume fails |
| `ImplementsTimeline` | `RefinesTimeline`, step by step | `OneProcess`, `[]VersionsBounded` |

`OneProcess` is what the compose file runs (one container, one job with
`max_instances=1`); the run `downtime_credit` shows that the theorem is false when
a resume may fail. `VersionsBounded` keeps versions below the bound that the
guards of `TeamTimeline` have for TLC.

**Delivery.** `DeliveryProofs`, for any script, slicing, set of teams and number
of failures and crashes. `DeliveryInv` says that the delivered intents of a team
are a prefix of its script, that Jira is the replay of that prefix with at most
one intent more, already in place, that every resource of the prefix has its
mapping, and that the worker holds the next intent of each team it serves. The
replay is a recursive function of the length; that it exists and what it says of
sprints and resources is proved by the induction of `UpTo`, which rests on the
least counterexample (`LeastMember`). A second write of the one extra
intent changes nothing because the adapter finds its effect in place
(`ReplayKeeps`).

| Theorem | Property |
|---|---|
| `JiraReplaysTheLedger` | `JiraIsReplay` |
| `AdapterNeverBlocked` | `AdapterReady`: mappings present, no marker ambiguous |
| `SprintsShownInOrder` | `SprintsInOrder` |
| `DeliversExactly` | `RefinesDelivery`, step by step |

**v1 pipeline.** `PipelineProofs`, for any number of events, dispatchers, callers
and disturbances. An entry that no call has in flight is recorded in `lost`, by
the death of the process or by the refused commit. A row of the audit is truthful
because an entry is DONE only after its write landed; an event is queued once
because only one dispatcher holds it in a batch and its row is DISPATCHED from then
on (`DispatchInv`), unless a recorded race brought it back; a write lands at most once because, as long as no calls
overlapped and nothing was retried by hand, the rest of a batch is still PENDING
and an entry in flight has not landed before it was sent (`OnceEach`);
transitions arrive in order because the queue holds them in the order of the
schedule (`ScheduleOrder`) and a call works through them in the order of the
queue (`WriteOrder`), both as long as no excuse is recorded; a schedule
computed anew keeps that order when none of its events is due before one taken.

| Theorem | Property |
|---|---|
| `EntriesStranded` | `StrandedExplained` |
| `AuditTruthful` | `VerdictsTruthful` |
| `WritesOnce` | `DuplicatesExplained` |
| `ScheduleFollowed` | `TransitionsInOrder` (action property) |

**Commit.** `SliceProofs`, first part, for any number of processes, items, visits and dates.
The invariant `CommitInv` has two halves. The team's rows are numbered as their
counters say and the ledger tells of each (`Sane`, `Told`). Each process's command
is consistent in itself (`Rigid`), fits the state if that is still the one it was
computed from (`Fits`), and has its counters spent if it has landed (`Holds`). The
step that matters is the commit of a command whose state is gone (`KeptByCommit`).
If one of its allocations is spent, `ReplayExact` leaves nothing to write
(`ReplayChangesNothing`). If none is, every claim of it is current and takes the
next numbers (`NewClaims`), except a decision whose date has been evaluated since,
which writes its evidence again and no row. In the other direction every command
of a fresh load fits (`CommandFits`) and what fits is accepted (`FitsAccepted`).

| Theorem | Property |
|---|---|
| `RowsInStep` | `RowsAccounted` |
| `FreshWorkAccepted` | `FreshAccepted`: no check refuses honest work |
| `ReplaysAreHarmless` | `ReplayHarmless` (action property) |

**Labor.** `SliceProofs`, second part, for any number of items and members, any
calendar, capacities, absences and sampled durations, and any slicing of time.
`LaborInv` is the inductive invariant: the types, what is used of every date so
far, the balance of booked and credited labor, and the accounting of each
visit's time. What keeps it is a computation of four nested levels, and each is
a recursive function of its own whose values exist and are described step by
step, by the least number that has none:

- within a segment by rank (`SoFar`): a visit is credited from what its owner
  has left of the segment and of the day, and what is booked is what is credited;
- within a slice by instant (`Reached`, `AtWork`): segments do not overlap, lie
  in one date each, and cover the business time; a segment that is run again
  starts from the state before its probe, so nothing is counted twice;
- within a tick by the end of the slice (`RestartsExist`, `SliceStands`): each
  restart has a shorter end and starts from the original state;
- and the transition of the visits that close (`LaborGoesOn`), which moves their
  labor from the open visits to the history.

`SlicesGetOn` compares two runs. A slice that was cut at `e` was run to a later
end first. Both go together up to the segment of the cut (`RunsTogether`); in it
the run up to `e` gives each member's visits the same labor rank by rank until
the longer run has gone beyond it (`RunsAlike`, `MemberLabor`), so a visit that
the estimate says is touched by `e` is touched by `e` (`EstimateHolds`,
`CutCloses`). The property excepts two cases in which that fails, see 6.
`LongStaysDetected` holds for any order of the rules. In the catalog's order the
detection sees the wait of the slice, and a wait that goes on began with its visit
(`WaitsFromEntry`), so the service time of a visit never falls between two cursors
and the threshold is crossed once. With LONG_STAY first it may fall by the wait
added after the detection: then what is left is that a visit which is due has been
detected (`StayCounted`).

| Theorem | Property |
|---|---|
| `LaborBounded` | `MemberLaborBounded` |
| `TimeOfVisitsAccounted` | `VisitTimeAccounted` |
| `SlicesGetOn` | `SlicesProgress` |
| `LongStaysDetected` | `LongStayDetected` |

**Simulation.** `SimulationProofs`, for any number of items, members and ticks, any
workflow and any sampled times. The schedule is read back from the stored events,
so the invariant ties the newest event of an item to the item itself: it names the
step the item is in, and the ticks the item has spent there fit between that event
and now, less the turn still to come in this tick (`InStep`). Work done is within
the stay (`WorkWithinStay`).

| Theorem | Property |
|---|---|
| `SchedulesFollowWorkflow` | `ItemsFollowWorkflow` |

**Board.** `BoardProofs`, for any calendar, instants, issues and number of sprints
and calls, and any interleaving of the requests' steps. The dates of an edit under
way are apart from every checked sprint but its own unless dates were committed
since it looked (`EditsStand`), and so are the dates of a creation, which are also
apart among themselves (`CreationStands`); so whatever is committed as checked is
apart from what is there. Waiting events are about issues of their sprint because
a schedule is made for what planning has just assigned, planning takes only issues
that are free or the sprint's own (`PrecomputedKeeps`), and a recomputation
assigns at its commit every issue it has planned with (`PlanStands`); an edit
deletes at its commit every event that waits for its first dispatch, or a
recomputation committed beside it and the sprint is recorded (`EditsOwn`); and the
carryover at the end of a sprint finds none waiting, as none come back to a
completed sprint except by a late recomputation (`CompletedQuiet`).

| Theorem | Property |
|---|---|
| `CheckedDisjoint` | `CheckedSprintsDisjoint` |
| `EventsStayInScope` | `EventsInScope` |

Only model-checked. Liveness (`CatchesUp`, `EventuallyDelivered`,
`AuditConcludes`, `QueueDrains`, `LatestSprintConcludes`) is beyond the prover.
`SliceIndependent` is the one safety property without a theorem. It compares one
run of a stretch of time with two that meet inside a segment, for every reachable
state: owners, labor and the estimate of the segment that is split would have to
be shown the same piece by piece, and then the rest of the two runs, which differ
in the queue time they have counted.

## 5. What is not modelled

- Seeded generators, sampling distributions, probabilities: every draw is a
  free choice, and the properties hold for all of them.
- Payloads, wording, field validation, row mapping, identifiers: data
  conversion without control. Cadence arithmetic, time zones and the holiday
  table of v2 are constants.
- `run_recovery`, `mark_recovery_complete` and the collapse of an issue's
  entries in the v1 queue: nothing in the application calls them.
- Team creation and blueprint resolution, CRUD endpoints, template content,
  alerting, the one-time bootstrap of Jira fields, reads and summaries, the
  frontend, migrations and deployment.
- In `EventPipeline`, what a modification does to the sprint; in `SprintBoard`, a
  modification that gives a waiting event another time. A modification of the time
  and one of the payload take the same steps; one that names the old value is a
  change of status alone.
- `TickAllowed` offers no tick that ends at a completion exactly on the cursor, which
  the code can produce after a skip; `CatchesUp` is checked without review steps.
  No property speaks of a visit that is evaluated before its entry.
- A Jira whose search lags behind a create, or whose timed-out requests land
  after the retry.

## 6. Where code and documents disagree

With a run:

1. `downtime_credit`: a team whose resume fails is polled next and its downtime
   is simulated as work; the live-simulator plan says downtime credits none.
2. `review_orphan`: a final review that ends exactly with its sprint is
   rejected after the rollover; the item is active in no sprint.

Met while modelling, without a run:

- `_resume` (`live_scheduler.py:140`) crosses every overdue boundary;
  `docs/v2/decisions.md:140` allows at most one.
- Rejection is evaluated after the forward visit is open (`risks.py:802`;
  `docs/v2/contracts/starter-catalog.md:191` says before). The second open
  visit, or the ordinal both visits claim, makes every later tick of the team
  raise (`TickMayRaise`).
- Cancelling an item in review can be undone by the rejection evaluated next in
  the same tick (`_cancelled_state`, `_review_records`); `docs/v2/requirements.md:149`
  calls Cancelled terminal.
- The cap of three rejections (starter catalog) is not in the code, and planning
  stops at the first item that does not fit.
- `docs/v2/requirements.md:263` says a long stay is emitted once. The order of the
  rules is the blueprint's (`team_blueprint.py:430`, `risks.py:152`); with LONG_STAY
  before EXTERNAL_DEPENDENCY (`LongStayFirst`), a pause added after the detection
  moves the service clock back and the stay is detected again. `LongStayDetected`
  states for each order what holds.
- A dependency wait runs in wall time and blocks the whole slice
  (`risks.py:432`, `risks.py:449`), a segment of no length clears the owners,
  and open visits after the first get no ledger record.
- A slice can be cut at an estimated completion that does not happen. A share of
  half of a member's time or less rounds to nothing in a segment of one instant
  (`_available_microseconds`), so the second run credits less than the estimate
  of `_completion_boundary` promised; and a visit whose wait is longer than its
  business time has dwelt for zero, not for less, at its estimate. The cursor
  still moves on, because the estimate lies after it. `SlicesProgress` states
  what holds otherwise.
- Only a commit command with an allocation claim is protected when it is
  submitted again. One without (labor, or an evaluation alone) overwrites newer
  mutable rows under a refreshed version, and its evidence is recorded twice
  because semantic keys contain the version. The application's own callers
  always submit for the version they loaded.
- v1: the health monitor never leaves RECOVERING; pings that time out escape
  `ping` (`jira_client.py:44`); `main.py` registers `app.state.write_queue`
  while the edit and delete endpoints look for `app.state.jira_write_queue`.
- v1, requests that interleave: two edits of different sprints, or an edit beside a
  creation, commit dates that overlap although each was checked
  (`scheduled_events.py:530` to `584`); an edit deletes only the events it sees,
  so those of a recomputation that commits after it remain about issues it has
  freed; an edit or a deletion frees issues it has read although another sprint
  has taken them since; a modification that commits after the dispatch of its
  event makes it wait, and be dispatched, again (`scheduled_events.py:145`); a
  recomputation brings events of the sprint's start behind those dispatched
  (`simulation.py:372`).
- v1: a database error at the commit that settles a queue entry is raised again by
  the handler's own commit; the entry stays IN_FLIGHT and nothing ever selects it
  (`jira_write_queue.py:104`).
- v1: `backend/app/engine/capacity.py:3` says a member works on at most one item per
  tick. Every tick begins with all members free and unassigned (`precompute.py:351`),
  an item without a worker takes a free one, and an item that kept its worker from
  the tick before advances its work whether that member is busy or not
  (`workflow_engine.py:223`; `Workers` in `SprintSimulation`): one member can work
  on two items in a tick.
- v1: nothing but the endpoint activates a SIMULATED sprint, an ACTIVE sprint
  without events never completes, the dispatcher ignores the sprint's phase
  (`scheduled_events.py:253` says otherwise), and a sprint created further ahead
  hides the active one from the tick.
- v1: issues that a precomputed sprint finishes are never marked complete, so
  the carryover releases them as unfinished; `plan_sprint` sorts by priority and
  so ignores the carried-over-first order that `precompute.py:187` promises;
  `_compute_sprint_end` counts the start date even after its working hours.

## 7. Plan

1. Pure algorithms: `VisitLabor`'s completions shown to be among `ScrumTick`'s
   choices; cadence boundaries over an abstract zone; retry delays.
2. Proofs: `SliceIndependent`, on the lemmas of two runs that `SlicesGetOn` uses.
