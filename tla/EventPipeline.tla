---------------------------- MODULE EventPipeline ----------------------------
(***************************************************************************)
(* The v1 pipeline from a precomputed schedule to Jira: the dispatcher     *)
(* (engine/event_dispatcher.py) moves due events into the write queue, the *)
(* queue writes them (WriteQueue), the auditor (engine/event_auditor.py)   *)
(* gives every dispatched event a verdict, the engine replaces the waiting *)
(* part of a schedule (engine/simulation.py), and an operator edits events *)
(* and starts and pauses the jobs (integrations/scheduler.py,              *)
(* api/routers/scheduled_events.py, api/routers/simulation.py).            *)
(*                                                                         *)
(* The dispatch job runs in a thread of its own, and so does every call of *)
(* the endpoints that dispatch, modify or cancel.  A dispatcher and a      *)
(* modification read rows and write them later, each in one transaction of *)
(* a database at READ COMMITTED: whoever writes a row that was deleted     *)
(* meanwhile is refused, and so is whoever deletes a row that the audit    *)
(* log refers to.                                                          *)
(***************************************************************************)
EXTENDS WriteQueue

CONSTANTS
  Events,         \* the rows scheduled_events may ever hold
  First,          \* those it holds at first
  Plan,           \* Plan[e]: [sprint, op, issue, arg, at, seq], as precomputation writes it
  Args, Times,    \* payloads and instants a modification may give
  Dispatchers,    \* "job" and the callers of the dispatch endpoint
  DispatchBatch,  \* DISPATCH_BATCH_SIZE
  AuditBatch,     \* AUDIT_BATCH_SIZE
  VerifyDelay,    \* VERIFICATION_DELAY_MINUTES, in clock steps
  Timeout,        \* TIMEOUT_MINUTES, in clock steps
  RetryAfters,    \* Retry-After values Jira may send
  Horizon         \* bound: no event is dispatched after this instant

ASSUME PipelineAssumption ==
  /\ DispatchBatch \in Nat \ {0} /\ AuditBatch \in Nat \ {0}
  /\ VerifyDelay \in Nat /\ Timeout \in Nat /\ VerifyDelay <= Timeout
  /\ Horizon \in Nat
  /\ IsFiniteSet(Events) /\ First \subseteq Events
  /\ 0 \notin Events   \* 0: an entry that no event caused
  /\ Plan \in [Events -> [sprint : Nat, op : STRING, issue : Issues, arg : Nat, at : Nat, seq : Nat]]
  /\ Args \subseteq Nat /\ Times \subseteq Nat

VARIABLES
  now,      \* the wall clock
  event,    \* the rows of scheduled_events: status, at, arg
  edits,    \* modifications that have read their row and not yet committed
  disp,     \* dispatchers: the due events read and not yet committed
  audit,    \* event_audit_log: [event, entry, at, status]
  running   \* the tick, queue and dispatch jobs are not paused

pipeVars == <<now, event, edits, disp, audit, running>>
vars == <<queueVars, pipeVars>>

MaxTime == Horizon + Timeout

NoBatch == [pc |-> "idle", batch |-> <<>>, asof |-> 0]

Init ==
  /\ QueueInit
  /\ now = 0
  /\ event = [e \in Events |->
       [status |-> IF e \in First THEN "PENDING" ELSE "ABSENT", at |-> Plan[e].at, arg |-> Plan[e].arg]]
  /\ edits = {}
  /\ disp = [d \in Dispatchers |-> NoBatch]
  /\ audit = <<>>
  /\ running = FALSE
-----------------------------------------------------------------------------
(* The dispatcher.                                                         *)

Waiting(e) == event[e].status \in {"PENDING", "MODIFIED"}

Before(a, b) ==
  \/ event[a].at < event[b].at
  \/ event[a].at = event[b].at /\ Plan[a].seq < Plan[b].seq

DueEvents == {e \in Events : Waiting(e) /\ event[e].at <= now}

\* Due events by scheduled_at and sequence_order, at most a batch of them; the
\* order of two that agree on both is up to the database.
DueBatches ==
  {SubSeq(s, 1, IF Len(s) < DispatchBatch THEN Len(s) ELSE DispatchBatch)
     : s \in Listings(DueEvents, Before)}

\* dispatch_due_events up to the end of its query; the rows read stay in the
\* session, with the payload they had.
ReadDue(d) ==
  /\ disp[d].pc = "idle"
  /\ d = "job" => running
  /\ now <= Horizon
  /\ DueEvents # {}
  /\ \E ids \in DueBatches :
       disp' = [disp EXCEPT ![d] =
         [pc |-> "loaded", asof |-> now,
          batch |-> [k \in 1..Len(ids) |-> [id |-> ids[k], arg |-> event[ids[k]].arg]]]]
  /\ excuse' = IF \E x \in Dispatchers \ {d} : disp[x].pc = "loaded"
                 THEN excuse \cup {"dispatch"} ELSE excuse
  /\ Called(d)
  /\ UNCHANGED <<queue, proc, health, link, jira, keys, landed, lost>>
  /\ UNCHANGED <<now, event, edits, audit, running>>

\* Its rows can be written: none of them was deleted meanwhile (an entry and
\* an audit row refer to the event, and its update must find it).
Intact(d) == \A k \in 1..Len(disp[d].batch) : event[disp[d].batch[k].id].status # "DELETED"

\* The queue entry of the k-th event of a batch (_enqueue_event).
EntryFor(d, k) ==
  LET x == disp[d].batch[k] IN NewEntry(Plan[x.id].op, Plan[x.id].issue, x.arg, x.id)

\* Its audit row, linked to that entry.
AuditRow(d, k) ==
  [event |-> disp[d].batch[k].id, entry |-> Len(queue) + k, at |-> disp[d].asof, status |-> "PENDING"]

\* Mutation: the event is queued but keeps its status.
AfterDispatchSame(row) == row

\* The event is DISPATCHED whatever its row holds by now.
AfterDispatch(row) == [row EXCEPT !.status = "DISPATCHED"]

\* One transaction: an entry and an audit row per event read.
CommitDispatch(d) ==
  LET n == Len(disp[d].batch) IN
  /\ disp[d].pc = "loaded" /\ Intact(d)
  /\ Enqueue([k \in 1..n |-> EntryFor(d, k)])
  /\ event' = [e \in Events |->
       IF \E k \in 1..n : disp[d].batch[k].id = e THEN AfterDispatch(event[e]) ELSE event[e]]
  /\ audit' = audit \o [k \in 1..n |-> AuditRow(d, k)]
  /\ disp' = [disp EXCEPT ![d] = NoBatch]
  /\ UNCHANGED <<proc, health, link, jira, keys, lost, excuse, trouble>>
  /\ UNCHANGED <<now, edits, running>>

\* The transaction fails as a whole, for a deleted row or because the database
\* refuses; the events are read again next time.
RollbackDispatch(d) ==
  /\ disp[d].pc = "loaded"
  /\ IF Intact(d) THEN Trouble ELSE UNCHANGED trouble
  /\ disp' = [disp EXCEPT ![d] = NoBatch]
  /\ UNCHANGED <<queue, proc, health, link, jira, keys, landed, lost, excuse>>
  /\ UNCHANGED <<now, event, edits, audit, running>>
-----------------------------------------------------------------------------
(* The auditor.                                                            *)

\* Mutation: an entry in flight counts as written.
VerdictEager(a) ==
  CASE queue[a.entry].status \in {"DONE", "IN_FLIGHT"} -> "VERIFIED"
    [] queue[a.entry].status = "FAILED" -> "FAILED"
    [] OTHER -> IF a.at + Timeout <= now THEN "TIMEOUT" ELSE "PENDING"

\* Mutation: an event that was not processed in time is left for the next audit.
VerdictPatient(a) ==
  CASE queue[a.entry].status = "DONE" -> "VERIFIED"
    [] queue[a.entry].status = "FAILED" -> "FAILED"
    [] OTHER -> "PENDING"

\* _verify_one: the entry's status decides, then the age of the dispatch.
Verdict(a) ==
  CASE queue[a.entry].status = "DONE" -> "VERIFIED"
    [] queue[a.entry].status = "FAILED" -> "FAILED"
    [] OTHER -> IF a.at + Timeout <= now THEN "TIMEOUT" ELSE "PENDING"

Auditable == {k \in DOMAIN audit : audit[k].status = "PENDING" /\ audit[k].at + VerifyDelay <= now}

\* run_audit: at most a batch of the auditable rows, which ones is up to the database.
RunAudit ==
  /\ \E S \in SUBSET Auditable :
       /\ Cardinality(S) = IF Cardinality(Auditable) < AuditBatch
                             THEN Cardinality(Auditable) ELSE AuditBatch
       /\ audit' = [k \in DOMAIN audit |->
            IF k \in S THEN [audit[k] EXCEPT !.status = Verdict(audit[k])] ELSE audit[k]]
  /\ audit' # audit
  /\ UNCHANGED <<queueVars, now, event, edits, disp, running>>
-----------------------------------------------------------------------------
(* The operator, the engine and the process.                               *)

\* start and resume: the three jobs run from now on.
Start ==
  /\ ~running
  /\ running' = TRUE
  /\ UNCHANGED <<queueVars, now, event, edits, disp, audit>>

\* pause and reset; calls in progress go on.
Pause ==
  /\ running
  /\ Trouble
  /\ running' = FALSE
  /\ UNCHANGED <<queue, proc, health, link, jira, keys, landed, lost, excuse>>
  /\ UNCHANGED <<now, event, edits, disp, audit>>

\* The audit log refers to the event.
Audited(e) == \E k \in DOMAIN audit : audit[k].event = e

Deleted(S) == [e \in Events |-> IF e \in S THEN [event[e] EXCEPT !.status = "DELETED"] ELSE event[e]]

Sprints == {Plan[e].sprint : e \in Events}

WaitingIn(s) == {e \in Events : Plan[e].sprint = s /\ Waiting(e)}

\* cancel_all_pending_events deletes the waiting rows of the sprint, all or none.
CancelAllPending(s) ==
  /\ WaitingIn(s) # {} /\ \A e \in WaitingIn(s) : ~Audited(e)
  /\ Trouble
  /\ event' = Deleted(WaitingIn(s))
  /\ UNCHANGED <<queue, proc, health, link, jira, keys, landed, lost, excuse>>
  /\ UNCHANGED <<now, edits, disp, audit, running>>

\* cancel_scheduled_event deletes the row.  One dispatched since the request read
\* it has an audit row, so the moment that counts is the commit.
CancelEvent(e) ==
  /\ Waiting(e) /\ ~Audited(e)
  /\ Trouble
  /\ event' = Deleted({e})
  /\ UNCHANGED <<queue, proc, health, link, jira, keys, landed, lost, excuse>>
  /\ UNCHANGED <<now, edits, disp, audit, running>>

\* Events that were dispatched or that a dispatcher is about to dispatch.
Taken ==
  {e \in Events : event[e].status = "DISPATCHED"}
    \cup UNION {{disp[d].batch[k].id : k \in 1..Len(disp[d].batch)} : d \in Dispatchers}

\* compute_and_schedule_sprint, and recompute_sprint_schedule of a sprint that has
\* rows: its waiting rows are replaced by new ones, which start with the sprint
\* again.  The rows it deletes are locked until it commits.
Reschedule(s, new) ==
  /\ \A e \in new : Plan[e].sprint = s /\ event[e].status = "ABSENT"
  /\ \A e \in WaitingIn(s) : ~Audited(e)
  /\ Trouble
  /\ event' = [e \in Events |->
       IF e \in new THEN [event[e] EXCEPT !.status = "PENDING"] ELSE Deleted(WaitingIn(s))[e]]
  /\ excuse' = IF \E e \in new, x \in Taken : Before(e, x) THEN excuse \cup {"reschedule"} ELSE excuse
  /\ UNCHANGED <<queue, proc, health, link, jira, keys, landed, lost>>
  /\ UNCHANGED <<now, edits, disp, audit, running>>

\* modify_scheduled_event up to its check: the row as it was read and the values
\* asked for; a time after the horizon is never due.
EditRead(e, at, arg) ==
  /\ event[e].status = "PENDING"
  /\ Trouble
  /\ edits' = edits \cup {[id |-> e, was |-> event[e], at |-> at, arg |-> arg]}
  /\ UNCHANGED <<queue, proc, health, link, jira, keys, landed, lost, excuse>>
  /\ UNCHANGED <<now, event, disp, audit, running>>

\* Its commit writes the columns that differ from what was read, into the row as it
\* is now: a row dispatched meanwhile is MODIFIED, and waits, again.
EditCommit(r) ==
  LET row == event[r.id]
      written(new, was, held) == IF new = was THEN held ELSE new
  IN /\ row.status # "DELETED"
     /\ edits' = edits \ {r}
     /\ event' = [event EXCEPT ![r.id] =
          [status |-> "MODIFIED", at |-> written(r.at, r.was.at, row.at),
           arg |-> written(r.arg, r.was.arg, row.arg)]]
     /\ excuse' = excuse \cup (IF row.status = "DISPATCHED" THEN {"edit", "late"} ELSE {"edit"})
     /\ UNCHANGED <<queue, proc, health, link, jira, keys, landed, lost, trouble>>
     /\ UNCHANGED <<now, disp, audit, running>>

\* The row is gone, or the database refuses for another reason.
EditFails(r) ==
  /\ edits' = edits \ {r}
  /\ UNCHANGED <<queueVars, now, event, disp, audit, running>>

\* enqueue_actions: the engine has created an issue locally and queues its creation.
EnqueueCreate(i) ==
  /\ \A k \in DOMAIN queue : ~(queue[k].op = "CREATE_ISSUE" /\ queue[k].issue = i)
  /\ Enqueue(<<NewEntry("CREATE_ISSUE", i, 0, 0)>>)
  /\ UNCHANGED <<proc, health, link, jira, keys, lost, excuse, trouble, pipeVars>>

\* The process dies and comes back with its jobs paused.
Crash ==
  /\ QueueCrash
  /\ disp' = [d \in Dispatchers |-> NoBatch]
  /\ edits' = {}
  /\ running' = FALSE
  /\ UNCHANGED <<now, event, audit>>

Tick ==
  /\ now < MaxTime
  /\ now' = now + 1
  /\ UNCHANGED <<queueVars, event, edits, disp, audit, running>>

\* The queue job needs the jobs running, the endpoints do not.
Process(p) == (p = "job" => running) /\ ProcessBatch(p) /\ UNCHANGED pipeVars

\* A call of process_batch under way, up to its end.
Proceed(p) ==
  /\ \/ NextEntry(p)
     \/ Land(p)
     \/ Succeed(p)
     \/ Fail(p)
     \/ \E after \in RetryAfters : RateLimited(p, after)
  /\ UNCHANGED pipeVars

Next ==
  \/ \E p \in Processors : Process(p)
  \/ \E p \in Processors : Proceed(p)
  \/ \E p \in Processors : CallBreaks(p) /\ UNCHANGED pipeVars
  \/ \E p \in Processors : ClaimBreaks(p) /\ UNCHANGED pipeVars
  \/ \E d \in Dispatchers : ReadDue(d)
  \/ \E d \in Dispatchers : CommitDispatch(d)
  \/ \E d \in Dispatchers : RollbackDispatch(d)
  \/ RunAudit
  \/ Start
  \/ Pause
  \/ \E e \in Events : CancelEvent(e)
  \/ \E s \in Sprints : CancelAllPending(s)
  \/ \E s \in Sprints, new \in SUBSET Events : Reschedule(s, new)
  \/ \E e \in Events, at \in Times, arg \in Args : EditRead(e, at, arg)
  \/ \E r \in edits : EditCommit(r)
  \/ \E r \in edits : EditFails(r)
  \/ \E i \in Issues : EnqueueCreate(i)
  \/ RetryFailed /\ UNCHANGED pipeVars
  \/ HealthCheck /\ UNCHANGED pipeVars
  \/ \E to \in {"up", "down", "slow"} : LinkChanges(to) /\ UNCHANGED pipeVars
  \/ Crash
  \/ Tick

Spec == Init /\ [][Next]_vars

\* The clock, the interval jobs, the calls under way and Jira's answers go on.
Fairness ==
  /\ WF_vars(Tick)
  /\ WF_vars(RunAudit)
  /\ WF_vars(HealthCheck /\ UNCHANGED pipeVars)
  /\ WF_vars(Process("job"))
  /\ WF_vars(ReadDue("job"))
  /\ \A d \in Dispatchers : WF_vars(CommitDispatch(d) \/ RollbackDispatch(d))
  /\ \A p \in Processors : WF_vars(Proceed(p))

FairSpec == Spec /\ Fairness
-----------------------------------------------------------------------------
(* Properties.                                                             *)

\* No path through process_one leaves an entry behind but two: an entry is
\* IN_FLIGHT only while a call of process_batch is writing it, or because the
\* process died or the database failed during that write (nothing ever selects
\* such an entry again).
StrandedExplained ==
  \A k \in DOMAIN queue : queue[k].status = "IN_FLIGHT" =>
    k \in lost \/ \E p \in Processors : proc[p].pc = "flight" /\ proc[p].entry = k

\* An audit row says VERIFIED only for a write that Jira has received.
VerdictsTruthful ==
  \A k \in DOMAIN audit : audit[k].status = "VERIFIED" => landed[audit[k].entry] > 0

\* A scheduled event reaches the queue twice only when two dispatchers had read due
\* events at the same time or a modification committed after its dispatch, and Jira receives an entry twice, an issue's creation
\* included, only after a manual retry or when two calls of process_batch
\* overlapped.
DuplicatesExplained ==
  /\ \A a, b \in DOMAIN queue :
       a # b /\ queue[a].event # 0 /\ queue[a].event = queue[b].event
         => excuse \cap {"dispatch", "late"} # {}
  /\ \A k \in DOMAIN queue : landed[k] > 1 => excuse \cap {"overlap", "retry"} # {}

\* Jira follows the schedule: a transition of an issue is followed in Jira by
\* another event's, never by one scheduled before it, unless an event was
\* modified, the schedule was computed anew with an event before one dispatched
\* by then, two dispatchers or two calls of process_batch overlapped, a failed
\* entry was retried by hand, or Jira sent a Retry-After of zero.
TransitionsInOrder ==
  [][\A i \in Issues :
       jira'[i].last # jira[i].last /\ jira[i].last # 0 /\ excuse' = {} =>
         LET old == queue[jira[i].last].event
             new == queue[jira'[i].last].event
         IN old # new /\ ~Before(new, old)]_vars

\* Every dispatched event gets a verdict, whatever the queue, Jira or a crash
\* does to it: the auditor's batch limit starves no row.
AuditConcludes ==
  \A e \in Events :
    (event[e].status = "DISPATCHED") ~> (\E k \in DOMAIN audit : audit[k].event = e /\ audit[k].status # "PENDING")

\* An entry does not wait for ever while the jobs run and Jira answers: an
\* outage does not leave the queue blocked.
QueueDrains ==
  \A i \in Issues :
    (\E k \in DOMAIN queue : queue[k].issue = i /\ queue[k].status = "PENDING")
      ~> (\/ \A k \in DOMAIN queue : queue[k].issue = i => queue[k].status # "PENDING"
          \/ ~running \/ link # "up")
=============================================================================
