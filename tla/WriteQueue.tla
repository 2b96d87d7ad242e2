----------------------------- MODULE WriteQueue -----------------------------
(***************************************************************************)
(* The v1 Jira write queue (integrations/jira_write_queue.py), the health  *)
(* monitor it consults (integrations/jira_health.py) and Jira as seen      *)
(* through integrations/jira_client.py.  Callers of process_batch are      *)
(* coroutines of one event loop: a caller reads the PENDING entries once,  *)
(* then claims, writes and settles them one after the other, and another   *)
(* caller may run whenever it awaits Jira or sleeps.  A write may land     *)
(* without its answer arriving, the database may refuse a commit, and the  *)
(* process may die at any await.                                           *)
(*                                                                         *)
(* An entry is [op, issue, arg, event, status]: arg is the target of a     *)
(* transition, event the scheduled event it was dispatched for (or none).  *)
(* Its position in the table is its created_at.                            *)
(***************************************************************************)
EXTENDS Naturals, Sequences, FiniteSets, SequencesExt

CONSTANTS
  Processors,        \* callers of process_batch: the queue job and the endpoints
  Issues,            \* issues the queue writes about
  FailuresThreshold, \* FAILURES_THRESHOLD
  MaxTrouble         \* bound: refused calls and commits, rate limits, link changes, retries, edits,
                     \* endpoint calls, crashes

ASSUME QueueAssumption ==
  FailuresThreshold \in Nat \ {0} /\ MaxTrouble \in Nat

\* OPERATION_PRIORITY; anything else has priority 5.
Priority(op) ==
  CASE op = "CREATE_SPRINT" -> 0
    [] op = "CREATE_ISSUE" -> 1
    [] op \in {"ADD_TO_SPRINT", "MOVE_TO_BACKLOG"} -> 2
    [] op = "TRANSITION_ISSUE" -> 3
    [] op = "ADD_COMMENT" -> 4
    [] op = "UPDATE_ISSUE" -> 6
    [] op \in {"UPDATE_SPRINT", "UPDATE_SPRINT_DETAILS", "COMPLETE_SPRINT"} -> 7
    [] op = "DELETE_SPRINT" -> 8
    [] OTHER -> 5

EntryStatuses == {"PENDING", "IN_FLIGHT", "DONE", "FAILED"}

VARIABLES
  queue,    \* the table jira_write_queue, in order of creation
  proc,     \* the running calls of process_batch
  health,   \* the health monitor: status and consecutive failures
  link,     \* Jira from here: "up", "down" (calls are refused), "slow" (they time out)
  jira,     \* what Jira holds: issues created, status and last transition of each
  keys,     \* issues whose jira_issue_key is known locally
  landed,   \* history: entries whose write reached Jira, with repetitions counted
  lost,     \* history: entries in flight when the process died or the database failed
  excuse,   \* history: what has happened that the queue does not guard against
  trouble   \* number of disturbances so far

queueVars == <<queue, proc, health, link, jira, keys, landed, lost, excuse, trouble>>

Idle == [pc |-> "idle", rest |-> <<>>, entry |-> 0, sent |-> FALSE]

\* A new monitor is ONLINE whatever Jira does.
FreshHealth == [status |-> "ONLINE", failures |-> 0]

\* One more disturbance.
Trouble == trouble < MaxTrouble /\ trouble' = trouble + 1

\* Calls of the endpoints count as disturbances, runs of the jobs do not.
Called(x) == IF x = "job" THEN UNCHANGED trouble ELSE Trouble

QueueInit ==
  /\ queue = <<>>
  /\ proc = [p \in Processors |-> Idle]
  /\ health = FreshHealth
  /\ link = "up"
  /\ jira = [i \in Issues |-> [count |-> 0, status |-> 0, last |-> 0]]
  /\ keys = {}
  /\ landed = <<>>
  /\ lost = {}
  /\ excuse = {}
  /\ trouble = 0

\* The columns of a new row; status has its default.
NewEntry(op, issue, arg, event) ==
  [op |-> op, issue |-> issue, arg |-> arg, event |-> event, status |-> "PENDING"]

\* The table and its history after enqueue of the given entries, in order.
Enqueue(entries) ==
  /\ queue' = queue \o entries
  /\ landed' = landed \o [k \in 1..Len(entries) |-> 0]
-----------------------------------------------------------------------------
(* One call of process_batch.                                              *)

\* The ways to list the members of S so that none comes after one it precedes.
Listings(S, Precedes(_, _)) ==
  {s \in [1..Cardinality(S) -> S] :
     IsInjective(s) /\ \A i, j \in DOMAIN s : i < j => ~Precedes(s[j], s[i])}

PendingEntries == {k \in DOMAIN queue : queue[k].status = "PENDING"}

\* Mutation: the batch is not ordered by creation within a priority.
PendingBatchesNewestFirst ==
  Listings(PendingEntries,
    LAMBDA a, b : \/ Priority(queue[a].op) < Priority(queue[b].op)
                  \/ Priority(queue[a].op) = Priority(queue[b].op) /\ a > b)

\* get_pending_batch: all of them, by priority, then by creation.
PendingBatches ==
  Listings(PendingEntries,
    LAMBDA a, b : \/ Priority(queue[a].op) < Priority(queue[b].op)
                  \/ Priority(queue[a].op) = Priority(queue[b].op) /\ a < b)

Busy(p) == proc[p].pc # "idle"

\* The start of process_one: whatever its status is by now, the entry becomes
\* IN_FLIGHT and that is committed before the call.
Claim(p, k, rest) ==
  /\ queue' = [queue EXCEPT ![k].status = "IN_FLIGHT"]
  /\ proc' = [proc EXCEPT ![p] = [pc |-> "flight", rest |-> rest, entry |-> k, sent |-> FALSE]]
  /\ excuse' = IF \E q \in Processors \ {p} : Busy(q) THEN excuse \cup {"overlap"} ELSE excuse

\* process_batch up to the first await: nothing while OFFLINE or without
\* pending entries, else the batch is read and its first entry claimed.
ProcessBatch(p) ==
  /\ ~Busy(p)
  /\ health.status # "OFFLINE"
  /\ PendingEntries # {}
  /\ \E batch \in PendingBatches : Claim(p, Head(batch), Tail(batch))
  /\ Called(p)
  /\ UNCHANGED <<health, link, jira, keys, landed, lost>>

\* The loop goes on after its sleep, with the batch as it was read.
NextEntry(p) ==
  /\ proc[p].pc = "sleep"
  /\ IF proc[p].rest = <<>>
       THEN /\ proc' = [proc EXCEPT ![p] = Idle]
            /\ UNCHANGED <<queue, excuse>>
       ELSE Claim(p, Head(proc[p].rest), Tail(proc[p].rest))
  /\ UNCHANGED <<health, link, jira, keys, landed, lost, trouble>>

\* The entry p has in flight.
InFlight(p) == queue[proc[p].entry]

\* _request and _check_status: how a call may end.
Outcomes ==
  CASE link = "up" -> {"answer", "rate", "refused"}
    [] link = "down" -> {"refused"}
    [] OTHER -> {"timeout"}

\* Jira accepts the call of an issue that exists, or creates it (_dispatch).
Accepts(e) == e.op # "TRANSITION_ISSUE" \/ jira[e.issue].count > 0

\* What the write of e, the k-th entry, makes of its issue (_dispatch).
Written(row, e, k) ==
  CASE e.op = "CREATE_ISSUE" -> [row EXCEPT !.count = @ + 1]
    [] e.op = "TRANSITION_ISSUE" -> [row EXCEPT !.status = e.arg, !.last = k]
    [] OTHER -> row

\* The write reaches Jira; the answer is still to come.
Land(p) ==
  LET e == InFlight(p) IN
  /\ proc[p].pc = "flight" /\ ~proc[p].sent
  /\ link # "down"
  /\ Accepts(e)
  /\ proc' = [proc EXCEPT ![p].sent = TRUE]
  /\ landed' = [landed EXCEPT ![proc[p].entry] = @ + 1]
  /\ jira' = [jira EXCEPT ![e.issue] = Written(@, e, proc[p].entry)]
  /\ UNCHANGED <<queue, health, link, keys, lost, excuse, trouble>>

\* process_one settles its entry, then the batch goes on or ends.
Settle(p, status, pc) ==
  /\ queue' = [queue EXCEPT ![proc[p].entry].status = status]
  /\ proc' = [proc EXCEPT ![p] =
       IF pc = "idle" THEN Idle ELSE [@ EXCEPT !.pc = pc, !.entry = 0, !.sent = FALSE]]

\* _map_issue_key: the key of a created issue is stored on the local issue.
MapIssueKey(e) == IF e.op = "CREATE_ISSUE" THEN keys \cup {e.issue} ELSE keys

\* The answer arrives.
Succeed(p) ==
  /\ proc[p].pc = "flight" /\ proc[p].sent
  /\ "answer" \in Outcomes
  /\ Settle(p, "DONE", "sleep")
  /\ keys' = MapIssueKey(InFlight(p))
  /\ UNCHANGED <<health, link, jira, landed, lost, excuse, trouble>>

\* Mutation: a rate-limited entry is not put back.
RateLimitedForgets(p, after) ==
  /\ proc[p].pc = "flight" /\ ~proc[p].sent
  /\ "rate" \in Outcomes /\ Trouble
  /\ Settle(p, "IN_FLIGHT", "idle")
  /\ UNCHANGED <<health, link, jira, keys, landed, lost, excuse>>

\* 429: back to PENDING, and the rest of the batch is left for a later call.
\* A Retry-After of zero is no pause at all: the loop goes on to the next entry.
RateLimited(p, after) ==
  /\ proc[p].pc = "flight" /\ ~proc[p].sent
  /\ "rate" \in Outcomes /\ Trouble
  /\ Settle(p, "PENDING", IF after = 0 THEN "sleep" ELSE "idle")
  /\ excuse' = IF after = 0 THEN excuse \cup {"zero"} ELSE excuse
  /\ UNCHANGED <<health, link, jira, keys, landed, lost>>

\* Any other exception, a missing transition (_resolve_and_transition) and a
\* lost answer included: FAILED, and the batch goes on.
Fail(p) ==
  /\ proc[p].pc = "flight"
  /\ \/ (link # "up" \/ ~Accepts(InFlight(p))) /\ UNCHANGED trouble
     \/ link = "up" /\ Accepts(InFlight(p)) /\ Trouble
  /\ Settle(p, "FAILED", "sleep")
  /\ UNCHANGED <<health, link, jira, keys, landed, lost, excuse>>

\* The database refuses the commit that settles the entry: the handler's own
\* commit raises on the broken session and ends process_batch, the claim stands,
\* and whatever was to be stored with it (a mapped key) is not.
CallBreaks(p) ==
  /\ proc[p].pc = "flight"
  /\ Trouble
  /\ proc' = [proc EXCEPT ![p] = Idle]
  /\ lost' = lost \cup {proc[p].entry}
  /\ UNCHANGED <<queue, health, link, jira, keys, landed, excuse>>

\* The database refuses the next claim, outside the handler: the rest of the
\* batch stays as it is.
ClaimBreaks(p) ==
  /\ proc[p].pc = "sleep" /\ proc[p].rest # <<>>
  /\ Trouble
  /\ proc' = [proc EXCEPT ![p] = Idle]
  /\ UNCHANGED <<queue, health, link, jira, keys, landed, lost, excuse>>

\* retry_failed, the only way out of FAILED.
RetryFailed ==
  /\ Trouble
  /\ \E k \in DOMAIN queue : queue[k].status = "FAILED"
  /\ queue' = [k \in DOMAIN queue |->
       IF queue[k].status = "FAILED" THEN [queue[k] EXCEPT !.status = "PENDING"] ELSE queue[k]]
  /\ excuse' = excuse \cup {"retry"}
  /\ UNCHANGED <<proc, health, link, jira, keys, landed, lost>>
-----------------------------------------------------------------------------
(* The health monitor and the link to Jira.                                *)

\* Mutation: only an ONLINE monitor notices that Jira answers again.
HandleSuccessSticks == health' = [health EXCEPT !.failures = 0]

\* _handle_success: an outage ends in RECOVERING.
HandleSuccess ==
  health' = [status |-> IF health.status = "OFFLINE" THEN "RECOVERING" ELSE health.status,
             failures |-> 0]

\* _handle_failure; the count is kept up to the threshold.
HandleFailure ==
  LET n == IF health.failures < FailuresThreshold THEN health.failures + 1 ELSE FailuresThreshold
  IN health' = [status |-> IF health.status = "ONLINE" /\ n >= FailuresThreshold
                             THEN "OFFLINE" ELSE health.status,
                failures |-> n]

\* ping: a timeout is neither of the errors it catches.
Ping == CASE "answer" \in Outcomes -> "True" [] "refused" \in Outcomes -> "False" [] OTHER -> "raises"

\* check; an exception of ping escapes to the job and nothing is counted.
HealthCheck ==
  /\ CASE Ping = "True" -> HandleSuccess
       [] Ping = "False" -> HandleFailure
       [] OTHER -> UNCHANGED health
  /\ health' # health
  /\ UNCHANGED <<queue, proc, link, jira, keys, landed, lost, excuse, trouble>>

LinkChanges(to) ==
  /\ link # to
  /\ Trouble
  /\ link' = to
  /\ UNCHANGED <<queue, proc, health, jira, keys, landed, lost, excuse>>

\* The process dies: the calls in progress are gone, the monitor starts afresh.
QueueCrash ==
  /\ proc' = [p \in Processors |-> Idle]
  /\ health' = FreshHealth
  /\ lost' = lost \cup {proc[p].entry : p \in {q \in Processors : proc[q].pc = "flight"}}
  /\ Trouble
  /\ UNCHANGED <<queue, link, jira, keys, landed, excuse>>
=============================================================================
