---------------------------- MODULE JiraDelivery ----------------------------
(***************************************************************************)
(* Delivery of the committed projection intents to Jira                    *)
(* (v2/application/jira_delivery.py, persistence/jira_delivery_store.py,   *)
(* integrations/v2_jira_intent_adapter.py).  One worker drains the ledger: *)
(* it fetches the first outstanding intent of each team, reads Jira,       *)
(* writes what is missing and records a receipt.  The provider call and    *)
(* the receipt are separate: an answer may be lost after the write, the    *)
(* process may die before the receipt, the receipt's transaction may fail. *)
(*                                                                         *)
(* An intent is [op, n, v, deps]: the operation, the issue or sprint it is *)
(* about, the target status of a transition, and the intents it depends    *)
(* on, named by operation and number.  Every team has the same script of   *)
(* intents, committed slice by slice by the simulator.                     *)
(***************************************************************************)
EXTENDS Naturals, Sequences, FiniteSets, SequencesExt

CONSTANTS
  Teams,       \* teams with a ledger
  Script,      \* the intents each team commits, in order
  Slices,      \* the slices it commits them in
  SizeAfter,   \* number of intents in its first slices
  Issues,      \* issue numbers of a team
  Limit,       \* intents attempted in one drain
  RetryDelay,  \* _retry_delay: delay after the given number of attempts
  AttemptCap,  \* bound: attempts are counted up to here
  RateDelays,  \* retry-after values Jira may answer with
  BadTeams,    \* teams whose provider calls always fail
  MaxTime,     \* bound on the clock
  MaxFaults,   \* bound on provider and database failures
  MaxCrashes   \* bound on process crashes

Positions == 1..Len(Script)

Operations ==
  {"CREATE_PROJECT", "CREATE_BOARD", "CREATE_ISSUE", "CREATE_SPRINT", "SCOPE_SPRINT",
   "START_SPRINT", "COMPLETE_SPRINT", "TRANSITION_ISSUE"}

Sprints == {Script[k].n : k \in {j \in Positions : Script[j].op = "CREATE_SPRINT"}}

\* Where the script has an operation on an issue or sprint.
At(op, n) == {k \in Positions : Script[k].op = op /\ Script[k].n = n}

ASSUME DeliveryAssumption ==
  /\ Limit \in Nat \ {0}
  /\ AttemptCap \in Nat
  /\ RetryDelay \in [0..AttemptCap -> Nat \ {0}]
  /\ RateDelays \subseteq Nat
  /\ BadTeams \subseteq Teams
  /\ MaxTime \in Nat /\ MaxFaults \in Nat /\ MaxCrashes \in Nat

ASSUME SliceAssumption ==
  /\ Len(Script) \in Nat /\ Slices \in Nat
  /\ SizeAfter \in [0..Slices -> 0..Len(Script)]
  /\ SizeAfter[0] = 0
  /\ \A b \in 1..Slices : SizeAfter[b - 1] <= SizeAfter[b]

\* The intents of bootstrap provisioning, with an initially active sprint.
Provisioning(issues, o) ==
  <<[op |-> "CREATE_PROJECT", n |-> 0, v |-> 0, deps |-> {}],
    [op |-> "CREATE_BOARD", n |-> 0, v |-> 0, deps |-> {<<"CREATE_PROJECT", 0>>}]>>
  \o [k \in 1..Len(issues) |->
        [op |-> "CREATE_ISSUE", n |-> issues[k], v |-> 0, deps |-> {<<"CREATE_BOARD", 0>>}]]
  \o <<[op |-> "CREATE_SPRINT", n |-> o, v |-> 0,
        deps |-> {<<"CREATE_BOARD", 0>>} \cup {<<"CREATE_ISSUE", i>> : i \in ToSet(issues)}],
       [op |-> "SCOPE_SPRINT", n |-> o, v |-> 0, deps |-> {<<"CREATE_SPRINT", o>>}],
       [op |-> "START_SPRINT", n |-> o, v |-> 0, deps |-> {<<"SCOPE_SPRINT", o>>}]>>

\* The chained intents of a rollover.
Rollover(o) ==
  <<[op |-> "COMPLETE_SPRINT", n |-> o, v |-> 0, deps |-> {}],
    [op |-> "CREATE_SPRINT", n |-> o + 1, v |-> 0, deps |-> {<<"COMPLETE_SPRINT", o>>}],
    [op |-> "SCOPE_SPRINT", n |-> o + 1, v |-> 0, deps |-> {<<"CREATE_SPRINT", o + 1>>}],
    [op |-> "START_SPRINT", n |-> o + 1, v |-> 0, deps |-> {<<"SCOPE_SPRINT", o + 1>>}]>>

Transition(i, status) ==
  <<[op |-> "TRANSITION_ISSUE", n |-> i, v |-> status, deps |-> {}]>>

VARIABLES
  now,        \* the wall clock
  batches,    \* number of batches each team has committed
  ledger,     \* the append-ordered ledger: <<team, position in its script>>
  receipt,    \* the delivery receipt of each intent
  mapping,    \* resource mappings: <<team, kind, number>>
  jira,       \* the provider: resources, sprint states, scopes, statuses
  w,          \* the delivery worker
  unacked,    \* history: writes made for a team since its last receipt
  faults, crashes

vars == <<now, batches, ledger, receipt, mapping, jira, w, unacked, faults, crashes>>

NoReceipt == [state |-> "NONE", attempts |-> 0, next |-> 0]

Resources == {<<"PROJECT", 0>>, <<"BOARD", 0>>} \cup ({"ISSUE"} \X Issues) \cup ({"SPRINT"} \X Sprints)

EmptyJira ==
  [count |-> [r \in Resources |-> 0], sprint |-> [o \in Sprints |-> "none"],
   scoped |-> {}, status |-> [i \in Issues |-> 0]]

Idle == [pc |-> "idle", asof |-> 0, queue |-> {}, processed |-> {}, outcome |-> "none", delay |-> 0]

Init ==
  /\ now = 0
  /\ batches = [t \in Teams |-> 0]
  /\ ledger = <<>>
  /\ receipt = [t \in Teams |-> [k \in Positions |-> NoReceipt]]
  /\ mapping = {}
  /\ jira = [t \in Teams |-> EmptyJira]
  /\ w = Idle
  /\ unacked = [t \in Teams |-> 0]
  /\ faults = 0 /\ crashes = 0
-----------------------------------------------------------------------------
(* The ledger.                                                             *)

\* A slice commits its intents together with the team's state.
CommitBatch(t) ==
  LET size == SizeAfter[batches[t]]
      added == SizeAfter[batches[t] + 1] - size
  IN /\ batches[t] < Slices
     /\ batches' = [batches EXCEPT ![t] = @ + 1]
     /\ ledger' = ledger \o [k \in 1..added |-> <<t, size + k>>]
     /\ UNCHANGED <<now, receipt, mapping, jira, w, unacked, faults, crashes>>

Delivered(x) == receipt[x[1]][x[2]].state = "DELIVERED"

\* _first_outstanding_by_team: each team's first undelivered row in append order.
Heads ==
  {i \in DOMAIN ledger :
     /\ ~Delivered(ledger[i])
     /\ \A j \in 1..(i - 1) : ledger[j][1] = ledger[i][1] => Delivered(ledger[j])}

Due(x, asof) == receipt[x[1]][x[2]].next <= asof

DependenciesDelivered(x) ==
  \A k \in Positions : <<Script[k].op, Script[k].n>> \in Script[x[2]].deps => Delivered(<<x[1], k>>)

\* The rows of the ledger to deliver next; the drain takes them in append order.
Pending(asof, limit) ==
  LET ready == {i \in Heads : Due(ledger[i], asof) /\ DependenciesDelivered(ledger[i])}
  IN {i \in ready : Cardinality({j \in ready : j < i}) < limit}
-----------------------------------------------------------------------------
(* The adapter: what an intent reads, needs and writes.                    *)

ResourceOf(x) ==
  CASE x.op = "CREATE_PROJECT" -> {<<"PROJECT", 0>>}
    [] x.op = "CREATE_BOARD" -> {<<"BOARD", 0>>}
    [] x.op = "CREATE_ISSUE" -> {<<"ISSUE", x.n>>}
    [] x.op = "CREATE_SPRINT" -> {<<"SPRINT", x.n>>}
    [] OTHER -> {}

RequiredMappings(x) ==
  CASE x.op = "CREATE_SPRINT" -> {<<"BOARD", 0>>}
    [] x.op = "SCOPE_SPRINT" -> {<<"SPRINT", x.n>>} \cup ({"ISSUE"} \X Issues)
    [] x.op \in {"START_SPRINT", "COMPLETE_SPRINT"} -> {<<"SPRINT", x.n>>}
    [] x.op = "TRANSITION_ISSUE" -> {<<"ISSUE", x.n>>}
    [] OTHER -> {}

HasMappings(t, x) == \A r \in RequiredMappings(x) : <<t, r[1], r[2]>> \in mapping

\* Mutation: the completion is a copy of the start.
SprintTargetCopied(op) == "active"

\* The state a sprint is in after it was started or completed.
SprintTarget(op) == IF op = "START_SPRINT" THEN "active" ELSE "closed"

\* The script is of the simulator's operations on known issues and sprints.
\* What an intent needs is created by an earlier one (_provisioning_intents);
\* a sprint starts after it was scoped and its predecessors completed, and
\* its completion ends its story (_build_projection_intents).
ASSUME ScriptAssumption ==
  /\ Sprints \subseteq Nat
  /\ \A k \in Positions :
       /\ Script[k].op \in Operations
       /\ Script[k].op \in {"CREATE_ISSUE", "TRANSITION_ISSUE"} => Script[k].n \in Issues
       /\ Script[k].op \in {"SCOPE_SPRINT", "START_SPRINT", "COMPLETE_SPRINT"} => Script[k].n \in Sprints
       /\ \A r \in RequiredMappings(Script[k]) : \E j \in 1..(k - 1) : r \in ResourceOf(Script[j])
  /\ \A o \in Sprints : \A k \in At("START_SPRINT", o) :
       /\ \E j \in At("SCOPE_SPRINT", o) : j < k
       /\ \A p \in Sprints : p < o => \E j \in At("COMPLETE_SPRINT", p) : j < k
  /\ \A o \in Sprints : \A j \in At("COMPLETE_SPRINT", o) :
       \A k \in At("CREATE_SPRINT", o) \cup At("START_SPRINT", o) : k < j

\* Mutation: Jira is not read before it is written.
NeverInPlace(j, x) == FALSE

\* The read that precedes the write finds the effect in place.
InPlace(j, x) ==
  \/ \E r \in ResourceOf(x) : j.count[r] > 0
  \/ x.op = "SCOPE_SPRINT" /\ x.n \in j.scoped
  \/ x.op \in {"START_SPRINT", "COMPLETE_SPRINT"} /\ j.sprint[x.n] = SprintTarget(x.op)
  \/ x.op = "TRANSITION_ISSUE" /\ j.status[x.n] = x.v

\* Several resources with the marker, or a project without its board.
Unreadable(j, x) ==
  \/ x.op \in {"CREATE_ISSUE", "CREATE_SPRINT"} /\ \E r \in ResourceOf(x) : j.count[r] > 1
  \/ x.op = "CREATE_BOARD" /\ j.count[<<"BOARD", 0>>] = 0 /\ j.count[<<"PROJECT", 0>>] > 0

\* Creating a project creates its board.
Written(j, x) ==
  CASE x.op \in {"CREATE_PROJECT", "CREATE_BOARD"} ->
         [j EXCEPT !.count[<<"PROJECT", 0>>] = @ + 1, !.count[<<"BOARD", 0>>] = @ + 1]
    [] x.op = "CREATE_ISSUE" -> [j EXCEPT !.count[<<"ISSUE", x.n>>] = @ + 1]
    [] x.op = "CREATE_SPRINT" ->
         [j EXCEPT !.count[<<"SPRINT", x.n>>] = @ + 1, !.sprint[x.n] = "future"]
    [] x.op = "SCOPE_SPRINT" -> [j EXCEPT !.scoped = @ \cup {x.n}]
    [] x.op \in {"START_SPRINT", "COMPLETE_SPRINT"} ->
         [j EXCEPT !.sprint[x.n] = SprintTarget(x.op)]
    [] x.op = "TRANSITION_ISSUE" -> [j EXCEPT !.status[x.n] = x.v]
-----------------------------------------------------------------------------
(* The worker: drain_once.                                                 *)

Poll ==
  /\ w.pc = "idle"
  /\ w' = [Idle EXCEPT !.pc = "fetch", !.asof = now]
  /\ UNCHANGED <<now, batches, ledger, receipt, mapping, jira, unacked, faults, crashes>>

Fetch ==
  LET attempted == Cardinality(w.processed)
      pending == Pending(w.asof, Limit - attempted) \ w.processed
  IN /\ w.pc = "fetch"
     /\ w' = IF attempted < Limit /\ pending # {}
             THEN [w EXCEPT !.pc = "deliver", !.queue = pending]
             ELSE Idle
     /\ UNCHANGED <<now, batches, ledger, receipt, mapping, jira, unacked, faults, crashes>>

First == Min(w.queue)

Current == ledger[First]

CurrentIntent == Script[Current[2]]

Outcome(o, delay) ==
  w' = [w EXCEPT !.pc = "record", !.processed = @ \cup {First},
                 !.outcome = o, !.delay = delay]

Retry(x) == RetryDelay[receipt[x[1]][x[2]].attempts]

\* The adapter can read what it needs and Jira answers.
CanDeliver ==
  LET t == Current[1]
      x == CurrentIntent
  IN t \notin BadTeams /\ HasMappings(t, x) /\ ~Unreadable(jira[t], x)

WriteJira ==
  /\ jira' = [jira EXCEPT ![Current[1]] = Written(@, CurrentIntent)]
  /\ unacked' = [unacked EXCEPT ![Current[1]] = @ + 1]

DeliverFound ==
  /\ w.pc = "deliver" /\ CanDeliver /\ InPlace(jira[Current[1]], CurrentIntent)
  /\ Outcome("success", 0)
  /\ UNCHANGED <<now, batches, ledger, receipt, mapping, jira, unacked, faults, crashes>>

\* Mutation: a resource is created without looking for it.
DeliverBlindly ==
  /\ w.pc = "deliver" /\ CanDeliver
  /\ WriteJira
  /\ Outcome("success", 0)
  /\ UNCHANGED <<now, batches, ledger, receipt, mapping, faults, crashes>>

DeliverWrite ==
  /\ w.pc = "deliver" /\ CanDeliver /\ ~InPlace(jira[Current[1]], CurrentIntent)
  /\ WriteJira
  /\ Outcome("success", 0)
  /\ UNCHANGED <<now, batches, ledger, receipt, mapping, faults, crashes>>

\* Mutation: the adapter's error ends the drain and leaves no receipt.
RefusedOut ==
  /\ w.pc = "deliver" /\ ~CanDeliver
  /\ w' = Idle
  /\ UNCHANGED <<now, batches, ledger, receipt, mapping, jira, unacked, faults, crashes>>

\* The adapter raises: a missing mapping, an ambiguous marker, or a provider
\* that refuses this team's calls.
DeliverRefused ==
  /\ w.pc = "deliver" /\ ~CanDeliver
  /\ Outcome("failure", Retry(Current))
  /\ UNCHANGED <<now, batches, ledger, receipt, mapping, jira, unacked, faults, crashes>>

\* A provider error or rate limit before the write, with a retry the clock
\* still reaches.
DeliverFails ==
  /\ w.pc = "deliver" /\ faults < MaxFaults
  /\ faults' = faults + 1
  /\ \E d \in {Retry(Current)} \cup RateDelays :
       w.asof + d <= MaxTime /\ Outcome("failure", d)
  /\ UNCHANGED <<now, batches, ledger, receipt, mapping, jira, unacked, crashes>>

\* The write takes effect but its answer is lost in transport.
AnswerLost ==
  /\ w.pc = "deliver" /\ CanDeliver /\ ~InPlace(jira[Current[1]], CurrentIntent)
  /\ faults < MaxFaults /\ w.asof + Retry(Current) <= MaxTime
  /\ faults' = faults + 1
  /\ WriteJira
  /\ Outcome("failure", Retry(Current))
  /\ UNCHANGED <<now, batches, ledger, receipt, mapping, crashes>>

Attempted(r) == IF r.attempts < AttemptCap THEN r.attempts + 1 ELSE AttemptCap

NextItem ==
  w' = [w EXCEPT !.pc = IF w.queue = {First} THEN "fetch" ELSE "deliver",
                 !.queue = @ \ {First}, !.outcome = "none", !.delay = 0]

\* Mutation: the receipt is stored without its resource mappings.
RecordNoMapping ==
  LET t == Current[1]
  IN /\ w.pc = "record" /\ w.outcome = "success"
     /\ receipt' = [receipt EXCEPT ![t][Current[2]] =
                      [state |-> "DELIVERED", attempts |-> Attempted(@), next |-> 0]]
     /\ unacked' = [unacked EXCEPT ![t] = 0]
     /\ NextItem
     /\ UNCHANGED <<now, batches, ledger, mapping, jira, faults, crashes>>

RecordSuccess ==
  LET t == Current[1]
      r == receipt[t][Current[2]]
  IN /\ w.pc = "record" /\ w.outcome = "success"
     /\ receipt' = [receipt EXCEPT ![t][Current[2]] =
                      [state |-> "DELIVERED", attempts |-> Attempted(r), next |-> 0]]
     /\ mapping' = mapping \cup {<<t, x[1], x[2]>> : x \in ResourceOf(CurrentIntent)}
     /\ unacked' = [unacked EXCEPT ![t] = 0]
     /\ NextItem
     /\ UNCHANGED <<now, batches, ledger, jira, faults, crashes>>

RecordFailure ==
  LET t == Current[1]
      r == receipt[t][Current[2]]
  IN /\ w.pc = "record" /\ w.outcome = "failure"
     /\ receipt' = [receipt EXCEPT ![t][Current[2]] =
                      [state |-> "RETRYABLE", attempts |-> Attempted(r), next |-> w.asof + w.delay]]
     /\ NextItem
     /\ UNCHANGED <<now, batches, ledger, mapping, jira, unacked, faults, crashes>>

\* The receipt's transaction fails: nothing is recorded and the exception
\* ends the drain.
RecordAborts ==
  /\ w.pc = "record" /\ faults < MaxFaults
  /\ faults' = faults + 1
  /\ w' = Idle
  /\ UNCHANGED <<now, batches, ledger, receipt, mapping, jira, unacked, crashes>>

Crash ==
  /\ w.pc # "idle" /\ crashes < MaxCrashes
  /\ crashes' = crashes + 1
  /\ w' = Idle
  /\ UNCHANGED <<now, batches, ledger, receipt, mapping, jira, unacked, faults>>

Clock ==
  /\ now < MaxTime /\ now' = now + 1
  /\ UNCHANGED <<batches, ledger, receipt, mapping, jira, w, unacked, faults, crashes>>

Work ==
  \/ Poll \/ Fetch
  \/ DeliverFound \/ DeliverWrite \/ DeliverRefused
  \/ RecordSuccess \/ RecordFailure

Environment == DeliverFails \/ AnswerLost \/ RecordAborts \/ Crash

Next == Clock \/ Work \/ Environment \/ \E t \in Teams : CommitBatch(t)

Spec == Init /\ [][Next]_vars

\* The poller keeps running and the clock moves.
FairSpec == Spec /\ WF_vars(Clock) /\ WF_vars(Work)
-----------------------------------------------------------------------------
CommittedOf(t) == 1..SizeAfter[batches[t]]

DeliveredOf(t) == {k \in Positions : Delivered(<<t, k>>)}

\* Every team's intents take effect in ledger order and each is written at
\* most once, although answers are lost and the worker dies between the
\* write and the receipt: delivery implements IntentDelivery.
Exactly == INSTANCE IntentDelivery WITH
  total <- [t \in Teams |-> Cardinality(CommittedOf(t))],
  acked <- [t \in Teams |-> Cardinality(DeliveredOf(t))],
  applied <- [t \in Teams |-> Cardinality(DeliveredOf(t)) + unacked[t]]

RefinesDelivery == Exactly!Spec

Replay(j, x) == IF InPlace(j, x) THEN j ELSE Written(j, x)

Replayed[n \in 0..Len(Script)] ==
  IF n = 0 THEN EmptyJira ELSE Replay(Replayed[n - 1], Script[n])

\* Jira is the replay of the delivered intents in script order, plus at most
\* the effect of the next one: no duplicate resource, nothing out of order.
JiraIsReplay ==
  \A t \in Teams :
    LET n == Cardinality(DeliveredOf(t))
    IN /\ DeliveredOf(t) = 1..n /\ n + unacked[t] <= Len(Script)
       /\ jira[t] = Replayed[n + unacked[t]]

\* The adapter never meets a missing mapping or an ambiguous marker: what an
\* intent needs was recorded by the receipts of its predecessors.
AdapterReady ==
  w.pc = "deliver" =>
    /\ HasMappings(Current[1], CurrentIntent)
    /\ ~Unreadable(jira[Current[1]], CurrentIntent)

\* Jira never shows two active sprints of a team, nor a sprint that starts
\* before it has its scope.
SprintsInOrder ==
  \A t \in Teams : \A o \in Sprints :
    /\ jira[t].sprint[o] = "active" => o \in jira[t].scoped
    /\ \A p \in Sprints :
         (jira[t].sprint[o] = "active" /\ p < o) => jira[t].sprint[p] = "closed"

\* Every committed intent is eventually delivered, unless Jira refuses the
\* team for ever; a refused team does not hold up the others.
EventuallyDelivered ==
  \A t \in Teams \ BadTeams :
    (CommittedOf(t) # DeliveredOf(t)) ~> (CommittedOf(t) = DeliveredOf(t))
=============================================================================
