------------------------------ MODULE SliceCommit ------------------------------
(***************************************************************************)
(* The authoritative commit of v2 (v2/persistence/unit_of_work.py,         *)
(* scrum_state_mapper.py, v2/domain/authoritative_slice.py): a command     *)
(* computed from a snapshot carries after-images of the rows it touched,   *)
(* claims on the counters its new rows and its natural decisions consume,  *)
(* and ledger drafts under semantic keys.  One transaction checks and      *)
(* applies it, or leaves nothing.  The port also accepts a command a       *)
(* second time, under the current runtime version, when it finds every row *)
(* and key of it as the command left them.                                 *)
(*                                                                         *)
(* Abstraction: of the eleven collections, work items (claimed sequence),  *)
(* status visits (claimed ordinal, immutable and mutable fields),          *)
(* counters and natural evaluations are kept; the others take the same     *)
(* paths.  A row is identified by its coordinates, as its semantic         *)
(* identifier is; the three ledgers are one set of records.                *)
(***************************************************************************)
EXTENDS Naturals, FiniteSets

CONSTANTS
  Clients,     \* processes that compute and submit commands
  BaseItems,   \* work items of the bootstrap
  MaxItems,    \* work items there may be
  MaxVisits,   \* visits an item may have
  Route,       \* status keys of the route
  FirstStatus, \* status of a new work item
  Dates,       \* business dates on which a natural decision may be eligible
  MaxWork,     \* work a visit may hold
  MaxVersion   \* runtime versions, which bounds the commits

ASSUME SliceAssumption ==
  /\ {BaseItems, MaxItems, MaxVisits, MaxWork, MaxVersion} \subseteq Nat
  /\ FirstStatus \in Route

VARIABLES
  db,      \* the team's committed rows
  client   \* each process: where it is, its command, whether that has landed

vars == <<db, client>>

Allocation == {"ITEM_SEQUENCE", "VISIT_ORDINAL"}
ItemScope == [kind |-> "ITEM_SEQUENCE", owner |-> 0]
VisitScope(i) == [kind |-> "VISIT_ORDINAL", owner |-> i]
NaturalScope(i) == [kind |-> "NATURAL_DECISION_OCCURRENCE", owner |-> i]
OwnerScopes(i) == {VisitScope(i), NaturalScope(i)}

\* The identities of work items and of visits.
ItemIds(rows) == {r.seq : r \in rows}
VisitId(v) == <<v.item, v.ord>>
VisitIds(rows) == {VisitId(v) : v \in rows}
-----------------------------------------------------------------------------
(* What a snapshot must satisfy to be loaded or written.                   *)

OneOpenVisit(d) ==
  \A v, w \in d.visits :
    v.item = w.item /\ v.life = "OPEN" /\ w.life = "OPEN" => v = w

OwnersPresent(d) ==
  LET known == ItemIds(d.items)
  IN /\ \A v \in d.visits : v.item \in known
     /\ \A s \in DOMAIN d.next : s.kind = "ITEM_SEQUENCE" \/ s.owner \in known
     /\ \A e \in d.evals : e.item \in known

StatusAgrees(d) ==
  \A v \in d.visits, r \in d.items :
    v.item = r.seq /\ v.life = "OPEN" => v.status = r.status

OnRoute(d) == \A r \in d.items \cup d.visits : r.status \in Route

SnapshotValid(d) ==
  OneOpenVisit(d) /\ OwnersPresent(d) /\ StatusAgrees(d) /\ OnRoute(d)
-----------------------------------------------------------------------------
(* Commands.                                                               *)

Claim(scope, expected, count) ==
  [scope |-> scope, expected |-> expected, count |-> count]
Span(k) == k.expected .. (k.expected + k.count - 1)
Allocations(c) == {k \in c.claims : k.scope.kind \in Allocation}

Coordinates(c, scope) ==
  IF scope.kind = "ITEM_SEQUENCE" THEN ItemIds(c.items)
  ELSE {v.ord : v \in {w \in c.visits : w.item = scope.owner}}

\* _validate_allocation_ranges: a claimed range is exactly the coordinates
\* it covers.
RangesCovered(c) ==
  \A k \in Allocations(c) : Span(k) \subseteq Coordinates(c, k.scope)

\* _validate_natural_bindings: each eligible decision has its own claim of
\* one occurrence, and no other natural counter is claimed.
NaturalBound(c) ==
  c.claims \ Allocations(c) = {Claim(NaturalScope(n.item), n.occ, 1) : n \in c.natural}

CommandValid(c) ==
  /\ \A k, l \in c.claims : k.scope = l.scope => k = l
  /\ \A n, m \in c.natural : n.item = m.item => n = m
  /\ RangesCovered(c)
  /\ NaturalBound(c)

Part(items, visits, claims, natural, records) ==
  [items |-> items, visits |-> visits, claims |-> claims, natural |-> natural,
   records |-> records]

NoPart == Part({}, {}, {}, {}, {})

Merged(p, q) ==
  Part(p.items \cup q.items, p.visits \cup q.visits, p.claims \cup q.claims,
       p.natural \cup q.natural, p.records \cup q.records)

\* A ledger draft: its semantic key, which names the runtime version the
\* command was computed at, and the content compared under it.
Record(version, subject, content) ==
  [key |-> [version |-> version, subject |-> subject], content |-> content]

\* The activity, ground-truth and projection drafts of a work item's progress,
\* and those of an evaluated risk.
TickDraft(d, i, ordinal, status) == Record(d.version, <<"visited", i, ordinal>>, status)
RiskDraft(d, i, date, outcome) ==
  Record(d.version, <<"evaluated", i, date>>, IF outcome THEN "cancel" ELSE "keep")

SameContent(r, s) == r.content = s.content

OpenVisits(d, i) == {v \in d.visits : v.item = i /\ v.life = "OPEN"}
Closed(V) == {[v EXCEPT !.life = "CLOSED"] : v \in V}
Living(d) == {r \in d.items : r.life = "ACTIVE"}

NewItem(i) == [seq |-> i, status |-> FirstStatus, life |-> "ACTIVE"]

\* One or more work items enter the backlog.  The tick allocates its sprints so,
\* one at a time; the port takes any range.
Births(d) ==
  LET first == d.next[ItemScope]
  IN {Part({NewItem(i) : i \in born}, {}, {Claim(ItemScope, first, Cardinality(born))}, {},
           {Record(d.version, <<"created", i, 0>>, FirstStatus) : i \in born})
      : born \in {first .. last : last \in first .. (MaxItems - 1)}}

NewVisit(d, i, status) ==
  [item |-> i, ord |-> d.next[VisitScope(i)], status |-> status, life |-> "OPEN", work |-> 0]

\* The open visit of an item closes and its next one opens.
Moves(d) ==
  {LET i == x[1].seq
       visit == NewVisit(d, i, x[2])
   IN Part({[x[1] EXCEPT !.status = x[2]]},
           Closed(OpenVisits(d, i)) \cup {visit},
           {Claim(VisitScope(i), visit.ord, 1)}, {},
           {TickDraft(d, i, visit.ord, x[2])})
   : x \in {r \in Living(d) : d.next[VisitScope(r.seq)] < MaxVisits} \X Route}

\* A visit gains work.  Nothing is allocated.
Labor(d) ==
  {Part({}, {[v EXCEPT !.work = @ + 1]}, {}, {}, {})
   : v \in {w \in d.visits : w.life = "OPEN" /\ w.work < MaxWork}}

\* A decision takes the next occurrence of its owner on an eligible date.
NaturalClaim(d, i, date) == [item |-> i, date |-> date, occ |-> d.next[NaturalScope(i)]]

\* The cancellation risk is evaluated on a date not evaluated yet.
Evaluations(d) ==
  LET fresh == {x \in Living(d) \X Dates \X BOOLEAN :
                  \A e \in d.evals : e.item # x[1].seq \/ e.date # x[2]}
  IN {LET i == x[1].seq
          decision == NaturalClaim(d, i, x[2])
      IN Part(IF x[3] THEN {[x[1] EXCEPT !.life = "CANCELLED"]} ELSE {},
              IF x[3] THEN Closed(OpenVisits(d, i)) ELSE {},
              {Claim(NaturalScope(i), decision.occ, 1)}, {decision},
              {RiskDraft(d, i, x[2], x[3])})
      : x \in fresh}

\* One command of the risks, and one of the progress or the rollover.
Parts(d) == Evaluations(d) \cup Births(d) \cup Moves(d) \cup Labor(d)

Apart(p, q) ==
  /\ ItemIds(p.items) \cap ItemIds(q.items) = {}
  /\ VisitIds(p.visits) \cap VisitIds(q.visits) = {}

\* What a tick may compute from the snapshot d: one part, or the risks' and
\* another merged, when they touch other rows.
Commands(d) ==
  LET both == {x \in Evaluations(d) \X (Parts(d) \ Evaluations(d)) : Apart(x[1], x[2])}
  IN {c \in Parts(d) \cup {Merged(x[1], x[2]) : x \in both} : CommandValid(c)}
-----------------------------------------------------------------------------
(* The transaction.                                                        *)

Advanced(d, k) ==
  k.scope \in DOMAIN d.next /\ d.next[k.scope] >= k.expected + k.count

Current(d, k) == k.scope \in DOMAIN d.next /\ d.next[k.scope] = k.expected

IsReplay(d, c) == \E k \in Allocations(c) : Advanced(d, k)

Eligibility(d, n) == {e \in d.evals : e.item = n.item /\ e.date = n.date}
Occurrence(d, n) == {e \in d.evals : e.item = n.item /\ e.occ = n.occ}

LedgersReplayed(d, c) == c.records \subseteq d.ledger

\* Mutation: a replay is recognised by its counters alone.
ReplayByCounters(d, c) ==
  IsReplay(d, c) => \A k \in Allocations(c) : Advanced(d, k)

\* preflight_replay and _require_replayed_ledgers: once one allocation of the
\* command is spent, all of it must be stored as it is.
ReplayExact(d, c) ==
  IsReplay(d, c) =>
    /\ \A k \in Allocations(c) : Advanced(d, k)
    /\ c.items \subseteq d.items
    /\ c.visits \subseteq d.visits
    /\ \A n \in c.natural : Eligibility(d, n) # {} /\ Occurrence(d, n) # {}
    /\ LedgersReplayed(d, c)

\* Mutation: a claim covers its first ordinal only.
ClaimedFirst(c, scope, n) == \E k \in c.claims : k.scope = scope /\ n = k.expected

Claimed(c, scope, n) == \E k \in c.claims : k.scope = scope /\ n \in Span(k)

NewItems(d, c) == {n \in c.items : n.seq \notin ItemIds(d.items)}
NewVisits(d, c) == {n \in c.visits : VisitId(n) \notin VisitIds(d.visits)}

NewScopes(d, c) ==
  {ItemScope : r \in NewItems(d, c)} \cup {VisitScope(v.item) : v \in NewVisits(d, c)}

\* _seed_owner_counters: the counters a new work item owns start at zero.
Seeded(d, c) ==
  LET owned == UNION {OwnerScopes(r.seq) : r \in NewItems(d, c)}
  IN [s \in DOMAIN d.next \cup owned |-> IF s \in DOMAIN d.next THEN d.next[s] ELSE 0]

\* _merged_collection: an image takes the place of the row of its identity.
MergedItems(d, c) == {r \in d.items : r.seq \notin ItemIds(c.items)} \cup c.items
MergedVisits(d, c) ==
  {v \in d.visits : VisitId(v) \notin VisitIds(c.visits)} \cup c.visits

AfterImages(d, c) ==
  [version |-> d.version, items |-> MergedItems(d, c), visits |-> MergedVisits(d, c),
   next |-> Seeded(d, c), evals |-> d.evals, ledger |-> d.ledger]

\* The fields of a stored row that no after-image may change.
FieldsKept(d, c) ==
  \A v \in c.visits, w \in d.visits : VisitId(v) = VisitId(w) => v.status = w.status

\* apply_after_images: new rows have their claim, stored ones keep their
\* immutable fields, and the merged state is a valid snapshot.
ImagesAllowed(d, c) ==
  /\ \A r \in NewItems(d, c) : Claimed(c, ItemScope, r.seq)
  /\ \A v \in NewVisits(d, c) : Claimed(c, VisitScope(v.item), v.ord)
  /\ FieldsKept(d, c)
  /\ SnapshotValid(AfterImages(d, c))

\* Mutation: stored evaluations are not compared.
NaturalUnchecked(d, c) == TRUE

\* An eligible date and an occurrence belong to each other, if stored.
NaturalAgrees(d, c) ==
  \A n \in c.natural : Eligibility(d, n) \cup Occurrence(d, n) \subseteq {n}

NaturalReplay(d, c, k) ==
  \E n \in c.natural : k.scope = NaturalScope(n.item) /\ Eligibility(d, n) # {}

\* _apply_counter_claim: the compare-and-swap succeeds, or the claim has been
\* spent by the same command before.
ClaimAllowed(d, c, k, new) ==
  IF NaturalReplay(d, c, k) THEN Advanced(d, k)
  ELSE \/ Current(d, k)
       \/ k.scope.kind \in Allocation /\ k.scope \notin new /\ Advanced(d, k)

Spent(d, c) ==
  [s \in DOMAIN d.next |->
     IF \E k \in c.claims : k.scope = s /\ Current(d, k) /\ ~NaturalReplay(d, c, k)
     THEN d.next[s] + (CHOOSE k \in c.claims : k.scope = s).count
     ELSE d.next[s]]

\* _resolve_* and _require_identical: a key keeps its content.
LedgerAgrees(d, c) ==
  \A r \in c.records, s \in d.ledger : r.key = s.key => SameContent(r, s)

\* _resolve_natural_claim and _persist_ledgers: what is stored stays as it is,
\* the rest is inserted.
Evaluated(d, c) == d.evals \cup c.natural
Persisted(d, c) == d.ledger \cup c.records

\* The state the transaction would commit.
Committed(d, c) ==
  [version |-> d.version + 1, items |-> MergedItems(d, c), visits |-> MergedVisits(d, c),
   next |-> Spent(AfterImages(d, c), c), evals |-> Evaluated(d, c), ledger |-> Persisted(d, c)]

\* CommittedAuthoritativeTickSlice.validate: the counters and evaluations
\* returned are rows of the snapshot returned with them.
ResultExact(d, c) ==
  /\ \A k \in c.claims : Advanced(d, k)
  /\ c.natural \subseteq d.evals

\* _advance_runtime: the compare-and-swap on the team's runtime row.
RuntimeCurrent(d, expected) == d.version = expected

\* Whether the command, submitted for version expected, commits.
Accepted(d, c, expected) ==
  LET images == AfterImages(d, c)
  IN /\ RuntimeCurrent(d, expected)
     /\ ReplayExact(d, c)
     /\ ImagesAllowed(d, c)
     /\ NaturalAgrees(images, c)
     /\ \A k \in c.claims : ClaimAllowed(images, c, k, NewScopes(d, c))
     /\ LedgerAgrees(d, c)
     /\ ResultExact(Committed(d, c), c)
-----------------------------------------------------------------------------
(* The processes.                                                          *)

Idle == [pc |-> "idle", cmd |-> NoPart, base |-> 0, expected |-> 0, landed |-> FALSE]

Bootstrapped == {NewItem(i) : i \in 0 .. (BaseItems - 1)}

\* The counters of the bootstrap: no visit and no decision is numbered yet.
BaseCounters ==
  [s \in {ItemScope} \cup UNION {OwnerScopes(r.seq) : r \in Bootstrapped} |->
     IF s = ItemScope THEN BaseItems ELSE 0]

\* The bootstrap writes the first work items with their counters.
Init ==
  /\ db = [version |-> 0, items |-> Bootstrapped, visits |-> {}, next |-> BaseCounters,
           evals |-> {}, ledger |-> {}]
  /\ client = [p \in Clients |-> Idle]

\* What a process reads: the rows, not the ledgers.
Loaded(d) ==
  [version |-> d.version, items |-> d.items, visits |-> d.visits, next |-> d.next,
   evals |-> d.evals]

\* A command with the runtime version it was computed at and is submitted for.
Submission(c, base, expected, landed) ==
  [pc |-> "ready", cmd |-> c, base |-> base, expected |-> expected, landed |-> landed]

\* An attempt whose outcome the process does not know.
Unsure(r, landed) ==
  [pc |-> "unsure", cmd |-> r.cmd, base |-> r.base, expected |-> 0, landed |-> landed]

\* A process loads the snapshot, which must be valid, and computes a command.
Calculate(p) ==
  /\ client[p].pc = "idle"
  /\ db.version < MaxVersion
  /\ SnapshotValid(db)
  /\ \E c \in Commands(Loaded(db)) :
       client' = [client EXCEPT ![p] = Submission(c, db.version, db.version, FALSE)]
  /\ UNCHANGED db

\* The transaction commits; the answer arrives, or the process loses it.
Commit(p) ==
  /\ client[p].pc = "ready"
  /\ db.version < MaxVersion
  /\ Accepted(db, client[p].cmd, client[p].expected)
  /\ db' = Committed(db, client[p].cmd)
  /\ \/ client' = [client EXCEPT ![p] = Idle]
     \/ client' = [client EXCEPT ![p] = Unsure(@, TRUE)]

\* The transaction fails on the way, and the process cannot tell how far.
RollBack(p) ==
  /\ client[p].pc = "ready"
  /\ client' = [client EXCEPT ![p] = Unsure(@, @.landed)]
  /\ UNCHANGED db

\* The command is refused.
Refuse(p) ==
  /\ client[p].pc = "ready"
  /\ ~Accepted(db, client[p].cmd, client[p].expected)
  /\ client' = [client EXCEPT ![p] = Idle]
  /\ UNCHANGED db

\* The same command again, for the runtime version of now.
Resubmit(p) ==
  /\ client[p].pc = "unsure"
  /\ client' = [client EXCEPT ![p] = Submission(@.cmd, @.base, db.version, @.landed)]
  /\ UNCHANGED db

\* The process gives up, or dies.
GiveUp(p) ==
  /\ client[p].pc = "unsure"
  /\ client' = [client EXCEPT ![p] = Idle]
  /\ UNCHANGED db

\* A process nothing interrupts between its load and its commit.
CommitElsewhere ==
  /\ db.version < MaxVersion
  /\ \E c \in Parts(Loaded(db)) : Accepted(db, c, db.version) /\ db' = Committed(db, c)
  /\ UNCHANGED client

Next ==
  \/ \E p \in Clients :
       Calculate(p) \/ Commit(p) \/ RollBack(p) \/ Refuse(p) \/ Resubmit(p) \/ GiveUp(p)
  \/ CommitElsewhere

Spec == Init /\ [][Next]_vars
-----------------------------------------------------------------------------
Numbers(d, s) == 0 .. (d.next[s] - 1)

\* The rows under a counter are numbered without a gap up to it.
Numbered(d) ==
  /\ ItemIds(d.items) = Numbers(d, ItemScope)
  /\ \A r \in d.items :
       /\ {v.ord : v \in {w \in d.visits : w.item = r.seq}} = Numbers(d, VisitScope(r.seq))
       /\ {e.occ : e \in {f \in d.evals : f.item = r.seq}} = Numbers(d, NaturalScope(r.seq))

\* No date is evaluated twice.
DatesOnce(d) ==
  \A e, f \in d.evals : e.item = f.item => (e.date = f.date <=> e.occ = f.occ)

\* What the ledgers should tell of: the rows that were allocated.
Subjects(d) ==
  {<<"created", r.seq, 0>> : r \in {q \in d.items : q.seq >= BaseItems}}
  \cup {<<"visited", v.item, v.ord>> : v \in d.visits}
  \cup {<<"evaluated", e.item, e.date>> : e \in d.evals}

\* Every allocated row and evaluation is in the ledger, and a row only once.
LedgerTells(d) ==
  /\ {s.key.subject : s \in d.ledger} = Subjects(d)
  /\ \A s, t \in d.ledger :
       s.key.subject = t.key.subject => s = t \/ s.key.subject[1] = "evaluated"

\* Rows, counters and ledger tell the same story whatever was submitted in
\* whatever order: no gap, no repetition, nothing untold
\* (test_authoritative_unit_of_work.py:1425).  An evaluation may be in the
\* ledger twice: a stale command without an allocation finds the date evaluated
\* and adds its own evidence, because semantic keys name the version.
RowsAccounted == SnapshotValid(db) /\ Numbered(db) /\ DatesOnce(db) /\ LedgerTells(db)

\* A command computed from the state that is still the current one commits:
\* no earlier replay, refusal or rollback leaves a counter, row or key behind
\* that makes the protocol refuse honest work.
FreshAccepted ==
  \A p \in Clients :
    client[p].pc = "ready" /\ client[p].base = db.version
      => Accepted(db, client[p].cmd, client[p].expected)

\* A command that has landed and is submitted again consumes nothing and
\* rewrites nothing, whatever others committed in between
\* (test_authoritative_unit_of_work.py:746), if it allocates: a command without
\* an allocation is protected by the runtime version alone.
ReplayHarmless ==
  [][\A p \in Clients :
       /\ client[p].landed /\ Allocations(client[p].cmd) # {}
       /\ client'[p] # client[p] /\ db' # db
       => db' = [db EXCEPT !.version = @ + 1]]_vars
=============================================================================
