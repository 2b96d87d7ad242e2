----------------------------- MODULE SliceProofs -----------------------------
(***************************************************************************)
(* Proofs about the two halves of a slice: the transaction that commits it *)
(* (SliceCommit) and the labor that fills it (VisitLabor).                 *)
(*                                                                         *)
(* The commit, for any number of processes, work items, visits and dates.  *)
(* What the transaction checks is enough to keep the                       *)
(* rows, the counters and the ledger in step even when the command it is   *)
(* given was computed long ago (KeptByCommit), because a command that      *)
(* allocates is either new, and then all its claims are current, or spent, *)
(* and then nothing of it is written again.  And it is not too much: what  *)
(* a process computes from the current state fits it (CommandFits), and    *)
(* what fits is accepted (FitsAccepted).                                   *)
(*                                                                         *)
(* The labor, for any number of items, members and steps, any calendar,    *)
(* capacities and absences.  A segment is followed rank by rank (SoFar), a *)
(* slice instant by instant (Reached), a tick through the slices that are  *)
(* begun again at a shorter end (RiskAware); each time the labor booked on *)
(* members is the labor credited to visits and the time of a visit is      *)
(* labor or queue.  Where a slice is cut, the longer run and the shorter   *)
(* one go together up to the segment of the cut (RunsTogether), and what   *)
(* the estimate found there happens (SliceCloses).                         *)
(***************************************************************************)
EXTENDS SliceCommit, VisitLabor, FiniteSetTheorems, TLAPS

Item == [seq : Nat, status : Route, life : {"ACTIVE", "CANCELLED"}]

Visit == [item : Nat, ord : Nat, status : Route, life : {"OPEN", "CLOSED"}, work : Nat]

Evaluation == [item : Nat, date : Dates, occ : Nat]

Scopes == {ItemScope} \cup UNION {OwnerScopes(i) : i \in Nat}

ClaimRow == [scope : Scopes, expected : Nat, count : Nat \ {0}]

Draft ==
  [key : [version : Nat, subject : {"created", "visited", "evaluated"} \X Nat \X (Nat \cup Dates)],
   content : Route \cup {"cancel", "keep"}]

Command ==
  [items : SUBSET Item, visits : SUBSET Visit, claims : SUBSET ClaimRow,
   natural : SUBSET Evaluation, records : SUBSET Draft]

Counters == UNION {[S -> Nat] : S \in SUBSET Scopes}

Database ==
  [version : Nat, items : SUBSET Item, visits : SUBSET Visit, next : Counters,
   evals : SUBSET Evaluation, ledger : SUBSET Draft]

\* Each identity once.
Keyed(d) ==
  /\ \A r, q \in d.items : r.seq = q.seq => r = q
  /\ \A v, u \in d.visits : VisitId(v) = VisitId(u) => v = u
  /\ \A e, f \in d.evals : e.item = f.item /\ (e.date = f.date \/ e.occ = f.occ) => e = f

\* A work item has its counters, and the rows are the ones they count.
Counted(d) ==
  /\ DOMAIN d.next = {ItemScope} \cup UNION {OwnerScopes(r.seq) : r \in d.items}
  /\ ItemIds(d.items) = Numbers(d, ItemScope)
  /\ \A v \in d.visits : v.ord < d.next[VisitScope(v.item)]
  /\ \A r \in d.items : \A k \in Numbers(d, VisitScope(r.seq)) : <<r.seq, k>> \in VisitIds(d.visits)
  /\ \A e \in d.evals : e.occ < d.next[NaturalScope(e.item)]
  /\ \A r \in d.items : \A k \in Numbers(d, NaturalScope(r.seq)) :
       \E e \in d.evals : e.item = r.seq /\ e.occ = k

Sane(d) == d \in Database /\ Keyed(d) /\ Counted(d) /\ SnapshotValid(d)

Told(d) ==
  /\ LedgerTells(d)
  /\ \A s \in d.ledger : s.key.version < d.version
  /\ BaseItems <= d.next[ItemScope]

\* What holds of a command whatever has happened to the state since: each
\* identity, counter and decision once, and a record for each row it claims.
ClaimedSubjects(c) ==
  {<<"created", r.seq, 0>> : r \in {q \in c.items : Claimed(c, ItemScope, q.seq)}}
  \cup {<<"visited", v.item, v.ord>> : v \in {u \in c.visits : Claimed(c, VisitScope(u.item), u.ord)}}
  \cup {<<"evaluated", n.item, n.date>> : n \in c.natural}

Rigid(c, version) ==
  /\ c \in Command
  /\ \A r, q \in c.items : r.seq = q.seq => r = q
  /\ \A v, u \in c.visits : VisitId(v) = VisitId(u) => v = u
  /\ CommandValid(c)
  /\ {s.key.subject : s \in c.records} = ClaimedSubjects(c)
  /\ \A s, t \in c.records : s.key.subject = t.key.subject => s = t \/ s.key.subject[1] = "evaluated"
  /\ \A s \in c.records : s.key.version = version

\* A command that was computed from this state.
ItemsFit(d, c) ==
  /\ \A r \in c.items : r.seq \in ItemIds(d.items) \/ Claimed(c, ItemScope, r.seq)
  /\ \A r \in c.items, w \in d.visits :
       w.item = r.seq /\ w.life = "OPEN" => VisitId(w) \in VisitIds(c.visits)

\* A visit of the command continues one of the state or opens the item's next.
Continues(d, v) ==
  \E w \in d.visits :
    VisitId(w) = VisitId(v) /\ w.status = v.status /\ (v.life = "OPEN" => w.life = "OPEN")

Opens(d, c, v) ==
  /\ Claimed(c, VisitScope(v.item), v.ord)
  /\ VisitId(v) \notin VisitIds(d.visits)
  /\ v.item \in ItemIds(c.items)

VisitsFit(d, c) ==
  /\ \A v \in c.visits : v.item \in ItemIds(d.items) /\ (Continues(d, v) \/ Opens(d, c, v))
  /\ \A v \in c.visits, r \in c.items : v.life = "OPEN" /\ r.seq = v.item => r.status = v.status
  /\ \A v, u \in c.visits : v.item = u.item /\ v.life = "OPEN" /\ u.life = "OPEN" => v = u

ClaimsFit(d, c) ==
  /\ \A k \in c.claims : Current(d, k)
  /\ \A n \in c.natural :
       /\ n.item \in ItemIds(d.items) /\ n.occ = d.next[NaturalScope(n.item)]
       /\ \A e \in d.evals : e.item # n.item \/ e.date # n.date

Fits(d, c) == ItemsFit(d, c) /\ VisitsFit(d, c) /\ ClaimsFit(d, c)

\* What a process holds: a command computed at its base version, which still
\* fits if that version is the current one, and is spent if it has landed.
Holds(d, r) ==
  /\ r.base \in Nat /\ Rigid(r.cmd, r.base) /\ r.base <= d.version
  /\ r.pc = "ready" => r.expected \in Nat /\ r.base <= r.expected /\ r.expected <= d.version
  /\ r.base = d.version => Fits(d, r.cmd)
  /\ r.landed => r.base < d.version /\ \A k \in Allocations(r.cmd) : Advanced(d, k)

Attempt ==
  [pc : {"idle", "ready", "unsure"}, cmd : Command, base : Nat, expected : Nat, landed : BOOLEAN]

CommitInv ==
  /\ Sane(db) /\ Told(db)
  /\ client \in [Clients -> Attempt]
  /\ \A p \in Clients : IF client[p].pc = "idle" THEN ~client[p].landed ELSE Holds(db, client[p])

-----------------------------------------------------------------------------
(* Scopes, and what the transaction's records hold.                        *)

LEMMA ScopeFacts ==
  /\ \A i, j : VisitScope(i) = VisitScope(j) => i = j
  /\ \A i, j : NaturalScope(i) = NaturalScope(j) => i = j
  /\ \A i, j : VisitScope(i) # NaturalScope(j)
  /\ \A i : ItemScope # VisitScope(i) /\ ItemScope # NaturalScope(i)
  /\ ItemScope.kind = "ITEM_SEQUENCE"
  /\ \A i : VisitScope(i).kind = "VISIT_ORDINAL" /\ VisitScope(i).owner = i
  /\ \A i : NaturalScope(i).kind = "NATURAL_DECISION_OCCURRENCE" /\ NaturalScope(i).owner = i
BY DEF ItemScope, VisitScope, NaturalScope

\* A claim is on a counter of one of the three kinds.
LEMMA ClaimKinds ==
  ASSUME NEW k \in ClaimRow
  PROVE  /\ \/ k.scope = ItemScope
            \/ \E i \in Nat : k.scope = VisitScope(i)
            \/ \E i \in Nat : k.scope = NaturalScope(i)
         /\ k.scope.kind \in Allocation <=> \A i \in Nat : k.scope # NaturalScope(i)
         /\ k.expected \in Nat /\ k.count \in Nat /\ k.count > 0
<1>1. k.scope = ItemScope \/ \E i \in Nat : k.scope \in {VisitScope(i), NaturalScope(i)}
  BY DEF ClaimRow, Scopes, OwnerScopes
<1>2. k.expected \in Nat /\ k.count \in Nat /\ k.count > 0
  BY DEF ClaimRow
<1>3. CASE k.scope = ItemScope
  BY <1>2, <1>3, ScopeFacts DEF Allocation
<1>4. ASSUME NEW i \in Nat, k.scope = VisitScope(i)
      PROVE  k.scope.kind \in Allocation /\ \A j \in Nat : k.scope # NaturalScope(j)
  BY <1>4, ScopeFacts DEF Allocation
<1>5. ASSUME NEW i \in Nat, k.scope = NaturalScope(i)
      PROVE  k.scope.kind \notin Allocation
  BY <1>5, ScopeFacts DEF Allocation
<1> QED
  BY <1>1, <1>2, <1>3, <1>4, <1>5

LEMMA MergedIds ==
  ASSUME NEW d, NEW c
  PROVE  /\ ItemIds(MergedItems(d, c)) = ItemIds(d.items) \cup ItemIds(c.items)
         /\ VisitIds(MergedVisits(d, c)) = VisitIds(d.visits) \cup VisitIds(c.visits)
<1>1. ItemIds(MergedItems(d, c)) = ItemIds(d.items) \cup ItemIds(c.items)
  BY DEF ItemIds, MergedItems
<1>2. VisitIds(MergedVisits(d, c)) = VisitIds(d.visits) \cup VisitIds(c.visits)
  BY DEF VisitIds, MergedVisits
<1> QED
  BY <1>1, <1>2

\* The merged rows keep their types and identities.
LEMMA MergedRows ==
  ASSUME NEW d \in Database, Keyed(d), NEW c, NEW b, Rigid(c, b)
  PROVE  /\ MergedItems(d, c) \subseteq Item /\ MergedVisits(d, c) \subseteq Visit
         /\ \A r, q \in MergedItems(d, c) : r.seq = q.seq => r = q
         /\ \A v, u \in MergedVisits(d, c) : VisitId(v) = VisitId(u) => v = u
<1>1. c.items \subseteq Item /\ c.visits \subseteq Visit
  BY DEF Rigid, Command
<1>2. \A r, q \in MergedItems(d, c) : r.seq = q.seq => r = q
  BY DEF MergedItems, ItemIds, Keyed, Rigid
<1>3. \A v, u \in MergedVisits(d, c) : VisitId(v) = VisitId(u) => v = u
  <2> SUFFICES ASSUME NEW v \in MergedVisits(d, c), NEW u \in MergedVisits(d, c), VisitId(v) = VisitId(u)
               PROVE  v = u
    OBVIOUS
  <2>1. CASE v \in c.visits /\ u \in c.visits
    BY <2>1 DEF Rigid
  <2>2. CASE v \notin c.visits \/ u \notin c.visits
    BY <2>2 DEF MergedVisits, VisitIds, Keyed
  <2> QED
    BY <2>1, <2>2
<1> QED
  BY <1>1, <1>2, <1>3 DEF MergedItems, MergedVisits, Database

Owned(rows) == UNION {OwnerScopes(r.seq) : r \in rows}

\* Which scopes belong to known work items.
LEMMA OwnedScopes ==
  ASSUME NEW rows
  PROVE  /\ \A i : VisitScope(i) \in Owned(rows) <=> i \in ItemIds(rows)
         /\ \A i : NaturalScope(i) \in Owned(rows) <=> i \in ItemIds(rows)
         /\ ItemScope \notin Owned(rows)
         /\ \A s \in Owned(rows) : \E i \in ItemIds(rows) : s \in OwnerScopes(i)
<1>1. \A s : s \in Owned(rows) <=> \E i \in ItemIds(rows) : s \in OwnerScopes(i)
  BY DEF Owned, ItemIds
<1>2. \A i, j : /\ VisitScope(i) \in OwnerScopes(j) <=> i = j
                /\ NaturalScope(i) \in OwnerScopes(j) <=> i = j
                /\ ItemScope \notin OwnerScopes(j)
  BY ScopeFacts DEF OwnerScopes
<1> QED
  BY <1>1, <1>2

LEMMA CountersOf ==
  ASSUME NEW d \in Database
  PROVE  \A s \in DOMAIN d.next : d.next[s] \in Nat
BY DEF Database, Counters

\* The counters of the after-images: the old ones, and zero for new owners.
LEMMA SeededFacts ==
  ASSUME NEW d \in Database, Counted(d), NEW c
  PROVE  /\ DOMAIN Seeded(d, c) = {ItemScope} \cup Owned(MergedItems(d, c))
         /\ \A s \in DOMAIN d.next : s \in DOMAIN Seeded(d, c) /\ Seeded(d, c)[s] = d.next[s]
         /\ \A s \in DOMAIN Seeded(d, c) : s \notin DOMAIN d.next => Seeded(d, c)[s] = 0
         /\ \A s \in DOMAIN Seeded(d, c) : Seeded(d, c)[s] \in Nat
<1> DEFINE owned == Owned(NewItems(d, c))
<1>1. Seeded(d, c) = [s \in DOMAIN d.next \cup owned |-> IF s \in DOMAIN d.next THEN d.next[s] ELSE 0]
  BY DEF Seeded, Owned
<1>2. DOMAIN d.next \cup owned = {ItemScope} \cup Owned(d.items) \cup Owned(NewItems(d, c))
  BY DEF Counted, Owned
<1>3. \A s : s \in Owned(MergedItems(d, c)) <=> s \in Owned(d.items) \/ s \in Owned(NewItems(d, c))
  <2>1. \A r \in MergedItems(d, c) : r.seq \in ItemIds(d.items) \/ r \in NewItems(d, c)
    <3>1. \A r \in d.items : r.seq \in ItemIds(d.items)
      BY DEF ItemIds
    <3> QED
      BY <3>1 DEF MergedItems, NewItems
  <2>2. \A i \in ItemIds(d.items) : \E r \in MergedItems(d, c) : r.seq = i
    <3>1. \A i \in ItemIds(d.items) : i \in ItemIds(MergedItems(d, c))
      BY MergedIds
    <3>2. \A i \in ItemIds(MergedItems(d, c)) : \E r \in MergedItems(d, c) : r.seq = i
      BY DEF ItemIds
    <3> QED
      BY <3>1, <3>2
  <2>3. NewItems(d, c) \subseteq MergedItems(d, c)
    BY DEF NewItems, MergedItems
  <2>4. \A i \in ItemIds(d.items) : \E r \in d.items : r.seq = i
    BY DEF ItemIds
  <2>5. \A s, rows : s \in Owned(rows) <=> \E r \in rows : s \in OwnerScopes(r.seq)
    BY DEF Owned
  <2>6. \A r \in d.items : r.seq \in ItemIds(d.items)
    BY DEF ItemIds
  <2>7. ASSUME NEW s, s \in Owned(MergedItems(d, c))
        PROVE  s \in Owned(d.items) \/ s \in Owned(NewItems(d, c))
    <3>1. PICK r \in MergedItems(d, c) : s \in OwnerScopes(r.seq)
      BY <2>5, <2>7
    <3> QED
      BY <2>1, <2>4, <2>5, <3>1
  <2>8. ASSUME NEW s, s \in Owned(d.items)
        PROVE  s \in Owned(MergedItems(d, c))
    <3>1. PICK r \in d.items : s \in OwnerScopes(r.seq)
      BY <2>5, <2>8
    <3> QED
      BY <2>2, <2>5, <2>6, <3>1
  <2>9. ASSUME NEW s, s \in Owned(NewItems(d, c))
        PROVE  s \in Owned(MergedItems(d, c))
    <3>1. PICK r \in NewItems(d, c) : s \in OwnerScopes(r.seq)
      BY <2>5, <2>9
    <3> QED
      BY <2>3, <2>5, <3>1
  <2> QED
    BY <2>7, <2>8, <2>9
<1>4. \A s \in DOMAIN d.next : d.next[s] \in Nat
  BY CountersOf
<1> HIDE DEF owned
<1> QED
  BY <1>1, <1>2, <1>3, <1>4

\* Each eligible decision has a claim of its own, and each claim that allocates
\* nothing is one of those.
LEMMA NaturalClaims ==
  ASSUME NEW c, NEW b, Rigid(c, b)
  PROVE  /\ \A n \in c.natural : Claim(NaturalScope(n.item), n.occ, 1) \in c.claims
         /\ \A k \in c.claims : k.scope.kind \notin Allocation =>
              \E n \in c.natural : k = Claim(NaturalScope(n.item), n.occ, 1)
         /\ \A n, m \in c.natural : n.item = m.item => n = m
         /\ \A k, l \in c.claims : k.scope = l.scope => k = l
         /\ c.claims \subseteq ClaimRow /\ c.natural \subseteq Evaluation
<1>1. c.claims \ Allocations(c) = {Claim(NaturalScope(n.item), n.occ, 1) : n \in c.natural}
  BY DEF Rigid, CommandValid, NaturalBound
<1>2. \A n \in c.natural : Claim(NaturalScope(n.item), n.occ, 1) \in c.claims
  BY <1>1
<1>3. ASSUME NEW k \in c.claims, k.scope.kind \notin Allocation
      PROVE  \E n \in c.natural : k = Claim(NaturalScope(n.item), n.occ, 1)
  <2>1. k \in c.claims \ Allocations(c)
    BY <1>3 DEF Allocations
  <2> QED
    BY <1>1, <2>1
<1> QED
  BY <1>2, <1>3 DEF Rigid, CommandValid, Command

\* What the transaction adds to a counter.
LEMMA SpentFacts ==
  ASSUME NEW d \in Database, Counted(d), NEW c, NEW b, Rigid(c, b),
         NEW images, images = AfterImages(d, c)
  PROVE  /\ DOMAIN Spent(images, c) = DOMAIN Seeded(d, c)
         /\ \A k \in c.claims :
              Current(images, k) /\ ~NaturalReplay(images, c, k) =>
                Spent(images, c)[k.scope] = Seeded(d, c)[k.scope] + k.count
         /\ \A s \in DOMAIN Seeded(d, c) :
              (\A k \in c.claims : k.scope = s => ~Current(images, k) \/ NaturalReplay(images, c, k))
                => Spent(images, c)[s] = Seeded(d, c)[s]
         /\ \A s \in DOMAIN Seeded(d, c) :
              Spent(images, c)[s] \in Nat /\ Seeded(d, c)[s] <= Spent(images, c)[s]
<1> DEFINE spends(k) == Current(images, k) /\ ~NaturalReplay(images, c, k)
           next == Seeded(d, c)
           after == Spent(images, c)
<1>1. images.next = next
  BY DEF AfterImages
<1>2. after = [s \in DOMAIN next |->
                 IF \E k \in c.claims : k.scope = s /\ spends(k)
                 THEN next[s] + (CHOOSE k \in c.claims : k.scope = s).count
                 ELSE next[s]]
  BY <1>1 DEF Spent
<1>3. \A k \in c.claims : spends(k) => k.scope \in DOMAIN next
  BY <1>1 DEF Current
<1>4. \A k \in c.claims : (CHOOSE l \in c.claims : l.scope = k.scope) = k
  BY NaturalClaims
<1>5. \A s \in DOMAIN next : next[s] \in Nat
  BY SeededFacts
<1>6. \A k \in c.claims : k.count \in Nat
  BY NaturalClaims, ClaimKinds
<1> HIDE DEF spends, next, after
<1>7. ASSUME NEW k \in c.claims, spends(k)
      PROVE  after[k.scope] = next[k.scope] + k.count
  BY <1>2, <1>3, <1>4, <1>7
<1>8. ASSUME NEW s \in DOMAIN next, \A k \in c.claims : k.scope = s => ~spends(k)
      PROVE  after[s] = next[s]
  BY <1>2, <1>8
<1>9. ASSUME NEW s \in DOMAIN next
      PROVE  after[s] \in Nat /\ next[s] <= after[s]
  <2>1. CASE \E k \in c.claims : k.scope = s /\ spends(k)
    <3>1. PICK k \in c.claims : k.scope = s /\ spends(k)
      BY <2>1
    <3> QED
      BY <1>5, <1>6, <1>7, <3>1
  <2>2. CASE \A k \in c.claims : k.scope = s => ~spends(k)
    BY <1>5, <1>8, <2>2
  <2> QED
    BY <2>1, <2>2
<1>10. DOMAIN after = DOMAIN next
  BY <1>2
<1> QED
  BY <1>7, <1>8, <1>9, <1>10 DEF spends, next, after

-----------------------------------------------------------------------------
(* An accepted command is either spent or new.                             *)

\* What is accepted although one of its allocations is spent changes nothing
\* but the version.
LEMMA ReplayChangesNothing ==
  ASSUME NEW d \in Database, Keyed(d), Counted(d), NEW c, NEW b, Rigid(c, b), NEW x,
         Accepted(d, c, x), IsReplay(d, c)
  PROVE  Committed(d, c) = [d EXCEPT !.version = d.version + 1]
<1> PICK images : images = AfterImages(d, c)
  OBVIOUS
<1>1. /\ ReplayExact(d, c) /\ NaturalAgrees(images, c)
  BY DEF Accepted
<1>2. /\ \A k \in Allocations(c) : Advanced(d, k)
      /\ c.items \subseteq d.items /\ c.visits \subseteq d.visits
      /\ \A n \in c.natural : Eligibility(d, n) # {}
      /\ c.records \subseteq d.ledger
  BY <1>1 DEF ReplayExact, LedgersReplayed
<1>3. MergedItems(d, c) = d.items
  BY <1>2 DEF MergedItems, ItemIds, Keyed
<1>4. MergedVisits(d, c) = d.visits
  <2>1. \A v \in d.visits : VisitId(v) \in VisitIds(c.visits) => v \in c.visits
    BY <1>2 DEF VisitIds, Keyed
  <2> QED
    BY <1>2, <2>1 DEF MergedVisits
<1>5. images.evals = d.evals /\ images.next = Seeded(d, c)
  BY DEF AfterImages
<1>6. Evaluated(d, c) = d.evals
  <2>1. \A n \in c.natural : Eligibility(d, n) \subseteq {n}
    BY <1>1, <1>5 DEF NaturalAgrees, Eligibility
  <2> QED
    BY <1>2, <2>1 DEF Eligibility, Evaluated
<1>7. Persisted(d, c) = d.ledger
  BY <1>2 DEF Persisted
<1>8. DOMAIN Seeded(d, c) = DOMAIN d.next
  BY <1>3, SeededFacts DEF Counted, Owned
<1>9. /\ \A s \in DOMAIN d.next : s \in DOMAIN Seeded(d, c) /\ Seeded(d, c)[s] = d.next[s]
      /\ \A s \in DOMAIN Seeded(d, c) : s \notin DOMAIN d.next => Seeded(d, c)[s] = 0
      /\ \A s \in DOMAIN Seeded(d, c) : Seeded(d, c)[s] \in Nat
  BY SeededFacts
<1>10. ASSUME NEW k \in c.claims
      PROVE  ~Current(images, k) \/ NaturalReplay(images, c, k)
  <2>1. CASE k.scope.kind \in Allocation
    <3>1. Advanced(d, k)
      BY <1>2, <2>1 DEF Allocations
    <3>2. k.expected \in Nat /\ k.count \in Nat /\ k.count > 0
      BY ClaimKinds, NaturalClaims
    <3>3. k.scope \in DOMAIN d.next /\ d.next[k.scope] \in Nat /\ d.next[k.scope] >= k.expected + k.count
      BY <3>1, CountersOf DEF Advanced
    <3>4. Seeded(d, c)[k.scope] # k.expected
      BY <1>9, <3>2, <3>3
    <3> QED
      BY <1>5, <3>4 DEF Current
  <2>2. CASE k.scope.kind \notin Allocation
    <3>1. PICK n \in c.natural : k = Claim(NaturalScope(n.item), n.occ, 1)
      BY <2>2, NaturalClaims
    <3>2. Eligibility(images, n) # {} /\ k.scope = NaturalScope(n.item)
      BY <1>2, <1>5, <3>1 DEF Eligibility, Claim
    <3> QED
      BY <3>2 DEF NaturalReplay
  <2> QED
    BY <2>1, <2>2
<1>11. Spent(images, c) = d.next
  <2>1. DOMAIN Spent(images, c) = DOMAIN d.next
    BY <1>8, SpentFacts
  <2>2. \A s \in DOMAIN d.next : Spent(images, c)[s] = d.next[s]
    <3>1. \A s \in DOMAIN Seeded(d, c) : Spent(images, c)[s] = Seeded(d, c)[s]
      BY <1>10, SpentFacts
    <3> QED
      BY <1>9, <3>1
  <2>3. Spent(images, c) = [s \in DOMAIN Spent(images, c) |-> Spent(images, c)[s]]
    BY DEF Spent
  <2>4. d.next = [s \in DOMAIN d.next |-> d.next[s]]
    BY DEF Database, Counters
  <2> QED
    BY <2>1, <2>2, <2>3, <2>4
<1>12. Committed(d, c) = [version |-> d.version + 1, items |-> d.items, visits |-> d.visits,
                         next |-> d.next, evals |-> d.evals, ledger |-> d.ledger]
  BY <1>3, <1>4, <1>6, <1>7, <1>11 DEF Committed
<1> QED
  BY <1>12 DEF Database

\* The claims of a new command are current; those of its decisions that are
\* stored already are spent.
LEMMA NewClaims ==
  ASSUME NEW d \in Database, Counted(d), NEW c, NEW b, Rigid(c, b), NEW x,
         Accepted(d, c, x), ~IsReplay(d, c), NEW images, images = AfterImages(d, c)
  PROVE  /\ \A k \in Allocations(c) : Current(images, k) /\ ~NaturalReplay(images, c, k)
         /\ \A n \in c.natural :
              LET k == Claim(NaturalScope(n.item), n.occ, 1)
              IN IF n \in d.evals THEN NaturalReplay(images, c, k)
                 ELSE /\ Current(images, k) /\ ~NaturalReplay(images, c, k)
                      /\ Eligibility(d, n) = {} /\ Occurrence(d, n) = {}
<1>1. /\ NaturalAgrees(images, c)
      /\ \A k \in c.claims : ClaimAllowed(images, c, k, NewScopes(d, c))
  BY DEF Accepted
<1>2. images.evals = d.evals /\ images.next = Seeded(d, c)
  BY DEF AfterImages
<1>3. /\ \A s \in DOMAIN d.next : s \in DOMAIN Seeded(d, c) /\ Seeded(d, c)[s] = d.next[s]
      /\ \A s \in DOMAIN Seeded(d, c) : s \notin DOMAIN d.next => Seeded(d, c)[s] = 0
      /\ \A s \in DOMAIN Seeded(d, c) : Seeded(d, c)[s] \in Nat
  BY SeededFacts
<1>4. ASSUME NEW k \in Allocations(c)
      PROVE  Current(images, k) /\ ~NaturalReplay(images, c, k)
  <2>1. k \in c.claims /\ k.scope.kind \in Allocation
    BY DEF Allocations
  <2>2. ~NaturalReplay(images, c, k)
    BY <2>1, ScopeFacts DEF NaturalReplay, Allocation
  <2>3. ~Advanced(images, k)
    <3>1. k.expected \in Nat /\ k.count \in Nat /\ k.count > 0
      BY <2>1, ClaimKinds, NaturalClaims
    <3>2. ~Advanced(d, k)
      BY DEF IsReplay
    <3>3. CASE k.scope \in DOMAIN d.next
      BY <1>2, <1>3, <3>2, <3>3 DEF Advanced
    <3>4. CASE k.scope \notin DOMAIN d.next
      <4>1. k.scope \in DOMAIN Seeded(d, c) => Seeded(d, c)[k.scope] = 0
        BY <1>3, <3>4
      <4> QED
        BY <1>2, <3>1, <4>1 DEF Advanced
    <3> QED
      BY <3>3, <3>4
  <2> QED
    BY <1>1, <2>1, <2>2, <2>3 DEF ClaimAllowed
<1>5. ASSUME NEW n \in c.natural, NEW k, k = Claim(NaturalScope(n.item), n.occ, 1)
      PROVE  IF n \in d.evals THEN NaturalReplay(images, c, k)
             ELSE /\ Current(images, k) /\ ~NaturalReplay(images, c, k)
                  /\ Eligibility(d, n) = {} /\ Occurrence(d, n) = {}
  <2>1. k \in c.claims /\ k.scope = NaturalScope(n.item) /\ k.scope.kind \notin Allocation
    BY <1>5, NaturalClaims, ScopeFacts DEF Claim, Allocation
  <2>2. Eligibility(images, n) = Eligibility(d, n) /\ Occurrence(images, n) = Occurrence(d, n)
    BY <1>2 DEF Eligibility, Occurrence
  <2>3. Eligibility(d, n) \subseteq {n} /\ Occurrence(d, n) \subseteq {n}
    BY <1>1, <2>2 DEF NaturalAgrees
  <2>4. NaturalReplay(images, c, k) <=> Eligibility(d, n) # {}
    BY <2>1, <2>2, NaturalClaims, ScopeFacts DEF NaturalReplay
  <2>5. CASE n \in d.evals
    BY <2>4, <2>5 DEF Eligibility
  <2>6. CASE n \notin d.evals
    <3>1. Eligibility(d, n) = {} /\ Occurrence(d, n) = {}
      BY <2>3, <2>6 DEF Eligibility, Occurrence
    <3>2. Current(images, k)
      BY <1>1, <2>1, <2>4, <3>1 DEF ClaimAllowed
    <3> QED
      BY <2>4, <2>6, <3>1, <3>2
  <2> QED
    BY <2>5, <2>6
<1> QED
  BY <1>4, <1>5

\* The work items of a new command continue their numbering.
LEMMA ItemsNumbered ==
  ASSUME NEW d \in Database, Counted(d), NEW c, NEW b, Rigid(c, b), NEW x,
         Accepted(d, c, x), ~IsReplay(d, c), NEW after, after = Spent(AfterImages(d, c), c)
  PROVE  /\ ItemIds(MergedItems(d, c)) = 0 .. (after[ItemScope] - 1)
         /\ \A i \in Nat : Claimed(c, ItemScope, i) => d.next[ItemScope] <= i
<1> PICK images : images = AfterImages(d, c)
  OBVIOUS
<1> DEFINE next == d.next[ItemScope]
<1>1. /\ ItemScope \in DOMAIN d.next /\ next \in Nat
      /\ ItemScope \in DOMAIN Seeded(d, c) /\ Seeded(d, c)[ItemScope] = next
  <2>1. ItemScope \in DOMAIN d.next
    BY DEF Counted
  <2> QED
    BY <2>1, CountersOf, SeededFacts
<1>2. ItemIds(d.items) = 0 .. (next - 1)
  BY DEF Counted, Numbers
<1>3. ItemIds(MergedItems(d, c)) = ItemIds(d.items) \cup ItemIds(c.items)
  BY MergedIds
<1>4. \A i \in ItemIds(c.items) : i \in ItemIds(d.items) \/ Claimed(c, ItemScope, i)
  <2>1. \A r \in NewItems(d, c) : Claimed(c, ItemScope, r.seq)
    BY DEF Accepted, ImagesAllowed
  <2> QED
    BY <2>1 DEF NewItems, ItemIds
<1> HIDE DEF next
<1>5. CASE \E k \in c.claims : k.scope = ItemScope
  <2>1. PICK k \in c.claims : k.scope = ItemScope
    BY <1>5
  <2>2. k \in Allocations(c) /\ k.expected \in Nat /\ k.count \in Nat /\ k.count > 0
    BY <2>1, ScopeFacts, NaturalClaims, ClaimKinds DEF Allocations, Allocation
  <2>3. Current(images, k) /\ ~NaturalReplay(images, c, k)
    BY <2>2, NewClaims
  <2>4. k.expected = next
    BY <1>1, <2>1, <2>3 DEF Current, AfterImages
  <2>5. after[ItemScope] = next + k.count
    BY <1>1, <2>1, <2>3, SpentFacts
  <2>6. Span(k) \subseteq ItemIds(c.items)
    BY <2>1, <2>2, ScopeFacts DEF Rigid, CommandValid, RangesCovered, Coordinates
  <2>7. \A i : Claimed(c, ItemScope, i) <=> i \in Span(k)
    BY <2>1, NaturalClaims DEF Claimed
  <2>8. Span(k) = next .. (next + k.count - 1)
    BY <2>4 DEF Span
  <2>9. ItemIds(MergedItems(d, c)) = (0 .. (next - 1)) \cup (next .. (next + k.count - 1))
    BY <1>2, <1>3, <1>4, <2>6, <2>7, <2>8
  <2> QED
    BY <1>1, <2>2, <2>5, <2>7, <2>8, <2>9 DEF next
<1>6. CASE \A k \in c.claims : k.scope # ItemScope
  <2>1. \A i : ~Claimed(c, ItemScope, i)
    BY <1>6 DEF Claimed
  <2>2. after[ItemScope] = next
    BY <1>1, <1>6, SpentFacts
  <2> QED
    BY <1>2, <1>3, <1>4, <2>1, <2>2
<1> QED
  BY <1>5, <1>6

\* So do its visits.
LEMMA VisitsNumbered ==
  ASSUME NEW d \in Database, Counted(d), OwnersPresent(d), NEW c, NEW b, Rigid(c, b), NEW x,
         Accepted(d, c, x), ~IsReplay(d, c), NEW after, after = Spent(AfterImages(d, c), c)
  PROVE  /\ \A v \in MergedVisits(d, c) : v.ord < after[VisitScope(v.item)]
         /\ \A r \in MergedItems(d, c) : \A k \in 0 .. (after[VisitScope(r.seq)] - 1) :
              <<r.seq, k>> \in VisitIds(MergedVisits(d, c))
         /\ \A v \in d.visits : ~Claimed(c, VisitScope(v.item), v.ord)
<1> PICK images : images = AfterImages(d, c)
  OBVIOUS
<1> PICK next : next = Seeded(d, c)
  OBVIOUS
<1>1. images.next = next /\ images.items = MergedItems(d, c) /\ images.visits = MergedVisits(d, c)
  BY DEF AfterImages
<1>2. /\ \A s \in DOMAIN d.next : s \in DOMAIN next /\ next[s] = d.next[s]
      /\ \A s \in DOMAIN next : s \notin DOMAIN d.next => next[s] = 0
      /\ \A s \in DOMAIN next : next[s] \in Nat
      /\ DOMAIN next = {ItemScope} \cup Owned(MergedItems(d, c))
  <2>1. /\ DOMAIN Seeded(d, c) = {ItemScope} \cup Owned(MergedItems(d, c))
        /\ \A s \in DOMAIN d.next : s \in DOMAIN Seeded(d, c) /\ Seeded(d, c)[s] = d.next[s]
        /\ \A s \in DOMAIN Seeded(d, c) : s \notin DOMAIN d.next => Seeded(d, c)[s] = 0
        /\ \A s \in DOMAIN Seeded(d, c) : Seeded(d, c)[s] \in Nat
    BY SeededFacts
  <2> QED
    BY <2>1, ZenonT(30)
<1>3. \A s \in DOMAIN next : after[s] \in Nat /\ next[s] <= after[s]
  BY SpentFacts
<1>4. \A i \in ItemIds(MergedItems(d, c)) : VisitScope(i) \in DOMAIN next
  BY <1>2, OwnedScopes
<1>5. \A i \in ItemIds(d.items) : VisitScope(i) \in DOMAIN d.next
  BY OwnedScopes DEF Counted, Owned
<1>6. VisitIds(MergedVisits(d, c)) = VisitIds(d.visits) \cup VisitIds(c.visits)
  BY MergedIds
\* A claim on visits starts where the item's visits end.
<1>7. ASSUME NEW i, NEW k \in c.claims, k.scope = VisitScope(i)
      PROVE  /\ VisitScope(i) \in DOMAIN next /\ k.expected = next[VisitScope(i)]
             /\ after[VisitScope(i)] = next[VisitScope(i)] + k.count
             /\ k.count \in Nat /\ k.count > 0
             /\ \A n \in Span(k) : <<i, n>> \in VisitIds(c.visits)
  <2>1. k \in Allocations(c) /\ k.count \in Nat /\ k.count > 0
    BY <1>7, ScopeFacts, NaturalClaims, ClaimKinds DEF Allocations, Allocation
  <2>2. Current(images, k) /\ ~NaturalReplay(images, c, k)
    BY <2>1, NewClaims
  <2>3. VisitScope(i) \in DOMAIN next /\ k.expected = next[VisitScope(i)]
    BY <1>1, <1>7, <2>2 DEF Current
  <2>4. after[VisitScope(i)] = next[VisitScope(i)] + k.count
    BY <1>7, <2>2, SpentFacts
  <2>5. Span(k) \subseteq {v.ord : v \in {u \in c.visits : u.item = i}}
    BY <1>7, <2>1, ScopeFacts DEF Rigid, CommandValid, RangesCovered, Coordinates
  <2>6. \A n \in Span(k) : <<i, n>> \in VisitIds(c.visits)
    BY <2>5 DEF VisitIds, VisitId
  <2> QED
    BY <2>1, <2>3, <2>4, <2>6
<1>8. \A v \in d.visits : v.item \in ItemIds(d.items) /\ v.ord \in Nat /\ v.ord < d.next[VisitScope(v.item)]
  BY DEF OwnersPresent, Counted, Database, Visit
<1>9. \A v \in c.visits : v.item \in ItemIds(MergedItems(d, c)) /\ v.ord \in Nat
  <2>1. SnapshotValid(images)
    BY DEF Accepted, ImagesAllowed
  <2>2. c.visits \subseteq MergedVisits(d, c) /\ c.visits \subseteq Visit
    BY DEF MergedVisits, Rigid, Command
  <2> QED
    BY <1>1, <2>1, <2>2 DEF SnapshotValid, OwnersPresent, Visit
<1>10. ASSUME NEW v \in MergedVisits(d, c)
       PROVE  v.ord < after[VisitScope(v.item)]
  <2>1. CASE VisitId(v) \in VisitIds(d.visits)
    <3>1. PICK w \in d.visits : w.item = v.item /\ w.ord = v.ord
      BY <2>1 DEF VisitIds, VisitId
    <3>2. VisitScope(w.item) \in DOMAIN d.next
      BY <1>5, <1>8
    <3> QED
      BY <1>2, <1>3, <1>8, <3>1, <3>2
  <2>2. CASE VisitId(v) \notin VisitIds(d.visits)
    <3>1. v \in c.visits /\ v \in NewVisits(d, c)
      BY <2>2 DEF MergedVisits, NewVisits, VisitIds
    <3>2. Claimed(c, VisitScope(v.item), v.ord)
      BY <3>1 DEF Accepted, ImagesAllowed
    <3>3. PICK k \in c.claims : k.scope = VisitScope(v.item) /\ v.ord \in Span(k)
      BY <3>2 DEF Claimed
    <3> QED
      BY <1>2, <1>7, <3>3 DEF Span
  <2> QED
    BY <2>1, <2>2
<1>11. ASSUME NEW r \in MergedItems(d, c), NEW n \in 0 .. (after[VisitScope(r.seq)] - 1)
       PROVE  <<r.seq, n>> \in VisitIds(MergedVisits(d, c))
  <2>1. r.seq \in ItemIds(MergedItems(d, c))
    BY DEF ItemIds
  <2> DEFINE s == VisitScope(r.seq)
  <2>2. s \in DOMAIN next /\ next[s] \in Nat /\ after[s] \in Nat
    BY <1>2, <1>3, <1>4, <2>1
  <2>3. CASE n < next[s]
    <3>1. s \in DOMAIN d.next /\ next[s] = d.next[s]
      BY <1>2, <2>2, <2>3
    <3>2. r.seq \in ItemIds(d.items)
      BY <3>1, OwnedScopes, ScopeFacts DEF Counted, Owned
    <3>3. PICK q \in d.items : q.seq = r.seq
      BY <3>2 DEF ItemIds
    <3>4. n \in Numbers(d, VisitScope(q.seq))
      BY <2>2, <2>3, <3>1, <3>3 DEF Numbers
    <3>5. <<q.seq, n>> \in VisitIds(d.visits)
      BY <3>4 DEF Counted
    <3> QED
      BY <1>6, <3>3, <3>5
  <2>4. CASE n >= next[s]
    <3>1. after[s] # next[s]
      BY <2>2, <2>4
    <3>2. PICK k \in c.claims : k.scope = s
      BY <2>2, <3>1, SpentFacts
    <3>3. n \in Span(k)
      BY <1>7, <2>2, <2>4, <3>2 DEF Span
    <3> QED
      BY <1>6, <1>7, <3>2, <3>3
  <2> QED
    BY <2>2, <2>3, <2>4
<1>12. ASSUME NEW v \in d.visits, Claimed(c, VisitScope(v.item), v.ord)
       PROVE  FALSE
  <2>1. PICK k \in c.claims : k.scope = VisitScope(v.item) /\ v.ord \in Span(k)
    BY <1>12 DEF Claimed
  <2>2. VisitScope(v.item) \in DOMAIN d.next
    BY <1>5, <1>8
  <2>3. v.ord >= d.next[VisitScope(v.item)] /\ d.next[VisitScope(v.item)] \in Nat
    BY <1>2, <1>7, <2>1, <2>2 DEF Span
  <2> QED
    BY <1>8, <2>3
<1> QED
  BY <1>10, <1>11, <1>12

\* So do its decisions.
LEMMA DecisionsNumbered ==
  ASSUME NEW d \in Database, Keyed(d), Counted(d), OwnersPresent(d), NEW c, NEW b, Rigid(c, b),
         NEW x, Accepted(d, c, x), ~IsReplay(d, c),
         NEW after, after = Spent(AfterImages(d, c), c)
  PROVE  /\ \A e \in Evaluated(d, c) : /\ e.item \in ItemIds(MergedItems(d, c))
                                       /\ e.occ < after[NaturalScope(e.item)]
         /\ \A r \in MergedItems(d, c) : \A k \in 0 .. (after[NaturalScope(r.seq)] - 1) :
              \E e \in Evaluated(d, c) : e.item = r.seq /\ e.occ = k
         /\ \A e, f \in Evaluated(d, c) :
              e.item = f.item /\ (e.date = f.date \/ e.occ = f.occ) => e = f
<1> PICK images : images = AfterImages(d, c)
  OBVIOUS
<1> PICK next : next = Seeded(d, c)
  OBVIOUS
<1>1. images.next = next
  BY DEF AfterImages
<1>2. /\ \A s \in DOMAIN d.next : s \in DOMAIN next /\ next[s] = d.next[s]
      /\ \A s \in DOMAIN next : s \notin DOMAIN d.next => next[s] = 0
      /\ \A s \in DOMAIN next : next[s] \in Nat
      /\ DOMAIN next = {ItemScope} \cup Owned(MergedItems(d, c))
  <2>1. /\ DOMAIN Seeded(d, c) = {ItemScope} \cup Owned(MergedItems(d, c))
        /\ \A s \in DOMAIN d.next : s \in DOMAIN Seeded(d, c) /\ Seeded(d, c)[s] = d.next[s]
        /\ \A s \in DOMAIN Seeded(d, c) : s \notin DOMAIN d.next => Seeded(d, c)[s] = 0
        /\ \A s \in DOMAIN Seeded(d, c) : Seeded(d, c)[s] \in Nat
    BY SeededFacts
  <2> QED
    BY <2>1, ZenonT(30)
<1>3. \A s \in DOMAIN next : after[s] \in Nat /\ next[s] <= after[s]
  BY SpentFacts
<1>4. /\ \A i \in ItemIds(MergedItems(d, c)) : NaturalScope(i) \in DOMAIN next
      /\ \A i : NaturalScope(i) \in DOMAIN next => i \in ItemIds(MergedItems(d, c))
  BY <1>2, OwnedScopes, ScopeFacts
<1>5. \A i \in ItemIds(d.items) : NaturalScope(i) \in DOMAIN d.next
  BY OwnedScopes DEF Counted, Owned
<1>6. \A e \in d.evals : /\ e.item \in ItemIds(d.items) /\ e.occ \in Nat
                         /\ e.occ < d.next[NaturalScope(e.item)]
  BY DEF OwnersPresent, Counted, Database, Evaluation
\* A decision not stored yet takes the next occurrence of its owner.
<1>7. ASSUME NEW n \in c.natural, n \notin d.evals
      PROVE  /\ NaturalScope(n.item) \in DOMAIN next /\ n.occ = next[NaturalScope(n.item)]
             /\ after[NaturalScope(n.item)] = next[NaturalScope(n.item)] + 1
             /\ \A e \in d.evals : e.item = n.item => e.date # n.date /\ e.occ # n.occ
  <2> PICK k : k = Claim(NaturalScope(n.item), n.occ, 1)
    OBVIOUS
  <2>1. /\ k \in c.claims /\ k.scope = NaturalScope(n.item) /\ k.expected = n.occ /\ k.count = 1
        /\ Current(images, k) /\ ~NaturalReplay(images, c, k)
        /\ Eligibility(d, n) = {} /\ Occurrence(d, n) = {}
    BY <1>7, NewClaims, NaturalClaims DEF Claim
  <2>2. NaturalScope(n.item) \in DOMAIN next /\ n.occ = next[NaturalScope(n.item)]
    BY <1>1, <2>1 DEF Current
  <2>3. after[NaturalScope(n.item)] = next[NaturalScope(n.item)] + 1
    BY <2>1, SpentFacts
  <2>4. \A e \in d.evals : e.item = n.item => e.date # n.date /\ e.occ # n.occ
    BY <2>1 DEF Eligibility, Occurrence
  <2> QED
    BY <2>2, <2>3, <2>4
<1>8. Evaluated(d, c) = d.evals \cup c.natural
  BY DEF Evaluated
<1>9. ItemIds(d.items) \subseteq ItemIds(MergedItems(d, c))
  BY MergedIds
<1>10. ASSUME NEW e \in Evaluated(d, c)
       PROVE  e.item \in ItemIds(MergedItems(d, c)) /\ e.occ < after[NaturalScope(e.item)]
  <2>1. CASE e \in d.evals
    <3>1. NaturalScope(e.item) \in DOMAIN d.next /\ e.item \in ItemIds(d.items)
      BY <1>5, <1>6, <2>1
    <3> QED
      BY <1>2, <1>3, <1>6, <1>9, <2>1, <3>1
  <2>2. CASE e \notin d.evals
    <3>1. e \in c.natural
      BY <1>8, <2>2
    <3> QED
      BY <1>2, <1>4, <1>7, <2>2, <3>1
  <2> QED
    BY <2>1, <2>2
<1>11. ASSUME NEW r \in MergedItems(d, c), NEW k \in 0 .. (after[NaturalScope(r.seq)] - 1)
       PROVE  \E e \in Evaluated(d, c) : e.item = r.seq /\ e.occ = k
  <2>1. r.seq \in ItemIds(MergedItems(d, c))
    BY DEF ItemIds
  <2> DEFINE s == NaturalScope(r.seq)
  <2>2. s \in DOMAIN next /\ next[s] \in Nat /\ after[s] \in Nat
    BY <1>2, <1>3, <1>4, <2>1
  <2>3. CASE k < next[s]
    <3>1. s \in DOMAIN d.next /\ next[s] = d.next[s]
      BY <1>2, <2>2, <2>3
    <3>2. r.seq \in ItemIds(d.items)
      BY <3>1, OwnedScopes, ScopeFacts DEF Counted, Owned
    <3>3. PICK q \in d.items : q.seq = r.seq
      BY <3>2 DEF ItemIds
    <3>4. k \in Numbers(d, NaturalScope(q.seq))
      BY <2>2, <2>3, <3>1, <3>3 DEF Numbers
    <3>5. \E e \in d.evals : e.item = q.seq /\ e.occ = k
      BY <3>4 DEF Counted
    <3> QED
      BY <1>8, <3>3, <3>5
  <2>4. CASE k >= next[s]
    <3>1. after[s] # next[s]
      BY <2>2, <2>4
    <3>2. PICK l \in c.claims : l.scope = s /\ Current(images, l) /\ ~NaturalReplay(images, c, l)
      BY <2>2, <3>1, SpentFacts
    <3>3. l.scope.kind \notin Allocation
      BY <3>2, ScopeFacts DEF Allocation
    <3>4. PICK n \in c.natural : l = Claim(NaturalScope(n.item), n.occ, 1)
      BY <3>3, NaturalClaims
    <3>5. n.item = r.seq
      BY <3>2, <3>4, ScopeFacts DEF Claim
    <3>6. n \notin d.evals
      BY <3>2, <3>4, NewClaims
    <3>7. k = n.occ
      BY <1>7, <2>2, <2>4, <3>5, <3>6
    <3> QED
      BY <1>8, <3>5, <3>7
  <2> QED
    BY <2>2, <2>3, <2>4
<1>12. ASSUME NEW e \in Evaluated(d, c), NEW f \in Evaluated(d, c),
              e.item = f.item, e.date = f.date \/ e.occ = f.occ
       PROVE  e = f
  <2>1. CASE e \in d.evals /\ f \in d.evals
    BY <1>12, <2>1 DEF Keyed
  <2>2. CASE e \notin d.evals /\ f \notin d.evals
    BY <1>8, <1>12, <2>2, NaturalClaims
  <2>3. CASE e \in d.evals /\ f \notin d.evals
    BY <1>7, <1>8, <1>12, <2>3
  <2>4. CASE e \notin d.evals /\ f \in d.evals
    BY <1>7, <1>8, <1>12, <2>4
  <2> QED
    BY <2>1, <2>2, <2>3, <2>4
<1> QED
  BY <1>10, <1>11, <1>12

-----------------------------------------------------------------------------
(* What a commit keeps.                                                    *)

LEMMA SubjectKinds ==
  ASSUME NEW d
  PROVE  /\ \A i : <<"created", i, 0>> \in Subjects(d) => i \in ItemIds(d.items)
         /\ \A i, o : <<"visited", i, o>> \in Subjects(d) => <<i, o>> \in VisitIds(d.visits)
         /\ \A i \in ItemIds(d.items) : i >= BaseItems => <<"created", i, 0>> \in Subjects(d)
         /\ \A v : VisitId(v) \in VisitIds(d.visits) => <<"visited", v.item, v.ord>> \in Subjects(d)
         /\ \A e \in d.evals : <<"evaluated", e.item, e.date>> \in Subjects(d)
         /\ \A x \in Subjects(d) :
              \/ \E i \in ItemIds(d.items) : i >= BaseItems /\ x = <<"created", i, 0>>
              \/ \E v \in d.visits : x = <<"visited", v.item, v.ord>>
              \/ \E e \in d.evals : x = <<"evaluated", e.item, e.date>>
<1>1. \A x : x \in Subjects(d) <=>
        \/ \E r \in d.items : r.seq >= BaseItems /\ x = <<"created", r.seq, 0>>
        \/ \E v \in d.visits : x = <<"visited", v.item, v.ord>>
        \/ \E e \in d.evals : x = <<"evaluated", e.item, e.date>>
  BY DEF Subjects
<1>2. \A i : i \in ItemIds(d.items) <=> \E r \in d.items : r.seq = i
  BY DEF ItemIds
<1>3. \A i, o : <<i, o>> \in VisitIds(d.visits) <=> \E v \in d.visits : v.item = i /\ v.ord = o
  BY DEF VisitIds, VisitId
<1>4. \A i : <<"created", i, 0>> \in Subjects(d) => i \in ItemIds(d.items)
  BY <1>1, <1>2
<1>5. \A i, o : <<"visited", i, o>> \in Subjects(d) => <<i, o>> \in VisitIds(d.visits)
  BY <1>1, <1>3
<1>6. \A i \in ItemIds(d.items) : i >= BaseItems => <<"created", i, 0>> \in Subjects(d)
  BY <1>1, <1>2
<1>7. \A v : VisitId(v) \in VisitIds(d.visits) => <<"visited", v.item, v.ord>> \in Subjects(d)
  BY <1>1, <1>3 DEF VisitId
<1>8. \A e \in d.evals : <<"evaluated", e.item, e.date>> \in Subjects(d)
  BY <1>1
<1>9. ASSUME NEW x \in Subjects(d)
      PROVE  \/ \E i \in ItemIds(d.items) : i >= BaseItems /\ x = <<"created", i, 0>>
             \/ \E v \in d.visits : x = <<"visited", v.item, v.ord>>
             \/ \E e \in d.evals : x = <<"evaluated", e.item, e.date>>
  BY <1>1, <1>2
<1> QED
  BY <1>4, <1>5, <1>6, <1>7, <1>8, <1>9

LEMMA RecordSubjects ==
  ASSUME NEW c, NEW b, Rigid(c, b)
  PROVE  /\ \A s \in c.records :
              \/ \E q \in c.items : /\ Claimed(c, ItemScope, q.seq)
                                    /\ s.key.subject = <<"created", q.seq, 0>>
              \/ \E v \in c.visits : /\ Claimed(c, VisitScope(v.item), v.ord)
                                     /\ s.key.subject = <<"visited", v.item, v.ord>>
              \/ \E n \in c.natural : s.key.subject = <<"evaluated", n.item, n.date>>
         /\ \A q \in c.items : Claimed(c, ItemScope, q.seq) =>
              \E s \in c.records : s.key.subject = <<"created", q.seq, 0>>
         /\ \A v \in c.visits : Claimed(c, VisitScope(v.item), v.ord) =>
              \E s \in c.records : s.key.subject = <<"visited", v.item, v.ord>>
         /\ \A n \in c.natural : \E s \in c.records : s.key.subject = <<"evaluated", n.item, n.date>>
<1>1. \A x : x \in ClaimedSubjects(c) <=>
        \/ \E q \in c.items : Claimed(c, ItemScope, q.seq) /\ x = <<"created", q.seq, 0>>
        \/ \E v \in c.visits : Claimed(c, VisitScope(v.item), v.ord) /\ x = <<"visited", v.item, v.ord>>
        \/ \E n \in c.natural : x = <<"evaluated", n.item, n.date>>
  BY DEF ClaimedSubjects
<1>2. {s.key.subject : s \in c.records} = ClaimedSubjects(c)
  BY DEF Rigid
<1>3. \A s \in c.records : s.key.subject \in ClaimedSubjects(c)
  BY <1>2
<1>4. \A x \in ClaimedSubjects(c) : \E s \in c.records : s.key.subject = x
  BY <1>2
<1> QED
  BY <1>1, <1>3, <1>4

LEMMA NewKeepsRows ==
  ASSUME NEW d \in Database, Keyed(d), Counted(d), SnapshotValid(d), NEW c, NEW b, Rigid(c, b),
         NEW x, Accepted(d, c, x), ~IsReplay(d, c)
  PROVE  Sane(Committed(d, c))
<1> PICK done : done = Committed(d, c)
  OBVIOUS
<1> PICK images : images = AfterImages(d, c)
  OBVIOUS
<1> PICK after : after = Spent(images, c)
  OBVIOUS
<1>1. /\ done = [version |-> d.version + 1, items |-> MergedItems(d, c),
                 visits |-> MergedVisits(d, c), next |-> after,
                 evals |-> Evaluated(d, c), ledger |-> Persisted(d, c)]
      /\ images.items = MergedItems(d, c) /\ images.visits = MergedVisits(d, c)
      /\ images.next = Seeded(d, c)
  BY DEF Committed, AfterImages
<1>2. OwnersPresent(d) /\ SnapshotValid(images)
  BY DEF Accepted, ImagesAllowed, SnapshotValid
<1>3. /\ MergedItems(d, c) \subseteq Item /\ MergedVisits(d, c) \subseteq Visit
      /\ \A r, q \in MergedItems(d, c) : r.seq = q.seq => r = q
      /\ \A v, u \in MergedVisits(d, c) : VisitId(v) = VisitId(u) => v = u
  BY MergedRows
<1>4. /\ DOMAIN after = {ItemScope} \cup Owned(MergedItems(d, c))
      /\ DOMAIN after = DOMAIN images.next
      /\ \A s \in DOMAIN after : after[s] \in Nat
  <2>1. DOMAIN Seeded(d, c) = {ItemScope} \cup Owned(MergedItems(d, c))
    BY SeededFacts
  <2>2. DOMAIN after = DOMAIN Seeded(d, c) /\ \A s \in DOMAIN Seeded(d, c) : after[s] \in Nat
    BY SpentFacts
  <2> QED
    BY <1>1, <2>1, <2>2
<1>5. done \in Database
  <2>1. after \in Counters
    <3>1. DOMAIN after \subseteq Scopes
      BY <1>3, <1>4 DEF Owned, Scopes, Item
    <3>2. after = [s \in DOMAIN after |-> after[s]]
      BY DEF Spent
    <3>3. after \in [DOMAIN after -> Nat]
      BY <1>4, <3>2
    <3> QED
      BY <3>1, <3>3 DEF Counters
  <2>2. Evaluated(d, c) \subseteq Evaluation /\ Persisted(d, c) \subseteq Draft /\ d.version + 1 \in Nat
    BY DEF Evaluated, Persisted, Rigid, Command, Database
  <2> QED
    BY <1>1, <1>3, <2>1, <2>2 DEF Database
<1>6. Keyed(done)
  <2>1. \A e, f \in Evaluated(d, c) :
          e.item = f.item /\ (e.date = f.date \/ e.occ = f.occ) => e = f
    BY <1>2, DecisionsNumbered
  <2> QED
    BY <1>1, <1>3, <2>1 DEF Keyed
<1>7. Counted(done)
  <2>1. ItemIds(MergedItems(d, c)) = 0 .. (after[ItemScope] - 1)
    BY ItemsNumbered
  <2>2. /\ \A v \in MergedVisits(d, c) : v.ord < after[VisitScope(v.item)]
        /\ \A r \in MergedItems(d, c) : \A k \in 0 .. (after[VisitScope(r.seq)] - 1) :
             <<r.seq, k>> \in VisitIds(MergedVisits(d, c))
    BY <1>2, VisitsNumbered
  <2>3. /\ \A e \in Evaluated(d, c) : e.occ < after[NaturalScope(e.item)]
        /\ \A r \in MergedItems(d, c) : \A k \in 0 .. (after[NaturalScope(r.seq)] - 1) :
             \E e \in Evaluated(d, c) : e.item = r.seq /\ e.occ = k
    BY <1>2, DecisionsNumbered
  <2> QED
    BY <1>1, <1>4, <2>1, <2>2, <2>3 DEF Counted, Numbers, Owned
<1>8. SnapshotValid(done)
  <2>1. \A e \in Evaluated(d, c) : e.item \in ItemIds(MergedItems(d, c))
    BY <1>2, DecisionsNumbered
  <2>2. OwnersPresent(done)
    BY <1>1, <1>2, <1>4, <2>1 DEF SnapshotValid, OwnersPresent
  <2> QED
    BY <1>1, <1>2, <2>2 DEF SnapshotValid, OneOpenVisit, StatusAgrees, OnRoute
<1> QED
  BY <1>5, <1>6, <1>7, <1>8 DEF Sane

LEMMA NewKeepsLedger ==
  ASSUME NEW d \in Database, Keyed(d), Counted(d), SnapshotValid(d), Told(d), NEW c, NEW b \in Nat,
         Rigid(c, b), b <= d.version, NEW x, Accepted(d, c, x), ~IsReplay(d, c)
  PROVE  Told(Committed(d, c))
<1> PICK done : done = Committed(d, c)
  OBVIOUS
<1> PICK after : after = Spent(AfterImages(d, c), c)
  OBVIOUS
<1>1. done = [version |-> d.version + 1, items |-> MergedItems(d, c),
              visits |-> MergedVisits(d, c), next |-> after,
              evals |-> d.evals \cup c.natural, ledger |-> d.ledger \cup c.records]
  BY DEF Committed, Evaluated, Persisted
<1>2. OwnersPresent(d)
  BY DEF SnapshotValid
<1>3. /\ ItemScope \in DOMAIN d.next /\ d.next[ItemScope] \in Nat /\ BaseItems \in Nat
      /\ BaseItems <= d.next[ItemScope]
  BY CountersOf, SliceAssumption DEF Counted, Told
<1>4. /\ \A i \in Nat : Claimed(c, ItemScope, i) => d.next[ItemScope] <= i
      /\ \A v \in d.visits : ~Claimed(c, VisitScope(v.item), v.ord)
  BY <1>2, ItemsNumbered, VisitsNumbered
<1>5. /\ ItemIds(done.items) = ItemIds(d.items) \cup ItemIds(c.items)
      /\ VisitIds(done.visits) = VisitIds(d.visits) \cup VisitIds(c.visits)
  BY <1>1, MergedIds
<1>6. c.items \subseteq Item /\ c.visits \subseteq Visit
  BY DEF Rigid, Command
<1>7. /\ \A r \in c.items : r.seq \in ItemIds(c.items)
      /\ \A v \in c.visits : VisitId(v) \in VisitIds(c.visits)
      /\ \A v \in d.visits : VisitId(v) \in VisitIds(d.visits)
  BY DEF ItemIds, VisitIds
<1>8. \A s \in d.ledger : s.key.subject \in Subjects(d)
  BY DEF Told, LedgerTells
<1>9. \A y \in Subjects(d) : \E s \in d.ledger : s.key.subject = y
  BY DEF Told, LedgerTells
\* Every record tells of a row or evaluation there is.
<1>10. \A s \in done.ledger : s.key.subject \in Subjects(done)
  <2>1. ASSUME NEW s \in d.ledger
        PROVE  s.key.subject \in Subjects(done)
    <3>1. CASE \E i \in ItemIds(d.items) : i >= BaseItems /\ s.key.subject = <<"created", i, 0>>
      BY <1>5, <3>1, SubjectKinds
    <3>2. CASE \E v \in d.visits : s.key.subject = <<"visited", v.item, v.ord>>
      BY <1>5, <1>7, <3>2, SubjectKinds
    <3>3. CASE \E e \in d.evals : s.key.subject = <<"evaluated", e.item, e.date>>
      BY <1>1, <3>3, SubjectKinds
    <3> QED
      BY <1>8, <3>1, <3>2, <3>3, SubjectKinds
  <2>2. ASSUME NEW s \in c.records
        PROVE  s.key.subject \in Subjects(done)
    <3>1. ASSUME NEW q \in c.items, Claimed(c, ItemScope, q.seq),
                 s.key.subject = <<"created", q.seq, 0>>
          PROVE  s.key.subject \in Subjects(done)
      <4>1. q.seq \in Nat /\ d.next[ItemScope] <= q.seq
        BY <1>4, <1>6, <3>1 DEF Item
      <4>2. q.seq >= BaseItems /\ q.seq \in ItemIds(done.items)
        BY <1>3, <1>5, <1>7, <4>1
      <4> QED
        BY <3>1, <4>2, SubjectKinds
    <3>2. CASE \E v \in c.visits : s.key.subject = <<"visited", v.item, v.ord>>
      BY <1>5, <1>7, <3>2, SubjectKinds
    <3>3. CASE \E n \in c.natural : s.key.subject = <<"evaluated", n.item, n.date>>
      BY <1>1, <3>3, SubjectKinds
    <3> QED
      BY <3>1, <3>2, <3>3, RecordSubjects
  <2> QED
    <3>1. done.ledger = d.ledger \cup c.records
      BY <1>1
    <3> HIDE <1>1
    <3> QED
      BY <2>1, <2>2, <3>1
\* And each of them is told of.
<1>11. ASSUME NEW y \in Subjects(done)
       PROVE  \E s \in done.ledger : s.key.subject = y
  <2>1. ASSUME NEW i \in ItemIds(done.items), i >= BaseItems, y = <<"created", i, 0>>
        PROVE  \E s \in done.ledger : s.key.subject = y
    <3>1. CASE i \in ItemIds(d.items)
      <4>1. y \in Subjects(d)
        BY <2>1, <3>1, SubjectKinds
      <4> QED
        BY <1>1, <1>9, <4>1
    <3>2. CASE i \notin ItemIds(d.items)
      <4>1. PICK r \in c.items : r.seq = i /\ r \in NewItems(d, c)
        BY <1>5, <2>1, <3>2 DEF ItemIds, NewItems
      <4>2. Claimed(c, ItemScope, r.seq)
        BY <4>1 DEF Accepted, ImagesAllowed
      <4>3. \E s \in c.records : s.key.subject = <<"created", r.seq, 0>>
        BY <4>2, RecordSubjects
      <4> QED
        BY <1>1, <2>1, <4>1, <4>3
    <3> QED
      BY <3>1, <3>2
  <2>2. ASSUME NEW v \in done.visits, y = <<"visited", v.item, v.ord>>
        PROVE  \E s \in done.ledger : s.key.subject = y
    <3>1. CASE VisitId(v) \in VisitIds(d.visits)
      <4>1. y \in Subjects(d)
        BY <2>2, <3>1, SubjectKinds
      <4> QED
        BY <1>1, <1>9, <4>1
    <3>2. CASE VisitId(v) \notin VisitIds(d.visits)
      <4>1. v \in c.visits /\ v \in NewVisits(d, c)
        BY <1>1, <1>7, <3>2 DEF MergedVisits, NewVisits
      <4>2. Claimed(c, VisitScope(v.item), v.ord)
        BY <4>1 DEF Accepted, ImagesAllowed
      <4>3. \E s \in c.records : s.key.subject = <<"visited", v.item, v.ord>>
        BY <4>1, <4>2, RecordSubjects
      <4> QED
        BY <1>1, <2>2, <4>3
    <3> QED
      BY <3>1, <3>2
  <2>3. ASSUME NEW e \in done.evals, y = <<"evaluated", e.item, e.date>>
        PROVE  \E s \in done.ledger : s.key.subject = y
    <3>1. CASE e \in d.evals
      <4>1. y \in Subjects(d)
        BY <2>3, <3>1, SubjectKinds
      <4> QED
        BY <1>1, <1>9, <4>1
    <3>2. CASE e \in c.natural
      BY <1>1, <2>3, <3>2, RecordSubjects
    <3> QED
      BY <1>1, <3>1, <3>2
  <2> QED
    BY <2>1, <2>2, <2>3, SubjectKinds
\* A row is told of once: what is claimed was not there.
<1>12. ASSUME NEW s \in d.ledger, NEW t \in c.records, s.key.subject = t.key.subject
       PROVE  t.key.subject[1] = "evaluated"
  <2>1. s.key.subject \in Subjects(d)
    BY <1>8
  <2>2. ASSUME NEW q \in c.items, Claimed(c, ItemScope, q.seq),
               t.key.subject = <<"created", q.seq, 0>>
        PROVE  FALSE
    <3>1. q.seq \in Nat /\ d.next[ItemScope] <= q.seq
      BY <1>4, <1>6, <2>2 DEF Item
    <3>2. q.seq \in ItemIds(d.items)
      BY <1>12, <2>1, <2>2, SubjectKinds
    <3> QED
      BY <1>3, <3>1, <3>2 DEF Counted, Numbers
  <2>3. ASSUME NEW v \in c.visits, Claimed(c, VisitScope(v.item), v.ord),
               t.key.subject = <<"visited", v.item, v.ord>>
        PROVE  FALSE
    <3>1. <<v.item, v.ord>> \in VisitIds(d.visits)
      BY <1>12, <2>1, <2>3, SubjectKinds
    <3>2. PICK w \in d.visits : w.item = v.item /\ w.ord = v.ord
      BY <3>1 DEF VisitIds, VisitId
    <3> QED
      BY <1>4, <2>3, <3>2
  <2>4. CASE \E n \in c.natural : t.key.subject = <<"evaluated", n.item, n.date>>
    BY <2>4
  <2> QED
    BY <2>2, <2>3, <2>4, RecordSubjects
<1>13. LedgerTells(done)
  <2>1. {s.key.subject : s \in done.ledger} = Subjects(done)
    BY <1>10, <1>11
  <2>2. ASSUME NEW s \in done.ledger, NEW t \in done.ledger, s.key.subject = t.key.subject
        PROVE  s = t \/ s.key.subject[1] = "evaluated"
    <3>1. CASE s \in d.ledger /\ t \in d.ledger
      BY <2>2, <3>1 DEF Told, LedgerTells
    <3>2. CASE s \in c.records /\ t \in c.records
      BY <2>2, <3>2 DEF Rigid
    <3> QED
      BY <1>1, <1>12, <2>2, <3>1, <3>2
  <2> QED
    BY <2>1, <2>2 DEF LedgerTells
<1>14. \A s \in done.ledger : s.key.version < done.version
  <2>1. \A s \in d.ledger : s.key.version < d.version /\ s.key.version \in Nat
    BY DEF Told, Database, Draft
  <2>2. \A s \in c.records : s.key.version = b
    BY DEF Rigid
  <2>3. d.version \in Nat /\ done.version = d.version + 1
    BY <1>1 DEF Database
  <2> QED
    BY <1>1, <2>1, <2>2, <2>3, SMTT(30)
<1>15. BaseItems <= done.next[ItemScope]
  <2>1. /\ d.next[ItemScope] <= after[ItemScope] /\ after[ItemScope] \in Nat
    <3>1. ItemScope \in DOMAIN d.next
      BY DEF Counted
    <3>2. ItemScope \in DOMAIN Seeded(d, c) /\ Seeded(d, c)[ItemScope] = d.next[ItemScope]
      BY <3>1, SeededFacts
    <3>3. /\ Spent(AfterImages(d, c), c)[ItemScope] \in Nat
          /\ Seeded(d, c)[ItemScope] <= Spent(AfterImages(d, c), c)[ItemScope]
      BY <3>2, SpentFacts
    <3> QED
      BY <3>2, <3>3, ZenonT(30)
  <2> QED
    BY <1>1, <1>3, <2>1
<1> QED
  BY <1>13, <1>14, <1>15 DEF Told

\* Whatever a process submits, and however late, an accepted command leaves
\* rows, counters and ledger in step.
LEMMA KeptByCommit ==
  ASSUME NEW d, Sane(d), Told(d), NEW c, NEW b \in Nat, Rigid(c, b), b <= d.version,
         NEW x, Accepted(d, c, x)
  PROVE  Sane(Committed(d, c)) /\ Told(Committed(d, c)) /\ Committed(d, c).version = d.version + 1
<1>1. d \in Database /\ Keyed(d) /\ Counted(d) /\ SnapshotValid(d)
  BY DEF Sane
<1>2. Committed(d, c).version = d.version + 1
  BY DEF Committed
<1>3. CASE IsReplay(d, c)
  <2> PICK done : done = [d EXCEPT !.version = d.version + 1]
    OBVIOUS
  <2>1. done = Committed(d, c)
    BY <1>1, <1>3, ReplayChangesNothing
  <2>2. /\ done \in Database /\ done.items = d.items /\ done.visits = d.visits
        /\ done.next = d.next /\ done.evals = d.evals /\ done.ledger = d.ledger
        /\ done.version = d.version + 1
    BY <1>1 DEF Database
  <2>3. Keyed(done)
    BY <1>1, <2>2 DEF Keyed
  <2>4. Counted(done)
    BY <1>1, <2>2 DEF Counted, Numbers
  <2>5. SnapshotValid(done)
    BY <1>1, <2>2 DEF SnapshotValid, OneOpenVisit, OwnersPresent, StatusAgrees, OnRoute
  <2>6. Told(done)
    <3>1. LedgerTells(done)
      BY <2>2 DEF Told, LedgerTells, Subjects
    <3>2. \A s \in d.ledger : s.key.version < d.version /\ s.key.version \in Nat
      BY <1>1 DEF Told, Database, Draft
    <3>3. d.version \in Nat
      BY <1>1 DEF Database
    <3> QED
      BY <2>2, <3>1, <3>2, <3>3 DEF Told
  <2> QED
    BY <1>2, <2>1, <2>2, <2>3, <2>4, <2>5, <2>6 DEF Sane
<1>4. CASE ~IsReplay(d, c)
  <2>1. Sane(Committed(d, c))
    BY <1>1, <1>4, NewKeepsRows
  <2>2. Told(Committed(d, c))
    BY <1>1, <1>4, NewKeepsLedger
  <2> QED
    BY <1>2, <2>1, <2>2
<1> QED
  BY <1>3, <1>4

\* No counter goes back: what is spent stays spent.
LEMMA SpentStays ==
  ASSUME NEW d, Sane(d), NEW c, NEW b, Rigid(c, b), NEW k \in ClaimRow, Advanced(d, k)
  PROVE  Advanced(Committed(d, c), k)
<1> PICK after : after = Spent(AfterImages(d, c), c)
  OBVIOUS
<1>1. d \in Database /\ Counted(d)
  BY DEF Sane
<1>2. k.scope \in DOMAIN d.next /\ d.next[k.scope] >= k.expected + k.count
  BY DEF Advanced
<1>3. /\ k.scope \in DOMAIN Seeded(d, c) /\ Seeded(d, c)[k.scope] = d.next[k.scope]
      /\ d.next[k.scope] \in Nat
  <2>1. /\ \A s \in DOMAIN d.next : s \in DOMAIN Seeded(d, c) /\ Seeded(d, c)[s] = d.next[s]
        /\ \A s \in DOMAIN d.next : d.next[s] \in Nat
    BY <1>1, SeededFacts, CountersOf
  <2> QED
    BY <1>2, <2>1
<1>4. k.scope \in DOMAIN after /\ after[k.scope] \in Nat /\ after[k.scope] >= d.next[k.scope]
  BY <1>1, <1>3, SpentFacts
<1>5. k.expected + k.count \in Nat
  BY ClaimKinds
<1>6. Committed(d, c).next = after
  BY DEF Committed
<1> QED
  BY <1>2, <1>3, <1>4, <1>5, <1>6 DEF Advanced

-----------------------------------------------------------------------------
(* A command that fits is accepted.                                        *)

\* The claimed coordinates are those of rows of the command.
LEMMA ClaimedCovered ==
  ASSUME NEW c, NEW b, Rigid(c, b)
  PROVE  /\ \A i : Claimed(c, ItemScope, i) => i \in ItemIds(c.items)
         /\ \A i, n : Claimed(c, VisitScope(i), n) => <<i, n>> \in VisitIds(c.visits)
<1>1. \A k \in c.claims : k.scope.kind \in Allocation => Span(k) \subseteq Coordinates(c, k.scope)
  BY DEF Rigid, CommandValid, RangesCovered, Allocations
<1>2. ASSUME NEW i, Claimed(c, ItemScope, i)
      PROVE  i \in ItemIds(c.items)
  <2>1. Coordinates(c, ItemScope) = ItemIds(c.items) /\ ItemScope.kind \in Allocation
    BY ScopeFacts DEF Coordinates, Allocation
  <2> QED
    BY <1>1, <1>2, <2>1 DEF Claimed
<1>3. ASSUME NEW i, NEW n, Claimed(c, VisitScope(i), n)
      PROVE  <<i, n>> \in VisitIds(c.visits)
  <2>1. /\ Coordinates(c, VisitScope(i)) = {v.ord : v \in {u \in c.visits : u.item = i}}
        /\ VisitScope(i).kind \in Allocation
    BY ScopeFacts DEF Coordinates, Allocation
  <2>2. n \in {v.ord : v \in {u \in c.visits : u.item = i}}
    BY <1>1, <1>3, <2>1 DEF Claimed
  <2> QED
    BY <2>2 DEF VisitIds, VisitId
<1> QED
  BY <1>2, <1>3

\* The merged rows are a valid snapshot.
LEMMA FitsImages ==
  ASSUME NEW d, Sane(d), NEW c, NEW b, Rigid(c, b), Fits(d, c)
  PROVE  SnapshotValid(AfterImages(d, c))
<1> PICK images : images = AfterImages(d, c)
  OBVIOUS
<1>1. /\ d \in Database /\ Keyed(d) /\ Counted(d)
      /\ OneOpenVisit(d) /\ OwnersPresent(d) /\ StatusAgrees(d)
  BY DEF Sane, SnapshotValid
<1>2. /\ images.items = MergedItems(d, c) /\ images.visits = MergedVisits(d, c)
      /\ images.next = Seeded(d, c) /\ images.evals = d.evals
  BY DEF AfterImages
<1>3. /\ ItemIds(images.items) = ItemIds(d.items) \cup ItemIds(c.items)
      /\ images.items \subseteq Item /\ images.visits \subseteq Visit
  BY <1>1, <1>2, MergedIds, MergedRows
<1>4. /\ \A r \in images.items : r \in c.items \/ (r \in d.items /\ r.seq \notin ItemIds(c.items))
      /\ \A v \in images.visits : \/ v \in c.visits
                                  \/ v \in d.visits /\ VisitId(v) \notin VisitIds(c.visits)
  BY <1>2 DEF MergedItems, MergedVisits
<1>5. /\ \A v \in c.visits : VisitId(v) \in VisitIds(c.visits)
      /\ \A v \in d.visits : VisitId(v) \in VisitIds(d.visits)
      /\ \A r \in c.items : r.seq \in ItemIds(c.items)
      /\ \A i \in ItemIds(c.items) : \E r \in c.items : r.seq = i
      /\ \A i \in ItemIds(d.items) : \E r \in d.items : r.seq = i
      /\ \A v, w : VisitId(v) = VisitId(w) => v.item = w.item
  BY DEF VisitIds, ItemIds, VisitId
\* An open visit of the command belongs to an item of it, or was open before.
<1>6. ASSUME NEW v \in c.visits, v.life = "OPEN", v.item \notin ItemIds(c.items)
      PROVE  \E w \in d.visits : VisitId(w) = VisitId(v) /\ w.life = "OPEN" /\ w.status = v.status
  BY <1>6 DEF Fits, VisitsFit, Continues, Opens
\* A visit of the state that stays open is of an item the command leaves alone.
<1>7. ASSUME NEW w \in d.visits, w.life = "OPEN", VisitId(w) \notin VisitIds(c.visits)
      PROVE  w.item \notin ItemIds(c.items)
  BY <1>5, <1>7 DEF Fits, ItemsFit
<1>8. OneOpenVisit(images)
  <2>1. ASSUME NEW v \in c.visits, NEW w \in d.visits, VisitId(w) \notin VisitIds(c.visits),
               v.item = w.item, v.life = "OPEN", w.life = "OPEN"
        PROVE  FALSE
    <3>1. v.item \notin ItemIds(c.items)
      BY <1>7, <2>1
    <3>2. PICK u \in d.visits : VisitId(u) = VisitId(v) /\ u.life = "OPEN"
      BY <1>6, <2>1, <3>1
    <3>3. u = w
      BY <1>1, <1>5, <2>1, <3>2 DEF OneOpenVisit
    <3> QED
      BY <1>5, <2>1, <3>2, <3>3
  <2>2. \A v, u \in c.visits : v.item = u.item /\ v.life = "OPEN" /\ u.life = "OPEN" => v = u
    BY DEF Fits, VisitsFit
  <2> QED
    BY <1>1, <1>4, <2>1, <2>2 DEF OneOpenVisit
<1>9. StatusAgrees(images)
  <2> SUFFICES ASSUME NEW v \in images.visits, NEW r \in images.items, v.item = r.seq, v.life = "OPEN"
               PROVE  v.status = r.status
    BY DEF StatusAgrees
  <2>1. CASE v \in c.visits /\ r \in c.items
    BY <2>1 DEF Fits, VisitsFit
  <2>2. CASE v \in c.visits /\ r \notin c.items
    <3>1. r \in d.items /\ v.item \notin ItemIds(c.items)
      BY <1>4, <2>2
    <3>2. PICK w \in d.visits : VisitId(w) = VisitId(v) /\ w.life = "OPEN" /\ w.status = v.status
      BY <1>6, <2>2, <3>1
    <3> QED
      BY <1>1, <1>5, <3>1, <3>2 DEF StatusAgrees
  <2>3. CASE v \notin c.visits
    <3>1. v \in d.visits /\ v.item \notin ItemIds(c.items)
      BY <1>4, <1>7, <2>3
    <3>2. r \in d.items
      BY <1>4, <1>5, <3>1
    <3> QED
      BY <1>1, <3>1, <3>2 DEF StatusAgrees
  <2> QED
    BY <2>1, <2>2, <2>3
<1>10. OwnersPresent(images)
  <2>1. \A v \in images.visits : v.item \in ItemIds(d.items)
    BY <1>1, <1>4 DEF Fits, VisitsFit, OwnersPresent
  <2>2. \A e \in d.evals : e.item \in ItemIds(d.items)
    BY <1>1 DEF OwnersPresent
  <2>3. \A s \in DOMAIN images.next : s.kind = "ITEM_SEQUENCE" \/ s.owner \in ItemIds(images.items)
    <3>1. DOMAIN images.next = {ItemScope} \cup Owned(images.items)
      BY <1>1, <1>2, SeededFacts
    <3>2. \A s \in Owned(images.items) : s.owner \in ItemIds(images.items)
      BY OwnedScopes, ScopeFacts DEF OwnerScopes
    <3> QED
      BY <3>1, <3>2, ScopeFacts
  <2> QED
    BY <1>2, <1>3, <2>1, <2>2, <2>3 DEF OwnersPresent
<1>11. OnRoute(images)
  BY <1>3 DEF OnRoute, Item, Visit
<1> QED
  BY <1>8, <1>9, <1>10, <1>11 DEF SnapshotValid

LEMMA FitsAccepted ==
  ASSUME NEW d, Sane(d), Told(d), NEW c, Rigid(c, d.version), Fits(d, c)
  PROVE  Accepted(d, c, d.version)
<1> PICK images : images = AfterImages(d, c)
  OBVIOUS
<1> PICK after : after = Spent(images, c)
  OBVIOUS
<1>1. d \in Database /\ Keyed(d) /\ Counted(d)
  BY DEF Sane
<1>2. images.next = Seeded(d, c) /\ images.evals = d.evals
  BY DEF AfterImages
<1>3. \A k \in c.claims : /\ k.scope \in DOMAIN d.next /\ d.next[k.scope] = k.expected
                          /\ k.expected \in Nat /\ k.count \in Nat /\ k.count > 0
  BY NaturalClaims, ClaimKinds DEF Fits, ClaimsFit, Current
<1>4. /\ \A s \in DOMAIN d.next : s \in DOMAIN Seeded(d, c) /\ Seeded(d, c)[s] = d.next[s]
  BY <1>1, SeededFacts
<1>5. \A n \in c.natural : Eligibility(images, n) = {} /\ Occurrence(images, n) = {}
  <2> SUFFICES ASSUME NEW n \in c.natural
               PROVE  Eligibility(images, n) = {} /\ Occurrence(images, n) = {}
    OBVIOUS
  <2>1. /\ n.item \in ItemIds(d.items) /\ n.occ = d.next[NaturalScope(n.item)]
        /\ \A e \in d.evals : e.item # n.item \/ e.date # n.date
    BY DEF Fits, ClaimsFit
  <2>2. \A e \in d.evals : e.item = n.item => e.occ < n.occ /\ e.occ \in Nat /\ n.occ \in Nat
    BY <1>1, <2>1, NaturalClaims DEF Counted, Database, Evaluation
  <2> QED
    BY <1>2, <2>1, <2>2 DEF Eligibility, Occurrence
<1>6. \A k \in c.claims : Current(images, k) /\ ~NaturalReplay(images, c, k)
  BY <1>2, <1>3, <1>4, <1>5 DEF Current, NaturalReplay
<1>7. ReplayExact(d, c)
  <2>1. \A k \in c.claims : ~Advanced(d, k)
    BY <1>3 DEF Advanced
  <2> QED
    BY <2>1 DEF ReplayExact, IsReplay, Allocations
<1>8. ImagesAllowed(d, c)
  <2>1. \A r \in NewItems(d, c) : Claimed(c, ItemScope, r.seq)
    BY DEF Fits, ItemsFit, NewItems
  <2>2. \A v \in NewVisits(d, c) : Claimed(c, VisitScope(v.item), v.ord)
    BY DEF Fits, VisitsFit, NewVisits, Continues, Opens, VisitIds
  <2>3. FieldsKept(d, c)
    <3> SUFFICES ASSUME NEW v \in c.visits, NEW w \in d.visits, VisitId(v) = VisitId(w)
                 PROVE  v.status = w.status
      BY DEF FieldsKept
    <3>1. VisitId(v) \in VisitIds(d.visits)
      BY DEF VisitIds
    <3>2. PICK u \in d.visits : VisitId(u) = VisitId(v) /\ u.status = v.status
      BY <3>1 DEF Fits, VisitsFit, Opens, Continues
    <3> QED
      BY <1>1, <3>2 DEF Keyed
  <2> QED
    BY <2>1, <2>2, <2>3, FitsImages DEF ImagesAllowed
<1>9. NaturalAgrees(images, c)
  BY <1>5 DEF NaturalAgrees
<1>10. \A k \in c.claims : ClaimAllowed(images, c, k, NewScopes(d, c))
  BY <1>6 DEF ClaimAllowed
<1>11. LedgerAgrees(d, c)
  <2>1. \A r \in c.records : r.key.version = d.version
    BY DEF Rigid
  <2>2. \A s \in d.ledger : s.key.version < d.version /\ s.key.version \in Nat /\ d.version \in Nat
    BY <1>1 DEF Told, Database, Draft
  <2> QED
    BY <2>1, <2>2 DEF LedgerAgrees
<1>12. ResultExact(Committed(d, c), c)
  <2>1. Committed(d, c).next = after /\ Committed(d, c).evals = d.evals \cup c.natural
    BY DEF Committed, Evaluated
  <2>2. ASSUME NEW k \in c.claims
        PROVE  k.scope \in DOMAIN after /\ after[k.scope] = k.expected + k.count
    <3>1. k.scope \in DOMAIN Seeded(d, c) /\ Seeded(d, c)[k.scope] = k.expected
      BY <1>3, <1>4
    <3>2. after[k.scope] = Seeded(d, c)[k.scope] + k.count
      BY <1>1, <1>6, SpentFacts
    <3>3. DOMAIN after = DOMAIN Seeded(d, c)
      BY <1>1, SpentFacts
    <3> QED
      BY <3>1, <3>2, <3>3
  <2>3. \A k \in c.claims : Advanced(Committed(d, c), k)
    BY <1>3, <2>1, <2>2 DEF Advanced
  <2> QED
    BY <2>1, <2>3 DEF ResultExact
<1> QED
  BY <1>7, <1>8, <1>9, <1>10, <1>11, <1>12 DEF Accepted, RuntimeCurrent

-----------------------------------------------------------------------------
(* What a process computes fits the state it was computed from.            *)

LEMMA SubjectTyped ==
  ASSUME NEW kind \in {"created", "visited", "evaluated"}, NEW i \in Nat, NEW z \in Nat \cup Dates,
         NEW content \in Route \cup {"cancel", "keep"}, NEW version \in Nat
  PROVE  Record(version, <<kind, i, z>>, content) \in Draft
BY DEF Record, Draft

\* What is known of the rows a part is computed from.
LEMMA RowsKnown ==
  ASSUME NEW d, Sane(d)
  PROVE  /\ d.version \in Nat /\ d.items \subseteq Item /\ d.visits \subseteq Visit
         /\ \A v \in d.visits : /\ v.item \in ItemIds(d.items)
                                /\ v.ord < d.next[VisitScope(v.item)]
         /\ ItemScope \in DOMAIN d.next
         /\ \A i \in ItemIds(d.items) : i \in Nat /\ i < d.next[ItemScope]
         /\ \A i \in ItemIds(d.items) :
              VisitScope(i) \in DOMAIN d.next /\ NaturalScope(i) \in DOMAIN d.next
         /\ \A s \in DOMAIN d.next : d.next[s] \in Nat
<1>1. d \in Database /\ Counted(d) /\ OwnersPresent(d)
  BY DEF Sane, SnapshotValid
<1>2. \A s \in DOMAIN d.next : d.next[s] \in Nat
  BY <1>1, CountersOf
<1>3. DOMAIN d.next = {ItemScope} \cup Owned(d.items)
  BY <1>1 DEF Counted, Owned
<1>4. \A i \in ItemIds(d.items) : i \in Nat /\ i < d.next[ItemScope]
  BY <1>1, <1>2, <1>3 DEF Counted, Numbers
<1>5. \A i \in ItemIds(d.items) :
        VisitScope(i) \in DOMAIN d.next /\ NaturalScope(i) \in DOMAIN d.next
  BY <1>3, OwnedScopes
<1> QED
  BY <1>1, <1>2, <1>3, <1>4, <1>5 DEF Database, Counted, OwnersPresent

LEMMA BirthFits ==
  ASSUME NEW d, Sane(d), NEW c \in Births(d)
  PROVE  Rigid(c, d.version) /\ Fits(d, c)
<1> PICK first : first = d.next[ItemScope]
  OBVIOUS
<1>1. first \in Nat /\ MaxItems \in Nat
  BY RowsKnown, SliceAssumption
<1>2. PICK last \in first .. (MaxItems - 1) :
        c = Part({NewItem(i) : i \in first .. last}, {},
                 {Claim(ItemScope, first, Cardinality(first .. last))}, {},
                 {Record(d.version, <<"created", i, 0>>, FirstStatus) : i \in first .. last})
  BY DEF Births
<1> DEFINE k == Claim(ItemScope, first, last - first + 1)
<1>3. last \in Nat /\ first <= last /\ Cardinality(first .. last) = last - first + 1
  <2>1. last \in Nat /\ first <= last
    BY <1>1
  <2>2. Cardinality(first .. last) = IF first > last THEN 0 ELSE last - first + 1
    <3>1. first \in Int /\ last \in Int
      BY <1>1, <2>1
    <3> HIDE <1>1, <2>1
    <3> QED
      BY <3>1, FS_Interval
  <2> QED
    BY <1>1, <2>1, <2>2
<1>4. /\ c.items = {NewItem(i) : i \in first .. last} /\ c.visits = {} /\ c.claims = {k}
      /\ c.natural = {}
      /\ c.records = {Record(d.version, <<"created", i, 0>>, FirstStatus) : i \in first .. last}
      /\ c = [items |-> c.items, visits |-> c.visits, claims |-> c.claims,
              natural |-> c.natural, records |-> c.records]
  BY <1>2, <1>3 DEF Part
<1>5. /\ k.scope = ItemScope /\ k.expected = first /\ k.count \in Nat \ {0}
      /\ Span(k) = first .. last /\ k \in ClaimRow
  BY <1>1, <1>3 DEF Claim, Span, ClaimRow, Scopes
<1> HIDE DEF k
<1>6. c \in Command
  <2>1. c.items \subseteq Item
    BY <1>1, <1>4, SliceAssumption DEF NewItem, Item
  <2>2. c.records \subseteq Draft
    <3>1. \A i \in first .. last : Record(d.version, <<"created", i, 0>>, FirstStatus) \in Draft
      BY <1>1, RowsKnown, SubjectTyped, SliceAssumption
    <3> QED
      BY <1>4, <3>1
  <2> QED
    BY <1>4, <1>5, <2>1, <2>2 DEF Command
<1>7. ItemIds(c.items) = first .. last
  <2>1. \A r \in c.items : r.seq \in first .. last
    BY <1>4 DEF NewItem
  <2>2. \A i \in first .. last : NewItem(i) \in c.items /\ NewItem(i).seq = i
    BY <1>4 DEF NewItem
  <2> QED
    BY <2>1, <2>2 DEF ItemIds
<1>8. Allocations(c) = {k}
  BY <1>4, <1>5, ScopeFacts DEF Allocations, Allocation
<1>9. CommandValid(c)
  <2>1. RangesCovered(c)
    BY <1>5, <1>7, <1>8, ScopeFacts DEF RangesCovered, Coordinates
  <2>2. NaturalBound(c)
    BY <1>4, <1>8 DEF NaturalBound
  <2> QED
    BY <1>4, <2>1, <2>2 DEF CommandValid
<1>10. \A i : Claimed(c, ItemScope, i) <=> i \in first .. last
  BY <1>4, <1>5 DEF Claimed
<1>11. {s.key.subject : s \in c.records} = ClaimedSubjects(c)
  <2>1. {s.key.subject : s \in c.records} = {<<"created", i, 0>> : i \in first .. last}
    <3>1. \A s \in c.records : \E i \in first .. last : s.key.subject = <<"created", i, 0>>
      BY <1>4 DEF Record
    <3>2. \A i \in first .. last : \E s \in c.records : s.key.subject = <<"created", i, 0>>
      <4>1. \A i \in first .. last : Record(d.version, <<"created", i, 0>>, FirstStatus) \in c.records
        BY <1>4
      <4>2. \A i \in first .. last :
              Record(d.version, <<"created", i, 0>>, FirstStatus).key.subject = <<"created", i, 0>>
        BY DEF Record
      <4> QED
        BY <4>1, <4>2
    <3> DEFINE told == {s.key.subject : s \in c.records}
               born == {<<"created", i, 0>> : i \in first .. last}
    <3>3. ASSUME NEW y \in told
          PROVE  y \in born
      <4>1. PICK s \in c.records : y = s.key.subject
        OBVIOUS
      <4>2. PICK i \in first .. last : s.key.subject = <<"created", i, 0>>
        BY <3>1, <4>1
      <4> QED
        BY <4>1, <4>2
    <3>4. ASSUME NEW y \in born
          PROVE  y \in told
      <4>1. PICK i \in first .. last : y = <<"created", i, 0>>
        OBVIOUS
      <4>2. PICK s \in c.records : s.key.subject = <<"created", i, 0>>
        BY <3>2, <4>1
      <4> QED
        BY <4>1, <4>2
    <3>5. told = born
      <4> HIDE DEF told, born
      <4> QED
        BY <3>3, <3>4
    <3> QED
      BY <3>5
  <2>2. \A q \in c.items : Claimed(c, ItemScope, q.seq)
    BY <1>4, <1>10 DEF NewItem
  <2>3. ClaimedSubjects(c) = {<<"created", r.seq, 0>> : r \in c.items}
    BY <1>4, <2>2 DEF ClaimedSubjects
  <2>4. {<<"created", r.seq, 0>> : r \in c.items} = {<<"created", i, 0>> : i \in first .. last}
    BY <1>7 DEF ItemIds
  <2> QED
    BY <2>1, <2>3, <2>4
<1>12. Rigid(c, d.version)
  BY <1>4, <1>6, <1>9, <1>11 DEF Rigid, NewItem, Record
<1>13. ItemsFit(d, c)
  <2>1. \A r \in c.items : Claimed(c, ItemScope, r.seq) /\ r.seq \in Nat /\ r.seq >= first
    BY <1>1, <1>4, <1>10 DEF NewItem
  <2>2. \A w \in d.visits : w.item \in Nat /\ w.item < first
    BY RowsKnown
  <2> QED
    BY <1>1, <2>1, <2>2 DEF ItemsFit
<1>14. VisitsFit(d, c) /\ ClaimsFit(d, c)
  BY <1>4, <1>5, RowsKnown DEF VisitsFit, ClaimsFit, Current
<1> QED
  BY <1>12, <1>13, <1>14 DEF Fits

LEMMA LaborFits ==
  ASSUME NEW d, Sane(d), NEW c \in Labor(d)
  PROVE  Rigid(c, d.version) /\ Fits(d, c)
<1>1. PICK v \in d.visits : v.life = "OPEN" /\ c = Part({}, {[v EXCEPT !.work = @ + 1]}, {}, {}, {})
  BY DEF Labor
<1>2. PICK u : u = [v EXCEPT !.work = v.work + 1]
  OBVIOUS
<1>3. v \in Visit /\ v.item \in ItemIds(d.items)
  BY RowsKnown
<1>4. /\ u \in Visit /\ u.item = v.item /\ u.ord = v.ord /\ u.status = v.status /\ u.life = v.life
  BY <1>2, <1>3 DEF Visit
<1>5. /\ c.items = {} /\ c.visits = {u} /\ c.claims = {} /\ c.natural = {} /\ c.records = {}
      /\ c \in Command
  BY <1>1, <1>2, <1>4 DEF Part, Command
<1>6. CommandValid(c)
  BY <1>5 DEF CommandValid, RangesCovered, NaturalBound, Allocations
<1>7. ClaimedSubjects(c) = {}
  BY <1>5 DEF ClaimedSubjects, Claimed
<1>8. Rigid(c, d.version)
  BY <1>5, <1>6, <1>7 DEF Rigid
<1>9. Continues(d, u)
  BY <1>1, <1>4 DEF Continues, VisitId
<1>10. ItemsFit(d, c) /\ VisitsFit(d, c) /\ ClaimsFit(d, c)
  BY <1>3, <1>4, <1>5, <1>9 DEF ItemsFit, VisitsFit, ClaimsFit
<1> QED
  BY <1>8, <1>10 DEF Fits

\* Closing the open visits of an item.
LEMMA ClosedVisits ==
  ASSUME NEW d, Sane(d), NEW i
  PROVE  /\ Closed(OpenVisits(d, i)) \subseteq Visit
         /\ \A v \in Closed(OpenVisits(d, i)) :
              /\ v.life = "CLOSED" /\ v.item = i /\ Continues(d, v)
              /\ v.ord < d.next[VisitScope(i)]
         /\ \A v, u \in Closed(OpenVisits(d, i)) : v = u
         /\ \A w \in d.visits :
              w.item = i /\ w.life = "OPEN" => VisitId(w) \in VisitIds(Closed(OpenVisits(d, i)))
<1>1. \A v \in d.visits : v \in Visit /\ v.ord < d.next[VisitScope(v.item)]
  BY RowsKnown
<1>2. \A v \in d.visits :
        LET u == [v EXCEPT !.life = "CLOSED"]
        IN u \in Visit /\ u.item = v.item /\ u.ord = v.ord /\ u.status = v.status /\ u.life = "CLOSED"
  BY <1>1 DEF Visit
<1>3. \A u \in Closed(OpenVisits(d, i)) :
        \E v \in d.visits : v.item = i /\ v.life = "OPEN" /\ u = [v EXCEPT !.life = "CLOSED"]
  BY DEF Closed, OpenVisits
<1>4. \A v \in d.visits :
        v.item = i /\ v.life = "OPEN" => [v EXCEPT !.life = "CLOSED"] \in Closed(OpenVisits(d, i))
  BY DEF Closed, OpenVisits
<1>5. ASSUME NEW u \in Closed(OpenVisits(d, i))
      PROVE  /\ u \in Visit /\ u.life = "CLOSED" /\ u.item = i /\ Continues(d, u)
             /\ u.ord < d.next[VisitScope(i)]
  <2>1. PICK v \in d.visits : v.item = i /\ v.life = "OPEN" /\ u = [v EXCEPT !.life = "CLOSED"]
    BY <1>3
  <2>2. u \in Visit /\ u.item = v.item /\ u.ord = v.ord /\ u.status = v.status /\ u.life = "CLOSED"
    BY <1>2, <2>1
  <2> QED
    BY <1>1, <2>1, <2>2 DEF Continues, VisitId
<1>6. ASSUME NEW u \in Closed(OpenVisits(d, i)), NEW v \in Closed(OpenVisits(d, i))
      PROVE  u = v
  <2>1. PICK x \in d.visits : x.item = i /\ x.life = "OPEN" /\ u = [x EXCEPT !.life = "CLOSED"]
    BY <1>3
  <2>2. PICK y \in d.visits : y.item = i /\ y.life = "OPEN" /\ v = [y EXCEPT !.life = "CLOSED"]
    BY <1>3
  <2>3. x = y
    BY <2>1, <2>2 DEF Sane, SnapshotValid, OneOpenVisit
  <2> QED
    BY <2>1, <2>2, <2>3
<1>7. ASSUME NEW w \in d.visits, w.item = i, w.life = "OPEN"
      PROVE  VisitId(w) \in VisitIds(Closed(OpenVisits(d, i)))
  <2> PICK u : u = [w EXCEPT !.life = "CLOSED"]
    OBVIOUS
  <2>1. u \in Closed(OpenVisits(d, i)) /\ VisitId(u) = VisitId(w)
    BY <1>2, <1>4, <1>7 DEF VisitId
  <2> QED
    BY <2>1 DEF VisitIds
<1> QED
  BY <1>5, <1>6, <1>7

LEMMA MoveFits ==
  ASSUME NEW d, Sane(d), NEW c \in Moves(d)
  PROVE  Rigid(c, d.version) /\ Fits(d, c)
<1>1. PICK r \in Living(d), status \in Route :
        c = Part({[r EXCEPT !.status = status]},
                 Closed(OpenVisits(d, r.seq)) \cup {NewVisit(d, r.seq, status)},
                 {Claim(VisitScope(r.seq), NewVisit(d, r.seq, status).ord, 1)}, {},
                 {TickDraft(d, r.seq, NewVisit(d, r.seq, status).ord, status)})
  BY DEF Moves
<1> PICK i : i = r.seq
  OBVIOUS
<1> PICK n : n = d.next[VisitScope(i)]
  OBVIOUS
<1> PICK q : q = [r EXCEPT !.status = status]
  OBVIOUS
<1> PICK fresh : fresh = NewVisit(d, i, status)
  OBVIOUS
<1> PICK closed : closed = Closed(OpenVisits(d, i))
  OBVIOUS
<1> PICK k : k = Claim(VisitScope(i), n, 1)
  OBVIOUS
<1> PICK draft : draft = Record(d.version, <<"visited", i, n>>, status)
  OBVIOUS
<1>2. r \in d.items /\ r \in Item /\ i \in ItemIds(d.items) /\ i \in Nat
  BY RowsKnown DEF Living, ItemIds, Item
<1>3. q \in Item /\ q.seq = i /\ q.status = status
  BY <1>2 DEF Item
<1>4. n \in Nat /\ VisitScope(i) \in DOMAIN d.next
  BY <1>2, RowsKnown
<1>5. /\ fresh \in Visit /\ fresh.item = i /\ fresh.ord = n /\ fresh.status = status
      /\ fresh.life = "OPEN"
  BY <1>2, <1>4 DEF NewVisit, Visit
<1>6. /\ closed \subseteq Visit
      /\ \A v \in closed : v.life = "CLOSED" /\ v.item = i /\ Continues(d, v) /\ v.ord < n
      /\ \A v, u \in closed : v = u
      /\ \A w \in d.visits : w.item = i /\ w.life = "OPEN" => VisitId(w) \in VisitIds(closed)
  BY ClosedVisits
<1>7. /\ k \in ClaimRow /\ k.scope = VisitScope(i) /\ k.expected = n /\ Span(k) = {n}
  BY <1>2, <1>4 DEF Claim, ClaimRow, Scopes, OwnerScopes, Span
<1>8. draft \in Draft /\ draft.key.subject = <<"visited", i, n>> /\ draft.key.version = d.version
  <2>1. draft \in Draft
    BY <1>2, <1>4, RowsKnown, SubjectTyped
  <2> QED
    BY <2>1 DEF Record
<1>9. c = Part({q}, closed \cup {fresh}, {k}, {}, {draft})
  BY <1>1, <1>5 DEF TickDraft
<1>10. /\ c.items = {q} /\ c.visits = closed \cup {fresh} /\ c.claims = {k} /\ c.natural = {}
       /\ c.records = {draft} /\ c \in Command
  BY <1>3, <1>5, <1>6, <1>7, <1>8, <1>9 DEF Part, Command
<1> HIDE <1>1, <1>9
<1>11. Allocations(c) = {k}
  BY <1>7, <1>10, ScopeFacts DEF Allocations, Allocation
<1>12. CommandValid(c)
  <2>1. RangesCovered(c)
    <3>1. fresh \in {w \in c.visits : w.item = i}
      BY <1>5, <1>10
    <3>2. n \in Coordinates(c, VisitScope(i))
      BY <1>5, <3>1, ScopeFacts DEF Coordinates
    <3> QED
      BY <1>7, <1>11, <3>2 DEF RangesCovered
  <2>2. NaturalBound(c)
    BY <1>10, <1>11 DEF NaturalBound
  <2> QED
    BY <1>10, <2>1, <2>2 DEF CommandValid
<1>13. \A s, m : Claimed(c, s, m) <=> s = VisitScope(i) /\ m = n
  BY <1>7, <1>10 DEF Claimed
<1>14. ClaimedSubjects(c) = {<<"visited", i, n>>}
  <2>1. \A x \in c.items : ~Claimed(c, ItemScope, x.seq)
    BY <1>13, ScopeFacts
  <2>2. \A v \in c.visits : Claimed(c, VisitScope(v.item), v.ord) <=> v = fresh
    <3>1. \A v \in closed : v.ord # n
      <4>1. \A v \in closed : v.ord \in Nat /\ v.ord < n
        BY <1>6 DEF Visit
      <4> QED
        BY <1>4, <4>1
    <3> QED
      BY <1>5, <1>10, <1>13, <3>1
  <2>3. {u \in c.visits : Claimed(c, VisitScope(u.item), u.ord)} = {fresh}
    BY <1>10, <2>2
  <2>4. {u \in c.items : Claimed(c, ItemScope, u.seq)} = {}
    BY <2>1
  <2> QED
    BY <1>5, <1>10, <2>3, <2>4 DEF ClaimedSubjects
<1>15. \A v \in closed : VisitId(v) # VisitId(fresh)
  <2>1. \A v \in closed : v.ord \in Nat /\ v.ord < n
    BY <1>6 DEF Visit
  <2> QED
    BY <1>4, <1>5, <2>1 DEF VisitId
<1>16. Rigid(c, d.version)
  <2>1. \A v, u \in c.visits : VisitId(v) = VisitId(u) => v = u
    BY <1>6, <1>10, <1>15
  <2>2. \A x, y \in c.items : x.seq = y.seq => x = y
    BY <1>10
  <2>3. {s.key.subject : s \in c.records} = ClaimedSubjects(c)
    <3>1. {s.key.subject : s \in {draft}} = {draft.key.subject}
      OBVIOUS
    <3> QED
      BY <1>8, <1>10, <1>14, <3>1
  <2>4. /\ \A s, t \in c.records : s.key.subject = t.key.subject => s = t \/ s.key.subject[1] = "evaluated"
        /\ \A s \in c.records : s.key.version = d.version
    BY <1>8, <1>10
  <2> QED
    BY <1>10, <1>12, <2>1, <2>2, <2>3, <2>4 DEF Rigid
<1>17. ItemsFit(d, c)
  <2>1. VisitIds(closed) \subseteq VisitIds(c.visits)
    BY <1>10 DEF VisitIds
  <2> QED
    BY <1>2, <1>3, <1>6, <1>10, <2>1 DEF ItemsFit
<1>18. VisitsFit(d, c)
  <2>1. Opens(d, c, fresh)
    <3>1. VisitId(fresh) \notin VisitIds(d.visits)
      <4>1. \A w \in d.visits : w.item = i => w.ord \in Nat /\ w.ord < n
        BY RowsKnown DEF Visit
      <4> QED
        BY <1>4, <1>5, <4>1 DEF VisitIds, VisitId
    <3>2. fresh.item \in ItemIds(c.items)
      BY <1>3, <1>5, <1>10 DEF ItemIds
    <3> QED
      BY <1>5, <1>13, <3>1, <3>2 DEF Opens
  <2>2. \A v \in c.visits : v.item = i /\ (v.life = "OPEN" => v = fresh)
    BY <1>5, <1>6, <1>10
  <2>3. \A v \in c.visits : v.item \in ItemIds(d.items) /\ (Continues(d, v) \/ Opens(d, c, v))
    BY <1>2, <1>6, <1>10, <2>1, <2>2
  <2> QED
    BY <1>3, <1>5, <1>10, <2>2, <2>3 DEF VisitsFit
<1>19. ClaimsFit(d, c)
  BY <1>4, <1>7, <1>10 DEF ClaimsFit, Current
<1> QED
  BY <1>16, <1>17, <1>18, <1>19 DEF Fits

LEMMA EvaluationFits ==
  ASSUME NEW d, Sane(d), NEW c \in Evaluations(d)
  PROVE  Rigid(c, d.version) /\ Fits(d, c)
<1>1. PICK r \in Living(d), date \in Dates, outcome \in BOOLEAN :
        /\ \A e \in d.evals : e.item # r.seq \/ e.date # date
        /\ c = Part(IF outcome THEN {[r EXCEPT !.life = "CANCELLED"]} ELSE {},
                    IF outcome THEN Closed(OpenVisits(d, r.seq)) ELSE {},
                    {Claim(NaturalScope(r.seq), NaturalClaim(d, r.seq, date).occ, 1)},
                    {NaturalClaim(d, r.seq, date)},
                    {RiskDraft(d, r.seq, date, outcome)})
  BY DEF Evaluations
<1> PICK i : i = r.seq
  OBVIOUS
<1> PICK n : n = d.next[NaturalScope(i)]
  OBVIOUS
<1> PICK items : items = IF outcome THEN {[r EXCEPT !.life = "CANCELLED"]} ELSE {}
  OBVIOUS
<1> PICK closed : closed = IF outcome THEN Closed(OpenVisits(d, i)) ELSE {}
  OBVIOUS
<1> PICK k : k = Claim(NaturalScope(i), n, 1)
  OBVIOUS
<1> PICK decision : decision = NaturalClaim(d, i, date)
  OBVIOUS
<1> PICK draft : draft = RiskDraft(d, i, date, outcome)
  OBVIOUS
<1>2. r \in d.items /\ r \in Item /\ i \in ItemIds(d.items) /\ i \in Nat
  BY RowsKnown DEF Living, ItemIds, Item
<1>3. /\ items \subseteq Item /\ \A q \in items : q.seq = i
      /\ \A q, x \in items : q = x
      /\ items = {} <=> ~outcome
  BY <1>2 DEF Item
<1>4. n \in Nat /\ NaturalScope(i) \in DOMAIN d.next
  BY <1>2, RowsKnown
<1>5. /\ closed \subseteq Visit
      /\ \A v \in closed : v.life = "CLOSED" /\ v.item = i /\ Continues(d, v)
      /\ \A v, u \in closed : v = u
  BY ClosedVisits
<1>6. outcome => \A w \in d.visits : w.item = i /\ w.life = "OPEN" => VisitId(w) \in VisitIds(closed)
  BY ClosedVisits
<1>7. k \in ClaimRow /\ k.scope = NaturalScope(i) /\ k.expected = n
  BY <1>2, <1>4 DEF Claim, ClaimRow, Scopes, OwnerScopes
<1>8. /\ decision \in Evaluation /\ decision.item = i /\ decision.date = date /\ decision.occ = n
  BY <1>2, <1>4 DEF NaturalClaim, Evaluation
<1>9. /\ draft \in Draft /\ draft.key.subject = <<"evaluated", i, date>>
      /\ draft.key.version = d.version
  <2>1. draft \in Draft
    BY <1>2, RowsKnown, SubjectTyped DEF RiskDraft
  <2> QED
    BY <2>1 DEF RiskDraft, Record
<1>10. c = Part(items, closed, {k}, {decision}, {draft})
  BY <1>1, <1>8
<1>11. /\ c.items = items /\ c.visits = closed /\ c.claims = {k} /\ c.natural = {decision}
       /\ c.records = {draft} /\ c \in Command
  BY <1>3, <1>5, <1>7, <1>8, <1>9, <1>10 DEF Part, Command
<1>12. \A e \in d.evals : e.item # i \/ e.date # date
  BY <1>1
<1> HIDE <1>1, <1>10
<1>13. Allocations(c) = {}
  BY <1>7, <1>11, ScopeFacts DEF Allocations, Allocation
<1>14. CommandValid(c)
  <2>1. RangesCovered(c)
    BY <1>13 DEF RangesCovered
  <2>2. NaturalBound(c)
    BY <1>8, <1>11, <1>13 DEF NaturalBound
  <2> QED
    BY <1>11, <2>1, <2>2 DEF CommandValid
<1>15. ClaimedSubjects(c) = {<<"evaluated", i, date>>}
  <2>1. \A s, m : Claimed(c, s, m) => s = NaturalScope(i)
    BY <1>7, <1>11 DEF Claimed
  <2>2. {u \in c.visits : Claimed(c, VisitScope(u.item), u.ord)} = {}
    BY <2>1, ScopeFacts
  <2>3. {u \in c.items : Claimed(c, ItemScope, u.seq)} = {}
    BY <2>1, ScopeFacts
  <2> QED
    BY <1>8, <1>11, <2>2, <2>3 DEF ClaimedSubjects
<1>16. Rigid(c, d.version)
  <2>1. \A q, x \in c.items : q = x
    BY <1>3, <1>11
  <2>2. \A v, u \in c.visits : v = u
    BY <1>5, <1>11
  <2>3. {s.key.subject : s \in c.records} = ClaimedSubjects(c)
    BY <1>9, <1>11, <1>15
  <2>4. \A s, t \in c.records : s = t /\ s.key.version = d.version
    BY <1>9, <1>11
  <2> QED
    BY <1>11, <1>14, <2>1, <2>2, <2>3, <2>4 DEF Rigid
<1>17. ItemsFit(d, c)
  BY <1>2, <1>3, <1>6, <1>11 DEF ItemsFit
<1>18. VisitsFit(d, c)
  BY <1>2, <1>5, <1>11 DEF VisitsFit
<1>19. ClaimsFit(d, c)
  BY <1>2, <1>4, <1>7, <1>8, <1>11, <1>12 DEF ClaimsFit, Current
<1> QED
  BY <1>16, <1>17, <1>18, <1>19 DEF Fits

\* Two commands that touch other rows are one that fits as they do.
LEMMA MergeFits ==
  ASSUME NEW d, Sane(d), NEW p, NEW q, Rigid(p, d.version), Fits(d, p), Rigid(q, d.version),
         Fits(d, q), Apart(p, q), CommandValid(Merged(p, q))
  PROVE  Rigid(Merged(p, q), d.version) /\ Fits(d, Merged(p, q))
<1> PICK c : c = Merged(p, q)
  OBVIOUS
<1>1. /\ c.items = p.items \cup q.items /\ c.visits = p.visits \cup q.visits
      /\ c.claims = p.claims \cup q.claims /\ c.natural = p.natural \cup q.natural
      /\ c.records = p.records \cup q.records
  BY DEF Merged, Part
<1>2. c \in Command
  BY DEF Merged, Part, Rigid, Command
<1>3. /\ \A r \in p.items, s \in q.items : r.seq # s.seq
      /\ \A v \in p.visits, u \in q.visits : VisitId(v) # VisitId(u)
      /\ ItemIds(p.items) \cap ItemIds(q.items) = {} /\ VisitIds(p.visits) \cap VisitIds(q.visits) = {}
  BY DEF Apart, ItemIds, VisitIds
<1>4. /\ \A s, n : Claimed(c, s, n) <=> Claimed(p, s, n) \/ Claimed(q, s, n)
      /\ ItemIds(c.items) = ItemIds(p.items) \cup ItemIds(q.items)
      /\ VisitIds(c.visits) = VisitIds(p.visits) \cup VisitIds(q.visits)
  BY <1>1 DEF Claimed, ItemIds, VisitIds
<1>5. /\ \A r \in p.items : r.seq \in ItemIds(p.items)
      /\ \A r \in q.items : r.seq \in ItemIds(q.items)
      /\ \A v \in p.visits : <<v.item, v.ord>> \in VisitIds(p.visits)
      /\ \A v \in q.visits : <<v.item, v.ord>> \in VisitIds(q.visits)
      /\ \A i \in ItemIds(p.items) : \E r \in p.items : r.seq = i
      /\ \A i \in ItemIds(q.items) : \E r \in q.items : r.seq = i
  BY DEF ItemIds, VisitIds, VisitId
\* Each of them claims the rows it touches itself.
<1>6. /\ \A r \in p.items : Claimed(c, ItemScope, r.seq) <=> Claimed(p, ItemScope, r.seq)
      /\ \A r \in q.items : Claimed(c, ItemScope, r.seq) <=> Claimed(q, ItemScope, r.seq)
      /\ \A v \in p.visits : Claimed(c, VisitScope(v.item), v.ord) <=> Claimed(p, VisitScope(v.item), v.ord)
      /\ \A v \in q.visits : Claimed(c, VisitScope(v.item), v.ord) <=> Claimed(q, VisitScope(v.item), v.ord)
  <2>1. /\ \A i : Claimed(p, ItemScope, i) => i \in ItemIds(p.items)
        /\ \A i, n : Claimed(p, VisitScope(i), n) => <<i, n>> \in VisitIds(p.visits)
    BY ClaimedCovered
  <2>2. /\ \A i : Claimed(q, ItemScope, i) => i \in ItemIds(q.items)
        /\ \A i, n : Claimed(q, VisitScope(i), n) => <<i, n>> \in VisitIds(q.visits)
    BY ClaimedCovered
  <2>3. \A r \in p.items : Claimed(c, ItemScope, r.seq) <=> Claimed(p, ItemScope, r.seq)
    BY <1>3, <1>4, <1>5, <2>2
  <2>4. \A r \in q.items : Claimed(c, ItemScope, r.seq) <=> Claimed(q, ItemScope, r.seq)
    BY <1>3, <1>4, <1>5, <2>1
  <2>5. \A v \in p.visits : Claimed(c, VisitScope(v.item), v.ord) <=> Claimed(p, VisitScope(v.item), v.ord)
    BY <1>3, <1>4, <1>5, <2>2
  <2>6. \A v \in q.visits : Claimed(c, VisitScope(v.item), v.ord) <=> Claimed(q, VisitScope(v.item), v.ord)
    BY <1>3, <1>4, <1>5, <2>1
  <2> QED
    BY <2>3, <2>4, <2>5, <2>6
<1>7. ClaimedSubjects(c) = ClaimedSubjects(p) \cup ClaimedSubjects(q)
  <2>1. {r \in c.items : Claimed(c, ItemScope, r.seq)}
        = {r \in p.items : Claimed(p, ItemScope, r.seq)} \cup {r \in q.items : Claimed(q, ItemScope, r.seq)}
    BY <1>1, <1>6
  <2>2. {v \in c.visits : Claimed(c, VisitScope(v.item), v.ord)}
        = {v \in p.visits : Claimed(p, VisitScope(v.item), v.ord)}
          \cup {v \in q.visits : Claimed(q, VisitScope(v.item), v.ord)}
    BY <1>1, <1>6
  <2> DEFINE items(x) == {r \in x.items : Claimed(x, ItemScope, r.seq)}
             visits(x) == {v \in x.visits : Claimed(x, VisitScope(v.item), v.ord)}
  <2>3. \A x : ClaimedSubjects(x) = {<<"created", r.seq, 0>> : r \in items(x)}
                 \cup {<<"visited", v.item, v.ord>> : v \in visits(x)}
                 \cup {<<"evaluated", n.item, n.date>> : n \in x.natural}
    BY DEF ClaimedSubjects
  <2>4. items(c) = items(p) \cup items(q) /\ visits(c) = visits(p) \cup visits(q)
    BY <2>1, <2>2
  <2> HIDE DEF items, visits
  <2> QED
    BY <1>1, <2>3, <2>4
<1>8. {s.key.subject : s \in c.records} = ClaimedSubjects(c)
  <2>1. /\ {s.key.subject : s \in p.records} = ClaimedSubjects(p)
        /\ {s.key.subject : s \in q.records} = ClaimedSubjects(q)
    BY DEF Rigid
  <2> QED
    BY <1>1, <1>7, <2>1
<1>9. ASSUME NEW s \in p.records, NEW t \in q.records, s.key.subject = t.key.subject
      PROVE  s.key.subject[1] = "evaluated"
  <2>1. \/ \E r \in p.items : s.key.subject = <<"created", r.seq, 0>>
        \/ \E v \in p.visits : s.key.subject = <<"visited", v.item, v.ord>>
        \/ \E n \in p.natural : s.key.subject = <<"evaluated", n.item, n.date>>
    BY RecordSubjects
  <2>2. \/ \E r \in q.items : t.key.subject = <<"created", r.seq, 0>>
        \/ \E v \in q.visits : t.key.subject = <<"visited", v.item, v.ord>>
        \/ \E n \in q.natural : t.key.subject = <<"evaluated", n.item, n.date>>
    BY RecordSubjects
  <2>3. CASE \E r \in p.items : s.key.subject = <<"created", r.seq, 0>>
    BY <1>3, <1>9, <2>2, <2>3
  <2>4. CASE \E v \in p.visits : s.key.subject = <<"visited", v.item, v.ord>>
    BY <1>3, <1>9, <2>2, <2>4 DEF VisitId
  <2>5. CASE \E n \in p.natural : s.key.subject = <<"evaluated", n.item, n.date>>
    BY <2>5
  <2> QED
    BY <2>1, <2>3, <2>4, <2>5
<1>10. Rigid(c, d.version)
  <2>1. \A r, s \in c.items : r.seq = s.seq => r = s
    BY <1>1, <1>3 DEF Rigid
  <2>2. \A v, u \in c.visits : VisitId(v) = VisitId(u) => v = u
    BY <1>1, <1>3 DEF Rigid
  <2>3. \A s, t \in c.records :
          s.key.subject = t.key.subject => s = t \/ s.key.subject[1] = "evaluated"
    <3> SUFFICES ASSUME NEW s \in c.records, NEW t \in c.records, s.key.subject = t.key.subject
                 PROVE  s = t \/ s.key.subject[1] = "evaluated"
      OBVIOUS
    <3>1. CASE s \in p.records /\ t \in p.records
      BY <3>1 DEF Rigid
    <3>2. CASE s \in q.records /\ t \in q.records
      BY <3>2 DEF Rigid
    <3>3. CASE s \in p.records /\ t \in q.records
      BY <1>9, <3>3
    <3>4. CASE s \in q.records /\ t \in p.records
      <4>1. t.key.subject[1] = "evaluated"
        BY <1>9, <3>4
      <4> QED
        BY <4>1
    <3> QED
      BY <1>1, <3>1, <3>2, <3>3, <3>4
  <2>4. \A s \in c.records : s.key.version = d.version
    BY <1>1 DEF Rigid
  <2> QED
    BY <1>2, <1>8, <2>1, <2>2, <2>3, <2>4 DEF Rigid
<1>11. ItemsFit(d, c)
  <2>1. \A r \in c.items : r.seq \in ItemIds(d.items) \/ Claimed(c, ItemScope, r.seq)
    BY <1>1, <1>4 DEF Fits, ItemsFit
  <2>2. \A r \in c.items, w \in d.visits :
          w.item = r.seq /\ w.life = "OPEN" => VisitId(w) \in VisitIds(c.visits)
    BY <1>1, <1>4 DEF Fits, ItemsFit
  <2> QED
    BY <2>1, <2>2 DEF ItemsFit
\* An open visit whose item the other command touches was not open before.
<1>12. ASSUME NEW v \in p.visits, v.life = "OPEN"
       PROVE  /\ v.item \notin ItemIds(q.items)
              /\ v.item \notin ItemIds(p.items) =>
                   \E w \in d.visits : VisitId(w) = VisitId(v) /\ w.life = "OPEN" /\ w.item = v.item
  <2>1. v.item \in ItemIds(p.items) \/
          \E w \in d.visits : VisitId(w) = VisitId(v) /\ w.life = "OPEN" /\ w.item = v.item
    BY <1>12 DEF Fits, VisitsFit, Continues, Opens, VisitId
  <2>2. ASSUME v.item \in ItemIds(q.items), v.item \notin ItemIds(p.items)
        PROVE  FALSE
    <3>1. PICK w \in d.visits : VisitId(w) = VisitId(v) /\ w.life = "OPEN" /\ w.item = v.item
      BY <2>1, <2>2
    <3>2. VisitId(w) \in VisitIds(q.visits)
      BY <1>5, <2>2, <3>1 DEF Fits, ItemsFit
    <3>3. VisitId(v) \in VisitIds(p.visits)
      BY DEF VisitIds
    <3> QED
      BY <1>3, <3>1, <3>2, <3>3
  <2> QED
    BY <1>3, <2>1, <2>2
<1>13. ASSUME NEW v \in q.visits, v.life = "OPEN"
       PROVE  /\ v.item \notin ItemIds(p.items)
              /\ v.item \notin ItemIds(q.items) =>
                   \E w \in d.visits : VisitId(w) = VisitId(v) /\ w.life = "OPEN" /\ w.item = v.item
  <2>1. v.item \in ItemIds(q.items) \/
          \E w \in d.visits : VisitId(w) = VisitId(v) /\ w.life = "OPEN" /\ w.item = v.item
    BY <1>13 DEF Fits, VisitsFit, Continues, Opens, VisitId
  <2>2. ASSUME v.item \in ItemIds(p.items), v.item \notin ItemIds(q.items)
        PROVE  FALSE
    <3>1. PICK w \in d.visits : VisitId(w) = VisitId(v) /\ w.life = "OPEN" /\ w.item = v.item
      BY <2>1, <2>2
    <3>2. VisitId(w) \in VisitIds(p.visits)
      BY <1>5, <2>2, <3>1 DEF Fits, ItemsFit
    <3>3. VisitId(v) \in VisitIds(q.visits)
      BY DEF VisitIds
    <3> QED
      BY <1>3, <3>1, <3>2, <3>3
  <2> QED
    BY <1>3, <2>1, <2>2
\* Two open visits of one item would be one that was open before.
<1>14. ASSUME NEW v \in p.visits, NEW u \in q.visits, v.item = u.item,
              v.life = "OPEN", u.life = "OPEN"
       PROVE  FALSE
  <2>1. PICK w \in d.visits : VisitId(w) = VisitId(v) /\ w.life = "OPEN" /\ w.item = v.item
    BY <1>12, <1>13, <1>14
  <2>2. PICK x \in d.visits : VisitId(x) = VisitId(u) /\ x.life = "OPEN" /\ x.item = u.item
    BY <1>12, <1>13, <1>14
  <2>3. w = x
    BY <1>14, <2>1, <2>2 DEF Sane, SnapshotValid, OneOpenVisit
  <2> QED
    BY <1>3, <2>1, <2>2, <2>3
<1>15. VisitsFit(d, c)
  <2>1. ASSUME NEW v \in c.visits
        PROVE  v.item \in ItemIds(d.items) /\ (Continues(d, v) \/ Opens(d, c, v))
    <3>1. CASE v \in p.visits
      BY <1>4, <3>1 DEF Fits, VisitsFit, Opens
    <3>2. CASE v \in q.visits
      BY <1>4, <3>2 DEF Fits, VisitsFit, Opens
    <3> QED
      BY <1>1, <3>1, <3>2
  <2>2. \A v \in c.visits, r \in c.items : v.life = "OPEN" /\ r.seq = v.item => r.status = v.status
    <3> SUFFICES ASSUME NEW v \in c.visits, NEW r \in c.items, v.life = "OPEN", r.seq = v.item
                 PROVE  r.status = v.status
      OBVIOUS
    <3>1. CASE v \in p.visits /\ r \in p.items
      BY <3>1 DEF Fits, VisitsFit
    <3>2. CASE v \in q.visits /\ r \in q.items
      BY <3>2 DEF Fits, VisitsFit
    <3>3. CASE v \in p.visits /\ r \in q.items
      BY <1>5, <1>12, <3>3
    <3>4. CASE v \in q.visits /\ r \in p.items
      BY <1>5, <1>13, <3>4
    <3> QED
      BY <1>1, <3>1, <3>2, <3>3, <3>4
  <2>3. \A v, u \in c.visits : v.item = u.item /\ v.life = "OPEN" /\ u.life = "OPEN" => v = u
    BY <1>1, <1>14 DEF Fits, VisitsFit
  <2> QED
    BY <2>1, <2>2, <2>3 DEF VisitsFit
<1>16. ClaimsFit(d, c)
  BY <1>1 DEF Fits, ClaimsFit
<1> QED
  BY <1>10, <1>11, <1>15, <1>16 DEF Fits

\* A process reads the rows only.
LEMMA LoadedSame ==
  ASSUME NEW d
  PROVE  Parts(Loaded(d)) = Parts(d) /\ Commands(Loaded(d)) = Commands(d)
<1>1. /\ Loaded(d).version = d.version /\ Loaded(d).items = d.items
      /\ Loaded(d).visits = d.visits /\ Loaded(d).next = d.next /\ Loaded(d).evals = d.evals
  BY DEF Loaded
<1>2. Births(Loaded(d)) = Births(d)
  BY <1>1 DEF Births
<1>3. Moves(Loaded(d)) = Moves(d)
  BY <1>1 DEF Moves, Living, NewVisit, OpenVisits, TickDraft
<1>4. Labor(Loaded(d)) = Labor(d)
  BY <1>1 DEF Labor
<1>5. Evaluations(Loaded(d)) = Evaluations(d)
  BY <1>1 DEF Evaluations, Living, NaturalClaim, OpenVisits, RiskDraft
<1>6. Parts(Loaded(d)) = Parts(d)
  BY <1>2, <1>3, <1>4, <1>5 DEF Parts
<1> QED
  BY <1>5, <1>6 DEF Commands

LEMMA PartFits ==
  ASSUME NEW d, Sane(d), NEW c \in Parts(d)
  PROVE  Rigid(c, d.version) /\ Fits(d, c)
BY BirthFits, MoveFits, LaborFits, EvaluationFits DEF Parts

LEMMA CommandFits ==
  ASSUME NEW d, Sane(d), NEW c \in Commands(d)
  PROVE  Rigid(c, d.version) /\ Fits(d, c)
<1>1. CASE c \in Parts(d)
  BY <1>1, PartFits
<1>2. CASE c \notin Parts(d)
  <2>1. PICK p \in Evaluations(d), q \in Parts(d) : c = Merged(p, q) /\ Apart(p, q)
    BY <1>2 DEF Commands
  <2>2. CommandValid(Merged(p, q))
    BY <2>1 DEF Commands
  <2>3. p \in Parts(d)
    BY DEF Parts
  <2>4. Rigid(p, d.version) /\ Fits(d, p) /\ Rigid(q, d.version) /\ Fits(d, q)
    BY <2>3, PartFits
  <2> QED
    BY <2>1, <2>2, <2>4, MergeFits
<1> QED
  BY <1>1, <1>2

-----------------------------------------------------------------------------
(* The invariant.                                                          *)

\* What a process holds outlives the commits of others.
LEMMA HoldsStays ==
  ASSUME NEW d, Sane(d), NEW r \in Attempt, Holds(d, r), NEW c, NEW b, Rigid(c, b),
         NEW e, e = Committed(d, c)
  PROVE  Holds(e, r)
<1>1. d.version \in Nat /\ e.version = d.version + 1
  BY DEF Sane, Database, Committed
<1>2. r.base \in Nat /\ r.base <= d.version /\ Rigid(r.cmd, r.base)
  BY DEF Holds
<1>3. r.landed => \A k \in Allocations(r.cmd) : Advanced(e, k)
  <2> SUFFICES ASSUME r.landed, NEW k \in Allocations(r.cmd)
               PROVE  Advanced(e, k)
    OBVIOUS
  <2>1. k \in ClaimRow
    BY <1>2, NaturalClaims DEF Allocations
  <2>2. Advanced(d, k)
    BY DEF Holds
  <2> QED
    BY <2>1, <2>2, SpentStays
<1>4. r.pc = "ready" => r.expected \in Nat /\ r.base <= r.expected /\ r.expected <= d.version
  BY DEF Holds
<1> QED
  BY <1>1, <1>2, <1>3, <1>4 DEF Holds

\* A bound of a version stays a bound, a strict one, of the next version.
LEMMA VersionsGrow ==
  ASSUME NEW v \in Nat, NEW b \in Nat, b <= v
  PROVE  b <= v + 1 /\ b < v + 1 /\ b # v + 1
  OBVIOUS

\* After the commit of its own command a process that lost the answer holds a
\* spent command.
LEMMA HoldsSpent ==
  ASSUME NEW d, Sane(d), NEW r \in Attempt, Holds(d, r), NEW x, Accepted(d, r.cmd, x),
         NEW e, e = Committed(d, r.cmd), NEW u, u = Unsure(r, TRUE)
  PROVE  Holds(e, u)
<1>1. /\ d.version \in Nat /\ e.version = d.version + 1
      /\ r.base \in Nat /\ r.base <= d.version /\ Rigid(r.cmd, r.base)
  BY DEF Sane, Database, Committed, Holds
<1>2. u.pc = "unsure" /\ u.cmd = r.cmd /\ u.base = r.base
  BY DEF Unsure
<1>3. \A k \in Allocations(r.cmd) : Advanced(e, k)
  BY DEF Accepted, ResultExact, Allocations
<1>4. r.base <= d.version + 1 /\ r.base < d.version + 1 /\ r.base # d.version + 1
  BY <1>1, VersionsGrow
<1>5. u.base \in Nat /\ u.base <= e.version /\ u.base < e.version /\ u.base # e.version
  BY <1>1, <1>2, <1>4, ZenonT(30)
<1>6. Rigid(u.cmd, u.base) /\ u.pc # "ready"
  BY <1>1, <1>2, ZenonT(30)
<1>7. \A k \in Allocations(u.cmd) : Advanced(e, k)
  BY <1>2, <1>3
<1> HIDE <1>1, <1>2, <1>3, <1>4
<1> QED
  BY <1>5, <1>6, <1>7 DEF Holds

LEMMA InitInv == Init => CommitInv
<1> SUFFICES ASSUME Init PROVE CommitInv
  OBVIOUS
<1>1. /\ db.version = 0 /\ db.items = Bootstrapped /\ db.visits = {} /\ db.next = BaseCounters
      /\ db.evals = {} /\ db.ledger = {}
      /\ db = [version |-> 0, items |-> Bootstrapped, visits |-> {}, next |-> BaseCounters,
               evals |-> {}, ledger |-> {}]
  BY DEF Init
<1>2. BaseItems \in Nat /\ FirstStatus \in Route
  BY SliceAssumption
<1>3. /\ \A r \in Bootstrapped : r \in Item /\ r.seq \in 0 .. (BaseItems - 1)
      /\ \A r, q \in Bootstrapped : r.seq = q.seq => r = q
      /\ \A i \in 0 .. (BaseItems - 1) : NewItem(i) \in Bootstrapped /\ NewItem(i).seq = i
  BY <1>2 DEF Bootstrapped, NewItem, Item
<1>4. ItemIds(Bootstrapped) = 0 .. (BaseItems - 1)
  BY <1>3 DEF ItemIds
<1>5. BaseCounters = [s \in {ItemScope} \cup Owned(Bootstrapped) |-> IF s = ItemScope THEN BaseItems ELSE 0]
  BY DEF BaseCounters, Owned
<1>6. db \in Database
  <2>1. {ItemScope} \cup Owned(Bootstrapped) \subseteq Scopes
    BY <1>3 DEF Owned, Scopes, Item
  <2>2. BaseCounters \in [{ItemScope} \cup Owned(Bootstrapped) -> Nat]
    BY <1>2, <1>5
  <2>3. BaseCounters \in Counters
    BY <2>1, <2>2 DEF Counters
  <2>4. Bootstrapped \subseteq Item
    BY <1>3
  <2> QED
    BY <1>1, <2>3, <2>4 DEF Database
<1>7. Keyed(db)
  BY <1>1, <1>3 DEF Keyed
<1>8. Counted(db)
  <2>1. \A r \in Bootstrapped :
          /\ VisitScope(r.seq) \in DOMAIN BaseCounters /\ BaseCounters[VisitScope(r.seq)] = 0
          /\ NaturalScope(r.seq) \in DOMAIN BaseCounters /\ BaseCounters[NaturalScope(r.seq)] = 0
    <3>1. \A r \in Bootstrapped : r.seq \in ItemIds(Bootstrapped)
      BY DEF ItemIds
    <3> QED
      BY <1>5, <3>1, OwnedScopes, ScopeFacts
  <2>2. BaseCounters[ItemScope] = BaseItems
    BY <1>5
  <2>3. DOMAIN db.next = {ItemScope} \cup UNION {OwnerScopes(r.seq) : r \in db.items}
    BY <1>1, <1>5 DEF Owned
  <2>4. ItemIds(db.items) = Numbers(db, ItemScope)
    BY <1>1, <1>4, <2>2 DEF Numbers
  <2>5. \A r \in db.items : Numbers(db, VisitScope(r.seq)) = {} /\ Numbers(db, NaturalScope(r.seq)) = {}
    BY <1>1, <2>1 DEF Numbers
  <2> QED
    BY <1>1, <2>3, <2>4, <2>5 DEF Counted
<1>9. SnapshotValid(db)
  <2>1. \A s \in DOMAIN BaseCounters : s.kind = "ITEM_SEQUENCE" \/ s.owner \in ItemIds(Bootstrapped)
    BY <1>5, OwnedScopes, ScopeFacts DEF OwnerScopes
  <2> QED
    BY <1>1, <1>3, <2>1
      DEF SnapshotValid, OneOpenVisit, OwnersPresent, StatusAgrees, OnRoute, Item
<1>10. Told(db)
  <2>1. Subjects(db) = {}
    <3>1. \A r \in db.items : ~(r.seq >= BaseItems)
      BY <1>1, <1>2, <1>3
    <3> QED
      BY <1>1, <3>1 DEF Subjects
  <2>2. BaseItems <= db.next[ItemScope]
    BY <1>1, <1>2, <1>5
  <2> QED
    BY <1>1, <2>1, <2>2 DEF Told, LedgerTells
<1>11. Idle \in Attempt /\ Idle.pc = "idle" /\ ~Idle.landed
  BY DEF Idle, Attempt, NoPart, Part, Command
<1> QED
  BY <1>6, <1>7, <1>8, <1>9, <1>10, <1>11 DEF Init, CommitInv, Sane

LEMMA NextInv == CommitInv /\ [Next]_vars => CommitInv'
<1> SUFFICES ASSUME CommitInv, [Next]_vars PROVE CommitInv'
  OBVIOUS
<1>1. /\ Sane(db) /\ Told(db) /\ db.version \in Nat
      /\ client \in [Clients -> Attempt]
      /\ \A p \in Clients : client[p].pc = "idle" => ~client[p].landed
      /\ \A p \in Clients : client[p].pc # "idle" => Holds(db, client[p])
  BY DEF CommitInv, Sane, Database
<1>2. Idle \in Attempt /\ Idle.pc = "idle" /\ ~Idle.landed
  BY DEF Idle, Attempt, NoPart, Part, Command
\* A step of one process that leaves the rows alone.
<1>3. ASSUME NEW p \in Clients, NEW r \in Attempt, UNCHANGED db, client' = [client EXCEPT ![p] = r],
             IF r.pc = "idle" THEN ~r.landed ELSE Holds(db, r)
      PROVE  CommitInv'
  <2>1. client' \in [Clients -> Attempt] /\ db' = db
    BY <1>1, <1>3
  <2>2. ASSUME NEW q \in Clients
        PROVE  IF client'[q].pc = "idle" THEN ~client'[q].landed ELSE Holds(db', client'[q])
    <3>1. CASE q = p
      BY <1>1, <1>3, <3>1
    <3>2. CASE q # p
      BY <1>1, <1>3, <3>2
    <3> QED
      BY <3>1, <3>2
  <2>3. Sane(db)' /\ Told(db)'
    <3>1. Sane(db') /\ Told(db')
      BY <1>1, <2>1
    <3> QED
      BY <3>1
  <2> QED
    BY <2>1, <2>2, <2>3 DEF CommitInv
\* A commit, whoever's it is.
<1>4. ASSUME NEW c, NEW b \in Nat, Rigid(c, b), b <= db.version, NEW x, Accepted(db, c, x),
             db' = Committed(db, c)
      PROVE  /\ Sane(db') /\ Told(db')
             /\ \A p \in Clients : client[p].pc # "idle" => Holds(db', client[p])
  <2>1. Sane(db') /\ Told(db')
    BY <1>1, <1>4, KeptByCommit
  <2>2. ASSUME NEW p \in Clients, client[p].pc # "idle"
        PROVE  Holds(db', client[p])
    <3>1. client[p] \in Attempt /\ Holds(db, client[p])
      BY <1>1, <2>2
    <3> QED
      BY <1>1, <1>4, <3>1, HoldsStays
  <2> QED
    BY <2>1, <2>2
<1>5. ASSUME NEW p \in Clients, Calculate(p)
      PROVE  CommitInv'
  <2>1. PICK c \in Commands(db) :
          client' = [client EXCEPT ![p] = Submission(c, db.version, db.version, FALSE)]
    BY <1>5, LoadedSame DEF Calculate
  <2> PICK r : r = Submission(c, db.version, db.version, FALSE)
    OBVIOUS
  <2>2. Rigid(c, db.version) /\ Fits(db, c)
    BY <1>1, CommandFits
  <2>3. /\ r.pc = "ready" /\ r.cmd = c /\ r.base = db.version /\ r.expected = db.version
        /\ ~r.landed /\ r \in Attempt
    BY <1>1, <2>2 DEF Submission, Attempt, Rigid
  <2>4. Holds(db, r)
    <3>1. Rigid(r.cmd, r.base) /\ Fits(db, r.cmd)
      BY <2>2, <2>3
    <3>2. db.version \in Nat
      BY <1>1 DEF Sane, Database
    <3>3. r.base = db.version /\ r.expected = db.version /\ ~r.landed
      BY <2>3
    <3>4. db.version <= db.version
      BY <3>2
    <3>5. /\ r.base \in Nat /\ r.base <= db.version
          /\ r.expected \in Nat /\ r.base <= r.expected /\ r.expected <= db.version
      BY <3>2, <3>3, <3>4, ZenonT(30)
    <3> QED
      BY <3>1, <3>3, <3>5 DEF Holds
  <2> QED
    BY <1>3, <1>5, <2>1, <2>3, <2>4 DEF Calculate
<1>6. ASSUME NEW p \in Clients, Commit(p)
      PROVE  CommitInv'
  <2> PICK r : r = client[p]
    OBVIOUS
  <2> PICK u : u = Unsure(r, TRUE)
    OBVIOUS
  <2>1. r \in Attempt /\ Holds(db, r) /\ Accepted(db, r.cmd, r.expected) /\ db' = Committed(db, r.cmd)
    BY <1>1, <1>6 DEF Commit
  <2>2. client' = [client EXCEPT ![p] = Idle] \/ client' = [client EXCEPT ![p] = u]
    BY <1>6 DEF Commit
  <2>3. r.base \in Nat /\ Rigid(r.cmd, r.base) /\ r.base <= db.version
    BY <2>1 DEF Holds
  <2>4. /\ Sane(db') /\ Told(db')
        /\ \A q \in Clients : client[q].pc # "idle" => Holds(db', client[q])
    BY <1>4, <2>1, <2>3
  <2>5. u \in Attempt /\ u.pc # "idle" /\ Holds(db', u)
    <3>1. Holds(db', u)
      BY <1>1, <2>1, HoldsSpent
    <3> QED
      BY <2>1, <3>1 DEF Unsure, Attempt
  <2>6. client' \in [Clients -> Attempt]
    BY <1>1, <1>2, <2>2, <2>5
  <2>7. ASSUME NEW q \in Clients
        PROVE  IF client'[q].pc = "idle" THEN ~client'[q].landed ELSE Holds(db', client'[q])
    BY <1>1, <1>2, <2>2, <2>4, <2>5
  <2> QED
    BY <2>4, <2>6, <2>7 DEF CommitInv
<1>7. ASSUME NEW p \in Clients, RollBack(p)
      PROVE  CommitInv'
  <2> PICK r : r = Unsure(client[p], client[p].landed)
    OBVIOUS
  <2>1. client[p] \in Attempt /\ Holds(db, client[p]) /\ client' = [client EXCEPT ![p] = r]
    BY <1>1, <1>7 DEF RollBack
  <2>2. /\ r.pc = "unsure" /\ r.cmd = client[p].cmd /\ r.base = client[p].base
        /\ r.landed = client[p].landed /\ r \in Attempt
    BY <2>1 DEF Unsure, Attempt
  <2>3. Holds(db, r)
    BY <2>1, <2>2 DEF Holds
  <2> QED
    BY <1>3, <1>7, <2>1, <2>2, <2>3 DEF RollBack
<1>8. ASSUME NEW p \in Clients, Refuse(p) \/ GiveUp(p)
      PROVE  CommitInv'
  BY <1>2, <1>3, <1>8 DEF Refuse, GiveUp
<1>9. ASSUME NEW p \in Clients, Resubmit(p)
      PROVE  CommitInv'
  <2> PICK r : r = Submission(client[p].cmd, client[p].base, db.version, client[p].landed)
    OBVIOUS
  <2>1. client[p] \in Attempt /\ Holds(db, client[p]) /\ client' = [client EXCEPT ![p] = r]
    BY <1>1, <1>9 DEF Resubmit
  <2>2. /\ r.pc = "ready" /\ r.cmd = client[p].cmd /\ r.base = client[p].base
        /\ r.expected = db.version /\ r.landed = client[p].landed /\ r \in Attempt
    BY <1>1, <2>1 DEF Submission, Attempt
  <2>3. Holds(db, r)
    BY <1>1, <2>1, <2>2 DEF Holds
  <2> QED
    BY <1>3, <1>9, <2>1, <2>2, <2>3 DEF Resubmit
<1>10. CASE CommitElsewhere
  <2>1. PICK c \in Parts(db) : Accepted(db, c, db.version) /\ db' = Committed(db, c)
    BY <1>10, LoadedSame DEF CommitElsewhere
  <2>2. Rigid(c, db.version)
    BY <1>1, PartFits
  <2>3. /\ Sane(db') /\ Told(db')
        /\ \A p \in Clients : client[p].pc # "idle" => Holds(db', client[p])
    BY <1>1, <1>4, <2>1, <2>2
  <2>4. client' = client
    BY <1>10 DEF CommitElsewhere
  <2> QED
    BY <1>1, <2>3, <2>4 DEF CommitInv
<1>11. CASE UNCHANGED vars
  <2>1. db' = db /\ client' = client
    BY <1>11 DEF vars
  <2> QED
    BY <1>1, <2>1 DEF CommitInv
<1> QED
  BY <1>5, <1>6, <1>7, <1>8, <1>9, <1>10, <1>11 DEF Next

LEMMA Invariant == Spec => []CommitInv
BY InitInv, NextInv, PTL DEF Spec

\* The pointwise numbering is the one the property states with sets.
LEMMA RowsFollow ==
  ASSUME NEW d, Sane(d)
  PROVE  Numbered(d) /\ DatesOnce(d)
<1>1. d \in Database /\ Keyed(d) /\ Counted(d)
  BY DEF Sane
<1>2. ASSUME NEW r \in d.items
      PROVE  {v.ord : v \in {w \in d.visits : w.item = r.seq}} = Numbers(d, VisitScope(r.seq))
  <2>1. \A v \in d.visits : v.item = r.seq => v.ord \in Numbers(d, VisitScope(r.seq))
    <3>1. r.seq \in ItemIds(d.items)
      BY DEF ItemIds
    <3>2. d.next[VisitScope(r.seq)] \in Nat
      BY <3>1, RowsKnown
    <3>3. \A v \in d.visits : v.ord \in Nat /\ v.ord < d.next[VisitScope(v.item)]
      BY <1>1 DEF Counted, Database, Visit
    <3> QED
      BY <3>2, <3>3 DEF Numbers
  <2>2. ASSUME NEW k \in Numbers(d, VisitScope(r.seq))
        PROVE  \E v \in d.visits : v.item = r.seq /\ v.ord = k
    <3>1. <<r.seq, k>> \in VisitIds(d.visits)
      BY <1>1, <2>2 DEF Counted
    <3> QED
      BY <3>1 DEF VisitIds, VisitId
  <2> QED
    BY <2>1, <2>2
<1>3. ASSUME NEW r \in d.items
      PROVE  {e.occ : e \in {f \in d.evals : f.item = r.seq}} = Numbers(d, NaturalScope(r.seq))
  <2>1. \A e \in d.evals : e.item = r.seq => e.occ \in Numbers(d, NaturalScope(r.seq))
    <3>1. r.seq \in ItemIds(d.items)
      BY DEF ItemIds
    <3>2. d.next[NaturalScope(r.seq)] \in Nat
      BY <3>1, RowsKnown
    <3>3. \A e \in d.evals : e.occ \in Nat /\ e.occ < d.next[NaturalScope(e.item)]
      BY <1>1 DEF Counted, Database, Evaluation
    <3> QED
      BY <3>2, <3>3 DEF Numbers
  <2>2. \A k \in Numbers(d, NaturalScope(r.seq)) : \E e \in d.evals : e.item = r.seq /\ e.occ = k
    BY <1>1 DEF Counted
  <2> QED
    BY <2>1, <2>2
<1>4. DatesOnce(d)
  BY <1>1 DEF Keyed, DatesOnce
<1> QED
  BY <1>1, <1>2, <1>3, <1>4 DEF Counted, Numbered

\* Whatever is submitted, lost, rolled back and submitted again, in any order
\* and by any number of processes: rows, counters, evaluations and ledgers tell
\* the same story (unit_of_work.commit_authoritative_slice,
\* scrum_state_mapper.apply_after_images).
THEOREM RowsInStep == Spec => []RowsAccounted
<1>1. CommitInv => RowsAccounted
  BY RowsFollow DEF CommitInv, Sane, Told, RowsAccounted
<1> QED
  BY <1>1, Invariant, PTL

\* A command computed from the state that is still the current one is accepted:
\* no check of the transaction refuses what a tick computes from a fresh load.
THEOREM FreshWorkAccepted == Spec => []FreshAccepted
<1>1. CommitInv => FreshAccepted
  <2> SUFFICES ASSUME CommitInv, NEW p \in Clients, client[p].pc = "ready",
                      client[p].base = db.version
               PROVE  Accepted(db, client[p].cmd, client[p].expected)
    BY DEF FreshAccepted
  <2>1. Sane(db) /\ Told(db) /\ Holds(db, client[p]) /\ db.version \in Nat
    BY DEF CommitInv, Sane, Database
  <2>2. /\ client[p].expected = db.version
        /\ Rigid(client[p].cmd, db.version) /\ Fits(db, client[p].cmd)
    BY <2>1 DEF Holds
  <2> QED
    BY <2>1, <2>2, FitsAccepted
<1> QED
  BY <1>1, Invariant, PTL

\* A command with an allocation that has landed and is submitted again changes
\* the runtime version and nothing else, whatever others committed in between
\* (_require_replayed_ledgers, preflight_replay).
THEOREM ReplaysAreHarmless == Spec => ReplayHarmless
<1> DEFINE Harmless ==
      \A p \in Clients :
        /\ client[p].landed /\ Allocations(client[p].cmd) # {}
        /\ client'[p] # client[p] /\ db' # db
        => db' = [db EXCEPT !.version = @ + 1]
<1>1. CommitInv /\ Next => Harmless
  <2> SUFFICES ASSUME CommitInv, Next, NEW p \in Clients,
                      client[p].landed, Allocations(client[p].cmd) # {},
                      client'[p] # client[p], db' # db
               PROVE  db' = [db EXCEPT !.version = db.version + 1]
    OBVIOUS
  <2>1. /\ db \in Database /\ Keyed(db) /\ Counted(db) /\ client \in [Clients -> Attempt]
        /\ client[p].pc # "idle" /\ Holds(db, client[p])
    BY DEF CommitInv, Sane
  <2>2. Commit(p)
    <3>1. \A q \in Clients : ~Calculate(q) /\ ~RollBack(q) /\ ~Refuse(q) /\ ~Resubmit(q) /\ ~GiveUp(q)
      BY DEF Calculate, RollBack, Refuse, Resubmit, GiveUp
    <3>2. ~CommitElsewhere
      BY DEF CommitElsewhere
    <3>3. PICK q \in Clients : Commit(q)
      BY <3>1, <3>2 DEF Next
    <3>4. q = p
      BY <2>1, <3>3 DEF Commit
    <3> QED
      BY <3>3, <3>4
  <2>3. /\ Accepted(db, client[p].cmd, client[p].expected) /\ db' = Committed(db, client[p].cmd)
    BY <2>2 DEF Commit
  <2>4. Rigid(client[p].cmd, client[p].base) /\ IsReplay(db, client[p].cmd)
    BY <2>1 DEF Holds, IsReplay
  <2> QED
    BY <2>1, <2>3, <2>4, ReplayChangesNothing
<1>2. CommitInv /\ [Next]_vars => [Harmless]_vars
  BY <1>1
<1> QED
  BY <1>2, Invariant, PTL DEF Spec, ReplayHarmless

-----------------------------------------------------------------------------
(* The labor of a slice.  Visits and usage.                                *)

VisitState ==
  [step : 1..LastStep, entered : Nat, touch : Nat, dwell : Nat, left : Nat, credited : Nat,
   queue : Nat, pause : Nat, owner : Members \cup {0}, stays : Nat, open : BOOLEAN]

Visits == [Items -> VisitState]
Usage == [Members -> [Days -> Nat]]

\* Intervals of availability.
Shared(away) == \A a \in away : a.part \in 0..Whole /\ a.cap \in Nat
Left(away) == \A a \in away : a.part = 0 /\ a.cap = 0

\* A piece of working time within a date.
WorkSpan(g) ==
  /\ g.from \in Nat /\ g.to \in g.from..Horizon
  /\ \A t \in g.from..(g.to - 1) : Works(t) /\ DateOf(t) = DateOf(g.from)

-----------------------------------------------------------------------------
(* Induction and least numbers.                                            *)

\* Every set of natural numbers that is not empty has a least member.
LEMMA LeastNumber ==
  ASSUME NEW S \in SUBSET Nat, S # {}
  PROVE  \E m \in S : \A k \in S : m <= k
<1> DEFINE R == OpToRel(<, Nat)
<1>1. PICK m \in S : \A k \in S : ~(<<k, m>> \in R)
  <2>1. IsWellFoundedOn(R, Nat)
    BY NatLessThanWellFounded
  <2> HIDE DEF R
  <2> QED
    BY <2>1, WFMin
<1>2. ASSUME NEW k \in S PROVE m <= k
  <2>1. ~(<<k, m>> \in Nat \X Nat /\ k < m)
    BY <1>1 DEF OpToRel
  <2> QED
    BY <2>1
<1> QED
  BY <1>2

LEMMA LeastIsMin ==
  ASSUME NEW S \in SUBSET Nat, S # {}
  PROVE  Min(S) \in S /\ \A x \in S : Min(S) <= x
BY LeastNumber DEF Min

\* A set that holds a and with each number before n the next one holds them all.
LEMMA FromUpTo ==
  ASSUME NEW a \in Nat, NEW n \in Nat, NEW S, a \in S,
         \A m \in a..(n - 1) : m \in S => m + 1 \in S
  PROVE  \A m \in a..n : m \in S
<1> DEFINE Out == {m \in a..n : m \notin S}
<1> SUFFICES ASSUME Out # {} PROVE FALSE
  OBVIOUS
<1>1. Out \in SUBSET Nat
  OBVIOUS
<1>2. PICK m \in Out : \A k \in Out : m <= k
  BY <1>1, LeastNumber
<1>3. m \in (a + 1)..n /\ m - 1 \in a..(n - 1) /\ m - 1 < m /\ (m - 1) + 1 = m
  BY <1>2
<1>4. m - 1 \in S
  BY <1>2, <1>3
<1> QED
  BY <1>2, <1>3, <1>4
-----------------------------------------------------------------------------
(* Numbers.                                                                *)

LEMMA FloorNat ==
  ASSUME NEW n \in Int
  PROVE  Floor0(n) \in Nat /\ n <= Floor0(n) /\ (n >= 0 => Floor0(n) = n) /\ (n <= 0 => Floor0(n) = 0)
BY DEF Floor0

LEMMA WholeNat == Whole \in Nat /\ Whole > 0 /\ DayLength \in Nat /\ DayLength > 0
BY LaborAssumption

LEMMA RoundedNat == ASSUME NEW n \in Nat PROVE Rounded(n) \in Nat
BY WholeNat DEF Rounded

\* Rounding a share of n gives no more than n.
LEMMA ShareBounded ==
  ASSUME NEW n \in Nat, NEW f \in 0..Whole
  PROVE  n * f \in Nat /\ Rounded(n * f) \in Nat /\ Rounded(n * f) <= n
<1> PICK p : p = n * f
  OBVIOUS
<1>1. p \in Nat
  BY WholeNat
<1>2. CASE f = Whole
  <2>1. p \div Whole = n /\ p % Whole = 0
    BY <1>2, WholeNat
  <2> QED
    BY <1>1, <2>1, WholeNat, RoundedNat DEF Rounded
<1>3. CASE f < Whole /\ n > 0
  <2>1. n * f <= n * (Whole - 1)
    BY <1>3, WholeNat
  <2>2. p <= n * Whole - n
    BY <2>1, WholeNat
  <2>3. p < n * Whole
    BY <1>1, <2>2, <1>3, WholeNat
  <2>4. p \div Whole < n
    BY <1>1, <2>3, WholeNat
  <2>5. p \div Whole \in Nat /\ p \div Whole + 1 <= n
    BY <1>1, <2>4, WholeNat
  <2> QED
    BY <1>1, <2>5, RoundedNat DEF Rounded
<1>4. CASE n = 0
  <2>1. p = 0 /\ p \div Whole = 0 /\ p % Whole = 0
    BY <1>1, <1>4, WholeNat
  <2> QED
    BY <2>1, <1>4, WholeNat, RoundedNat DEF Rounded
<1> QED
  BY <1>2, <1>3, <1>4, WholeNat

LEMMA DateBounds ==
  ASSUME NEW t \in Nat
  PROVE  /\ DateOf(t) \in Nat /\ DateOf(t) * DayLength <= t /\ t < (DateOf(t) + 1) * DayLength
         /\ \A u \in Nat : t <= u => DateOf(t) <= DateOf(u)
BY WholeNat DEF DateOf
-----------------------------------------------------------------------------
(* Business time.                                                          *)

LEMMA WorkedStep ==
  ASSUME NEW t \in 0..(Horizon + DayLength - 1)
  PROVE  /\ Worked[t] \in Nat
         /\ Worked[t + 1] = Worked[t] + (IF Works(t) THEN 1 ELSE 0)
<1> DEFINE S(k) == {u \in 0..(k - 1) : Works(u)}
<1>1. Horizon \in Nat /\ t \in Nat /\ t + 1 \in 0..(Horizon + DayLength) /\ t \in 0..(Horizon + DayLength)
  BY LaborAssumption
<1>2. Worked[t] = Cardinality(S(t)) /\ Worked[t + 1] = Cardinality(S(t + 1))
  BY <1>1 DEF Worked
<1>3. IsFiniteSet(S(t))
  <2>1. IsFiniteSet(0..(t - 1))
    BY <1>1, FS_Interval
  <2>2. S(t) \subseteq 0..(t - 1)
    OBVIOUS
  <2> HIDE DEF S
  <2> QED
    BY <2>1, <2>2, FS_Subset
<1>4. Cardinality(S(t)) \in Nat
  BY <1>3, FS_CardinalityType
<1>5. CASE Works(t)
  <2>1. S(t + 1) = S(t) \cup {t} /\ t \notin S(t)
    BY <1>1, <1>5
  <2> HIDE DEF S
  <2>2. Cardinality(S(t + 1)) = Cardinality(S(t)) + 1
    BY <1>3, <2>1, FS_AddElement
  <2> QED
    BY <1>2, <1>4, <1>5, <2>2
<1>6. CASE ~Works(t)
  <2>1. S(t + 1) = S(t)
    BY <1>1, <1>6
  <2> HIDE DEF S
  <2> QED
    BY <1>2, <1>4, <1>6, <2>1
<1> QED
  BY <1>5, <1>6

LEMMA WorkedNat ==
  ASSUME NEW t \in 0..(Horizon + DayLength)
  PROVE  Worked[t] \in Nat
<1> DEFINE S == {u \in 0..(t - 1) : Works(u)}
<1>1. IsFiniteSet(0..(t - 1)) /\ t \in Nat
  BY LaborAssumption, FS_Interval
<1>2. S \subseteq 0..(t - 1) /\ Worked[t] = Cardinality(S)
  BY DEF Worked
<1> HIDE DEF S
<1> QED
  BY <1>1, <1>2, FS_Subset, FS_CardinalityType

\* Business time goes on with time, no faster, and as fast where all is worked.
LEMMA WorkedGrows ==
  ASSUME NEW a \in 0..(Horizon + DayLength), NEW b \in a..(Horizon + DayLength)
  PROVE  /\ Worked[a] \in Nat /\ Worked[b] \in Nat
         /\ Elapsed(a, b) \in Nat /\ Elapsed(a, b) <= b - a
         /\ (\A t \in a..(b - 1) : Works(t)) => Elapsed(a, b) = b - a
<1> DEFINE S == {t \in a..b : /\ Worked[a] <= Worked[t] /\ Worked[t] - Worked[a] <= t - a
                              /\ (\A x \in a..(t - 1) : Works(x)) => Worked[t] - Worked[a] = t - a}
<1>1. a \in Nat /\ b \in Nat /\ Horizon \in Nat /\ a <= b
  BY LaborAssumption
<1>2. Worked[a] \in Nat /\ Worked[b] \in Nat
  BY <1>1, WorkedNat, WholeNat
<1>3. a \in S
  BY <1>1, <1>2
<1>4. ASSUME NEW m \in a..(b - 1), m \in S PROVE m + 1 \in S
  <2>1. m \in 0..(Horizon + DayLength - 1) /\ m + 1 \in a..b
    BY <1>1, WholeNat
  <2>2. Worked[m] \in Nat /\ Worked[m + 1] = Worked[m] + (IF Works(m) THEN 1 ELSE 0)
    BY <2>1, WorkedStep
  <2>3. Worked[a] <= Worked[m + 1] /\ Worked[m + 1] - Worked[a] <= (m + 1) - a
    BY <1>1, <1>2, <1>4, <2>1, <2>2
  <2>4. ASSUME \A x \in a..((m + 1) - 1) : Works(x) PROVE Worked[m + 1] - Worked[a] = (m + 1) - a
    <3>1. Works(m) /\ \A x \in a..(m - 1) : Works(x)
      BY <1>1, <2>1, <2>4
    <3>2. Worked[m] - Worked[a] = m - a
      BY <1>4, <3>1
    <3> QED
      BY <1>1, <1>2, <2>1, <2>2, <3>1, <3>2
  <2> QED
    BY <2>1, <2>3, <2>4
<1> HIDE DEF S
<1>5. \A m \in a..b : m \in S
  BY <1>1, <1>3, <1>4, FromUpTo
<1>6. b \in S
  BY <1>1, <1>5
<1> QED
  BY <1>1, <1>2, <1>6 DEF S, Elapsed
-----------------------------------------------------------------------------
(* Recursive functions.                                                    *)

\* f starts at x and takes one step F[k] after the other.
Runs(f, F, a, n, x) == f[a] = x /\ \A k \in a..(n - 1) : f[k + 1] = F[k][f[k]]

\* A step from T[k] leads to T[k + 1].
ClosedUnder(F, a, n, T) == \A k \in a..(n - 1) : \A y \in T[k] : F[k][y] \in T[k + 1]

LEMMA RunsWithin ==
  ASSUME NEW a \in Nat, NEW n \in Nat, a <= n, NEW T, NEW x \in T[a], NEW F, ClosedUnder(F, a, n, T),
         NEW h, Runs(h, F, a, n, x)
  PROVE  \A k \in a..n : h[k] \in T[k]
<1> DEFINE S == {k \in a..n : h[k] \in T[k]}
<1>1. a \in S
  BY DEF Runs
<1>2. ASSUME NEW m \in a..(n - 1), m \in S PROVE m + 1 \in S
  <2>1. h[m + 1] = F[m][h[m]] /\ h[m] \in T[m] /\ m + 1 \in a..n
    BY <1>2 DEF Runs
  <2> QED
    BY <2>1 DEF ClosedUnder
<1> HIDE DEF S
<1>3. \A m \in a..n : m \in S
  BY <1>1, <1>2, FromUpTo
<1> QED
  BY <1>3 DEF S

\* A recursion of this form has a solution.
LEMMA Recursion ==
  ASSUME NEW a \in Nat, NEW n \in Nat, a <= n, NEW x, NEW F
  PROVE  \E f : f = [k \in a..n |-> f[k]] /\ Runs(f, F, a, n, x)
<1> DEFINE S == {m \in a..n : \E f : f = [k \in a..m |-> f[k]] /\ Runs(f, F, a, m, x)}
<1>1. a \in S
  <2> DEFINE f == [k \in a..a |-> x]
  <2>1. f = [k \in a..a |-> f[k]] /\ f[a] = x /\ a..(a - 1) = {}
    OBVIOUS
  <2> HIDE DEF f
  <2> QED
    BY <2>1 DEF Runs
<1>2. ASSUME NEW m \in a..(n - 1), m \in S PROVE m + 1 \in S
  <2>1. PICK f : f = [k \in a..m |-> f[k]] /\ Runs(f, F, a, m, x)
    BY <1>2
  <2> DEFINE y == F[m][f[m]]
             h == [k \in a..(m + 1) |-> IF k = m + 1 THEN y ELSE f[k]]
  <2>3. h = [k \in a..(m + 1) |-> h[k]]
    OBVIOUS
  <2> HIDE DEF y
  <2>4. h[a] = x
    BY <2>1 DEF Runs
  <2>5. ASSUME NEW k \in a..m PROVE h[k + 1] = F[k][h[k]]
    <3>1. h[k] = f[k]
      OBVIOUS
    <3>2. CASE k = m
      <4>1. h[k + 1] = y
        BY <3>2
      <4> QED
        BY <3>1, <3>2, <4>1 DEF y
    <3>3. CASE k # m
      <4>1. k \in a..(m - 1) /\ h[k + 1] = f[k + 1]
        BY <3>3
      <4>2. f[k + 1] = F[k][f[k]]
        BY <2>1, <4>1 DEF Runs
      <4> QED
        BY <3>1, <4>1, <4>2
    <3> QED
      BY <3>2, <3>3
  <2> HIDE DEF h
  <2>6. Runs(h, F, a, m + 1, x)
    <3>1. a..((m + 1) - 1) = a..m
      OBVIOUS
    <3> QED
      BY <2>4, <2>5, <3>1 DEF Runs
  <2>7. m + 1 \in a..n
    OBVIOUS
  <2> QED
    BY <2>3, <2>6, <2>7
<1> HIDE DEF S
<1>3. \A m \in a..n : m \in S
  BY <1>1, <1>2, FromUpTo
<1>4. n \in S
  BY <1>3
<1> QED
  BY <1>4 DEF S
-----------------------------------------------------------------------------
(* Segments, shares and ceilings.                                          *)

\* A segment is working time of one date up to an edge or the end of the slice.
LEMMA SegmentSpan ==
  ASSUME NEW from \in Nat, NEW end \in from..Horizon, NEW away, NEW t \in from..(end - 1),
         StartsSegment(t, from, away),
         NEW g, g = Segment(t, end, away)
  PROVE  /\ g.from = t /\ g.to \in (t + 1)..end /\ WorkSpan(g)
         /\ g.to = end \/ Edge(g.to, away)
         /\ \A x \in (t + 1)..(g.to - 1) : ~Edge(x, away)
<1> DEFINE Ends == {u \in (t + 1)..end : u = end \/ Edge(u, away)}
           P(u) == /\ u = end \/ Edge(u, away)
                   /\ \A x \in (t + 1)..(u - 1) : ~Edge(x, away)
<1>1. Horizon \in Nat /\ t \in Nat /\ end \in Nat /\ end <= Horizon /\ t < end
  BY LaborAssumption
<1>2. \E u \in (t + 1)..end : P(u)
  <2>1. end \in Ends /\ Ends \in SUBSET Nat
    BY <1>1
  <2>2. PICK u \in Ends : \A k \in Ends : u <= k
    BY <2>1, LeastNumber
  <2>3. ASSUME NEW x \in (t + 1)..(u - 1), Edge(x, away) PROVE FALSE
    <3>1. x \in Ends /\ ~(u <= x)
      BY <1>1, <2>2, <2>3
    <3> QED
      BY <2>2, <3>1
  <2> QED
    BY <2>2, <2>3
<1>3. g = [from |-> t, to |-> CHOOSE u \in (t + 1)..end : P(u)]
  BY DEF Segment
<1>4. g.from = t /\ g.to \in (t + 1)..end /\ P(g.to)
  <2> HIDE DEF P
  <2> QED
    BY <1>2, <1>3
<1>5. ASSUME NEW x \in (t + 1)..(g.to - 1) PROVE Works(x) /\ DateOf(x) = DateOf(x - 1)
  <2>1. ~Edge(x, away)
    BY <1>4
  <2>2. Works(x) /\ ~WorkdayStart(x)
    BY <2>1 DEF Edge
  <2> QED
    BY <2>2 DEF WorkdayStart
<1>6. Works(t)
  BY DEF StartsSegment
<1>7. \A x \in t..(g.to - 1) : DateOf(x) = DateOf(t)
  <2> PICK n : n = g.to - 1
    OBVIOUS
  <2> DEFINE S == {x \in t..n : DateOf(x) = DateOf(t)}
  <2>1. t \in S /\ n \in Nat /\ t \in Nat
    BY <1>1, <1>4
  <2>2. ASSUME NEW x \in t..(n - 1), x \in S PROVE x + 1 \in S
    <3>1. x + 1 \in (t + 1)..(g.to - 1) /\ (x + 1) - 1 = x /\ x + 1 \in t..n
      BY <1>1, <1>4
    <3>2. DateOf(x + 1) = DateOf((x + 1) - 1)
      BY <1>5, <3>1
    <3> QED
      BY <2>2, <3>1, <3>2
  <2> HIDE DEF S
  <2>3. \A x \in t..n : x \in S
    BY <2>1, <2>2, FromUpTo, SMTT(20)
  <2> QED
    BY <2>3 DEF S
<1>8. WorkSpan(g)
  <2>1. \A x \in t..(g.to - 1) : Works(x)
    BY <1>1, <1>4, <1>5, <1>6
  <2> QED
    BY <1>1, <1>4, <1>7, <2>1 DEF WorkSpan
<1> QED
  BY <1>4, <1>8

\* What a member is available for fits the segment, and the ceiling fits the day.
LEMMA Shares ==
  ASSUME NEW away, Shared(away), NEW g, WorkSpan(g), NEW m \in Members
  PROVE  /\ Fraction(g, m, away) \in 0..Whole
         /\ Available(g, m, away) \in Nat /\ Available(g, m, away) <= g.to - g.from
         /\ Available(g, m, away) > 0 => Fraction(g, m, away) > 0
         /\ Ceiling(g, m, away) \in Nat /\ Ceiling(g, m, away) <= DailyCapacity[m]
<1> DEFINE parts == {Whole} \cup {i.part : i \in Active(g, m, away)}
           caps == {DailyCapacity[m]} \cup {i.cap : i \in Active(g, m, away)}
<1>1. Active(g, m, away) \subseteq away /\ DailyCapacity[m] \in Nat
  BY LaborAssumption DEF Active
<1>2. parts \in SUBSET (0..Whole) /\ parts \in SUBSET Nat /\ parts # {}
  BY <1>1, WholeNat DEF Shared
<1>3. caps \in SUBSET Nat /\ DailyCapacity[m] \in caps
  BY <1>1 DEF Shared
<1> PICK part, cap, long : part = Min(parts) /\ cap = Min(caps) /\ long = g.to - g.from
  OBVIOUS
<1>4. /\ Fraction(g, m, away) = part /\ Available(g, m, away) = Rounded(long * part)
      /\ Ceiling(g, m, away) = Rounded(cap * part)
  BY DEF Fraction, Available, Ceiling
<1> HIDE DEF parts, caps
<1>5. part \in 0..Whole
  BY <1>2, LeastIsMin
<1>6. cap \in Nat /\ cap <= DailyCapacity[m]
  BY <1>3, LeastIsMin
<1>7. long \in Nat
  BY DEF WorkSpan
<1>8. Rounded(long * part) \in Nat /\ Rounded(long * part) <= long
  BY <1>5, <1>7, ShareBounded
<1>9. Rounded(cap * part) \in Nat /\ Rounded(cap * part) <= cap
  BY <1>5, <1>6, ShareBounded
<1>10. part = 0 => Rounded(long * part) = 0
  BY <1>7, WholeNat DEF Rounded
<1> QED
  BY <1>1, <1>4, <1>5, <1>6, <1>8, <1>9, <1>10
-----------------------------------------------------------------------------
(* Sums.                                                                   *)

Picked(s) == CHOOSE x \in s : TRUE

\* A set of subsets that holds {} and with each s without its picked member
\* also s holds them all.
LEMMA ForSubsets ==
  ASSUME NEW D, IsFiniteSet(D), NEW P, {} \in P,
         \A s \in SUBSET D : s # {} /\ s \ {Picked(s)} \in P => s \in P
  PROVE  \A s \in SUBSET D : s \in P
<1> DEFINE S == {k \in Nat : \A s \in SUBSET D : Cardinality(s) = k => s \in P}
<1>1. \A s \in SUBSET D : IsFiniteSet(s) /\ Cardinality(s) \in Nat
  BY FS_Subset, FS_CardinalityType
<1>2. 0 \in S
  <2>1. ASSUME NEW s \in SUBSET D, Cardinality(s) = 0 PROVE s \in P
    <3>1. IsFiniteSet(s)
      BY <1>1
    <3>2. s = {}
      BY <2>1, <3>1, FS_EmptySet
    <3> QED
      BY <3>2
  <2> QED
    BY <2>1
<1>3. ASSUME NEW n \in Nat, NEW k \in 0..(n - 1), k \in S PROVE k + 1 \in S
  <2>1. ASSUME NEW s \in SUBSET D, Cardinality(s) = k + 1 PROVE s \in P
    <3>1. s # {} /\ IsFiniteSet(s)
      BY <1>1, <2>1, FS_EmptySet
    <3>2. Picked(s) \in s
      BY <3>1 DEF Picked
    <3>3. Cardinality(s \ {Picked(s)}) = k
      BY <1>1, <2>1, <3>1, <3>2, FS_RemoveElement
    <3>4. s \ {Picked(s)} \in P
      BY <1>3, <3>3
    <3> QED
      BY <3>1, <3>4
  <2> QED
    BY <2>1
<1> HIDE DEF S
<1>4. ASSUME NEW s \in SUBSET D PROVE s \in P
  <2> PICK n : n = Cardinality(s)
    OBVIOUS
  <2>1. n \in Nat /\ 0 \in Nat
    BY <1>1
  <2>2. \A k \in 0..n : k \in S
    BY <1>2, <1>3, <2>1, FromUpTo
  <2>3. n \in S
    BY <2>1, <2>2
  <2> QED
    BY <2>3 DEF S
<1> QED
  BY <1>4

\* The values of f on D are numbers.
Summed(f, D) == \A x \in D : f[x] \in Int

SumStep(f, h, s) == IF s = {} THEN 0 ELSE f[Picked(s)] + h[s \ {Picked(s)}]

\* The recursive definition of a sum has a solution.
LEMMA SumExists ==
  ASSUME NEW D, IsFiniteSet(D), NEW f, Summed(f, D)
  PROVE  \E h \in [SUBSET D -> Int] : \A s \in SUBSET D : h[s] = SumStep(f, h, s)
<1> DEFINE Upto(k) == {s \in SUBSET D : Cardinality(s) <= k}
           S == {k \in Nat : \E h \in [Upto(k) -> Int] : \A s \in Upto(k) : h[s] = SumStep(f, h, s)}
<1>1. \A s \in SUBSET D : IsFiniteSet(s) /\ Cardinality(s) \in Nat
  BY FS_Subset, FS_CardinalityType
<1>2. ASSUME NEW s \in SUBSET D, s # {}
      PROVE  /\ Picked(s) \in s /\ s \ {Picked(s)} \in SUBSET D /\ Cardinality(s) > 0
             /\ Cardinality(s \ {Picked(s)}) = Cardinality(s) - 1
  <2>1. Picked(s) \in s
    BY <1>2 DEF Picked
  <2> QED
    BY <1>1, <1>2, <2>1, FS_RemoveElement, FS_EmptySet
<1>3. 0 \in S
  <2> DEFINE h == [s \in Upto(0) |-> 0]
  <2>1. \A s \in Upto(0) : s = {}
    BY <1>1, FS_EmptySet
  <2>2. \A s \in Upto(0) : h[s] = SumStep(f, h, s)
    BY <2>1 DEF SumStep
  <2>3. h \in [Upto(0) -> Int]
    OBVIOUS
  <2> HIDE DEF h
  <2> QED
    BY <2>2, <2>3
<1>4. ASSUME NEW n \in Nat, NEW k \in 0..(n - 1), k \in S PROVE k + 1 \in S
  <2>1. PICK h \in [Upto(k) -> Int] : \A s \in Upto(k) : h[s] = SumStep(f, h, s)
    BY <1>4
  <2> DEFINE j == [s \in Upto(k + 1) |-> SumStep(f, h, s)]
  <2>2. ASSUME NEW s \in Upto(k + 1), s # {} PROVE s \ {Picked(s)} \in Upto(k)
    BY <1>1, <1>2, <2>2
  <2>3. j \in [Upto(k + 1) -> Int]
    <3>1. ASSUME NEW s \in Upto(k + 1), s # {} PROVE SumStep(f, h, s) \in Int
      <4>1. h[s \ {Picked(s)}] \in Int
        BY <2>2, <3>1
      <4>2. f[Picked(s)] \in Int
        BY <1>2, <3>1 DEF Summed
      <4> QED
        BY <3>1, <4>1, <4>2 DEF SumStep
    <3>2. SumStep(f, h, {}) \in Int
      BY DEF SumStep
    <3> QED
      BY <3>1, <3>2
  <2>4. ASSUME NEW s \in Upto(k + 1) PROVE j[s] = SumStep(f, j, s)
    <3>1. CASE s = {}
      BY <3>1 DEF SumStep
    <3>2. CASE s # {}
      <4> PICK r : r = s \ {Picked(s)}
        OBVIOUS
      <4>1. r \in Upto(k)
        BY <2>2, <3>2
      <4>2. r \in Upto(k + 1)
        BY <1>1, <4>1
      <4>3. j[r] = SumStep(f, h, r) /\ h[r] = SumStep(f, h, r)
        BY <2>1, <4>1, <4>2
      <4>4. j[s] = f[Picked(s)] + h[r]
        BY <3>2 DEF SumStep
      <4> HIDE DEF j
      <4> QED
        BY <3>2, <4>3, <4>4 DEF SumStep
    <3> QED
      BY <3>1, <3>2
  <2>5. k + 1 \in Nat
    OBVIOUS
  <2> HIDE DEF j, Upto
  <2> QED
    BY <2>3, <2>4, <2>5
<1> PICK n : n = Cardinality(D)
  OBVIOUS
<1>5. n \in Nat /\ 0 \in Nat /\ Upto(n) = SUBSET D
  BY <1>1, FS_Subset, FS_CardinalityType
<1> HIDE DEF S
<1>6. \A k \in 0..n : k \in S
  BY <1>3, <1>4, <1>5, FromUpTo
<1>7. n \in S
  BY <1>5, <1>6
<1>8. PICK h \in [Upto(n) -> Int] : \A s \in Upto(n) : h[s] = SumStep(f, h, s)
  BY <1>7 DEF S
<1> QED
  BY <1>5, <1>8

\* h has the sum of f over each subset of D.
Sums(h, f, D) ==
  /\ h \in [SUBSET D -> Int] /\ h[{}] = 0 /\ SumFunctionOnSet(f, D) = h[D]
  /\ \A s \in SUBSET D : s # {} => h[s] = f[Picked(s)] + h[s \ {Picked(s)}]

LEMMA SumIsStep ==
  ASSUME NEW D, IsFiniteSet(D), NEW f, Summed(f, D)
  PROVE  \E h : Sums(h, f, D)
<1> DEFINE Is(h) == h = [s \in SUBSET D |->
                           IF s = {} THEN 0 ELSE f[CHOOSE x \in s : TRUE] + h[s \ {CHOOSE x \in s : TRUE}]]
<1>1. PICK g \in [SUBSET D -> Int] : \A s \in SUBSET D : g[s] = SumStep(f, g, s)
  BY SumExists
<1>2. Is(g)
  BY <1>1 DEF SumStep, Picked
<1>3. SumFunctionOnSet(f, D) = (CHOOSE h : Is(h))[D]
  BY DEF SumFunctionOnSet, FoldFunctionOnSet, MapThenFoldSet
<1> PICK h : h = CHOOSE j : Is(j)
  OBVIOUS
<1>4. Is(h)
  <2> HIDE DEF Is
  <2> QED
    BY <1>2
<1>5. h[{}] = 0 /\ \A s \in SUBSET D : s # {} => h[s] = f[Picked(s)] + h[s \ {Picked(s)}]
  BY <1>4 DEF Picked
<1>6. h \in [SUBSET D -> Int]
  <2> DEFINE P == {s \in SUBSET D : h[s] \in Int}
  <2>1. {} \in P
    BY <1>5
  <2>2. ASSUME NEW s \in SUBSET D, s # {}, s \ {Picked(s)} \in P PROVE s \in P
    <3>1. Picked(s) \in D
      BY <2>2 DEF Picked
    <3>2. f[Picked(s)] \in Int
      BY <3>1 DEF Summed
    <3>3. h[s \ {Picked(s)}] \in Int
      BY <2>2
    <3>4. h[s] = f[Picked(s)] + h[s \ {Picked(s)}]
      BY <1>5, <2>2
    <3>5. h[s] \in Int
      BY <3>2, <3>3, <3>4
    <3> QED
      BY <3>5
  <2> HIDE DEF P
  <2>3. \A s \in SUBSET D : s \in P
    BY <2>1, <2>2, ForSubsets
  <2>4. \A s \in SUBSET D : h[s] \in Int
    BY <2>3 DEF P
  <2>5. h = [s \in SUBSET D |-> h[s]]
    BY <1>4
  <2> QED
    BY <2>4, <2>5
<1> QED
  BY <1>3, <1>5, <1>6 DEF Sums

\* Sums add up.
AddUp(f, g, e, D) == \A x \in D : g[x] \in Int /\ e[x] \in Int /\ f[x] = g[x] + e[x]

\* The sum of two functions sums to their sums.
LEMMA SumPlus ==
  ASSUME NEW D, IsFiniteSet(D), NEW f, NEW g, NEW e, AddUp(f, g, e, D)
  PROVE  /\ SumFunctionOnSet(g, D) \in Int /\ SumFunctionOnSet(e, D) \in Int
         /\ SumFunctionOnSet(f, D) = SumFunctionOnSet(g, D) + SumFunctionOnSet(e, D)
<1>0. Summed(f, D) /\ Summed(g, D) /\ Summed(e, D)
  BY DEF Summed, AddUp
<1>1. PICK hf : Sums(hf, f, D)
  BY <1>0, SumIsStep
<1>2. PICK hg : Sums(hg, g, D)
  BY <1>0, SumIsStep
<1>3. PICK he : Sums(he, e, D)
  BY <1>0, SumIsStep
<1> DEFINE P == {s \in SUBSET D : hf[s] = hg[s] + he[s]}
<1>4. {} \in P
  BY <1>1, <1>2, <1>3 DEF Sums
<1>5. ASSUME NEW s \in SUBSET D, s # {}, s \ {Picked(s)} \in P PROVE s \in P
  <2>1. Picked(s) \in D
    BY <1>5 DEF Picked
  <2> PICK x, r : x = Picked(s) /\ r = s \ {Picked(s)}
    OBVIOUS
  <2>2. hf[s] = f[x] + hf[r] /\ hg[s] = g[x] + hg[r] /\ he[s] = e[x] + he[r]
    BY <1>1, <1>2, <1>3, <1>5 DEF Sums
  <2>3. r \in SUBSET D /\ hf[r] = hg[r] + he[r]
    BY <1>5
  <2>4. hg[r] \in Int /\ he[r] \in Int /\ g[x] \in Int /\ e[x] \in Int /\ f[x] = g[x] + e[x]
    BY <1>2, <1>3, <2>1, <2>3 DEF Sums, Summed, AddUp
  <2> QED
    BY <2>2, <2>3, <2>4
<1> HIDE DEF P
<1>6. D \in P
  BY <1>4, <1>5, ForSubsets
<1>7. D \in SUBSET D
  OBVIOUS
<1> QED
  BY <1>1, <1>2, <1>3, <1>6, <1>7 DEF P, Sums

\* The sum of a function that is zero but for one argument.
LEMMA SumOfOne ==
  ASSUME NEW D, IsFiniteSet(D), NEW p \in D, NEW e, e[p] \in Int, \A x \in D : x # p => e[x] = 0
  PROVE  SumFunctionOnSet(e, D) = e[p]
<1>0. Summed(e, D)
  BY DEF Summed
<1>1. PICK h : Sums(h, e, D)
  BY <1>0, SumIsStep
<1> DEFINE P == {s \in SUBSET D : h[s] = IF p \in s THEN e[p] ELSE 0}
<1>2. {} \in P
  BY <1>1 DEF Sums
<1>3. ASSUME NEW s \in SUBSET D, s # {}, s \ {Picked(s)} \in P PROVE s \in P
  <2>1. Picked(s) \in s
    BY <1>3 DEF Picked
  <2> PICK x, r : x = Picked(s) /\ r = s \ {Picked(s)}
    OBVIOUS
  <2>2. h[s] = e[x] + h[r] /\ x \in s /\ x \in D
    BY <1>1, <1>3, <2>1 DEF Sums
  <2>3. r \in SUBSET D /\ h[r] = IF p \in r THEN e[p] ELSE 0
    BY <1>3
  <2>4. CASE x = p
    BY <2>2, <2>3, <2>4
  <2>5. CASE x # p
    <3>1. p \in s <=> p \in r
      BY <2>5
    <3> QED
      BY <2>2, <2>3, <2>5, <3>1
  <2> QED
    BY <2>4, <2>5
<1> HIDE DEF P
<1>4. D \in P
  BY <1>2, <1>3, ForSubsets
<1> QED
  BY <1>1, <1>4 DEF P, Sums

\* One value of g grows by c.
Grown(f, g, D, p, c) == \A x \in D : g[x] \in Int /\ f[x] = g[x] + (IF x = p THEN c ELSE 0)

\* A function that grows by c at one place has a sum greater by c.
LEMMA SumGrows ==
  ASSUME NEW D, IsFiniteSet(D), NEW f, NEW g, NEW p \in D, NEW c \in Int, Grown(f, g, D, p, c)
  PROVE  SumFunctionOnSet(g, D) \in Int /\ SumFunctionOnSet(f, D) = SumFunctionOnSet(g, D) + c
<1> PICK e : e = [x \in D |-> IF x = p THEN c ELSE 0]
  OBVIOUS
<1>1. \A x \in D : g[x] \in Int /\ e[x] \in Int /\ f[x] = g[x] + e[x]
  BY DEF Grown
<1>2. e[p] = c /\ \A x \in D : x # p => e[x] = 0
  OBVIOUS
<1>3. SumFunctionOnSet(e, D) = c
  BY <1>2, SumOfOne
<1>4. AddUp(f, g, e, D)
  BY <1>1 DEF AddUp
<1> QED
  BY <1>3, <1>4, SumPlus

LEMMA SumNat ==
  ASSUME NEW D, IsFiniteSet(D), NEW f, \A x \in D : f[x] \in Nat
  PROVE  SumFunctionOnSet(f, D) \in Nat
<1>0. Summed(f, D)
  BY DEF Summed
<1>1. PICK h : Sums(h, f, D)
  BY <1>0, SumIsStep
<1> DEFINE P == {s \in SUBSET D : h[s] \in Nat}
<1>2. {} \in P
  BY <1>1 DEF Sums
<1>3. ASSUME NEW s \in SUBSET D, s # {}, s \ {Picked(s)} \in P PROVE s \in P
  <2>1. Picked(s) \in D
    BY <1>3 DEF Picked
  <2>2. h[s] = f[Picked(s)] + h[s \ {Picked(s)}]
    BY <1>1, <1>3 DEF Sums
  <2> QED
    BY <1>3, <2>1, <2>2
<1> HIDE DEF P
<1>4. D \in P
  BY <1>2, <1>3, ForSubsets
<1> QED
  BY <1>1, <1>4 DEF P, Sums
-----------------------------------------------------------------------------
(* Owners.                                                                 *)

\* Among some members there is a first one of the highest proficiency.
LEMMA BestMember ==
  ASSUME NEW C \in SUBSET Members, C # {}, NEW s \in 1..LastStep,
         NEW best, best = Min({m \in C : \A n \in C : Proficiency[n][s] <= Proficiency[m][s]})
  PROVE  best \in C
<1> PICK N : N = Cardinality(Members)
  OBVIOUS
<1> DEFINE level(m) == Proficiency[m][s]
           bounded == {k \in 0..N : \E b \in Nat : \A m \in 1..k : level(m) <= b}
           Above == {b \in Nat : \A m \in C : level(m) <= b}
           Top == {m \in C : \A n \in C : level(n) <= level(m)}
<1>1. N \in Nat /\ Members = 1..N
  BY LaborAssumption, FS_CardinalityType
<1>2. \A m \in Members : level(m) \in Nat
  BY LaborAssumption
<1>3. 0 \in bounded
  <2>1. 0 \in 0..N /\ 0 \in Nat /\ \A m \in 1..0 : level(m) <= 0
    BY <1>1
  <2> HIDE DEF level
  <2> QED
    BY <2>1
<1>4. ASSUME NEW k \in 0..(N - 1), k \in bounded PROVE k + 1 \in bounded
  <2>1. PICK b \in Nat : \A m \in 1..k : level(m) <= b
    BY <1>4
  <2>2. k + 1 \in Members
    <3>1. k + 1 \in 1..N
      BY <1>1
    <3> QED
      BY <1>1, <3>1
  <2>3. level(k + 1) \in Nat
    BY <1>2, <2>2
  <2> HIDE DEF level
  <2> DEFINE a == IF level(k + 1) <= b THEN b ELSE level(k + 1)
  <2>4. a \in Nat /\ b <= a /\ level(k + 1) <= a
    BY <2>3
  <2> HIDE DEF a
  <2>5. ASSUME NEW m \in 1..(k + 1) PROVE level(m) <= a
    <3>1. CASE m = k + 1
      BY <2>4, <3>1
    <3>2. CASE m # k + 1
      <4>0. k \in Nat /\ k < N
        BY <1>1
      <4>1. m \in 1..k /\ m \in 1..N
        BY <1>1, <4>0, <3>2
      <4>2. level(m) <= b /\ level(m) \in Nat
        BY <1>1, <1>2, <2>1, <4>1
      <4> QED
        BY <2>4, <4>2
    <3> QED
      BY <3>1, <3>2
  <2>6. k + 1 \in 0..N
    BY <1>1
  <2> QED
    BY <2>4, <2>5, <2>6
<1> HIDE DEF bounded
<1>5. N \in bounded
  <2>1. \A k \in 0..N : k \in bounded
    BY <1>1, <1>3, <1>4, FromUpTo
  <2> QED
    BY <1>1, <2>1
<1>6. Above # {} /\ Above \in SUBSET Nat
  BY <1>1, <1>5 DEF bounded
<1> HIDE DEF Above
<1>7. PICK b \in Above : \A a \in Above : b <= a
  BY <1>6, LeastNumber
<1>8. b \in Nat /\ \A m \in C : level(m) <= b
  BY <1>7 DEF Above
<1>9. \E m \in C : level(m) = b
  <2> SUFFICES ASSUME \A m \in C : level(m) # b PROVE FALSE
    OBVIOUS
  <2> HIDE DEF level
  <2>1. \A m \in C : level(m) \in Nat /\ level(m) <= b - 1
    BY <1>2, <1>8
  <2>2. b - 1 \in Nat
    BY <1>8, <2>1
  <2>3. b - 1 \in Above
    BY <2>1, <2>2 DEF Above
  <2>4. b <= b - 1
    BY <1>7, <2>3
  <2> QED
    BY <1>8, <2>4
<1>10. Top # {}
  BY <1>8, <1>9
<1>11. best = Min(Top) /\ Top \subseteq C
  OBVIOUS
<1>12. Top \in SUBSET Nat
  <2>1. \A m \in 1..N : m \in Nat
    BY <1>1
  <2>2. \A m \in Top : m \in 1..N
    BY <1>1, <1>11
  <2> QED
    BY <2>1, <2>2
<1> HIDE DEF Top
<1> QED
  BY <1>10, <1>11, <1>12, LeastIsMin

\* What the work of a slice leaves alone in a visit.
Fixed(v, u) ==
  /\ v.step = u.step /\ v.entered = u.entered /\ v.touch = u.touch /\ v.dwell = u.dwell
  /\ v.pause = u.pause /\ v.stays = u.stays /\ v.open = u.open

SameWork(v, u) == v.left = u.left /\ v.credited = u.credited /\ v.queue = u.queue

\* Visits o that differ from the visits vs by the owners of ranked visits.
Reowned(o, vs, ranked) ==
  /\ o \in Visits
  /\ \A i \in Items : Fixed(o[i], vs[i]) /\ SameWork(o[i], vs[i])
  /\ \A i \in Items : i \notin ranked => o[i] = vs[i]

LEMMA VisitFields ==
  ASSUME NEW vs \in Visits, NEW i \in Items
  PROVE  /\ vs[i] \in VisitState /\ vs[i].step \in 1..LastStep /\ vs[i].entered \in Nat /\ vs[i].touch \in Nat
         /\ vs[i].dwell \in Nat /\ vs[i].left \in Nat /\ vs[i].credited \in Nat
         /\ vs[i].queue \in Nat /\ vs[i].pause \in Nat /\ vs[i].owner \in Members \cup {0}
         /\ vs[i].stays \in Nat /\ vs[i].open \in BOOLEAN
BY DEF Visits, VisitState

\* _assign_owner
LEMMA OwnerAssigned ==
  ASSUME NEW vs, NEW ranked \in SUBSET Items, NEW o, Reowned(o, vs, ranked),
         NEW i \in Items, NEW room \in SUBSET Members
  PROVE  Reowned(AssignOwner(o, i, room, ranked), vs, ranked)
<1> DEFINE s == o[i].step
           candidates == {m \in room : /\ Proficiency[m][s] > 0
                                       /\ Cardinality({j \in ranked : o[j].owner = m}) < Wip[m]}
           best == Min({m \in candidates : \A n \in candidates : Proficiency[n][s] <= Proficiency[m][s]})
           p == [o EXCEPT ![i].owner = best]
<1>1. AssignOwner(o, i, room, ranked) = IF i \notin ranked \/ o[i].owner # 0 \/ candidates = {} THEN o ELSE p
  BY DEF AssignOwner
<1>2. CASE i \notin ranked \/ o[i].owner # 0 \/ candidates = {}
  BY <1>1, <1>2
<1>3. CASE ~(i \notin ranked \/ o[i].owner # 0 \/ candidates = {})
  <2>1. o \in Visits /\ o[i] \in VisitState /\ s \in 1..LastStep
    BY VisitFields DEF Reowned
  <2>2. candidates \in SUBSET Members
    OBVIOUS
  <2> HIDE DEF candidates
  <2>3. best \in Members
    <3> PICK st : st = s
      OBVIOUS
    <3> QED
      BY <1>3, <2>1, <2>2, BestMember
  <2> HIDE DEF best, s
  <2>4. p \in Visits /\ \A j \in Items : j # i => p[j] = o[j]
    BY <2>1, <2>3 DEF Visits, VisitState
  <2>5. p[i] = [o[i] EXCEPT !.owner = best]
    BY <2>1 DEF Visits
  <2>6. Fixed(p[i], o[i]) /\ SameWork(p[i], o[i])
    BY <2>1, <2>5 DEF Fixed, SameWork, VisitState
  <2> HIDE DEF p
  <2>7. \A j \in Items : Fixed(p[j], vs[j]) /\ SameWork(p[j], vs[j])
    BY <2>4, <2>6 DEF Reowned, Fixed, SameWork
  <2>8. \A j \in Items : j \notin ranked => p[j] = vs[j]
    BY <1>3, <2>4 DEF Reowned
  <2> QED
    BY <1>1, <1>3, <2>4, <2>7, <2>8 DEF Reowned
<1> QED
  BY <1>2, <1>3

\* _can_retain
LEMMA OwnersRetained ==
  ASSUME NEW vs \in Visits, NEW g, NEW away, NEW ranked \in SUBSET Items
  PROVE  Reowned(Retained(vs, g, away, ranked), vs, ranked)
<1> PICK S : Retained(vs, g, away, ranked) = Updated(vs, ranked \ S, LAMBDA v, i : [v EXCEPT !.owner = 0])
  BY DEF Retained
<1> PICK o : o = [i \in Items |-> IF i \in ranked \ S THEN [vs[i] EXCEPT !.owner = 0] ELSE vs[i]]
  OBVIOUS
<1>1. Retained(vs, g, away, ranked) = o
  BY DEF Updated
<1>2. ASSUME NEW i \in Items
      PROVE  /\ o[i] \in VisitState /\ Fixed(o[i], vs[i]) /\ SameWork(o[i], vs[i])
             /\ i \notin ranked => o[i] = vs[i]
  <2>1. vs[i] \in VisitState
    BY DEF Visits
  <2>2. CASE i \in ranked \ S
    <3>1. o[i] = [vs[i] EXCEPT !.owner = 0]
      BY <2>2
    <3> QED
      BY <2>1, <2>2, <3>1 DEF VisitState, Fixed, SameWork
  <2>3. CASE i \notin ranked \ S
    <3>1. o[i] = vs[i]
      BY <2>3
    <3> QED
      BY <2>1, <3>1 DEF Fixed, SameWork
  <2> QED
    BY <2>2, <2>3
<1>3. o \in Visits
  BY <1>2 DEF Visits
<1> QED
  BY <1>1, <1>2, <1>3 DEF Reowned

LEMMA ItemRanks ==
  /\ Cardinality(Items) \in Nat /\ IsFiniteSet(Items) /\ 0 \in Nat
  /\ \A k \in 0..(Cardinality(Items) - 1) : k + 1 \in Items
  /\ \A i \in Items : i \in Nat /\ i - 1 \in 0..(Cardinality(Items) - 1) /\ i \in 1..Cardinality(Items)
<1> PICK n : n = Cardinality(Items)
  OBVIOUS
<1>1. IsFiniteSet(Items) /\ Items = 1..n
  BY LaborAssumption
<1>2. n \in Nat
  BY <1>1, FS_CardinalityType
<1>3. \A k \in 0..(n - 1) : k + 1 \in 1..n
  BY <1>2
<1>4. \A i \in 1..n : i \in Nat /\ i - 1 \in 0..(n - 1)
  BY <1>2
<1> QED
  BY <1>1, <1>2, <1>3, <1>4

\* _assign_owners
LEMMA OwnersAssigned ==
  ASSUME NEW vs \in Visits, NEW us, NEW g, NEW away, NEW ranked \in SUBSET Items
  PROVE  Reowned(AssignOwners(vs, us, g, away, ranked), vs, ranked)
<1> PICK room, n, x : /\ room = {m \in Members : /\ Fraction(g, m, away) > 0
                                                 /\ RemainingCapacity(g, m, away, us) > 0}
                      /\ n = Cardinality(Items) /\ x = Retained(vs, g, away, ranked)
  OBVIOUS
<1> DEFINE Is(h) == h = [k \in 0..n |-> IF k = 0 THEN x ELSE AssignOwner(h[k - 1], k, room, ranked)]
           T == [k \in 0..n |-> {o \in Visits : Reowned(o, vs, ranked)}]
           F == [k \in 0..(n - 1) |-> [o \in Visits |-> AssignOwner(o, k + 1, room, ranked)]]
<1>1. AssignOwners(vs, us, g, away, ranked) = (CHOOSE h : Is(h))[n]
  BY DEF AssignOwners
<1>2. n \in Nat /\ 0 \in Nat /\ 0 <= n /\ 0 \in 0..n
  BY ItemRanks
<1>3. \A k \in 0..(n - 1), y \in Visits : F[k][y] = AssignOwner(y, k + 1, room, ranked)
  OBVIOUS
<1>4. x \in T[0]
  BY <1>2, OwnersRetained DEF Reowned
<1>5. ASSUME NEW k \in 0..(n - 1), NEW y \in T[k] PROVE F[k][y] \in T[k + 1]
  <2>1. Reowned(y, vs, ranked) /\ y \in Visits /\ room \in SUBSET Members /\ k + 1 \in Items
    BY <1>2, ItemRanks
  <2>2. Reowned(AssignOwner(y, k + 1, room, ranked), vs, ranked)
    BY <2>1, OwnerAssigned
  <2>3. k + 1 \in 0..n
    BY <1>2
  <2> QED
    BY <1>3, <2>1, <2>2, <2>3 DEF Reowned
<1>6. ClosedUnder(F, 0, n, T)
  <2> HIDE DEF F, T
  <2> QED
    BY <1>5 DEF ClosedUnder
<1>7. PICK f : f = [k \in 0..n |-> f[k]] /\ Runs(f, F, 0, n, x)
  <2> HIDE DEF F, T
  <2> QED
    BY <1>2, Recursion
<1>8. \A k \in 0..n : f[k] \in T[k]
  <2> HIDE DEF F, T
  <2> QED
    BY <1>2, <1>4, <1>6, <1>7, RunsWithin
<1> HIDE DEF F
<1>9. Is(f)
  <2>1. ASSUME NEW k \in 0..n, k # 0 PROVE f[k] = AssignOwner(f[k - 1], k, room, ranked)
    <3>1. k - 1 \in 0..(n - 1) /\ (k - 1) + 1 = k /\ k - 1 \in 0..n
      BY <1>2, <2>1
    <3>2. f[(k - 1) + 1] = F[k - 1][f[k - 1]] /\ f[k - 1] \in Visits
      BY <1>7, <1>8, <3>1 DEF Runs
    <3>3. F[k - 1][f[k - 1]] = AssignOwner(f[k - 1], (k - 1) + 1, room, ranked)
      BY <1>3, <3>1, <3>2
    <3> QED
      BY <3>1, <3>2, <3>3
  <2> QED
    BY <1>7, <2>1 DEF Runs
<1> PICK h : h = CHOOSE j : Is(j)
  OBVIOUS
<1>10. Is(h)
  <2> HIDE DEF Is
  <2> QED
    BY <1>9
<1> DEFINE S == {k \in 0..n : h[k] = f[k]}
<1>11. 0 \in S
  BY <1>2, <1>9, <1>10
<1>12. ASSUME NEW k \in 0..(n - 1), k \in S PROVE k + 1 \in S
  <2>1. k + 1 \in 0..n /\ k + 1 # 0 /\ (k + 1) - 1 = k
    BY <1>2
  <2>2. h[k + 1] = AssignOwner(h[k], k + 1, room, ranked) /\ f[k + 1] = AssignOwner(f[k], k + 1, room, ranked)
    BY <1>9, <1>10, <2>1
  <2> QED
    BY <1>12, <2>1, <2>2
<1> HIDE DEF S
<1>13. n \in S
  <2>1. \A k \in 0..n : k \in S
    BY <1>2, <1>11, <1>12, FromUpTo
  <2> QED
    BY <1>2, <2>1
<1> QED
  BY <1>1, <1>2, <1>8, <1>13 DEF S
-----------------------------------------------------------------------------
(* Labor of a segment.                                                     *)

LEMMA UsageFields ==
  ASSUME NEW us \in Usage, NEW m \in Members, NEW d \in Days
  PROVE  us[m] \in [Days -> Nat] /\ us[m][d] \in Nat
BY DEF Usage

LEMMA SpanDate ==
  ASSUME NEW g, WorkSpan(g)
  PROVE  /\ DateOf(g.from) \in Days /\ DateOf(g.from) * DayLength <= g.from
         /\ g.from \in 0..Horizon /\ g.to \in g.from..Horizon /\ g.to - g.from \in Nat
         /\ g.to <= (DateOf(g.from) + 1) * DayLength
         /\ DateOf(g.from) \in Nat
<1>1. g.from \in Nat /\ g.to \in g.from..Horizon /\ Horizon \in Nat /\ g.from <= Horizon
  BY LaborAssumption DEF WorkSpan
<1> PICK d, e : d = DateOf(g.from) /\ e = DateOf(Horizon)
  OBVIOUS
<1>2. d \in Nat /\ d * DayLength <= g.from /\ g.from < (d + 1) * DayLength /\ d <= e
  BY <1>1, DateBounds
<1>3. d \in Days
  BY <1>1, <1>2 DEF Days, DateOf
<1>4. g.to <= (d + 1) * DayLength
  <2>1. CASE g.to = g.from
    BY <1>1, <1>2, <2>1, WholeNat
  <2>2. CASE g.to # g.from
    <3> PICK t : t = g.to - 1
      OBVIOUS
    <3>1. t \in g.from..(g.to - 1) /\ t \in Nat
      BY <1>1, <2>2
    <3>2. DateOf(t) = d
      BY <3>1 DEF WorkSpan
    <3>3. t < (d + 1) * DayLength
      BY <3>1, <3>2, DateBounds
    <3>4. (d + 1) * DayLength \in Nat
      BY <1>2, WholeNat
    <3> QED
      BY <1>1, <3>1, <3>3, <3>4
  <2> QED
    BY <2>1, <2>2
<1> QED
  BY <1>1, <1>2, <1>3, <1>4

\* Usage us comes from start by labor in segment g, within what the members have.
SpentFrom(us, start, g, away) ==
  /\ us \in Usage
  /\ \A m \in Members, d \in Days :
       IF d # DateOf(g.from) THEN us[m][d] = start[m][d]
       ELSE /\ start[m][d] <= us[m][d] /\ us[m][d] - start[m][d] <= Available(g, m, away)
            /\ us[m][d] = start[m][d] \/ us[m][d] <= Ceiling(g, m, away)

LEMMA SpentNothing ==
  ASSUME NEW us \in Usage, NEW g, WorkSpan(g), NEW away, Shared(away)
  PROVE  SpentFrom(us, us, g, away)
<1> SUFFICES ASSUME NEW m \in Members, NEW d \in Days
             PROVE us[m][d] - us[m][d] <= Available(g, m, away) /\ us[m][d] <= us[m][d]
  BY DEF SpentFrom
<1>1. us[m][d] \in Nat /\ Available(g, m, away) \in Nat
  BY UsageFields, Shares
<1> QED
  BY <1>1

LEMMA BookedFields ==
  ASSUME NEW us \in Usage, NEW m \in Members, NEW d \in Days, NEW c \in Nat,
         NEW b, b = Booked(us, m, d, c)
  PROVE  /\ b \in Usage /\ b[m][d] = us[m][d] + c
         /\ \A e \in Days : e # d => b[m][e] = us[m][e]
         /\ \A n \in Members : n # m => b[n] = us[n]
         /\ \A n \in Members, e \in Days : n # m \/ e # d => b[n][e] = us[n][e]
BY DEF Booked, Usage

\* _segment_capacity
LEMMA CreditBounded ==
  ASSUME NEW w, w.vs \in Visits, NEW i \in Items, NEW m \in Members, w.vs[i].owner = m,
         NEW g, WorkSpan(g), NEW away, Shared(away), NEW start \in Usage,
         SpentFrom(w.us, start, g, away),
         NEW c, c = Credit(w, i, g, away, start)
  PROVE  /\ c \in Nat /\ c <= w.vs[i].left /\ c <= g.to - g.from
         /\ c > 0 => Fraction(g, m, away) > 0
         /\ SpentFrom(Booked(w.us, m, DateOf(g.from), c), start, g, away)
<1> PICK d, a, top, before, now, us, l :
      /\ d = DateOf(g.from) /\ a = Available(g, m, away) /\ top = Ceiling(g, m, away)
      /\ us = w.us /\ before = start[m][d] /\ now = us[m][d] /\ l = w.vs[i].left
  OBVIOUS
<1> DEFINE three == {l, Floor0(a - (now - before)), Floor0(top - now)}
<1>1. c = Min(three)
  BY DEF Credit
<1>2. d \in Days /\ a \in Nat /\ a <= g.to - g.from /\ (a > 0 => Fraction(g, m, away) > 0) /\ top \in Nat
  BY SpanDate, Shares
<1>3. us \in Usage /\ before \in Nat /\ now \in Nat /\ l \in Nat /\ before <= now /\ now - before <= a
  BY <1>2, UsageFields, VisitFields DEF SpentFrom
<1>4. Floor0(a - (now - before)) = a - (now - before) /\ Floor0(top - now) \in Nat
      /\ (Floor0(top - now) > 0 => Floor0(top - now) = top - now)
  BY <1>2, <1>3 DEF Floor0
<1>5. three \in SUBSET Nat /\ three # {}
  BY <1>2, <1>3, <1>4
<1>6. c \in three /\ \A x \in three : c <= x
  <2> HIDE DEF three
  <2> QED
    BY <1>1, <1>5, LeastIsMin
<1>7. c \in Nat /\ c <= l /\ now + c - before <= a /\ (c > 0 => now + c <= top)
  <2>1. c \in Nat /\ c <= l /\ c <= Floor0(a - (now - before)) /\ c <= Floor0(top - now)
    BY <1>5, <1>6
  <2>2. now + c - before <= a
    BY <1>2, <1>3, <1>4, <2>1
  <2>3. ASSUME c > 0 PROVE now + c <= top
    <3>1. Floor0(top - now) = top - now
      BY <1>4, <2>1, <2>3
    <3> QED
      BY <1>2, <1>3, <2>1, <3>1
  <2> QED
    BY <2>1, <2>2, <2>3
<1>8. c <= g.to - g.from /\ (c > 0 => Fraction(g, m, away) > 0)
  BY <1>2, <1>3, <1>7, SpanDate
<1> PICK b : b = Booked(us, m, d, c)
  OBVIOUS
<1>9. b \in Usage /\ b[m][d] = now + c
      /\ \A n \in Members, e \in Days : n # m \/ e # d => b[n][e] = us[n][e]
  <2>1. us \in Usage /\ d \in Days /\ c \in Nat
    BY <1>2, <1>3, <1>7
  <2>2. now = us[m][d]
    OBVIOUS
  <2>3. /\ b \in Usage /\ b[m][d] = us[m][d] + c
        /\ \A n \in Members, e \in Days : n # m \/ e # d => b[n][e] = us[n][e]
    BY <2>1, BookedFields, SMTT(20)
  <2> QED
    BY <2>2, <2>3
<1>10. ASSUME NEW n \in Members, NEW e \in Days
       PROVE IF e # d THEN b[n][e] = start[n][e]
             ELSE /\ start[n][e] <= b[n][e] /\ b[n][e] - start[n][e] <= Available(g, n, away)
                  /\ b[n][e] = start[n][e] \/ b[n][e] <= Ceiling(g, n, away)
  <2>1. CASE n = m /\ e = d
    <3>1. b[n][e] = now + c /\ start[n][e] = before
      BY <1>9, <2>1
    <3>2. now = before \/ now <= top
      BY <1>2, <2>1 DEF SpentFrom
    <3>3. now + c = before \/ now + c <= top
      BY <1>2, <1>3, <1>7, <3>2
    <3> QED
      BY <1>2, <1>3, <1>7, <2>1, <3>1, <3>3
  <2>2. CASE n # m \/ e # d
    <3>1. b[n][e] = us[n][e]
      BY <1>9, <2>2
    <3> QED
      BY <3>1 DEF SpentFrom
  <2> QED
    BY <2>1, <2>2
<1> QED
  BY <1>7, <1>8, <1>9, <1>10 DEF SpentFrom

\* The labor of all dates and members.
Total(us) == SumFunction([m \in Members |-> SumFunction(us[m])])

LEMMA DaysFinite == IsFiniteSet(Days) /\ IsFiniteSet(Members) /\ IsFiniteSet(Items)
<1>1. Horizon \div DayLength \in Int
  BY WholeNat, LaborAssumption
<1> QED
  BY <1>1, FS_Interval, LaborAssumption DEF Days

LEMMA BookedTotal ==
  ASSUME NEW us \in Usage, NEW m \in Members, NEW d \in Days, NEW c \in Nat
  PROVE  /\ Booked(us, m, d, c) \in Usage
         /\ Total(us) \in Int /\ Total(Booked(us, m, d, c)) = Total(us) + c
<1> PICK b : b = Booked(us, m, d, c)
  OBVIOUS
<1>1. b \in Usage /\ b[m][d] = us[m][d] + c
      /\ (\A e \in Days : e # d => b[m][e] = us[m][e])
      /\ \A n \in Members : n # m => b[n] = us[n]
  BY BookedFields
<1>2. \A n \in Members : /\ DOMAIN us[n] = Days /\ DOMAIN b[n] = Days
                         /\ \A e \in Days : us[n][e] \in Nat /\ b[n][e] \in Nat
  BY <1>1 DEF Usage
<1> PICK f, g : /\ f = [n \in Members |-> SumFunction(b[n])]
                /\ g = [n \in Members |-> SumFunction(us[n])]
  OBVIOUS
<1>3. \A n \in Members : g[n] \in Int
  <2> TAKE n \in Members
  <2>1. g[n] = SumFunctionOnSet(us[n], Days)
    BY <1>2 DEF SumFunction
  <2>2. SumFunctionOnSet(us[n], Days) \in Nat
    BY <1>2, SumNat, DaysFinite
  <2> QED
    BY <2>1, <2>2
<1>4. f[m] = g[m] + c
  <2> PICK p, q : p = b[m] /\ q = us[m]
    OBVIOUS
  <2>1. \A e \in Days : q[e] \in Int /\ p[e] = q[e] + (IF e = d THEN c ELSE 0)
    BY <1>1, <1>2
  <2>2. SumFunctionOnSet(p, Days) = SumFunctionOnSet(q, Days) + c
    <3>1. Grown(p, q, Days, d, c) /\ c \in Int
      BY <2>1 DEF Grown
    <3> QED
      BY <3>1, SumGrows, DaysFinite
  <2>3. f[m] = SumFunctionOnSet(p, Days) /\ g[m] = SumFunctionOnSet(q, Days)
    BY <1>2 DEF SumFunction
  <2> QED
    BY <2>2, <2>3
<1>5. \A n \in Members : g[n] \in Int /\ f[n] = g[n] + (IF n = m THEN c ELSE 0)
  BY <1>1, <1>3, <1>4
<1>6. SumFunctionOnSet(g, Members) \in Int /\ SumFunctionOnSet(f, Members) = SumFunctionOnSet(g, Members) + c
  <2>1. Grown(f, g, Members, m, c) /\ c \in Int
    BY <1>5 DEF Grown
  <2> QED
    BY <2>1, SumGrows, DaysFinite
<1>7. Total(b) = SumFunctionOnSet(f, Members) /\ Total(us) = SumFunctionOnSet(g, Members)
  BY DEF Total, SumFunction
<1> QED
  BY <1>1, <1>6, <1>7

\* The visit of i in x has c labor more than in vs; the others are the same.
GrowsAt(x, vs, i, c) ==
  /\ x[i].credited = vs[i].credited + c
  /\ \A j \in Items : j # i => x[j] = vs[j]

LEMMA LaborGrows ==
  ASSUME NEW S \in SUBSET Items, NEW vs \in Visits, NEW i \in S, NEW c \in Nat,
         NEW x, GrowsAt(x, vs, i, c)
  PROVE  LaborOf(vs, S) \in Int /\ LaborOf(x, S) = LaborOf(vs, S) + c
<1> PICK f, g : /\ f = [j \in Items |-> IF j \in S THEN x[j].credited ELSE 0]
                /\ g = [j \in Items |-> IF j \in S THEN vs[j].credited ELSE 0]
  OBVIOUS
<1>1. \A j \in Items : vs[j].credited \in Nat
  BY VisitFields
<1>2. \A j \in Items : g[j] \in Int /\ f[j] = g[j] + (IF j = i THEN c ELSE 0)
  BY <1>1 DEF GrowsAt
<1>3. SumFunctionOnSet(g, Items) \in Int /\ SumFunctionOnSet(f, Items) = SumFunctionOnSet(g, Items) + c
  <2>1. Grown(f, g, Items, i, c) /\ c \in Int
    BY <1>2 DEF Grown
  <2> QED
    BY <2>1, SumGrows, DaysFinite
<1> QED
  BY <1>3 DEF LaborOf, SumFunction

LEMMA LaborSame ==
  ASSUME NEW S \in SUBSET Items, NEW x, NEW y, \A i \in S : x[i].credited = y[i].credited
  PROVE  LaborOf(x, S) = LaborOf(y, S)
<1>1. [i \in Items |-> IF i \in S THEN x[i].credited ELSE 0]
        = [i \in Items |-> IF i \in S THEN y[i].credited ELSE 0]
  OBVIOUS
<1> QED
  BY <1>1 DEF LaborOf

LEMMA LaborInt ==
  ASSUME NEW S \in SUBSET Items, NEW vs \in Visits
  PROVE  LaborOf(vs, S) \in Nat
<1> PICK f : f = [i \in Items |-> IF i \in S THEN vs[i].credited ELSE 0]
  OBVIOUS
<1>1. \A i \in Items : f[i] \in Nat
  BY VisitFields
<1>2. SumFunctionOnSet(f, Items) \in Nat
  BY <1>1, SumNat, DaysFinite
<1> QED
  BY <1>2 DEF LaborOf, SumFunction

LEMMA TotalInt ==
  ASSUME NEW us \in Usage
  PROVE  Total(us) \in Nat
<1> PICK f : f = [m \in Members |-> SumFunction(us[m])]
  OBVIOUS
<1>1. ASSUME NEW m \in Members PROVE f[m] \in Nat
  <2>1. DOMAIN us[m] = Days /\ \A e \in Days : us[m][e] \in Nat
    BY DEF Usage
  <2>2. SumFunctionOnSet(us[m], Days) \in Nat
    BY <2>1, SumNat, DaysFinite
  <2> QED
    BY <2>1, <2>2 DEF SumFunction
<1>2. SumFunctionOnSet(f, Members) \in Nat
  BY <1>1, SumNat, DaysFinite
<1> QED
  BY <1>2 DEF Total, SumFunction

\* Visit v after a segment in which its owner, if it has one, worked on it as u.
Progressed(v, u, g, away) ==
  LET long == g.to - g.from
      c == v.credited - u.credited
  IN /\ c \in Nat /\ c <= u.left /\ c <= long /\ v.left = u.left - c
     /\ v.queue = u.queue + (IF v.left = 0 THEN 0 ELSE long - c)
     /\ c > 0 => v.owner \in Members /\ Fraction(g, v.owner, away) > 0

\* The labor w in the segment when the ranked visits up to k are done; all are among S.
SoFar(w, vs, us, g, away, ranked, S, k) ==
  /\ w.vs \in Visits /\ SpentFrom(w.us, us, g, away)
  /\ \A i \in Items : Fixed(w.vs[i], vs[i])
  /\ \A i \in Items : i \notin ranked => w.vs[i] = vs[i]
  /\ \A i \in ranked : IF i <= k THEN Progressed(w.vs[i], vs[i], g, away) ELSE SameWork(w.vs[i], vs[i])
  /\ Total(w.us) \in Int /\ LaborOf(w.vs, S) \in Int
  /\ Total(w.us) + LaborOf(vs, S) = Total(us) + LaborOf(w.vs, S)

\* A visit whose work is v after labor c of its owner.
LEMMA LaborDone ==
  ASSUME NEW u \in VisitState, NEW c \in Nat, c <= u.left, NEW long \in Nat, c <= long,
         NEW v, v = Labored(u, c, long)
  PROVE  /\ v \in VisitState /\ Fixed(v, u) /\ v.owner = u.owner
         /\ v.left = u.left - c /\ v.credited = u.credited + c
         /\ v.queue = u.queue + (IF v.left = 0 THEN 0 ELSE long - c)
<1> PICK q : q = Queued(u, c, long)
  OBVIOUS
<1>1. u.left \in Nat /\ u.credited \in Nat /\ u.queue \in Nat
  BY DEF VisitState
<1>2. q \in Nat /\ q = IF u.left - c = 0 THEN 0 ELSE long - c
  BY <1>1 DEF Queued, Floor0
<1>3. v = [u EXCEPT !.left = @ - c, !.credited = @ + c, !.queue = @ + q]
  BY DEF Labored
<1>4. u.left - c \in Nat /\ u.credited + c \in Nat /\ u.queue + q \in Nat
  BY <1>1, <1>2
<1>5. v \in VisitState /\ v.left = u.left - c /\ v.credited = u.credited + c /\ v.queue = u.queue + q
  BY <1>3, <1>4 DEF VisitState
<1>6. Fixed(v, u) /\ v.owner = u.owner
  BY <1>3 DEF VisitState, Fixed
<1> QED
  BY <1>2, <1>5, <1>6

\* _advance_visit
LEMMA VisitAdvanced ==
  ASSUME NEW vs \in Visits, NEW us \in Usage, NEW g, WorkSpan(g), NEW away, Shared(away),
         NEW S \in SUBSET Items, NEW ranked \in SUBSET S, NEW i \in ranked,
         NEW w, SoFar(w, vs, us, g, away, ranked, S, i - 1),
         NEW x, x = AdvanceVisit(w, i, g, away, us)
  PROVE  SoFar(x, vs, us, g, away, ranked, S, i)
<1> PICK u, m, d, long, idle : /\ u = w.vs[i] /\ m = u.owner /\ d = DateOf(g.from)
                               /\ long = g.to - g.from
                               /\ idle = (u.owner = 0 \/ u.left = 0)
  OBVIOUS
<1> DEFINE credit == IF idle THEN 0 ELSE Credit(w, i, g, away, us)
<1> PICK c : c = credit
  OBVIOUS
<1> PICK v : v = Labored(u, c, long)
  OBVIOUS
<1>1. x = [vs |-> [w.vs EXCEPT ![i] = v], us |-> IF idle THEN w.us ELSE Booked(w.us, m, d, c)]
  BY DEF AdvanceVisit
<1>2. i \in Items /\ i \in Nat /\ u \in VisitState /\ m \in Members \cup {0} /\ u.left \in Nat
      /\ w.vs \in Visits /\ w.us \in Usage /\ SpentFrom(w.us, us, g, away)
  BY ItemRanks, VisitFields DEF SoFar, SpentFrom
<1>3. d \in Days /\ long \in Nat
  BY SpanDate
<1>4. /\ c \in Nat /\ c <= u.left /\ c <= long
      /\ c > 0 => m \in Members /\ Fraction(g, m, away) > 0
      /\ SpentFrom(x.us, us, g, away)
      /\ Total(x.us) \in Int /\ Total(x.us) = Total(w.us) + c
  <2>1. CASE idle
    <3>1. c = 0 /\ x.us = w.us
      BY <1>1, <2>1
    <3> QED
      BY <1>2, <1>3, <3>1 DEF SoFar
  <2>2. CASE ~idle
    <3>0. c = Credit(w, i, g, away, us) /\ x.us = Booked(w.us, m, d, c)
      BY <1>1, <2>2
    <3>1. m \in Members /\ c = Credit(w, i, g, away, us) /\ x.us = Booked(w.us, m, d, c)
      <4>1. m # 0
        BY <2>2
      <4> QED
        BY <1>2, <3>0, <4>1
    <3> HIDE DEF credit
    <3>2. /\ c \in Nat /\ c <= u.left /\ c <= long
          /\ c > 0 => Fraction(g, m, away) > 0
          /\ SpentFrom(Booked(w.us, m, d, c), us, g, away)
      BY <1>2, <3>1, CreditBounded
    <3>3. Total(Booked(w.us, m, d, c)) = Total(w.us) + c /\ Total(w.us) \in Int
      BY <1>2, <1>3, <3>1, <3>2, BookedTotal
    <3> QED
      BY <3>1, <3>2, <3>3
  <2> QED
    BY <2>1, <2>2
<1> HIDE DEF credit
<1>5. /\ v \in VisitState /\ Fixed(v, u) /\ v.owner = u.owner
      /\ v.left = u.left - c /\ v.credited = u.credited + c
      /\ v.queue = u.queue + (IF v.left = 0 THEN 0 ELSE long - c)
  BY <1>2, <1>3, <1>4, LaborDone
<1>6. x.vs \in Visits /\ x.vs[i] = v /\ \A j \in Items : j # i => x.vs[j] = w.vs[j]
  BY <1>1, <1>2, <1>5 DEF Visits
<1>7. SameWork(u, vs[i]) /\ Fixed(u, vs[i]) /\ vs[i] \in VisitState
  <2>1. ~(i <= i - 1)
    BY <1>2
  <2> QED
    BY <1>2, <2>1, VisitFields DEF SoFar
<1>8. Progressed(v, vs[i], g, away)
  <2>1. vs[i].credited \in Nat /\ u.left = vs[i].left /\ u.credited = vs[i].credited /\ u.queue = vs[i].queue
    BY <1>2, <1>7, VisitFields DEF SameWork
  <2>2. v.credited - vs[i].credited = c
    BY <1>4, <1>5, <2>1
  <2> QED
    BY <1>4, <1>5, <2>1, <2>2 DEF Progressed
<1>9. \A j \in Items : Fixed(x.vs[j], vs[j])
  BY <1>5, <1>6, <1>7 DEF SoFar, Fixed
<1>10. \A j \in Items : j \notin ranked => x.vs[j] = vs[j]
  BY <1>6 DEF SoFar
<1>11. ASSUME NEW j \in ranked
       PROVE IF j <= i THEN Progressed(x.vs[j], vs[j], g, away) ELSE SameWork(x.vs[j], vs[j])
  <2>0. j \in Items /\ j \in Nat /\ i \in Nat
    BY ItemRanks
  <2>1. CASE j = i
    BY <1>6, <1>8, <2>0, <2>1
  <2>2. CASE j # i
    <3>1. x.vs[j] = w.vs[j] /\ (j <= i <=> j <= i - 1)
      BY <1>6, <2>0, <2>2
    <3> QED
      BY <3>1 DEF SoFar
  <2> QED
    BY <2>1, <2>2
<1>12. LaborOf(x.vs, S) \in Int /\ LaborOf(x.vs, S) = LaborOf(w.vs, S) + c
  <2>1. x.vs[i].credited = w.vs[i].credited + c
    BY <1>5, <1>6
  <2>2. LaborOf(w.vs, S) \in Int /\ LaborOf(x.vs, S) = LaborOf(w.vs, S) + c
    <3>1. i \in S /\ c \in Nat /\ w.vs \in Visits
      BY <1>2, <1>4
    <3>2. GrowsAt(x.vs, w.vs, i, c)
      BY <1>6, <2>1 DEF GrowsAt
    <3> QED
      BY <3>1, <3>2, LaborGrows
  <2> QED
    BY <1>4, <2>2
<1>13. Total(x.us) + LaborOf(vs, S) = Total(us) + LaborOf(x.vs, S)
  <2>1. LaborOf(vs, S) \in Int /\ Total(us) \in Int /\ Total(w.us) \in Int /\ LaborOf(w.vs, S) \in Int
        /\ Total(w.us) + LaborOf(vs, S) = Total(us) + LaborOf(w.vs, S)
    BY LaborInt, TotalInt DEF SoFar
  <2> QED
    BY <1>4, <1>12, <2>1
<1> QED
  BY <1>4, <1>6, <1>9, <1>10, <1>11, <1>12, <1>13 DEF SoFar

\* h has the labor of a segment after every rank.
Advancing(h, vs, us, g, away, ranked) ==
  /\ h[0] = [vs |-> AssignOwners(vs, us, g, away, ranked), us |-> us]
  /\ \A k \in 0..(Cardinality(Items) - 1) :
       h[k + 1] = IF k + 1 \in ranked THEN AdvanceVisit(h[k], k + 1, g, away, us) ELSE h[k]

\* x is the labor of the segment, by way of h.
Ranked(h, x, vs, us, g, away, ranked, S) ==
  /\ Advancing(h, vs, us, g, away, ranked) /\ x = h[Cardinality(Items)]
  /\ \A k \in 0..Cardinality(Items) : SoFar(h[k], vs, us, g, away, ranked, S, k)

\* _advance_segment
LEMMA SegmentRun ==
  ASSUME NEW vs \in Visits, NEW us \in Usage, NEW g, WorkSpan(g), NEW away, Shared(away), NEW blocked,
         NEW S, S = Open(vs), NEW ranked, ranked = S \ blocked,
         NEW x, x = AdvanceSegment(vs, us, g, away, blocked)
  PROVE  \E h : Ranked(h, x, vs, us, g, away, ranked, S)
<1> PICK n, o : n = Cardinality(Items) /\ o = [vs |-> AssignOwners(vs, us, g, away, ranked), us |-> us]
  OBVIOUS
<1> DEFINE Is(h) == h = [k \in 0..n |->
                           IF k = 0 THEN o
                           ELSE IF k \in ranked THEN AdvanceVisit(h[k - 1], k, g, away, us) ELSE h[k - 1]]
           W == [vs : Visits, us : Usage]
           T == [k \in 0..n |-> {w \in W : SoFar(w, vs, us, g, away, ranked, S, k)}]
           F == [k \in 0..(n - 1) |->
                   [w \in W |-> IF k + 1 \in ranked THEN AdvanceVisit(w, k + 1, g, away, us) ELSE w]]
<1>1. x = (CHOOSE h : Is(h))[n]
  BY DEF AdvanceSegment
<1>2. n \in Nat /\ 0 \in Nat /\ 0 <= n /\ 0 \in 0..n /\ n \in 0..n
  BY ItemRanks
<1>3. S \in SUBSET Items /\ ranked \in SUBSET S
  BY DEF Open
<1>4. \A k \in 0..(n - 1), w \in W :
        F[k][w] = IF k + 1 \in ranked THEN AdvanceVisit(w, k + 1, g, away, us) ELSE w
  OBVIOUS
<1>5. o \in T[0]
  <2>1. Reowned(o.vs, vs, ranked)
    <3> PICK r : r = ranked
      OBVIOUS
    <3>1. ranked \in SUBSET Items
      BY <1>3
    <3> QED
      BY <3>1, OwnersAssigned
  <2>2. SpentFrom(o.us, us, g, away)
    BY SpentNothing
  <2>3. o.vs \in Visits /\ \A i \in Items : Fixed(o.vs[i], vs[i]) /\ SameWork(o.vs[i], vs[i])
                                            /\ (i \notin ranked => o.vs[i] = vs[i])
    BY <2>1 DEF Reowned
  <2>4. \A i \in ranked : ~(i <= 0)
    BY <1>3, ItemRanks
  <2>5. LaborOf(o.vs, S) = LaborOf(vs, S) /\ LaborOf(o.vs, S) \in Int /\ Total(us) \in Int /\ o.us = us
    <3>1. \A i \in S : o.vs[i].credited = vs[i].credited
      BY <1>3, <2>3 DEF SameWork
    <3> PICK a : a = o.vs
      OBVIOUS
    <3>2. S \in SUBSET Items /\ (\A i \in S : a[i].credited = vs[i].credited) /\ a \in Visits
      BY <1>3, <2>3, <3>1
    <3>3. LaborOf(a, S) = LaborOf(vs, S)
      BY <3>2, LaborSame
    <3>4. LaborOf(a, S) \in Nat /\ Total(us) \in Nat
      BY <3>2, LaborInt, TotalInt
    <3> QED
      BY <3>3, <3>4
  <2>6. SoFar(o, vs, us, g, away, ranked, S, 0)
    BY <1>3, <2>2, <2>3, <2>4, <2>5 DEF SoFar
  <2> QED
    BY <1>2, <2>3, <2>6
<1>6. ASSUME NEW k \in 0..(n - 1), NEW w \in T[k] PROVE F[k][w] \in T[k + 1]
  <2>1. w \in W /\ SoFar(w, vs, us, g, away, ranked, S, k) /\ k + 1 \in 0..n /\ k \in Nat
    BY <1>2
  <2> PICK i : i = k + 1
    OBVIOUS
  <2>2. CASE i \in ranked
    <3> PICK y : y = AdvanceVisit(w, i, g, away, us)
      OBVIOUS
    <3>1. SoFar(w, vs, us, g, away, ranked, S, i - 1)
      <4>1. i - 1 = k
        BY <2>1
      <4> QED
        BY <2>1, <4>1
    <3>2. SoFar(y, vs, us, g, away, ranked, S, i)
      BY <1>3, <2>2, <3>1, VisitAdvanced
    <3>3. y \in W
      <4>1. y = [vs |-> y.vs, us |-> y.us]
        BY DEF AdvanceVisit
      <4>2. y.vs \in Visits /\ y.us \in Usage
        BY <3>2 DEF SoFar, SpentFrom
      <4> QED
        BY <4>1, <4>2
    <3> QED
      BY <1>4, <2>1, <2>2, <3>2, <3>3
  <2>3. CASE i \notin ranked
    <3>1. \A j \in ranked : j <= i <=> j <= k
      BY <1>3, <2>1, <2>3, ItemRanks
    <3>2. SoFar(w, vs, us, g, away, ranked, S, i)
      BY <2>1, <3>1 DEF SoFar
    <3> QED
      BY <1>4, <2>1, <2>3, <3>2
  <2> QED
    BY <2>2, <2>3
<1>7. ClosedUnder(F, 0, n, T)
  <2> HIDE DEF F, T
  <2> QED
    BY <1>6 DEF ClosedUnder
<1>8. PICK f : f = [k \in 0..n |-> f[k]] /\ Runs(f, F, 0, n, o)
  <2> HIDE DEF F, T
  <2> QED
    BY <1>2, Recursion
<1>9. \A k \in 0..n : f[k] \in T[k]
  <2> HIDE DEF F, T
  <2> QED
    BY <1>2, <1>5, <1>7, <1>8, RunsWithin
<1>10. \A k \in 0..n : f[k] \in W /\ SoFar(f[k], vs, us, g, away, ranked, S, k)
  <2> HIDE DEF W
  <2> QED
    BY <1>9
<1> HIDE DEF F, W
<1>11. Is(f)
  <2>1. ASSUME NEW k \in 0..n, k # 0
        PROVE f[k] = IF k \in ranked THEN AdvanceVisit(f[k - 1], k, g, away, us) ELSE f[k - 1]
    <3>1. k - 1 \in 0..(n - 1) /\ (k - 1) + 1 = k /\ k - 1 \in 0..n
      BY <1>2, <2>1
    <3>2. f[(k - 1) + 1] = F[k - 1][f[k - 1]] /\ f[k - 1] \in W
      BY <1>8, <1>10, <3>1 DEF Runs
    <3>3. F[k - 1][f[k - 1]] = IF (k - 1) + 1 \in ranked THEN AdvanceVisit(f[k - 1], (k - 1) + 1, g, away, us)
                               ELSE f[k - 1]
      BY <1>4, <3>1, <3>2
    <3> QED
      BY <3>1, <3>2, <3>3
  <2> QED
    BY <1>8, <2>1 DEF Runs
<1> PICK h : h = CHOOSE j : Is(j)
  OBVIOUS
<1>12. Is(h)
  <2> HIDE DEF Is
  <2> QED
    BY <1>11
<1> DEFINE E == {k \in 0..n : h[k] = f[k]}
<1>13. 0 \in E
  BY <1>2, <1>11, <1>12
<1>14. ASSUME NEW k \in 0..(n - 1), k \in E PROVE k + 1 \in E
  <2>1. k + 1 \in 0..n /\ k + 1 # 0 /\ (k + 1) - 1 = k
    BY <1>2
  <2>2. h[k + 1] = (IF k + 1 \in ranked THEN AdvanceVisit(h[k], k + 1, g, away, us) ELSE h[k])
        /\ f[k + 1] = (IF k + 1 \in ranked THEN AdvanceVisit(f[k], k + 1, g, away, us) ELSE f[k])
    BY <1>11, <1>12, <2>1
  <2> QED
    BY <1>14, <2>1, <2>2
<1> HIDE DEF E
<1>15. n \in E
  <2>1. \A k \in 0..n : k \in E
    BY <1>2, <1>13, <1>14, FromUpTo
  <2> QED
    BY <1>2, <2>1
<1>16. x = f[n]
  BY <1>1, <1>15 DEF E
<1>17. Advancing(f, vs, us, g, away, ranked)
  <2>1. f[0] = o
    BY <1>2, <1>11
  <2>2. ASSUME NEW k \in 0..(n - 1)
        PROVE  f[k + 1] = IF k + 1 \in ranked THEN AdvanceVisit(f[k], k + 1, g, away, us) ELSE f[k]
    <3>1. k + 1 \in 0..n /\ k + 1 # 0 /\ (k + 1) - 1 = k
      BY <1>2
    <3> QED
      BY <1>11, <3>1
  <2> HIDE DEF Is
  <2> QED
    BY <2>1, <2>2 DEF Advancing
<1> HIDE DEF Is
<1> QED
  BY <1>10, <1>16, <1>17 DEF Ranked

\* After a segment all its ranked visits are done (_advance_segment).
LEMMA SegmentAdvanced ==
  ASSUME NEW vs \in Visits, NEW us \in Usage, NEW g, WorkSpan(g), NEW away, Shared(away), NEW blocked,
         NEW S, S = Open(vs), NEW ranked, ranked = S \ blocked,
         NEW x, x = AdvanceSegment(vs, us, g, away, blocked)
  PROVE  SoFar(x, vs, us, g, away, ranked, S, Cardinality(Items))
<1>1. PICK h : Ranked(h, x, vs, us, g, away, ranked, S)
  BY SegmentRun
<1>2. Cardinality(Items) \in 0..Cardinality(Items)
  BY ItemRanks
<1> QED
  BY <1>1, <1>2 DEF Ranked
-----------------------------------------------------------------------------
(* Usage and time.                                                         *)

\* Business time of date d up to instant z.
DayTime(d, z) == Floor0(Elapsed(d * DayLength, Min({z, (d + 1) * DayLength})))

LEMMA Lesser ==
  ASSUME NEW a \in Nat, NEW b \in Nat
  PROVE  Min({a, b}) = IF a <= b THEN a ELSE b
<1> DEFINE S == {a, b}
<1>1. S \in SUBSET Nat /\ S # {}
  OBVIOUS
<1>2. Min(S) \in S /\ \A x \in S : Min(S) <= x
  <2> HIDE DEF S
  <2> QED
    BY <1>1, LeastIsMin
<1> QED
  BY <1>2

LEMMA DayBounds ==
  ASSUME NEW d \in Days
  PROVE  /\ d \in Nat /\ d * DayLength \in 0..Horizon /\ (d + 1) * DayLength \in 0..(Horizon + DayLength)
         /\ d * DayLength <= (d + 1) * DayLength
<1> PICK k : k = Horizon \div DayLength
  OBVIOUS
<1>1. Horizon \in Nat /\ d \in 0..k
  BY LaborAssumption DEF Days
<1>2. k * DayLength <= Horizon /\ k \in Nat
  BY <1>1, WholeNat
<1>3. d \in Nat /\ d * DayLength <= k * DayLength /\ d * DayLength \in Nat
  BY <1>1, <1>2, WholeNat
<1>4. (d + 1) * DayLength = d * DayLength + DayLength
  BY <1>3, WholeNat
<1> QED
  BY <1>1, <1>2, <1>3, <1>4, WholeNat

\* The business time of a date so far never falls.
LEMMA DayTimeGrows ==
  ASSUME NEW d \in Days, NEW z \in 0..Horizon, NEW y \in z..Horizon
  PROVE  DayTime(d, z) \in Nat /\ DayTime(d, z) <= DayTime(d, y)
<1> PICK a, b : a = d * DayLength /\ b = (d + 1) * DayLength
  OBVIOUS
<1> DEFINE p == IF z <= b THEN z ELSE b
           q == IF y <= b THEN y ELSE b
<1>1. a \in 0..Horizon /\ b \in 0..(Horizon + DayLength) /\ Horizon \in Nat
  BY DayBounds, LaborAssumption
<1>2. z \in Nat /\ y \in Nat /\ b \in Nat /\ a \in Nat
  BY <1>1
<1>3. DayTime(d, z) = Floor0(Elapsed(a, p)) /\ DayTime(d, y) = Floor0(Elapsed(a, q))
  BY <1>2, Lesser DEF DayTime
<1>4. p \in 0..(Horizon + DayLength) /\ q \in p..(Horizon + DayLength) /\ a \in 0..(Horizon + DayLength)
  BY <1>1, <1>2, WholeNat
<1> HIDE DEF p, q
<1>5. Worked[a] \in Nat /\ Worked[p] \in Nat /\ Worked[q] \in Nat /\ Elapsed(p, q) \in Nat
  BY <1>4, WorkedNat, WorkedGrows
<1>6. Worked[p] <= Worked[q]
  BY <1>5 DEF Elapsed
<1> QED
  BY <1>3, <1>5, <1>6 DEF Elapsed, Floor0

LEMMA DayTimeSpan ==
  ASSUME NEW g, WorkSpan(g), NEW d, d = DateOf(g.from)
  PROVE  DayTime(d, g.to) = DayTime(d, g.from) + (g.to - g.from)
<1> PICK a, b, f, t : a = d * DayLength /\ b = (d + 1) * DayLength /\ f = g.from /\ t = g.to
  OBVIOUS
<1>1. d \in Days /\ a <= f /\ f \in 0..Horizon /\ t \in f..Horizon /\ t <= b
  BY SpanDate
<1>2. a \in 0..Horizon /\ b \in 0..(Horizon + DayLength) /\ Horizon \in Nat
  BY <1>1, DayBounds, LaborAssumption
<1>3. Min({f, b}) = f /\ Min({t, b}) = t
  BY <1>1, <1>2, Lesser
<1>4. DayTime(d, t) = Floor0(Elapsed(a, t)) /\ DayTime(d, f) = Floor0(Elapsed(a, f))
  BY <1>3 DEF DayTime
<1>5. f \in a..(Horizon + DayLength) /\ f \in 0..(Horizon + DayLength) /\ t \in f..(Horizon + DayLength)
      /\ a \in 0..(Horizon + DayLength)
  BY <1>1, <1>2, WholeNat
<1>6. Elapsed(a, f) \in Nat /\ Worked[a] \in Nat /\ Worked[f] \in Nat /\ Worked[t] \in Nat
  BY <1>5, WorkedGrows
<1>7. Elapsed(f, t) = t - f
  <2>1. \A x \in f..(t - 1) : Works(x)
    BY DEF WorkSpan
  <2> QED
    BY <1>5, <2>1, WorkedGrows
<1>8. Elapsed(a, t) = Elapsed(a, f) + (t - f) /\ t - f \in Nat
  BY <1>1, <1>2, <1>6, <1>7 DEF Elapsed
<1> QED
  BY <1>4, <1>6, <1>8, FloorNat DEF Floor0

\* Nobody worked more than a day's capacity and than the time of the day up to z.
UsageBounded(us, z) ==
  \A m \in Members, d \in Days : us[m][d] <= DailyCapacity[m] /\ us[m][d] <= DayTime(d, z)

\* Usage within the bound stays there while time goes on.
LEMMA UsageGrows ==
  ASSUME NEW us \in Usage, NEW z \in 0..Horizon, UsageBounded(us, z), NEW y \in z..Horizon
  PROVE  UsageBounded(us, y)
<1> SUFFICES ASSUME NEW m \in Members, NEW d \in Days PROVE us[m][d] <= DayTime(d, y)
  BY DEF UsageBounded
<1>1. us[m][d] \in Nat /\ us[m][d] <= DayTime(d, z)
  BY UsageFields DEF UsageBounded
<1>2. DayTime(d, z) \in Nat /\ DayTime(d, z) <= DayTime(d, y)
  BY DayTimeGrows
<1>3. DayTime(d, y) \in Nat
  <2>1. y \in 0..Horizon /\ y \in y..Horizon
    BY LaborAssumption
  <2> QED
    BY <2>1, DayTimeGrows
<1> QED
  BY <1>1, <1>2, <1>3

\* Labor of a segment keeps usage within the day's capacity and its business time.
LEMMA SegmentUsage ==
  ASSUME NEW us \in Usage, NEW g, WorkSpan(g), NEW away, Shared(away), UsageBounded(us, g.from),
         NEW x, SpentFrom(x, us, g, away)
  PROVE  UsageBounded(x, g.to)
<1> SUFFICES ASSUME NEW m \in Members, NEW d \in Days
             PROVE x[m][d] <= DailyCapacity[m] /\ x[m][d] <= DayTime(d, g.to)
  BY DEF UsageBounded
<1> PICK f, t : f = g.from /\ t = g.to
  OBVIOUS
<1>1. f \in 0..Horizon /\ t \in f..Horizon /\ t - f \in Nat /\ t \in Nat /\ f \in Nat
  BY SpanDate
<1>2. /\ us[m][d] \in Nat /\ us[m][d] <= DailyCapacity[m] /\ us[m][d] <= DayTime(d, f)
      /\ x[m][d] \in Nat /\ DailyCapacity[m] \in Nat
  BY UsageFields, LaborAssumption DEF UsageBounded, SpentFrom
<1>3. DayTime(d, f) \in Nat /\ DayTime(d, f) <= DayTime(d, t)
  BY <1>1, DayTimeGrows
<1>4. DayTime(d, t) \in Nat
  <2>1. t \in 0..Horizon /\ t \in t..Horizon
    BY <1>1
  <2> QED
    BY <2>1, DayTimeGrows
<1>5. CASE d # DateOf(f)
  <2>1. x[m][d] = us[m][d]
    BY <1>5 DEF SpentFrom
  <2> QED
    BY <1>2, <1>3, <1>4, <2>1
<1>6. CASE d = DateOf(f)
  <2>1. /\ x[m][d] - us[m][d] <= Available(g, m, away)
        /\ x[m][d] = us[m][d] \/ x[m][d] <= Ceiling(g, m, away)
    BY <1>6 DEF SpentFrom
  <2>2. /\ Available(g, m, away) \in Nat /\ Available(g, m, away) <= t - f
        /\ Ceiling(g, m, away) \in Nat /\ Ceiling(g, m, away) <= DailyCapacity[m]
    BY Shares
  <2>3. DayTime(d, t) = DayTime(d, f) + (t - f)
    BY <1>6, DayTimeSpan
  <2> QED
    BY <1>1, <1>2, <1>3, <2>1, <2>2, <2>3
<1> QED
  BY <1>5, <1>6
-----------------------------------------------------------------------------
(* The work of a slice.                                                    *)

\* Every visit was entered by instant t.
EnteredBy(vs, t) == \A i \in Items : vs[i].entered <= t

\* The visits and the usage of w come from vs and us by work from instant from to z.
Reached(w, vs, us, from, ranked, S, z) ==
  /\ w.vs \in Visits /\ w.us \in Usage
  /\ \A i \in Items : Fixed(w.vs[i], vs[i])
  /\ \A i \in Items : i \notin ranked => w.vs[i] = vs[i]
  /\ \A i \in ranked :
       /\ vs[i].credited <= w.vs[i].credited
       /\ w.vs[i].credited - vs[i].credited <= Elapsed(from, z)
       /\ w.vs[i].left = vs[i].left - (w.vs[i].credited - vs[i].credited)
       /\ w.vs[i].left > 0 =>
            w.vs[i].credited + w.vs[i].queue = vs[i].credited + vs[i].queue + Elapsed(from, z)
  /\ UsageBounded(w.us, z)
  /\ Total(w.us) + LaborOf(vs, S) = Total(us) + LaborOf(w.vs, S)

LEMMA OpenFixed ==
  ASSUME NEW x, NEW y, \A i \in Items : Fixed(x[i], y[i])
  PROVE  Open(x) = Open(y)
BY DEF Open, Fixed

LEMMA ElapsedInt ==
  ASSUME NEW a \in 0..Horizon, NEW b \in 0..Horizon, NEW c \in 0..Horizon
  PROVE  /\ Elapsed(a, b) \in Int /\ Elapsed(a, a) = 0 /\ Elapsed(a, c) = Elapsed(a, b) + Elapsed(b, c)
         /\ a <= b => Elapsed(a, b) \in Nat /\ Elapsed(a, b) <= b - a
         /\ a <= b /\ (\A t \in a..(b - 1) : Works(t)) => Elapsed(a, b) = b - a
<1>1. Horizon \in Nat /\ a \in 0..(Horizon + DayLength) /\ b \in 0..(Horizon + DayLength)
      /\ c \in 0..(Horizon + DayLength)
  BY LaborAssumption, WholeNat
<1>2. Worked[a] \in Nat /\ Worked[b] \in Nat /\ Worked[c] \in Nat
  BY <1>1, WorkedNat
<1>3. Elapsed(a, b) \in Int /\ Elapsed(a, a) = 0 /\ Elapsed(a, c) = Elapsed(a, b) + Elapsed(b, c)
  BY <1>2 DEF Elapsed
<1>4. ASSUME a <= b
      PROVE  /\ Elapsed(a, b) \in Nat /\ Elapsed(a, b) <= b - a
             /\ (\A t \in a..(b - 1) : Works(t)) => Elapsed(a, b) = b - a
  <2>1. b \in a..(Horizon + DayLength)
    BY <1>1, <1>4
  <2> QED
    BY <1>1, <2>1, WorkedGrows
<1> QED
  BY <1>3, <1>4

\* Time without work.
LEMMA ReachedIdle ==
  ASSUME NEW w, NEW vs, NEW us, NEW from \in 0..Horizon, NEW ranked, NEW S, NEW z \in from..(Horizon - 1),
         Reached(w, vs, us, from, ranked, S, z), ~Works(z)
  PROVE  Reached(w, vs, us, from, ranked, S, z + 1)
<1>1. Horizon \in Nat /\ z \in 0..Horizon /\ z + 1 \in z..Horizon /\ z \in 0..(Horizon + DayLength - 1)
  BY LaborAssumption, WholeNat
<1>2. Worked[z + 1] = Worked[z]
  <2>1. Worked[z] \in Nat /\ Worked[z + 1] = Worked[z] + (IF Works(z) THEN 1 ELSE 0)
    BY <1>1, WorkedStep
  <2> QED
    BY <2>1
<1>3. Elapsed(from, z + 1) = Elapsed(from, z)
  BY <1>2 DEF Elapsed
<1>4. UsageBounded(w.us, z + 1)
  <2> PICK x : x = w.us
    OBVIOUS
  <2>1. x \in Usage /\ UsageBounded(x, z)
    BY DEF Reached
  <2> QED
    BY <1>1, <2>1, UsageGrows
<1> QED
  BY <1>3, <1>4 DEF Reached

\* Work on the visits S but the blocked ones, from one instant to another.
Setting(vs, us, from, end, away, blocked, S, ranked) ==
  /\ vs \in Visits /\ us \in Usage /\ from \in 0..Horizon /\ end \in from..Horizon
  /\ Shared(away) /\ S = Open(vs) /\ ranked = S \ blocked /\ EnteredBy(vs, from)

\* A segment from where the work has come to.
LEMMA ReachedSegment ==
  ASSUME NEW vs, NEW us, NEW from, NEW end, NEW away, NEW blocked, NEW S, NEW ranked,
         Setting(vs, us, from, end, away, blocked, S, ranked),
         NEW g, WorkSpan(g), from <= g.from, NEW w, Reached(w, vs, us, from, ranked, S, g.from),
         NEW x, x = AdvanceSegment(w.vs, w.us, g, away, blocked)
  PROVE  /\ SoFar(x, w.vs, w.us, g, away, ranked, S, Cardinality(Items))
         /\ \A y : y.vs = x.vs /\ y.us = x.us => Reached(y, vs, us, from, ranked, S, g.to)
<1> PICK a, b, n, f, t : a = w.vs /\ b = w.us /\ n = Cardinality(Items) /\ f = g.from /\ t = g.to
  OBVIOUS
<1>0. /\ vs \in Visits /\ us \in Usage /\ from \in 0..Horizon
      /\ Shared(away) /\ S = Open(vs) /\ ranked = S \ blocked
  BY DEF Setting
<1>1. a \in Visits /\ b \in Usage /\ UsageBounded(b, f) /\ \A i \in Items : Fixed(a[i], vs[i])
  BY DEF Reached
<1>2. S = Open(a)
  BY <1>0, <1>1, OpenFixed
<1>3. SoFar(x, a, b, g, away, ranked, S, n)
  BY <1>0, <1>1, <1>2, SegmentAdvanced
<1>4. f \in 0..Horizon /\ t \in f..Horizon /\ t \in 0..Horizon /\ f <= t /\ t - f \in Nat /\ f \in Nat
  BY SpanDate
<1>5. Elapsed(from, t) = Elapsed(from, f) + (t - f) /\ Elapsed(from, f) \in Nat
  <2>1. \A z \in f..(t - 1) : Works(z)
    BY DEF WorkSpan
  <2>2. Elapsed(from, f) \in Nat /\ Elapsed(from, t) = Elapsed(from, f) + Elapsed(f, t)
    BY <1>0, <1>4, ElapsedInt
  <2>3. Elapsed(f, t) = t - f
    BY <1>0, <1>4, <2>1, ElapsedInt
  <2> QED
    BY <2>2, <2>3
<1>6. ranked \in SUBSET S /\ S \in SUBSET Items
  BY <1>0 DEF Open
<1> SUFFICES ASSUME NEW y, y.vs = x.vs, y.us = x.us PROVE Reached(y, vs, us, from, ranked, S, t)
  BY <1>3
<1> PICK v, u : v = x.vs /\ u = x.us
  OBVIOUS
<1>7. v \in Visits /\ u \in Usage /\ SpentFrom(u, b, g, away)
  BY <1>3 DEF SoFar, SpentFrom
<1>8. \A i \in Items : Fixed(v[i], vs[i])
  BY <1>1, <1>3 DEF SoFar, Fixed
<1>9. \A i \in Items : i \notin ranked => v[i] = vs[i]
  BY <1>3 DEF SoFar, Reached
<1>10. UsageBounded(u, t)
  BY <1>0, <1>1, <1>7, SegmentUsage
<1>11. Total(u) + LaborOf(vs, S) = Total(us) + LaborOf(v, S)
  <2>1. Total(u) + LaborOf(a, S) = Total(b) + LaborOf(v, S)
    BY <1>3 DEF SoFar
  <2>2. Total(b) + LaborOf(vs, S) = Total(us) + LaborOf(a, S)
    BY DEF Reached
  <2>3. /\ LaborOf(a, S) \in Nat /\ LaborOf(v, S) \in Nat /\ LaborOf(vs, S) \in Nat
        /\ Total(u) \in Nat /\ Total(b) \in Nat /\ Total(us) \in Nat
    BY <1>0, <1>1, <1>6, <1>7, LaborInt, TotalInt
  <2> QED
    BY <2>1, <2>2, <2>3
<1>12. ASSUME NEW i \in ranked
       PROVE /\ vs[i].credited <= v[i].credited
             /\ v[i].credited - vs[i].credited <= Elapsed(from, t)
             /\ v[i].left = vs[i].left - (v[i].credited - vs[i].credited)
             /\ v[i].left > 0 => v[i].credited + v[i].queue = vs[i].credited + vs[i].queue + Elapsed(from, t)
  <2> PICK p, q, r : p = vs[i] /\ q = a[i] /\ r = v[i]
    OBVIOUS
  <2>1. i \in Items /\ i <= n
    BY <1>6, ItemRanks
  <2>2. Progressed(r, q, g, away)
    BY <1>3, <2>1 DEF SoFar
  <2>3. /\ p.credited \in Nat /\ p.left \in Nat /\ p.queue \in Nat /\ q.credited \in Nat /\ q.left \in Nat
        /\ q.queue \in Nat /\ r.credited \in Nat /\ r.left \in Nat /\ r.queue \in Nat
    BY <1>0, <1>1, <1>7, <2>1, VisitFields
  <2>4. /\ p.credited <= q.credited /\ q.credited - p.credited <= Elapsed(from, f)
        /\ q.left = p.left - (q.credited - p.credited)
        /\ q.left > 0 => q.credited + q.queue = p.credited + p.queue + Elapsed(from, f)
    BY DEF Reached
  <2> PICK c : c = r.credited - q.credited
    OBVIOUS
  <2>5. /\ c \in Nat /\ c <= q.left /\ c <= t - f /\ r.left = q.left - c
        /\ r.queue = q.queue + (IF r.left = 0 THEN 0 ELSE (t - f) - c)
    BY <2>2 DEF Progressed
  <2>6. r.credited = q.credited + c
    BY <2>3
  <2>7. r.left > 0 => q.left > 0 /\ r.queue = q.queue + ((t - f) - c)
    BY <2>3, <2>5
  <2> PICK e, l, k : e = Elapsed(from, f) /\ l = t - f /\ k = Elapsed(from, t)
    OBVIOUS
  <2>8. k = e + l /\ e \in Nat /\ l \in Nat
    BY <1>4, <1>5
  <2>9. p.credited <= r.credited /\ r.credited - p.credited <= k
    <3>1. c \in Nat /\ c <= l
      BY <2>5
    <3>2. q.credited - p.credited <= e /\ p.credited <= q.credited
      BY <2>4
    <3> QED
      BY <2>3, <2>6, <2>8, <3>1, <3>2
  <2>10. r.left = p.left - (r.credited - p.credited)
    BY <2>3, <2>4, <2>5, <2>6
  <2>11. ASSUME r.left > 0 PROVE r.credited + r.queue = p.credited + p.queue + k
    <3>1. q.left > 0 /\ r.queue = q.queue + (l - c)
      BY <2>7, <2>11
    <3>2. q.credited + q.queue = p.credited + p.queue + e
      BY <2>4, <3>1
    <3>3. r.credited + r.queue = (q.credited + q.queue) + l
      BY <2>3, <2>5, <2>6, <2>8, <3>1
    <3>4. (p.credited + p.queue + e) + l = p.credited + p.queue + k
      BY <2>3, <2>8
    <3> QED
      BY <3>2, <3>3, <3>4
  <2> QED
    BY <2>9, <2>10, <2>11
<1> QED
  BY <1>7, <1>8, <1>9, <1>10, <1>11, <1>12 DEF Reached
-----------------------------------------------------------------------------
(* Estimated completions.                                                  *)

LEMMA Later ==
  ASSUME NEW a \in Nat, NEW b \in Nat
  PROVE  Max({a, b}) = IF a <= b THEN b ELSE a
BY DEF Max

LEMMA QuotientPositive ==
  ASSUME NEW a \in Nat, NEW p \in Nat, p > 0, p <= a
  PROVE  a \div p \in Nat /\ a \div p > 0
<1>1. a \div p \in Nat
  OBVIOUS
<1>2. a % p \in Nat /\ a % p < p /\ a = p * (a \div p) + (a % p)
  OBVIOUS
<1>3. a \div p # 0
  BY <1>2
<1> QED
  BY <1>1, <1>3

\* The parts of an estimate (_completion_boundary).
Prior(vs, after, i) ==
  SumFunction([j \in Items |-> IF j \in Open(vs) /\ j < i /\ after[j].owner = after[i].owner
                               THEN after[j].credited - vs[j].credited ELSE 0])
Touched(vs, after, g, away, i) ==
  IF vs[i].left = 0 THEN g.from
  ELSE g.from + ((Prior(vs, after, i) + vs[i].left) * Whole + Fraction(g, after[i].owner, away) - 1)
                  \div Fraction(g, after[i].owner, away)
Dwelt(vs, g, i) ==
  g.from + Floor0(vs[i].dwell - Floor0(Elapsed(vs[i].entered, g.from) - vs[i].pause))
Due(vs, after, g, away, i) == Max({Touched(vs, after, g, away, i), Dwelt(vs, g, i)})

\* An estimated completion is the instant at which an open visit without work is due.
LEMMA CompletionsAre ==
  ASSUME NEW vs, NEW after, NEW g, NEW away, NEW t
  PROVE  t \in Completions(vs, after, g, away) <=>
           t <= g.to /\ \E i \in Open(vs) : after[i].left = 0 /\ t = Due(vs, after, g, away, i)
BY DEF Completions, Due, Touched, Dwelt, Prior

\* A visit whose dwell is due at once has had it.
LEMMA DwellLeft ==
  ASSUME NEW vs \in Visits, NEW g, WorkSpan(g), EnteredBy(vs, g.from), NEW i \in Items
  PROVE  /\ Elapsed(vs[i].entered, g.from) \in Nat /\ Dwelt(vs, g, i) \in Nat /\ g.from <= Dwelt(vs, g, i)
         /\ Dwelt(vs, g, i) = g.from => vs[i].dwell <= Floor0(Elapsed(vs[i].entered, g.from) - vs[i].pause)
<1> PICK e, p, d, f : e = Elapsed(vs[i].entered, g.from) /\ p = vs[i].pause /\ d = vs[i].dwell /\ f = g.from
  OBVIOUS
<1>1. vs[i].entered \in 0..f /\ f \in 0..Horizon /\ p \in Nat /\ d \in Nat /\ f \in Nat
  BY VisitFields, SpanDate DEF EnteredBy
<1>2. e \in Nat
  <2> PICK c : c = vs[i].entered
    OBVIOUS
  <2>1. c \in 0..Horizon /\ c <= f
    BY <1>1, LaborAssumption
  <2> QED
    BY <1>1, <2>1, ElapsedInt
<1>3. Dwelt(vs, g, i) = f + Floor0(d - Floor0(e - p))
  BY DEF Dwelt
<1> QED
  BY <1>1, <1>2, <1>3 DEF Floor0

\* x is the probe of segment g by which completions are estimated.
Estimated(x, vs, us, g, away, ranked, S) ==
  /\ vs \in Visits /\ us \in Usage /\ WorkSpan(g) /\ EnteredBy(vs, g.from) /\ Shared(away)
  /\ S = Open(vs) /\ ranked \subseteq S /\ SoFar(x, vs, us, g, away, ranked, S, Cardinality(Items))

\* A visit with work left is due after the segment has begun.
LEMMA TouchLeft ==
  ASSUME NEW vs \in Visits, NEW us \in Usage, NEW g, WorkSpan(g), NEW away, Shared(away),
         NEW S, S = Open(vs), NEW ranked, ranked \subseteq S,
         NEW x, SoFar(x, vs, us, g, away, ranked, S, Cardinality(Items)),
         NEW i \in S, x.vs[i].left = 0
  PROVE  /\ Prior(vs, x.vs, i) \in Nat
         /\ Touched(vs, x.vs, g, away, i) \in Nat /\ g.from <= Touched(vs, x.vs, g, away, i)
         /\ vs[i].left > 0 => /\ i \in ranked /\ x.vs[i].owner \in Members
                              /\ Fraction(g, x.vs[i].owner, away) \in 1..Whole
                              /\ Touched(vs, x.vs, g, away, i) > g.from
<1> PICK v, f, m, l : v = x.vs /\ f = g.from /\ m = v[i].owner /\ l = vs[i].left
  OBVIOUS
<1> PICK gain : gain = [j \in Items |-> IF j \in Open(vs) /\ j < i /\ v[j].owner = v[i].owner
                                      THEN v[j].credited - vs[j].credited ELSE 0]
  OBVIOUS
<1> PICK p : p = Prior(vs, v, i)
  OBVIOUS
<1>1. v \in Visits /\ i \in Items /\ S \subseteq Items /\ \A j \in Items : j <= Cardinality(Items)
  BY ItemRanks DEF SoFar, Open
<1>2. \A j \in Items : gain[j] \in Nat
  <2> TAKE j \in Items
  <2>1. vs[j].credited \in Nat
    BY VisitFields
  <2>2. v[j].credited - vs[j].credited \in Nat
    <3>1. CASE j \in ranked
      <4>1. Progressed(v[j], vs[j], g, away)
        BY <1>1, <3>1 DEF SoFar
      <4> QED
        BY <4>1 DEF Progressed
    <3>2. CASE j \notin ranked
      <4>1. v[j] = vs[j]
        BY <3>2 DEF SoFar
      <4> QED
        BY <2>1, <4>1
    <3> QED
      BY <3>1, <3>2
  <2> QED
    BY <2>2
<1>3. p \in Nat
  <2>1. SumFunctionOnSet(gain, Items) \in Nat
    BY <1>2, DaysFinite, SumNat
  <2>2. DOMAIN gain = Items
    OBVIOUS
  <2> QED
    BY <2>1, <2>2 DEF Prior, SumFunction
<1>4. f \in Nat /\ l \in Nat
  BY <1>1, SpanDate, VisitFields
<1>5. CASE l = 0
  <2>1. Touched(vs, v, g, away, i) = f
    BY <1>5 DEF Touched
  <2> QED
    BY <1>3, <1>4, <1>5, <2>1
<1>6. CASE l > 0
  <2>1. i \in ranked
    <3> SUFFICES ASSUME i \notin ranked PROVE FALSE
      OBVIOUS
    <3>1. v[i] = vs[i]
      BY <1>1 DEF SoFar
    <3> QED
      BY <1>6, <3>1
  <2>2. Progressed(v[i], vs[i], g, away)
    BY <1>1, <2>1 DEF SoFar
  <2>3. v[i].credited - vs[i].credited > 0
    BY <1>4, <1>6, <2>2 DEF Progressed
  <2>4. m \in Members /\ Fraction(g, m, away) > 0
    BY <2>2, <2>3 DEF Progressed
  <2> PICK q : q = Fraction(g, m, away)
    OBVIOUS
  <2>5. q \in 0..Whole
    BY <2>4, Shares
  <2>6. q \in 1..Whole /\ q \in Nat /\ q > 0
    BY <2>4, <2>5
  <2> PICK a, b : b = p + l /\ a = b * Whole + q - 1
    OBVIOUS
  <2>7. b \in Nat /\ b > 0
    BY <1>3, <1>4, <1>6
  <2>8. b * Whole \in Nat /\ b * Whole >= Whole
    BY <2>7, WholeNat
  <2>9. a \in Nat /\ q <= a
    BY <2>6, <2>8, WholeNat
  <2>10. a \div q \in Nat /\ a \div q > 0
    BY <2>6, <2>9, QuotientPositive
  <2>11. Touched(vs, v, g, away, i) = f + a \div q
    BY <1>6 DEF Touched
  <2> QED
    BY <1>3, <1>4, <2>1, <2>4, <2>6, <2>10, <2>11
<1> QED
  BY <1>4, <1>5, <1>6

\* Estimated completions lie in the segment; one at its start has happened.
LEMMA CompletionsWithin ==
  ASSUME NEW x, NEW vs, NEW us, NEW g, NEW away, NEW ranked, NEW S,
         Estimated(x, vs, us, g, away, ranked, S), NEW t \in Completions(vs, x.vs, g, away)
  PROVE  /\ t \in g.from..g.to
         /\ t = g.from => \E i \in S : vs[i].left = 0 /\ Completed(vs[i], g.from)
<1>0. /\ vs \in Visits /\ us \in Usage /\ WorkSpan(g) /\ EnteredBy(vs, g.from) /\ Shared(away)
      /\ S = Open(vs) /\ ranked \subseteq S /\ SoFar(x, vs, us, g, away, ranked, S, Cardinality(Items))
  BY DEF Estimated
<1>1. PICK i \in S : t <= g.to /\ x.vs[i].left = 0 /\ t = Due(vs, x.vs, g, away, i)
  BY <1>0, CompletionsAre
<1> PICK a, b : a = Touched(vs, x.vs, g, away, i) /\ b = Dwelt(vs, g, i)
  OBVIOUS
<1>2. i \in Items
  BY <1>0 DEF Open
<1>3. a \in Nat /\ g.from <= a /\ (vs[i].left > 0 => a > g.from)
  BY <1>0, <1>1, TouchLeft
<1>4. b \in Nat /\ g.from <= b
      /\ (b = g.from => vs[i].dwell <= Floor0(Elapsed(vs[i].entered, g.from) - vs[i].pause))
      /\ Elapsed(vs[i].entered, g.from) \in Nat
  BY <1>0, <1>2, DwellLeft
<1>5. t = IF a <= b THEN b ELSE a
  BY <1>1, <1>3, <1>4, Later DEF Due
<1>6. g.from \in Nat /\ g.to \in Nat /\ vs[i].left \in Nat /\ vs[i].dwell \in Nat /\ vs[i].pause \in Nat
  BY <1>0, <1>2, SpanDate, VisitFields
<1>7. t \in g.from..g.to
  BY <1>1, <1>3, <1>4, <1>5, <1>6
<1>8. ASSUME t = g.from PROVE vs[i].left = 0 /\ Completed(vs[i], g.from)
  <2>1. a = g.from /\ b = g.from
    BY <1>3, <1>4, <1>5, <1>6, <1>8
  <2>2. vs[i].left = 0 /\ vs[i].dwell <= Floor0(Elapsed(vs[i].entered, g.from) - vs[i].pause)
    BY <1>3, <1>4, <1>6, <2>1
  <2>3. Floor0(Elapsed(vs[i].entered, g.from) - vs[i].pause) \in Nat
    BY <1>4, <1>6 DEF Floor0
  <2> QED
    BY <1>6, <2>2, <2>3 DEF Completed
<1> QED
  BY <1>7, <1>8
-----------------------------------------------------------------------------
(* The work from one instant to another: _advance_visits.                  *)

\* One instant of a slice: a segment is worked where one starts.
WorkStep(w, t, from, end, away, blocked) ==
  LET g == Segment(t, end, away)
      probe == AdvanceSegment(w.vs, w.us, g, away, blocked)
  IN IF ~w.cut /\ StartsSegment(t, from, away)
     THEN KeptOrCut(w, g, probe, Completions(w.vs, probe.vs, g, away), away, blocked) ELSE w

WorkState == [vs : Visits, us : Usage, end : 0..Horizon, cut : BOOLEAN]

\* Where the work w is when the instants before t are done.
AtWork(w, vs, us, from, end, away, ranked, S, t) ==
  /\ w.end \in from..end
  /\ w.cut => /\ Reached(w, vs, us, from, ranked, S, w.end)
              /\ w.end = from => \E i \in S : vs[i].left = 0 /\ Completed(vs[i], from)
  /\ ~w.cut => /\ w.end = end
               /\ \E z \in t..end : /\ Reached(w, vs, us, from, ranked, S, z)
                                    /\ z = end \/ z = from \/ Edge(z, away)
                                    /\ \A y \in t..(z - 1) : ~StartsSegment(y, from, away)

\* One segment of a slice (_advance_visits): its probe stands or it is run again.
LEMMA WorkSegment ==
  ASSUME NEW vs, NEW us, NEW from, NEW end, NEW away, NEW blocked, NEW S, NEW ranked,
         Setting(vs, us, from, end, away, blocked, S, ranked),
         NEW t \in from..(end - 1), StartsSegment(t, from, away),
         NEW w, w.cut = FALSE, w.end = end, Reached(w, vs, us, from, ranked, S, t),
         NEW x, x = WorkStep(w, t, from, end, away, blocked)
  PROVE  /\ AtWork(x, vs, us, from, end, away, ranked, S, t + 1)
         /\ x \in WorkState
<1>0. /\ vs \in Visits /\ us \in Usage /\ from \in 0..Horizon /\ end \in from..Horizon
      /\ Shared(away) /\ S = Open(vs) /\ ranked = S \ blocked /\ EnteredBy(vs, from)
  BY DEF Setting
<1> PICK g : g = Segment(t, end, away)
  OBVIOUS
<1> PICK probe : probe = AdvanceSegment(w.vs, w.us, g, away, blocked)
  OBVIOUS
<1> PICK ends : ends = Completions(w.vs, probe.vs, g, away)
  OBVIOUS
<1>1. x = KeptOrCut(w, g, probe, ends, away, blocked)
  BY DEF WorkStep
<1>2. /\ g.from = t /\ g.to \in (t + 1)..end /\ WorkSpan(g)
      /\ g.to = end \/ Edge(g.to, away)
      /\ \A y \in (t + 1)..(g.to - 1) : ~Edge(y, away)
  <2>1. from \in Nat
    BY <1>0
  <2> QED
    BY <1>0, <2>1, SegmentSpan
<1>3. from \in Nat /\ t \in Nat /\ end \in Nat /\ from <= t /\ t < end /\ Horizon \in Nat /\ end <= Horizon
  BY <1>0, LaborAssumption
<1>4. /\ SoFar(probe, w.vs, w.us, g, away, ranked, S, Cardinality(Items))
      /\ \A y : y.vs = probe.vs /\ y.us = probe.us => Reached(y, vs, us, from, ranked, S, g.to)
  BY <1>2, <1>3, ReachedSegment
<1>5. CASE ends = {}
  <2>1. x = [vs |-> probe.vs, us |-> probe.us, end |-> end, cut |-> FALSE]
    BY <1>1, <1>5 DEF KeptOrCut
  <2> PICK z : z = g.to
    OBVIOUS
  <2>2. Reached(x, vs, us, from, ranked, S, z) /\ z \in (t + 1)..end /\ (z = end \/ Edge(z, away))
    BY <1>2, <1>4, <2>1
  <2>3. \A y \in (t + 1)..(z - 1) : ~StartsSegment(y, from, away)
    <3> TAKE y \in (t + 1)..(z - 1)
    <3>1. y # from /\ ~Edge(y, away)
      BY <1>2, <1>3
    <3> QED
      BY <3>1 DEF StartsSegment
  <2>4. x.end = end /\ x.cut = FALSE /\ end \in from..end
    BY <1>3, <2>1
  <2>5. x \in WorkState
    <3>1. x.vs \in Visits /\ x.us \in Usage
      BY <2>2 DEF Reached
    <3> QED
      BY <1>3, <2>1, <3>1 DEF WorkState
  <2> QED
    BY <2>1, <2>2, <2>3, <2>4, <2>5 DEF AtWork
<1>6. CASE ends # {}
  <2> PICK e : e = Min(ends)
    OBVIOUS
  <2> PICK k : k = [from |-> t, to |-> e]
    OBVIOUS
  <2> PICK y : y = AdvanceSegment(w.vs, w.us, k, away, blocked)
    OBVIOUS
  <2>1. x = [vs |-> y.vs, us |-> y.us, end |-> e, cut |-> TRUE]
    BY <1>1, <1>2, <1>6 DEF KeptOrCut, Stopped
  <2>2. w.vs \in Visits /\ w.us \in Usage /\ (\A i \in Items : Fixed(w.vs[i], vs[i]))
    BY DEF Reached
  <2>3. S = Open(w.vs) /\ ranked \subseteq S
    BY <1>0, <2>2, OpenFixed
  <2>4. EnteredBy(w.vs, g.from)
    <3> SUFFICES ASSUME NEW i \in Items PROVE w.vs[i].entered <= g.from
      BY DEF EnteredBy
    <3>1. w.vs[i].entered = vs[i].entered /\ vs[i].entered <= from /\ vs[i].entered \in Nat
      BY <1>0, <2>2, VisitFields DEF Fixed, EnteredBy
    <3> QED
      BY <1>2, <1>3, <3>1
  <2>5. \A c \in ends : /\ c \in g.from..g.to
                        /\ c = g.from => \E i \in S : w.vs[i].left = 0 /\ Completed(w.vs[i], g.from)
    <3> TAKE c \in ends
    <3>1. Estimated(probe, w.vs, w.us, g, away, ranked, S)
      BY <1>0, <1>2, <1>4, <2>2, <2>3, <2>4 DEF Estimated
    <3>2. c \in Completions(w.vs, probe.vs, g, away)
      OBVIOUS
    <3> QED
      BY <3>1, <3>2, CompletionsWithin
  <2>6. ends \in SUBSET Nat
    BY <1>2, <1>3, <2>5
  <2>7. e \in ends
    BY <1>6, <2>6, LeastIsMin
  <2>8. e \in t..g.to /\ e \in from..end /\ e \in Nat /\ e <= end
    BY <1>2, <1>3, <2>5, <2>7
  <2>9. WorkSpan(k) /\ k.from = t /\ k.to = e
    <3>1. \A u \in t..(g.to - 1) : Works(u) /\ DateOf(u) = DateOf(t)
      BY <1>2 DEF WorkSpan
    <3>2. g.to \in Nat /\ e \in t..Horizon /\ \A u \in t..(e - 1) : u \in t..(g.to - 1)
      BY <1>2, <1>3, <2>8
    <3> QED
      BY <1>3, <3>1, <3>2 DEF WorkSpan
  <2>10. \A c : c.vs = y.vs /\ c.us = y.us => Reached(c, vs, us, from, ranked, S, k.to)
    <3>1. from <= k.from /\ Reached(w, vs, us, from, ranked, S, k.from)
      BY <1>3, <2>9
    <3> QED
      BY <2>9, <3>1, ReachedSegment
  <2>11. Reached(x, vs, us, from, ranked, S, e) /\ x.end = e /\ x.cut = TRUE
    <3>1. x.vs = y.vs /\ x.us = y.us /\ x.end = e /\ x.cut = TRUE
      BY <2>1
    <3>2. Reached(x, vs, us, from, ranked, S, k.to)
      BY <2>10, <3>1
    <3> QED
      BY <2>9, <3>1, <3>2
  <2>12. ASSUME e = from PROVE \E i \in S : vs[i].left = 0 /\ Completed(vs[i], from)
    <3>1. t = from
      BY <1>3, <2>8, <2>12
    <3>2. PICK i \in S : w.vs[i].left = 0 /\ Completed(w.vs[i], from)
      BY <1>2, <2>5, <2>7, <2>12, <3>1
    <3>3. i \in Items /\ Fixed(w.vs[i], vs[i])
      BY <1>0, <2>2 DEF Open
    <3>4. vs[i].left = 0
      <4>1. CASE i \notin ranked
        <5>1. w.vs[i] = vs[i]
          BY <3>3, <4>1 DEF Reached
        <5> QED
          BY <3>2, <5>1
      <4>2. CASE i \in ranked
        <5>1. /\ vs[i].credited <= w.vs[i].credited
              /\ w.vs[i].credited - vs[i].credited <= Elapsed(from, from)
              /\ w.vs[i].left = vs[i].left - (w.vs[i].credited - vs[i].credited)
          BY <3>1, <4>2 DEF Reached
        <5>2. Elapsed(from, from) = 0
          BY <1>0, ElapsedInt
        <5>3. vs[i].credited \in Nat /\ w.vs[i].credited \in Nat /\ vs[i].left \in Nat
          BY <1>0, <2>2, <3>3, VisitFields
        <5> QED
          BY <3>2, <5>1, <5>2, <5>3
      <4> QED
        BY <4>1, <4>2
    <3>5. Completed(vs[i], from)
      BY <3>2, <3>3, <3>4 DEF Completed, Fixed
    <3> QED
      BY <3>4, <3>5
  <2>13. x \in WorkState
    <3>1. x.vs \in Visits /\ x.us \in Usage
      BY <2>11 DEF Reached
    <3> QED
      BY <1>3, <2>1, <2>8, <3>1 DEF WorkState
  <2> QED
    BY <2>1, <2>8, <2>11, <2>12, <2>13 DEF AtWork
<1> QED
  BY <1>5, <1>6

\* An instant of a slice, whether a segment starts there or not.
LEMMA WorkGoesOn ==
  ASSUME NEW vs, NEW us, NEW from, NEW end, NEW away, NEW blocked, NEW S, NEW ranked,
         Setting(vs, us, from, end, away, blocked, S, ranked),
         NEW t \in from..(end - 1),
         NEW w, w \in WorkState, AtWork(w, vs, us, from, end, away, ranked, S, t),
         NEW x, x = WorkStep(w, t, from, end, away, blocked)
  PROVE  /\ AtWork(x, vs, us, from, end, away, ranked, S, t + 1)
         /\ x \in WorkState
<1>0. /\ vs \in Visits /\ us \in Usage /\ from \in 0..Horizon /\ end \in from..Horizon
      /\ Shared(away) /\ S = Open(vs) /\ ranked = S \ blocked /\ EnteredBy(vs, from)
  BY DEF Setting
<1>1. from \in Nat /\ t \in Nat /\ end \in Nat /\ from <= t /\ t < end /\ Horizon \in Nat /\ end <= Horizon
  BY <1>0, LaborAssumption
<1>2. CASE w.cut
  <2>1. x = w
    BY <1>2 DEF WorkStep
  <2> QED
    BY <1>2, <2>1 DEF AtWork
<1>3. CASE ~w.cut
  <2>1. PICK z \in t..end : /\ Reached(w, vs, us, from, ranked, S, z)
                            /\ z = end \/ z = from \/ Edge(z, away)
                            /\ \A y \in t..(z - 1) : ~StartsSegment(y, from, away)
    BY <1>3 DEF AtWork
  <2>2. w.cut = FALSE /\ w.end = end
    BY <1>3 DEF AtWork, WorkState
  <2>3. CASE StartsSegment(t, from, away)
    <3>1. z = t
      <4>1. ~(t \in t..(z - 1))
        BY <2>1, <2>3
      <4> QED
        BY <1>1, <4>1
    <3>2. Reached(w, vs, us, from, ranked, S, t)
      BY <2>1, <3>1
    <3>3. AtWork(x, vs, us, from, end, away, ranked, S, t + 1)
      BY <2>2, <2>3, <3>2, WorkSegment
    <3>4. x \in WorkState
      BY <2>2, <2>3, <3>2, WorkSegment
    <3> QED
      BY <3>3, <3>4
  <2>4. CASE ~StartsSegment(t, from, away)
    <3>1. x = w
      BY <2>4 DEF WorkStep
    <3>2. CASE z # t
      <4>1. z \in (t + 1)..end /\ \A y \in (t + 1)..(z - 1) : y \in t..(z - 1)
        BY <1>1, <3>2
      <4>2. AtWork(w, vs, us, from, end, away, ranked, S, t + 1)
        BY <1>1, <2>1, <2>2, <4>1 DEF AtWork
      <4> QED
        BY <3>1, <4>2
    <3>3. CASE z = t
      <4>1. ~Works(t)
        BY <1>1, <2>1, <2>4, <3>3 DEF StartsSegment
      <4> PICK y : y = t + 1
        OBVIOUS
      <4>2. Reached(w, vs, us, from, ranked, S, y)
        <5>1. t \in from..(Horizon - 1)
          BY <1>1
        <5> QED
          BY <1>0, <2>1, <3>3, <4>1, <5>1, ReachedIdle
      <4>3. Edge(y, away)
        <5>1. y - 1 = t
          BY <1>1
        <5> QED
          BY <4>1, <5>1 DEF Edge, WorkdayStart
      <4>4. y \in (t + 1)..end /\ (t + 1)..(y - 1) = {}
        BY <1>1
      <4>5. AtWork(w, vs, us, from, end, away, ranked, S, t + 1)
        BY <1>1, <2>2, <4>2, <4>3, <4>4 DEF AtWork
      <4> QED
        BY <3>1, <4>5
    <3> QED
      BY <3>2, <3>3
  <2> QED
    BY <2>3, <2>4
<1> QED
  BY <1>2, <1>3

\* h has the work of a slice at every instant.
Working(h, vs, us, from, end, away, blocked) ==
  /\ h[from] = [vs |-> vs, us |-> us, end |-> end, cut |-> FALSE]
  /\ \A t \in from..(end - 1) : h[t + 1] = WorkStep(h[t], t, from, end, away, blocked)

\* The work of a slice exists, and at each of its instants it is accounted for.
LEMMA WorkDone ==
  ASSUME NEW vs, NEW us, NEW from, NEW end, NEW away, NEW blocked, NEW S, NEW ranked,
         Setting(vs, us, from, end, away, blocked, S, ranked), UsageBounded(us, from)
  PROVE  \E h : /\ Working(h, vs, us, from, end, away, blocked)
                /\ \A t \in from..end : h[t] \in WorkState /\ AtWork(h[t], vs, us, from, end, away, ranked, S, t)
                /\ AdvanceVisits(vs, us, from, end, away, blocked) = Finished(h[end])
<1> PICK o : o = [vs |-> vs, us |-> us, end |-> end, cut |-> FALSE]
  OBVIOUS
<1> DEFINE Is(h) == h = [t \in from..end |->
                           IF t = from THEN o
                           ELSE IF ~h[t - 1].cut /\ StartsSegment(t - 1, from, away)
                                THEN KeptOrCut(h[t - 1], Segment(t - 1, end, away),
                                       AdvanceSegment(h[t - 1].vs, h[t - 1].us, Segment(t - 1, end, away), away, blocked),
                                       Completions(h[t - 1].vs,
                                         AdvanceSegment(h[t - 1].vs, h[t - 1].us, Segment(t - 1, end, away), away, blocked).vs,
                                         Segment(t - 1, end, away), away),
                                       away, blocked)
                                ELSE h[t - 1]]
           T == [t \in from..end |-> {w \in WorkState : AtWork(w, vs, us, from, end, away, ranked, S, t)}]
           F == [t \in from..(end - 1) |-> [w \in WorkState |-> WorkStep(w, t, from, end, away, blocked)]]
<1>0. /\ vs \in Visits /\ us \in Usage /\ from \in 0..Horizon /\ end \in from..Horizon
      /\ Shared(away) /\ S = Open(vs) /\ ranked = S \ blocked /\ EnteredBy(vs, from)
  BY DEF Setting
<1>1. AdvanceVisits(vs, us, from, end, away, blocked) = Finished((CHOOSE h : Is(h))[end])
  BY DEF AdvanceVisits
<1>2. from \in Nat /\ end \in Nat /\ from <= end /\ from \in from..end /\ end \in from..end /\ end \in 0..Horizon
  BY <1>0, LaborAssumption
<1>3. \A t \in from..(end - 1), w \in WorkState : F[t][w] = WorkStep(w, t, from, end, away, blocked)
  OBVIOUS
<1>4. o \in T[from]
  <2>1. o \in WorkState
    BY <1>0, <1>2 DEF WorkState
  <2>2. Reached(o, vs, us, from, ranked, S, from)
    <3>1. Elapsed(from, from) = 0
      BY <1>0, ElapsedInt
    <3>2. \A i \in ranked : i \in Items
      BY <1>0 DEF Open
    <3>3. \A i \in Items : vs[i].credited \in Nat /\ vs[i].left \in Nat /\ vs[i].queue \in Nat
      BY <1>0, VisitFields
    <3> QED
      BY <1>0, <3>1, <3>2, <3>3 DEF Reached, Fixed
  <2>3. ~o.cut /\ o.end = end /\ end \in from..end /\ from \in from..end
    BY <1>2
  <2>4. \A y \in from..(from - 1) : ~StartsSegment(y, from, away)
    BY <1>2
  <2>5. AtWork(o, vs, us, from, end, away, ranked, S, from)
    BY <2>2, <2>3, <2>4 DEF AtWork
  <2> QED
    BY <1>2, <2>1, <2>5
<1>5. ASSUME NEW t \in from..(end - 1), NEW w \in T[t] PROVE F[t][w] \in T[t + 1]
  <2>1. w \in WorkState /\ AtWork(w, vs, us, from, end, away, ranked, S, t) /\ t + 1 \in from..end
    BY <1>2
  <2> PICK x : x = WorkStep(w, t, from, end, away, blocked)
    OBVIOUS
  <2>2. x \in WorkState /\ AtWork(x, vs, us, from, end, away, ranked, S, t + 1)
    BY <2>1, WorkGoesOn
  <2> QED
    BY <1>3, <2>1, <2>2
<1>6. ClosedUnder(F, from, end, T)
  <2> HIDE DEF F, T
  <2> QED
    BY <1>5 DEF ClosedUnder
<1>7. PICK f : f = [t \in from..end |-> f[t]] /\ Runs(f, F, from, end, o)
  <2> HIDE DEF F, T, Is
  <2> QED
    BY <1>2, Recursion
<1>8. \A t \in from..end : f[t] \in T[t]
  <2> HIDE DEF F, T, Is
  <2> QED
    BY <1>2, <1>4, <1>6, <1>7, RunsWithin
<1>9. \A t \in from..end : f[t] \in WorkState /\ AtWork(f[t], vs, us, from, end, away, ranked, S, t)
  BY <1>8
<1> HIDE DEF F, T
<1>10. \A t \in from..(end - 1) : f[t + 1] = WorkStep(f[t], t, from, end, away, blocked)
  <2> TAKE t \in from..(end - 1)
  <2>1. t \in from..end
    BY <1>2
  <2> HIDE DEF Is
  <2> QED
    BY <1>3, <1>7, <1>9, <2>1 DEF Runs
<1>11. Is(f)
  <2>1. ASSUME NEW t \in from..end, t # from
        PROVE f[t] = IF ~f[t - 1].cut /\ StartsSegment(t - 1, from, away)
                     THEN KeptOrCut(f[t - 1], Segment(t - 1, end, away),
                            AdvanceSegment(f[t - 1].vs, f[t - 1].us, Segment(t - 1, end, away), away, blocked),
                            Completions(f[t - 1].vs,
                              AdvanceSegment(f[t - 1].vs, f[t - 1].us, Segment(t - 1, end, away), away, blocked).vs,
                              Segment(t - 1, end, away), away),
                            away, blocked)
                     ELSE f[t - 1]
    <3> PICK k : k = t - 1
      OBVIOUS
    <3>1. k \in from..(end - 1) /\ k + 1 = t
      BY <1>2, <2>1
    <3>2. f[t] = WorkStep(f[k], k, from, end, away, blocked)
      BY <1>10, <3>1
    <3> QED
      BY <3>2 DEF WorkStep
  <2>2. f[from] = o
    BY <1>7 DEF Runs
  <2> QED
    BY <1>7, <2>1, <2>2
<1> PICK h : h = CHOOSE j : Is(j)
  OBVIOUS
<1>12. Is(h)
  <2> HIDE DEF Is
  <2> QED
    BY <1>11
<1> DEFINE E == {t \in from..end : h[t] = f[t]}
<1>13. from \in E
  BY <1>2, <1>11, <1>12
<1>14. ASSUME NEW t \in from..(end - 1), t \in E PROVE t + 1 \in E
  <2>1. t + 1 \in from..end /\ t + 1 # from /\ (t + 1) - 1 = t
    BY <1>2
  <2>2. h[t + 1] = WorkStep(h[t], t, from, end, away, blocked)
    <3> PICK k : k = t + 1
      OBVIOUS
    <3>1. k \in from..end /\ k # from /\ k - 1 = t
      BY <2>1
    <3>2. h[k] = WorkStep(h[k - 1], k - 1, from, end, away, blocked)
      BY <1>12, <3>1, ZenonT(60) DEF WorkStep
    <3> QED
      BY <3>1, <3>2
  <2>3. f[t + 1] = WorkStep(f[t], t, from, end, away, blocked)
    BY <1>10
  <2> QED
    BY <1>14, <2>1, <2>2, <2>3
<1> HIDE DEF E, Is
<1>15. end \in E
  <2>1. \A t \in from..end : t \in E
    BY <1>2, <1>13, <1>14, FromUpTo
  <2> QED
    BY <1>2, <2>1
<1>16. h[end] = f[end] /\ f[from] = o
  BY <1>7, <1>15 DEF E, Runs
<1> QED
  BY <1>1, <1>9, <1>10, <1>16 DEF Working

\* What _advance_visits gives.
LEMMA SliceWorked ==
  ASSUME NEW vs, NEW us, NEW from, NEW end, NEW away, NEW blocked, NEW S, NEW ranked,
         Setting(vs, us, from, end, away, blocked, S, ranked), UsageBounded(us, from),
         NEW r, r = AdvanceVisits(vs, us, from, end, away, blocked)
  PROVE  /\ r.end \in from..end /\ Reached(r, vs, us, from, ranked, S, r.end)
         /\ r.closed = {i \in S : Completed(r.vs[i], r.end)}
         /\ r.end = from /\ from < end => \E i \in S : vs[i].left = 0 /\ Completed(vs[i], from)
<1>0. /\ from \in 0..Horizon /\ end \in from..Horizon /\ S = Open(vs)
  BY DEF Setting
<1>1. PICK h : /\ \A t \in from..end : h[t] \in WorkState /\ AtWork(h[t], vs, us, from, end, away, ranked, S, t)
               /\ AdvanceVisits(vs, us, from, end, away, blocked) = Finished(h[end])
  BY WorkDone
<1> PICK w : w = h[end]
  OBVIOUS
<1>2. end \in from..end /\ end \in Nat /\ from \in Nat
  BY <1>0, LaborAssumption
<1>3. w \in WorkState /\ AtWork(w, vs, us, from, end, away, ranked, S, end)
  BY <1>1, <1>2
<1>4. r.vs = w.vs /\ r.us = w.us /\ r.end = w.end /\ r.closed = {i \in Open(w.vs) : Completed(w.vs[i], w.end)}
  BY <1>1 DEF Finished
<1>5. Reached(w, vs, us, from, ranked, S, w.end) /\ w.end \in from..end
      /\ (w.end = from /\ from < end => \E i \in S : vs[i].left = 0 /\ Completed(vs[i], from))
  <2>1. CASE w.cut
    BY <1>3, <2>1 DEF AtWork
  <2>2. CASE ~w.cut
    <3>1. w.end = end
      BY <1>3, <2>2 DEF AtWork
    <3>2. PICK z \in end..end : Reached(w, vs, us, from, ranked, S, z)
      BY <1>3, <2>2 DEF AtWork
    <3>3. z = end
      BY <1>2
    <3> QED
      BY <1>2, <3>1, <3>2, <3>3
  <2> QED
    BY <2>1, <2>2
<1>6. Open(w.vs) = S
  BY <1>0, <1>5, OpenFixed DEF Reached
<1>7. Reached(r, vs, us, from, ranked, S, r.end)
  BY <1>4, <1>5 DEF Reached
<1> QED
  BY <1>4, <1>5, <1>6, <1>7
-----------------------------------------------------------------------------
(* The slice that stands: _risk_aware_advance.                             *)

\* f starts over from the shorter end to[e] until an end stands.
StartsOver(f, to, val, a, n) ==
  \A e \in a..n : f[e] = IF to[e] < e THEN f[to[e]] ELSE val[e]

\* x is the value of an end k that stands: the first one or one started over from.
Stands(x, to, val, a, n) ==
  \E k \in a..n : x = val[k] /\ to[k] = k /\ (k = n \/ \E j \in (k + 1)..n : to[j] = k)

\* Starting over at ever shorter ends comes to one that stands.
LEMMA RestartsEnd ==
  ASSUME NEW a \in Nat, NEW n \in Nat, a <= n, NEW to, \A e \in a..n : to[e] \in a..e, NEW val,
         NEW f, StartsOver(f, to, val, a, n)
  PROVE  Stands(f[n], to, val, a, n)
<1> DEFINE P(e) == \E k \in a..e : f[e] = val[k] /\ to[k] = k /\ (k = e \/ \E j \in (k + 1)..e : to[j] = k)
           S == {m \in a..n : \A e \in a..m : P(e)}
<1>1. ASSUME NEW m \in a..n, \A e \in a..(m - 1) : P(e) PROVE P(m)
  <2>1. to[m] \in a..m /\ f[m] = IF to[m] < m THEN f[to[m]] ELSE val[m]
    BY DEF StartsOver
  <2>2. CASE to[m] < m
    <3> PICK e : e = to[m]
      OBVIOUS
    <3>1. e \in a..(m - 1) /\ f[m] = f[e]
      BY <2>1, <2>2
    <3>2. PICK k \in a..e : f[e] = val[k] /\ to[k] = k /\ (k = e \/ \E j \in (k + 1)..e : to[j] = k)
      BY <1>1, <3>1
    <3>3. \E j \in (k + 1)..m : to[j] = k
      <4>1. CASE k = e
        <5>1. m \in (k + 1)..m /\ to[m] = k
          BY <3>1, <4>1
        <5> QED
          BY <5>1
      <4>2. CASE k # e
        <5>1. PICK j \in (k + 1)..e : to[j] = k
          BY <3>2, <4>2
        <5>2. j \in (k + 1)..m
          BY <3>1
        <5> QED
          BY <5>1, <5>2
      <4> QED
        BY <4>1, <4>2
    <3>4. k \in a..m /\ f[m] = val[k]
      BY <3>1, <3>2
    <3> QED
      BY <3>2, <3>3, <3>4
  <2>3. CASE ~(to[m] < m)
    <3>1. to[m] = m /\ f[m] = val[m] /\ m \in a..m
      BY <2>1, <2>3
    <3> QED
      BY <3>1
  <2> QED
    BY <2>2, <2>3
<1>2. a \in S
  <2>1. \A e \in a..(a - 1) : P(e)
    OBVIOUS
  <2>2. a \in a..n /\ \A e \in a..a : e = a
    OBVIOUS
  <2> HIDE DEF P
  <2>3. P(a)
    BY <1>1, <2>1, <2>2
  <2> QED
    BY <2>2, <2>3
<1>3. ASSUME NEW m \in a..(n - 1), m \in S PROVE m + 1 \in S
  <2> HIDE DEF P
  <2>1. m + 1 \in a..n /\ a..((m + 1) - 1) = a..m
    OBVIOUS
  <2>2. \A e \in a..m : P(e)
    BY <1>3
  <2>3. P(m + 1)
    BY <1>1, <2>1, <2>2
  <2>4. \A e \in a..(m + 1) : e = m + 1 \/ e \in a..m
    OBVIOUS
  <2> QED
    BY <2>1, <2>2, <2>3, <2>4
<1> HIDE DEF S, P
<1>4. n \in S
  <2>1. \A m \in a..n : m \in S
    BY <1>2, <1>3, FromUpTo
  <2> QED
    BY <2>1
<1>5. P(n)
  BY <1>4 DEF S
<1> QED
  BY <1>5 DEF P, Stands

\* Starting over is well defined: each end depends on shorter ones only.
LEMMA RestartsExist ==
  ASSUME NEW a \in Nat, NEW n \in Nat, a <= n, NEW to, \A e \in a..n : to[e] \in a..e, NEW val
  PROVE  \E f : f = [e \in a..n |-> f[e]] /\ StartsOver(f, to, val, a, n)
<1> DEFINE S == {m \in a..n : \E f : f = [e \in a..m |-> f[e]] /\ StartsOver(f, to, val, a, m)}
<1>1. a \in S
  <2> DEFINE f == [e \in a..a |-> val[e]]
  <2>1. \A e \in a..a : e \in a..n /\ e = a
    OBVIOUS
  <2>2. ~(to[a] < a)
    OBVIOUS
  <2>3. f = [e \in a..a |-> f[e]] /\ f[a] = val[a]
    OBVIOUS
  <2> HIDE DEF f
  <2>4. StartsOver(f, to, val, a, a)
    BY <2>1, <2>2, <2>3 DEF StartsOver
  <2> QED
    BY <2>3, <2>4
<1>2. ASSUME NEW m \in a..(n - 1), m \in S PROVE m + 1 \in S
  <2>1. PICK f : f = [e \in a..m |-> f[e]] /\ StartsOver(f, to, val, a, m)
    BY <1>2
  <2> PICK k : k = m + 1
    OBVIOUS
  <2> DEFINE y == IF to[k] < k THEN f[to[k]] ELSE val[k]
             h == [e \in a..k |-> IF e = k THEN y ELSE f[e]]
  <2>2. h = [e \in a..k |-> h[e]]
    OBVIOUS
  <2>3. k \in a..n /\ to[k] \in a..k /\ \A e \in a..k : e = k \/ e \in a..m
    OBVIOUS
  <2>4. h[k] = y /\ \A e \in a..m : h[e] = f[e] /\ to[e] \in a..m /\ e \in a..k
    OBVIOUS
  <2> HIDE DEF h
  <2>5. h[k] = IF to[k] < k THEN h[to[k]] ELSE val[k]
    <3>1. to[k] < k => to[k] \in a..m
      BY <2>3
    <3> QED
      BY <2>4, <3>1
  <2> HIDE DEF y
  <2>6. \A e \in a..m : h[e] = IF to[e] < e THEN h[to[e]] ELSE val[e]
    <3> TAKE e \in a..m
    <3>1. f[e] = IF to[e] < e THEN f[to[e]] ELSE val[e]
      BY <2>1 DEF StartsOver
    <3> QED
      BY <2>4, <3>1
  <2>7. StartsOver(h, to, val, a, k)
    BY <2>3, <2>5, <2>6 DEF StartsOver
  <2> QED
    BY <2>2, <2>3, <2>7
<1> HIDE DEF S
<1>3. n \in S
  <2>1. \A m \in a..n : m \in S
    BY <1>1, <1>2, FromUpTo
  <2> QED
    BY <2>1
<1> QED
  BY <1>3 DEF S

\* What _advance_for_risks works with for a slice that is to end at e.
Paused(e, D) == [i \in Items |-> IF i \in Dependent(e, D) THEN PausedVisit(visit[i], e) ELSE visit[i]]
Over(e, L) == leaves \cup Overlays(e, L)
Tried(e, D, L) == AdvanceVisits(Paused(e, D), used, sim, e, Absence \cup Over(e, L), Dependent(e, D))
Kept(e, D, L) == Watched(Tried(e, D, L), IF LongStayFirst THEN visit ELSE Paused(e, D), Over(e, L))

LaborTypes ==
  /\ sim \in 0..Horizon /\ visit \in Visits /\ used \in Usage
  /\ Left(leaves) /\ EnteredBy(visit, sim) /\ slice.labor \in Nat

\* _paused_visit
LEMMA VisitPaused ==
  ASSUME LaborTypes, NEW e \in sim..Horizon, NEW D, NEW i \in Items, NEW v, v = Paused(e, D)[i]
  PROVE  /\ v \in VisitState
         /\ v.step = visit[i].step /\ v.entered = visit[i].entered /\ v.touch = visit[i].touch
         /\ v.dwell = visit[i].dwell /\ v.left = visit[i].left /\ v.credited = visit[i].credited
         /\ v.stays = visit[i].stays /\ v.open = visit[i].open /\ visit[i].pause <= v.pause
         /\ i \notin Dependent(e, D) => v = visit[i]
         /\ i \in Dependent(e, D) =>
              /\ sim < e /\ visit[i].pause < Wait /\ v.pause > 0
              /\ v.pause = IF Wait - visit[i].pause <= e - sim THEN Wait ELSE visit[i].pause + (e - sim)
<1> PICK u : u = visit[i]
  OBVIOUS
<1>1. u \in VisitState /\ u.pause \in Nat /\ u.queue \in Nat /\ sim \in Nat /\ e \in Nat /\ sim <= e /\ Wait \in Nat
  BY VisitFields, LaborAssumption DEF LaborTypes
<1>2. CASE i \notin Dependent(e, D)
  <2>1. v = u
    BY <1>2 DEF Paused
  <2> QED
    BY <1>1, <1>2, <2>1
<1>3. CASE i \in Dependent(e, D)
  <2>1. sim < e /\ u.pause < Wait
    BY <1>3 DEF Dependent
  <2> PICK p, q : p = Wait - u.pause /\ q = e - sim
    OBVIOUS
  <2>2. p \in Nat /\ q \in Nat /\ p > 0 /\ q > 0
    BY <1>1, <2>1
  <2> PICK d : d = Min({p, q})
    OBVIOUS
  <2>3. d = IF p <= q THEN p ELSE q
    BY <2>2, Lesser
  <2>4. v = [u EXCEPT !.owner = 0, !.queue = @ + d, !.pause = @ + d]
    BY <1>3 DEF Paused, PausedVisit
  <2>5. d \in Nat /\ u.queue + d \in Nat /\ u.pause + d \in Nat
    <3>1. d \in Nat
      BY <2>2, <2>3
    <3> QED
      BY <1>1, <3>1
  <2>6. /\ v \in VisitState /\ v.pause = u.pause + d
        /\ v.step = u.step /\ v.entered = u.entered /\ v.touch = u.touch /\ v.dwell = u.dwell
        /\ v.left = u.left /\ v.credited = u.credited /\ v.stays = u.stays /\ v.open = u.open
    BY <1>1, <2>4, <2>5 DEF VisitState
  <2>7. v.pause = (IF p <= q THEN Wait ELSE u.pause + q) /\ v.pause > 0 /\ u.pause <= v.pause
    BY <1>1, <2>2, <2>3, <2>6
  <2> QED
    BY <1>3, <2>1, <2>6, <2>7
<1> QED
  BY <1>2, <1>3

\* The pauses of dependency waits leave a setting for the work of the slice.
LEMMA RiskSetting ==
  ASSUME LaborTypes, NEW e \in sim..Horizon, NEW D, NEW L,
         NEW S, S = Open(visit), NEW blocked, blocked = Dependent(e, D), NEW ranked, ranked = S \ blocked
  PROVE  /\ Setting(Paused(e, D), used, sim, e, Absence \cup Over(e, L), blocked, S, ranked)
         /\ Paused(e, D) \in Visits /\ LaborOf(Paused(e, D), S) = LaborOf(visit, S)
<1> PICK p : p = Paused(e, D)
  OBVIOUS
<1>1. \A i \in Items : /\ p[i] \in VisitState /\ p[i].entered = visit[i].entered /\ p[i].open = visit[i].open
                       /\ p[i].credited = visit[i].credited
  BY VisitPaused
<1>2. p \in Visits
  <2>1. p = [i \in Items |-> p[i]]
    BY DEF Paused
  <2> QED
    BY <1>1, <2>1 DEF Visits
<1>3. S = Open(p) /\ S \subseteq Items
  BY <1>1 DEF Open
<1>4. EnteredBy(p, sim)
  BY <1>1 DEF EnteredBy, LaborTypes
<1>5. Shared(Absence \cup Over(e, L))
  <2> SUFFICES ASSUME NEW a \in Absence \cup Over(e, L) PROVE a.part \in 0..Whole /\ a.cap \in Nat
    BY DEF Shared
  <2>1. CASE a \in Absence
    BY <2>1, LaborAssumption
  <2>2. CASE a \in leaves
    <3>1. a.part = 0 /\ a.cap = 0
      BY <2>2 DEF LaborTypes, Left
    <3> QED
      BY <3>1, WholeNat
  <2>3. CASE a \in Overlays(e, L)
    <3>1. a.part = 0 /\ a.cap = 0
      BY <2>3 DEF Overlays
    <3> QED
      BY <3>1, WholeNat
  <2> QED
    BY <2>1, <2>2, <2>3 DEF Over
<1>6. LaborOf(p, S) = LaborOf(visit, S)
  <2>1. \A i \in S : p[i].credited = visit[i].credited
    BY <1>1, <1>3
  <2> QED
    BY <1>3, <2>1, LaborSame
<1> QED
  BY <1>2, <1>3, <1>4, <1>5, <1>6 DEF Setting, LaborTypes

\* The slice stands at an end that its own risks do not shorten; it is the limit, or
\* the work of a longer slice ended there.
LEMMA RiskAware ==
  ASSUME LaborTypes, UsageBounded(used, sim), NEW limit \in (sim + 1)..Horizon, NEW D, NEW L
  PROVE  \E e \in sim..limit : /\ RiskAwareAdvance(limit, D, L) = Kept(e, D, L)
                               /\ Tried(e, D, L).end = e
                               /\ e = limit \/ \E j \in (e + 1)..limit : Tried(j, D, L).end = e
<1> DEFINE Is(h) == h = [e \in sim..limit |-> IF Tried(e, D, L).end < e THEN h[Tried(e, D, L).end]
                                              ELSE Kept(e, D, L)]
           to == [e \in sim..limit |-> Tried(e, D, L).end]
           val == [e \in sim..limit |-> Kept(e, D, L)]
<1>1. RiskAwareAdvance(limit, D, L) = (CHOOSE h : Is(h))[limit]
  BY DEF RiskAwareAdvance, Tried, Kept, Paused, Over, Updated
<1>2. sim \in Nat /\ limit \in Nat /\ sim <= limit /\ sim \in 0..Horizon /\ limit <= Horizon /\ sim < limit
  BY LaborAssumption DEF LaborTypes
<1>3. \A e \in sim..limit : to[e] = Tried(e, D, L).end /\ val[e] = Kept(e, D, L)
  OBVIOUS
<1>4. ASSUME NEW e \in sim..limit PROVE to[e] \in sim..e
  <2>1. e \in sim..Horizon
    BY <1>2, LaborAssumption
  <2> PICK S, blocked : S = Open(visit) /\ blocked = Dependent(e, D)
    OBVIOUS
  <2> PICK ranked : ranked = S \ blocked
    OBVIOUS
  <2>2. Setting(Paused(e, D), used, sim, e, Absence \cup Over(e, L), blocked, S, ranked)
    BY <2>1, RiskSetting
  <2>3. Tried(e, D, L) = AdvanceVisits(Paused(e, D), used, sim, e, Absence \cup Over(e, L), blocked)
    BY DEF Tried
  <2>4. Tried(e, D, L).end \in sim..e
    BY <2>2, <2>3, SliceWorked
  <2> QED
    BY <1>3, <2>4
<1>5. \E f : f = [e \in sim..limit |-> f[e]] /\ StartsOver(f, to, val, sim, limit)
  <2> HIDE DEF to, val
  <2> QED
    BY <1>2, <1>4, RestartsExist
<1>6. PICK f : f = [e \in sim..limit |-> f[e]] /\ StartsOver(f, to, val, sim, limit)
  BY <1>5
<1>7. Is(f)
  <2> HIDE DEF to, val
  <2>1. \A e \in sim..limit : f[e] = IF Tried(e, D, L).end < e THEN f[Tried(e, D, L).end] ELSE Kept(e, D, L)
    BY <1>3, <1>6 DEF StartsOver
  <2> QED
    BY <1>6, <2>1
<1> PICK h : h = CHOOSE j : Is(j)
  OBVIOUS
<1>8. Is(h)
  <2> HIDE DEF Is, to, val
  <2> QED
    BY <1>7
<1>9. StartsOver(h, to, val, sim, limit)
  <2> HIDE DEF to, val
  <2>1. \A e \in sim..limit : h[e] = IF Tried(e, D, L).end < e THEN h[Tried(e, D, L).end] ELSE Kept(e, D, L)
    BY <1>8
  <2> QED
    BY <1>3, <2>1 DEF StartsOver
<1> HIDE DEF to, val, Is
<1>10. PICK k \in sim..limit : /\ h[limit] = val[k] /\ to[k] = k
                               /\ k = limit \/ \E j \in (k + 1)..limit : to[j] = k
  <2>1. Stands(h[limit], to, val, sim, limit)
    BY <1>2, <1>4, <1>9, RestartsEnd
  <2> QED
    BY <2>1 DEF Stands
<1>11. k = limit \/ \E j \in (k + 1)..limit : Tried(j, D, L).end = k
  <2>1. \A j \in (k + 1)..limit : j \in sim..limit
    BY <1>2
  <2> QED
    BY <1>3, <1>10, <2>1
<1> QED
  BY <1>1, <1>3, <1>10, <1>11
-----------------------------------------------------------------------------
(* One tick.                                                               *)

\* The inductive invariant.
LaborInv ==
  /\ LaborTypes /\ UsageBounded(used, sim)
  /\ Total(used) = LaborOf(visit, Open(visit)) + slice.labor
  /\ VisitTimeAccounted

\* The result r of a slice whose end e stands.
Slice(r, e, D, L) ==
  /\ r.end = e /\ r.vs \in Visits /\ r.us \in Usage /\ Left(r.leaves)
  /\ \A i \in Items :
       /\ r.vs[i].step = visit[i].step /\ r.vs[i].entered = visit[i].entered /\ r.vs[i].touch = visit[i].touch
       /\ r.vs[i].dwell = visit[i].dwell /\ r.vs[i].open = visit[i].open
       /\ r.vs[i].pause = Paused(e, D)[i].pause
       /\ visit[i].left = 0 => r.vs[i].left = 0
  /\ \A i \in Open(visit) :
       r.vs[i].stays = visit[i].stays
         + (IF Crossed(IF LongStayFirst THEN visit[i] ELSE Paused(e, D)[i], e) THEN 1 ELSE 0)
  /\ r.closed = {i \in Open(visit) : Completed(r.vs[i], e)}
  /\ UsageBounded(r.us, e)
  /\ Total(r.us) + LaborOf(visit, Open(visit)) = Total(used) + LaborOf(r.vs, Open(visit))
  /\ \A i \in Open(visit) :
       /\ r.vs[i].touch = r.vs[i].credited + r.vs[i].left
       /\ r.vs[i].pause = 0 /\ r.vs[i].left > 0 =>
            r.vs[i].credited + r.vs[i].queue = Elapsed(r.vs[i].entered, e)
  /\ e = sim => r.closed # {}

\* A visit that is complete stays so with less waiting and no work left.
LEMMA CompletedSooner ==
  ASSUME NEW u, NEW v, NEW t, v.left = 0, v.entered = u.entered, v.dwell = u.dwell, u.dwell \in Nat,
         Elapsed(u.entered, t) \in Int, u.pause \in Nat, v.pause \in Nat, v.pause <= u.pause, Completed(u, t)
  PROVE  Completed(v, t)
<1> PICK a, b, d : a = Elapsed(u.entered, t) - u.pause /\ b = Elapsed(u.entered, t) - v.pause /\ d = u.dwell
  OBVIOUS
<1>1. a \in Int /\ b \in Int /\ a <= b /\ d \in Nat /\ Floor0(a) >= d
  BY DEF Completed
<1>2. Floor0(b) >= d
  BY <1>1 DEF Floor0
<1> QED
  BY <1>2 DEF Completed

\* The loop of _risk_aware_advance ends with a slice whose end stands.
LEMMA SliceStands ==
  ASSUME LaborInv, NEW limit \in (sim + 1)..Horizon, NEW D, NEW L, NEW r, r = RiskAwareAdvance(limit, D, L)
  PROVE  \E e \in sim..limit : Slice(r, e, D, L)
<1>0. LaborTypes /\ UsageBounded(used, sim) /\ Total(used) = LaborOf(visit, Open(visit)) + slice.labor
      /\ VisitTimeAccounted
  BY DEF LaborInv
<1>1. PICK e \in sim..limit : /\ r = Kept(e, D, L) /\ Tried(e, D, L).end = e
                              /\ e = limit \/ \E j \in (e + 1)..limit : Tried(j, D, L).end = e
  BY <1>0, RiskAware
<1>2. sim \in Nat /\ sim \in 0..Horizon /\ limit \in Nat /\ e \in sim..Horizon /\ e \in 0..Horizon /\ sim <= e
      /\ Horizon \in Nat /\ limit <= Horizon
  BY <1>0, LaborAssumption DEF LaborTypes
<1> PICK S, blocked, p, t : /\ S = Open(visit) /\ blocked = Dependent(e, D)
                            /\ p = Paused(e, D) /\ t = Tried(e, D, L)
  OBVIOUS
<1> PICK ranked : ranked = S \ blocked
  OBVIOUS
<1>3. /\ Setting(p, used, sim, e, Absence \cup Over(e, L), blocked, S, ranked)
      /\ p \in Visits /\ LaborOf(p, S) = LaborOf(visit, S)
  BY <1>0, <1>2, RiskSetting
<1>4. /\ t.end = e /\ Reached(t, p, used, sim, ranked, S, e) /\ t.closed = {i \in S : Completed(t.vs[i], e)}
  <2>1. t = AdvanceVisits(p, used, sim, e, Absence \cup Over(e, L), blocked)
    BY DEF Tried
  <2> PICK us, from, away : us = used /\ from = sim /\ away = Absence \cup Over(e, L)
    OBVIOUS
  <2>2. Setting(p, us, from, e, away, blocked, S, ranked) /\ UsageBounded(us, from)
    BY <1>0, <1>3
  <2>3. t = AdvanceVisits(p, us, from, e, away, blocked)
    BY <2>1
  <2>4. Reached(t, p, us, from, ranked, S, t.end)
    BY <2>2, <2>3, SliceWorked
  <2>5. t.closed = {i \in S : Completed(t.vs[i], t.end)}
    BY <2>2, <2>3, SliceWorked
  <2>6. t.end = e
    BY <1>1
  <2>7. Reached(t, p, used, sim, ranked, S, e)
    BY <2>4, <2>6
  <2> QED
    BY <2>5, <2>6, <2>7
<1> PICK seen : seen = IF LongStayFirst THEN visit ELSE p
  OBVIOUS
<1> DEFINE crossing == {i \in S : Crossed(seen[i], e)}
<1>5. /\ r.vs = [i \in Items |-> IF i \in crossing THEN [t.vs[i] EXCEPT !.stays = @ + 1] ELSE t.vs[i]]
      /\ r.us = t.us /\ r.end = e /\ r.closed = t.closed /\ r.leaves = Over(e, L)
  <2>1. r = Watched(t, seen, Over(e, L))
    BY <1>1 DEF Kept
  <2> QED
    BY <1>4, <2>1 DEF Watched, Updated
<1>6. t.vs \in Visits /\ t.us \in Usage /\ UsageBounded(t.us, e)
      /\ (\A i \in Items : Fixed(t.vs[i], p[i])) /\ (\A i \in Items : i \notin ranked => t.vs[i] = p[i])
      /\ Total(t.us) + LaborOf(p, S) = Total(used) + LaborOf(t.vs, S)
  BY <1>4 DEF Reached
<1> HIDE DEF crossing
<1>7. ASSUME NEW i \in Items
      PROVE /\ r.vs[i] \in VisitState /\ r.vs[i].step = t.vs[i].step /\ r.vs[i].entered = t.vs[i].entered
            /\ r.vs[i].touch = t.vs[i].touch /\ r.vs[i].dwell = t.vs[i].dwell /\ r.vs[i].open = t.vs[i].open
            /\ r.vs[i].pause = t.vs[i].pause /\ r.vs[i].left = t.vs[i].left
            /\ r.vs[i].credited = t.vs[i].credited /\ r.vs[i].queue = t.vs[i].queue
            /\ r.vs[i].stays = t.vs[i].stays + (IF i \in crossing THEN 1 ELSE 0)
  <2> PICK u : u = t.vs[i]
    OBVIOUS
  <2>1. u \in VisitState
    BY <1>6 DEF Visits
  <2>2. CASE i \in crossing
    <3>1. r.vs[i] = [u EXCEPT !.stays = @ + 1]
      BY <1>5, <2>2
    <3> QED
      BY <2>1, <2>2, <3>1 DEF VisitState
  <2>3. CASE i \notin crossing
    <3>1. r.vs[i] = u /\ u.stays \in Nat
      BY <1>5, <2>1, <2>3 DEF VisitState
    <3> QED
      BY <2>1, <2>3, <3>1
  <2> QED
    BY <2>2, <2>3
<1>8. r.vs \in Visits
  <2>1. r.vs = [i \in Items |-> r.vs[i]]
    BY <1>5
  <2> QED
    BY <1>7, <2>1 DEF Visits
<1>9. ASSUME NEW i \in Items
      PROVE  /\ p[i] \in VisitState /\ visit[i] \in VisitState
             /\ p[i].step = visit[i].step /\ p[i].entered = visit[i].entered /\ p[i].touch = visit[i].touch
             /\ p[i].dwell = visit[i].dwell /\ p[i].left = visit[i].left /\ p[i].credited = visit[i].credited
             /\ p[i].stays = visit[i].stays /\ p[i].open = visit[i].open /\ visit[i].pause <= p[i].pause
             /\ i \notin blocked => p[i] = visit[i]
             /\ i \in blocked => sim < e /\ p[i].pause > 0
  BY <1>0, <1>2, VisitPaused DEF LaborTypes, Visits
<1>10. ASSUME NEW i \in Items
       PROVE  /\ t.vs[i].credited + t.vs[i].left = visit[i].credited + visit[i].left
              /\ visit[i].left = 0 => t.vs[i].left = 0
  <2>1. CASE i \notin ranked
    BY <1>6, <1>9, <2>1
  <2>2. CASE i \in ranked
    <3>1. /\ p[i].credited <= t.vs[i].credited
          /\ t.vs[i].left = p[i].left - (t.vs[i].credited - p[i].credited)
      BY <1>4, <2>2 DEF Reached
    <3>2. p[i].credited \in Nat /\ p[i].left \in Nat /\ t.vs[i].left \in Nat /\ t.vs[i].credited \in Nat
      BY <1>3, <1>6, VisitFields
    <3> QED
      BY <1>9, <3>1, <3>2
  <2> QED
    BY <2>1, <2>2
<1>11. \A i \in Items :
         /\ r.vs[i].step = visit[i].step /\ r.vs[i].entered = visit[i].entered /\ r.vs[i].touch = visit[i].touch
         /\ r.vs[i].dwell = visit[i].dwell /\ r.vs[i].open = visit[i].open
         /\ r.vs[i].pause = p[i].pause
         /\ visit[i].left = 0 => r.vs[i].left = 0
  BY <1>6, <1>7, <1>9, <1>10 DEF Fixed
<1>12. \A i \in S : i \in Items
  BY DEF Open
<1>13. ASSUME NEW i \in S
       PROVE  r.vs[i].stays = visit[i].stays
                + (IF Crossed(IF LongStayFirst THEN visit[i] ELSE Paused(e, D)[i], e) THEN 1 ELSE 0)
  <2>1. t.vs[i].stays = visit[i].stays
    BY <1>6, <1>9, <1>12 DEF Fixed
  <2>2. i \in crossing <=> Crossed(IF LongStayFirst THEN visit[i] ELSE Paused(e, D)[i], e)
    <3>1. seen[i] = IF LongStayFirst THEN visit[i] ELSE Paused(e, D)[i]
      OBVIOUS
    <3> QED
      BY <3>1 DEF crossing
  <2> QED
    BY <1>7, <1>12, <2>1, <2>2
<1>14. r.closed = {i \in S : Completed(r.vs[i], e)}
  <2>1. \A i \in S : Completed(r.vs[i], e) <=> Completed(t.vs[i], e)
    BY <1>7, <1>12 DEF Completed
  <2> QED
    BY <1>4, <1>5, <2>1
<1>15. Total(r.us) + LaborOf(visit, S) = Total(used) + LaborOf(r.vs, S)
  <2>1. LaborOf(r.vs, S) = LaborOf(t.vs, S)
    <3> PICK x, y : x = r.vs /\ y = t.vs
      OBVIOUS
    <3>1. S \in SUBSET Items /\ \A i \in S : x[i].credited = y[i].credited
      BY <1>7, <1>12
    <3>2. LaborOf(x, S) = LaborOf(y, S)
      BY <3>1, LaborSame
    <3> QED
      BY <3>2
  <2> QED
    BY <1>3, <1>5, <1>6, <2>1
<1>16. ASSUME NEW i \in S
       PROVE  /\ r.vs[i].touch = r.vs[i].credited + r.vs[i].left
              /\ r.vs[i].pause = 0 /\ r.vs[i].left > 0 =>
                   r.vs[i].credited + r.vs[i].queue = Elapsed(r.vs[i].entered, e)
  <2>1. /\ visit[i].touch = visit[i].credited + visit[i].left
        /\ visit[i].pause = 0 /\ visit[i].left > 0 =>
             visit[i].credited + visit[i].queue = Elapsed(visit[i].entered, sim)
    BY <1>0 DEF VisitTimeAccounted
  <2>2. r.vs[i].touch = r.vs[i].credited + r.vs[i].left
    BY <1>7, <1>10, <1>11, <1>12, <2>1
  <2>3. ASSUME r.vs[i].pause = 0, r.vs[i].left > 0
        PROVE r.vs[i].credited + r.vs[i].queue = Elapsed(r.vs[i].entered, e)
    <3>1. i \notin blocked /\ i \in ranked /\ p[i] = visit[i] /\ visit[i].pause = 0 /\ t.vs[i].left > 0
      BY <1>7, <1>9, <1>11, <1>12, <2>3
    <3>2. visit[i].left > 0
      <4>1. visit[i].left \in Nat /\ visit[i].left # 0
        BY <1>0, <1>10, <1>12, <3>1, VisitFields DEF LaborTypes
      <4> QED
        BY <4>1
    <3>3. t.vs[i].credited + t.vs[i].queue = visit[i].credited + visit[i].queue + Elapsed(sim, e)
      BY <1>4, <3>1 DEF Reached
    <3>4. visit[i].credited + visit[i].queue = Elapsed(visit[i].entered, sim)
      BY <2>1, <3>1, <3>2
    <3>5. Elapsed(visit[i].entered, e) = Elapsed(visit[i].entered, sim) + Elapsed(sim, e)
      <4> PICK c : c = visit[i].entered
        OBVIOUS
      <4>1. c \in 0..Horizon
        BY <1>0, <1>2, <1>12, VisitFields DEF LaborTypes, EnteredBy
      <4> QED
        BY <1>2, <4>1, ElapsedInt
    <3> QED
      BY <1>7, <1>11, <1>12, <3>3, <3>4, <3>5
  <2> QED
    BY <2>2, <2>3
<1>17. ASSUME e = sim PROVE r.closed # {}
  <2>1. PICK j \in (e + 1)..limit : Tried(j, D, L).end = e
    BY <1>1, <1>2, <1>17
  <2>2. j \in sim..Horizon /\ sim < j
    BY <1>2, <1>17
  <2> PICK b, a : b = Dependent(j, D) /\ a = Paused(j, D)
    OBVIOUS
  <2> PICK k : k = S \ b
    OBVIOUS
  <2>3. Setting(a, used, sim, j, Absence \cup Over(j, L), b, S, k)
    BY <1>0, <2>2, RiskSetting
  <2>4. Tried(j, D, L) = AdvanceVisits(a, used, sim, j, Absence \cup Over(j, L), b)
    BY DEF Tried
  <2>5. PICK i \in S : a[i].left = 0 /\ Completed(a[i], sim)
    BY <1>0, <1>17, <2>1, <2>2, <2>3, <2>4, SliceWorked
  <2>6. /\ a[i] \in VisitState /\ a[i].entered = visit[i].entered /\ a[i].dwell = visit[i].dwell
        /\ a[i].left = visit[i].left /\ visit[i].pause <= a[i].pause
    BY <1>0, <1>12, <2>2, VisitPaused
  <2>7. i \notin blocked
    BY <1>9, <1>12, <1>17
  <2> PICK v, u : v = r.vs[i] /\ u = a[i]
    OBVIOUS
  <2>8. v.left = 0 /\ v.entered = u.entered /\ v.dwell = u.dwell /\ v.pause = visit[i].pause
    BY <1>9, <1>11, <1>12, <2>5, <2>6, <2>7
  <2>9. u.dwell \in Nat /\ u.pause \in Nat /\ v.pause \in Nat /\ v.pause <= u.pause
    BY <1>0, <1>12, <2>6, <2>8, VisitFields DEF VisitState, LaborTypes
  <2>10. Elapsed(u.entered, sim) \in Int
    <3> PICK c : c = u.entered
      OBVIOUS
    <3>1. c \in 0..Horizon
      BY <1>0, <1>2, <1>12, <2>6, VisitFields DEF LaborTypes, EnteredBy
    <3> QED
      BY <1>2, <3>1, ElapsedInt
  <2>11. Completed(v, sim)
    BY <2>5, <2>8, <2>9, <2>10, CompletedSooner
  <2> QED
    BY <1>14, <1>17, <2>11
<1>18. Left(r.leaves)
  BY <1>0, <1>5 DEF Over, Overlays, LaborTypes, Left
<1>19. \A i \in Items :
         /\ r.vs[i].step = visit[i].step /\ r.vs[i].entered = visit[i].entered /\ r.vs[i].touch = visit[i].touch
         /\ r.vs[i].dwell = visit[i].dwell /\ r.vs[i].open = visit[i].open
         /\ r.vs[i].pause = Paused(e, D)[i].pause
         /\ visit[i].left = 0 => r.vs[i].left = 0
  BY <1>11
<1>20. r.us \in Usage /\ UsageBounded(r.us, e) /\ r.end = e
  BY <1>5, <1>6
<1>21. Slice(r, e, D, L)
  <2>1. S = Open(visit)
    OBVIOUS
  <2> QED
    BY <1>8, <1>13, <1>14, <1>15, <1>16, <1>17, <1>18, <1>19, <1>20, <2>1 DEF Slice
<1> QED
  BY <1>21
-----------------------------------------------------------------------------
(* The step of a tick.                                                     *)

\* A tick of a slice up to limit that ends at e, with the result r.
Ticked(limit, D, L, r, e, drawn) ==
  /\ limit \in (sim + 1)..Horizon /\ e \in sim..limit /\ Slice(r, e, D, L)
  /\ D \subseteq {i \in Open(visit) : Wait > 0 /\ visit[i].entered = sim}
  /\ r = RiskAwareAdvance(limit, D, L)
  /\ \A i \in r.closed : r.vs[i].step < LastStep => drawn[i] \in Samples
  /\ sim' = e /\ visit' = Transition(r, drawn) /\ used' = r.us /\ leaves' = r.leaves
  /\ slice' = [from |-> sim, limit |-> limit, closed |-> r.closed, labor |-> slice.labor + LaborOf(r.vs, r.closed)]

\* _next_workday_risk_boundary only shortens a slice.
LEMMA LimitWithin ==
  ASSUME sim \in 0..Horizon, NEW ends \in (sim + 1)..Horizon
  PROVE  Limit(ends) \in (sim + 1)..Horizon
<1>0. sim \in Nat /\ Horizon \in Nat /\ ends \in Nat /\ sim < ends /\ ends <= Horizon
  BY LaborAssumption
<1>1. CASE Leave = 0 \/ Open(visit) = {}
  BY <1>1 DEF Limit
<1>2. CASE ~(Leave = 0 \/ Open(visit) = {})
  <2> PICK S : S = {ends} \cup {t \in (sim + 1)..(ends - 1) : WorkdayStart(t)}
    OBVIOUS
  <2>1. S \in SUBSET Nat /\ S # {} /\ S \subseteq (sim + 1)..Horizon
    BY <1>0
  <2>2. Min(S) \in S
    BY <2>1, LeastIsMin
  <2>3. Limit(ends) = Min(S)
    BY <1>2 DEF Limit
  <2> QED
    BY <2>1, <2>2, <2>3
<1> QED
  BY <1>1, <1>2

\* What a tick does, with its choices named.
LEMMA TickIs ==
  ASSUME LaborInv, Tick
  PROVE  \E limit, D, L, r, e, drawn : Ticked(limit, D, L, r, e, drawn)
<1>0. sim \in 0..Horizon
  BY DEF LaborInv, LaborTypes
<1>1. PICK ends \in (sim + 1)..Horizon,
           D \in SUBSET {i \in Open(visit) : Wait > 0 /\ visit[i].entered = sim},
           L \in SUBSET {m \in Members : Leave > 0 /\ WorkdayStart(sim) /\ m \in {visit[i].owner : i \in Open(visit)}} :
        \E r \in {RiskAwareAdvance(Limit(ends), D, L)} :
          \E drawn \in [{i \in r.closed : r.vs[i].step < LastStep} -> Samples] :
            /\ sim' = r.end /\ visit' = Transition(r, drawn) /\ used' = r.us /\ leaves' = r.leaves
            /\ slice' = [from |-> sim, limit |-> Limit(ends), closed |-> r.closed,
                         labor |-> slice.labor + LaborOf(r.vs, r.closed)]
  BY DEF Tick
<1> PICK limit : limit = Limit(ends)
  OBVIOUS
<1>2. limit \in (sim + 1)..Horizon
  BY <1>0, LimitWithin
<1>3. PICK r : /\ r = RiskAwareAdvance(limit, D, L)
               /\ \E drawn \in [{i \in r.closed : r.vs[i].step < LastStep} -> Samples] :
                    /\ sim' = r.end /\ visit' = Transition(r, drawn) /\ used' = r.us /\ leaves' = r.leaves
                    /\ slice' = [from |-> sim, limit |-> limit, closed |-> r.closed,
                                 labor |-> slice.labor + LaborOf(r.vs, r.closed)]
  BY <1>1
<1>4. PICK drawn \in [{i \in r.closed : r.vs[i].step < LastStep} -> Samples] :
        /\ sim' = r.end /\ visit' = Transition(r, drawn) /\ used' = r.us /\ leaves' = r.leaves
        /\ slice' = [from |-> sim, limit |-> limit, closed |-> r.closed,
                     labor |-> slice.labor + LaborOf(r.vs, r.closed)]
  BY <1>3
<1>5. PICK e \in sim..limit : Slice(r, e, D, L)
  BY <1>2, <1>3, SliceStands
<1>6. r.end = e
  BY <1>5 DEF Slice
<1>7. \A i \in r.closed : r.vs[i].step < LastStep => drawn[i] \in Samples
  OBVIOUS
<1>8. Ticked(limit, D, L, r, e, drawn)
  BY <1>2, <1>3, <1>4, <1>5, <1>6, <1>7 DEF Ticked
<1> QED
  BY <1>8

\* _transition
LEMMA Moved ==
  ASSUME NEW r, r.vs \in Visits, r.end \in Nat, NEW drawn, NEW i \in Items,
         i \in r.closed /\ r.vs[i].step < LastStep => drawn[i] \in Samples, NEW v, v = Transition(r, drawn)[i]
  PROVE  /\ v \in VisitState
         /\ i \notin r.closed => v = r.vs[i]
         /\ i \in r.closed /\ v.open =>
              /\ v.entered = r.end /\ v.credited = 0 /\ v.left = v.touch /\ v.queue = 0
              /\ v.pause = 0 /\ v.stays = 0
         /\ v.entered \in {r.end, r.vs[i].entered}
<1> PICK u : u = r.vs[i]
  OBVIOUS
<1>1. u \in VisitState
  BY DEF Visits
<1>2. v = IF i \in r.closed
          THEN IF u.step = LastStep THEN [u EXCEPT !.open = FALSE] ELSE EnteredVisit(u.step + 1, r.end, drawn[i])
          ELSE u
  BY DEF Transition, Updated
<1>3. CASE i \notin r.closed
  BY <1>1, <1>2, <1>3
<1>4. CASE i \in r.closed /\ u.step = LastStep
  <2>1. v = [u EXCEPT !.open = FALSE]
    BY <1>2, <1>4
  <2> QED
    BY <1>1, <1>4, <2>1 DEF VisitState
<1>5. CASE i \in r.closed /\ u.step # LastStep
  <2>1. v = EnteredVisit(u.step + 1, r.end, drawn[i])
    BY <1>2, <1>5
  <2>2. u.step \in 1..LastStep /\ LastStep \in Nat
    BY <1>1, LaborAssumption DEF VisitState
  <2>3. u.step < LastStep /\ u.step + 1 \in 1..LastStep
    BY <1>5, <2>2
  <2> PICK d : d = drawn[i]
    OBVIOUS
  <2>4. d.touch \in Nat /\ d.dwell \in Nat
    BY <1>5, <2>3, LaborAssumption
  <2> PICK s, at : s = u.step + 1 /\ at = r.end
    OBVIOUS
  <2>5. s \in 1..LastStep /\ at \in Nat /\ v = EnteredVisit(s, at, d)
    BY <2>1, <2>3
  <2>6. v \in VisitState
    BY <2>4, <2>5 DEF EnteredVisit, VisitState
  <2>7. v.entered = at /\ v.credited = 0 /\ v.left = v.touch /\ v.queue = 0 /\ v.pause = 0 /\ v.stays = 0
    BY <2>5 DEF EnteredVisit
  <2> QED
    BY <1>5, <2>6, <2>7
<1> QED
  BY <1>3, <1>4, <1>5

LEMMA SumZero ==
  ASSUME NEW D, IsFiniteSet(D), NEW f, \A x \in D : f[x] = 0
  PROVE  SumFunctionOnSet(f, D) = 0
<1>1. AddUp(f, f, f, D)
  BY DEF AddUp
<1>2. SumFunctionOnSet(f, D) \in Int /\ SumFunctionOnSet(f, D) = SumFunctionOnSet(f, D) + SumFunctionOnSet(f, D)
  BY <1>1, SumPlus
<1>3. \A s \in Int : s = s + s => s = 0
  OBVIOUS
<1> QED
  BY <1>2, <1>3

\* The labor of the visits that close leaves the open visits for the history.
LEMMA LaborMoved ==
  ASSUME NEW r, r.vs \in Visits, r.end \in Nat, r.closed \subseteq Open(r.vs), NEW drawn,
         \A i \in r.closed : r.vs[i].step < LastStep => drawn[i] \in Samples,
         NEW x, x = Transition(r, drawn)
  PROVE  LaborOf(r.vs, Open(r.vs)) = LaborOf(x, Open(x)) + LaborOf(r.vs, r.closed)
<1> PICK u, S, T, C : u = r.vs /\ S = Open(u) /\ T = Open(x) /\ C = r.closed
  OBVIOUS
<1> PICK f, g, h : /\ f = [i \in Items |-> IF i \in S THEN u[i].credited ELSE 0]
                   /\ g = [i \in Items |-> IF i \in T THEN x[i].credited ELSE 0]
                   /\ h = [i \in Items |-> IF i \in C THEN u[i].credited ELSE 0]
  OBVIOUS
<1>1. ASSUME NEW i \in Items PROVE g[i] \in Int /\ h[i] \in Int /\ f[i] = g[i] + h[i]
  <2> PICK v : v = x[i]
    OBVIOUS
  <2>1. v \in VisitState /\ (i \notin C => v = u[i]) /\ (i \in C /\ v.open => v.credited = 0)
    BY Moved
  <2>2. u[i].credited \in Nat /\ v.credited \in Nat
    BY <2>1, VisitFields DEF VisitState
  <2>3. (i \in S <=> u[i].open) /\ (i \in T <=> v.open)
    BY DEF Open
  <2>4. f[i] = (IF i \in S THEN u[i].credited ELSE 0) /\ g[i] = (IF i \in T THEN v.credited ELSE 0)
        /\ h[i] = (IF i \in C THEN u[i].credited ELSE 0)
    OBVIOUS
  <2>5. CASE i \in C
    BY <2>1, <2>2, <2>3, <2>4, <2>5
  <2>6. CASE i \notin C
    BY <2>1, <2>2, <2>3, <2>4, <2>6
  <2> QED
    BY <2>5, <2>6
<1>2. AddUp(f, g, h, Items)
  BY <1>1 DEF AddUp
<1>3. SumFunctionOnSet(f, Items) = SumFunctionOnSet(g, Items) + SumFunctionOnSet(h, Items)
  BY <1>2, DaysFinite, SumPlus
<1>4. LaborOf(u, S) = SumFunctionOnSet(f, Items) /\ LaborOf(x, T) = SumFunctionOnSet(g, Items)
      /\ LaborOf(u, C) = SumFunctionOnSet(h, Items)
  BY DEF LaborOf, SumFunction
<1> QED
  BY <1>3, <1>4

\* No labor is booked and none is credited at the start.
LEMMA LaborStarts == LaborInit => LaborInv
<1> SUFFICES ASSUME LaborInit PROVE LaborInv
  OBVIOUS
<1>0. 0 \in 0..Horizon /\ Horizon \in Nat /\ 1 \in 1..LastStep
  BY LaborAssumption
<1>1. ASSUME NEW i \in Items
      PROVE /\ visit[i] \in VisitState /\ visit[i].entered = 0 /\ visit[i].credited = 0 /\ visit[i].queue = 0
            /\ visit[i].left = visit[i].touch
  <2>1. PICK s \in Samples : visit[i] = EnteredVisit(1, 0, s)
    BY DEF LaborInit
  <2>2. s.touch \in Nat /\ s.dwell \in Nat
    BY <2>1, LaborAssumption
  <2> QED
    BY <1>0, <2>1, <2>2 DEF EnteredVisit, VisitState
<1>2. visit \in Visits
  <2>1. visit = [i \in Items |-> visit[i]]
    BY DEF LaborInit
  <2> QED
    BY <1>1, <2>1 DEF Visits
<1>3. used \in Usage /\ \A m \in Members, d \in Days : used[m][d] = 0
  BY DEF LaborInit, Usage
<1>4. LaborTypes
  BY <1>0, <1>1, <1>2, <1>3 DEF LaborInit, LaborTypes, Left, EnteredBy
<1>5. UsageBounded(used, sim)
  <2>1. ASSUME NEW m \in Members, NEW d \in Days PROVE used[m][d] <= DailyCapacity[m] /\ used[m][d] <= DayTime(d, sim)
    <3>1. DailyCapacity[m] \in Nat
      BY LaborAssumption
    <3>2. sim \in 0..Horizon /\ sim \in sim..Horizon
      BY <1>0 DEF LaborInit
    <3>3. DayTime(d, sim) \in Nat
      BY <3>2, DayTimeGrows
    <3> QED
      BY <1>3, <3>1, <3>3
  <2> QED
    BY <2>1 DEF UsageBounded
<1>6. Total(used) = 0
  <2> PICK f : f = [m \in Members |-> SumFunction(used[m])]
    OBVIOUS
  <2>1. ASSUME NEW m \in Members PROVE f[m] = 0
    <3> PICK b : b = used[m]
      OBVIOUS
    <3>1. DOMAIN b = Days /\ \A d \in Days : b[d] = 0
      BY <1>3 DEF Usage
    <3>2. SumFunctionOnSet(b, Days) = 0
      BY <3>1, DaysFinite, SumZero
    <3> QED
      BY <3>1, <3>2 DEF SumFunction
  <2>2. DOMAIN f = Members
    OBVIOUS
  <2>3. SumFunctionOnSet(f, Members) = 0
    BY <2>1, DaysFinite, SumZero
  <2> QED
    BY <2>2, <2>3 DEF Total, SumFunction
<1>7. LaborOf(visit, Open(visit)) = 0
  <2> PICK f : f = [i \in Items |-> IF i \in Open(visit) THEN visit[i].credited ELSE 0]
    OBVIOUS
  <2>1. \A i \in Items : f[i] = 0
    BY <1>1
  <2>2. SumFunctionOnSet(f, Items) = 0
    BY <2>1, DaysFinite, SumZero
  <2> QED
    BY <2>2 DEF LaborOf, SumFunction
<1>8. VisitTimeAccounted
  <2> SUFFICES ASSUME NEW i \in Open(visit)
               PROVE  /\ visit[i].touch = visit[i].credited + visit[i].left
                      /\ visit[i].pause = 0 /\ visit[i].left > 0 =>
                           visit[i].credited + visit[i].queue = Elapsed(visit[i].entered, sim)
    BY DEF VisitTimeAccounted
  <2>1. i \in Items /\ visit[i].touch \in Nat
    BY <1>2, VisitFields DEF Open
  <2>2. visit[i].touch = visit[i].credited + visit[i].left
    BY <1>1, <2>1
  <2>3. Elapsed(visit[i].entered, sim) = 0
    BY <1>0, <1>1, <2>1, ElapsedInt DEF LaborInit
  <2> QED
    BY <1>1, <2>1, <2>2, <2>3
<1> QED
  BY <1>4, <1>5, <1>6, <1>7, <1>8 DEF LaborInv, LaborInit

\* A tick keeps the invariant of labor.
LEMMA LaborGoesOn ==
  ASSUME LaborInv, NEW limit, NEW D, NEW L, NEW r, NEW e, NEW drawn, Ticked(limit, D, L, r, e, drawn)
  PROVE  LaborInv'
<1>0. LaborTypes /\ UsageBounded(used, sim) /\ Total(used) = LaborOf(visit, Open(visit)) + slice.labor
      /\ VisitTimeAccounted
  BY DEF LaborInv
<1>1. /\ limit \in (sim + 1)..Horizon /\ e \in sim..limit /\ Slice(r, e, D, L)
      /\ \A i \in r.closed : r.vs[i].step < LastStep => drawn[i] \in Samples
      /\ sim' = e /\ visit' = Transition(r, drawn) /\ used' = r.us /\ leaves' = r.leaves
      /\ slice'.labor = slice.labor + LaborOf(r.vs, r.closed)
  BY DEF Ticked
<1> PICK x, S, C : x = Transition(r, drawn) /\ S = Open(visit) /\ C = r.closed
  OBVIOUS
<1>2. sim \in Nat /\ sim \in 0..Horizon /\ e \in Nat /\ e \in 0..Horizon /\ sim <= e /\ Horizon \in Nat
  BY <1>0, <1>1, LaborAssumption DEF LaborTypes
<1>3. /\ r.end = e /\ r.vs \in Visits /\ r.us \in Usage /\ Left(r.leaves) /\ UsageBounded(r.us, e)
      /\ Total(r.us) + LaborOf(visit, S) = Total(used) + LaborOf(r.vs, S)
      /\ \A i \in Items : r.vs[i].entered = visit[i].entered /\ r.vs[i].open = visit[i].open
  BY <1>1 DEF Slice
<1>4. C \subseteq S /\ Open(r.vs) = S
  <2>1. C \subseteq S
    BY <1>1 DEF Slice
  <2> QED
    BY <1>3, <2>1 DEF Open
<1>5. ASSUME NEW i \in S
      PROVE  /\ r.vs[i].touch = r.vs[i].credited + r.vs[i].left
             /\ r.vs[i].pause = 0 /\ r.vs[i].left > 0 =>
                  r.vs[i].credited + r.vs[i].queue = Elapsed(r.vs[i].entered, e)
  BY <1>1 DEF Slice
<1>6. ASSUME NEW i \in Items
      PROVE /\ x[i] \in VisitState
            /\ i \notin C => x[i] = r.vs[i]
            /\ i \in C /\ x[i].open => /\ x[i].entered = e /\ x[i].credited = 0 /\ x[i].left = x[i].touch
                                       /\ x[i].queue = 0 /\ x[i].pause = 0 /\ x[i].stays = 0
            /\ x[i].entered \in {e, r.vs[i].entered}
  <2>1. r.end \in Nat /\ (i \in r.closed /\ r.vs[i].step < LastStep => drawn[i] \in Samples)
    BY <1>1, <1>2, <1>3
  <2> QED
    BY <1>3, <2>1, Moved
<1>7. x \in Visits
  <2>1. x = [i \in Items |-> x[i]]
    BY DEF Transition, Updated
  <2> QED
    BY <1>6, <2>1 DEF Visits
<1>8. EnteredBy(x, e)
  <2> SUFFICES ASSUME NEW i \in Items PROVE x[i].entered <= e
    BY DEF EnteredBy
  <2>1. visit[i].entered <= sim /\ visit[i].entered \in Nat
    BY <1>0, VisitFields DEF LaborTypes, EnteredBy
  <2> QED
    BY <1>2, <1>3, <1>6, <2>1
<1>9. /\ LaborOf(r.vs, S) = LaborOf(x, Open(x)) + LaborOf(r.vs, C)
      /\ LaborOf(r.vs, C) \in Nat /\ LaborOf(r.vs, S) \in Nat /\ LaborOf(visit, S) \in Nat /\ LaborOf(x, Open(x)) \in Nat
  <2>1. C \in SUBSET Items /\ S \in SUBSET Items /\ Open(x) \in SUBSET Items
    BY <1>4 DEF Open
  <2>2. LaborOf(r.vs, Open(r.vs)) = LaborOf(x, Open(x)) + LaborOf(r.vs, r.closed)
    <3>1. r.end \in Nat /\ r.closed \subseteq Open(r.vs)
      BY <1>2, <1>3, <1>4
    <3> QED
      BY <1>1, <1>3, <3>1, LaborMoved
  <2> QED
    BY <1>0, <1>3, <1>4, <1>7, <2>1, <2>2, LaborInt DEF LaborTypes
<1>10. Total(r.us) = LaborOf(x, Open(x)) + (slice.labor + LaborOf(r.vs, C))
  <2> PICK a, b, c, d, f, g, h : /\ a = Total(r.us) /\ b = LaborOf(visit, S) /\ c = Total(used) /\ d = LaborOf(r.vs, S)
                                 /\ f = LaborOf(x, Open(x)) /\ g = LaborOf(r.vs, C) /\ h = slice.labor
    OBVIOUS
  <2>1. a + b = c + d /\ c = b + h /\ d = f + g
    BY <1>0, <1>3, <1>9
  <2>2. a \in Nat /\ b \in Nat /\ c \in Nat /\ d \in Nat /\ f \in Nat /\ g \in Nat /\ h \in Nat
    BY <1>0, <1>3, <1>9, TotalInt DEF LaborTypes
  <2>3. a = f + (h + g)
    BY <2>1, <2>2
  <2> QED
    BY <2>3
<1>11. LaborTypes'
  <2>1. (slice.labor \in Nat)'
    BY <1>0, <1>1, <1>9 DEF LaborTypes
  <2>2. /\ (sim \in 0..Horizon)' /\ (visit \in Visits)' /\ (used \in Usage)' /\ Left(leaves)'
        /\ EnteredBy(visit, sim)'
    <3>1. Left(leaves)'
      BY <1>1, <1>3 DEF Left
    <3>2. EnteredBy(visit, sim)'
      BY <1>1, <1>8 DEF EnteredBy
    <3> QED
      BY <1>1, <1>2, <1>3, <1>7, <3>1, <3>2
  <2> QED
    BY <2>1, <2>2 DEF LaborTypes
<1>12. UsageBounded(used, sim)'
  BY <1>1, <1>3 DEF UsageBounded, DayTime
<1>13. (Total(used) = LaborOf(visit, Open(visit)) + slice.labor)'
  <2>1. Total(used)' = Total(r.us) /\ LaborOf(visit, Open(visit))' = LaborOf(x, Open(x))
    BY <1>1 DEF Total, LaborOf, Open
  <2>2. Total(used)' = LaborOf(visit, Open(visit))' + slice'.labor
    BY <1>1, <1>10, <2>1
  <2> QED
    BY <2>2
<1>14. VisitTimeAccounted'
  <2> SUFFICES ASSUME NEW i \in Open(x)
               PROVE  /\ x[i].touch = x[i].credited + x[i].left
                      /\ x[i].pause = 0 /\ x[i].left > 0 => x[i].credited + x[i].queue = Elapsed(x[i].entered, e)
    BY <1>1 DEF VisitTimeAccounted, Open
  <2>1. i \in Items /\ x[i].open /\ x[i].touch \in Nat
    BY <1>7, VisitFields DEF Open
  <2>2. CASE i \notin C
    <3>1. i \in S
      BY <1>3, <1>4, <1>6, <2>1, <2>2 DEF Open
    <3> QED
      BY <1>5, <1>6, <2>1, <2>2, <3>1
  <2>3. CASE i \in C
    <3>1. Elapsed(e, e) = 0
      BY <1>2, ElapsedInt
    <3>2. /\ x[i].entered = e /\ x[i].credited = 0 /\ x[i].left = x[i].touch /\ x[i].queue = 0
      BY <1>6, <2>1, <2>3
    <3> QED
      BY <2>1, <3>1, <3>2
  <2> QED
    BY <2>2, <2>3
<1> QED
  BY <1>11, <1>12, <1>13, <1>14 DEF LaborInv

\* Whatever ticks are taken, usage, visits and leaves have their types, labor is bounded
\* and conserved, and time is accounted for (calculate_scrum_tick).
THEOREM LaborAlways == LaborSpec => []LaborInv
<1>1. LaborInit => LaborInv
  BY LaborStarts
<1>2. LaborInv /\ [Tick]_laborVars => LaborInv'
  <2>1. CASE Tick
    BY <2>1, TickIs, LaborGoesOn
  <2>2. CASE UNCHANGED laborVars
    BY <2>2 DEF laborVars, LaborInv, LaborTypes, UsageBounded, DayTime, Total, LaborOf, Open, VisitTimeAccounted,
                Left, EnteredBy
  <2> QED
    BY <2>1, <2>2
<1> QED
  BY <1>1, <1>2, PTL DEF LaborSpec

\* Every instant of business time of an unfinished visit is labor or queue, unless a wait
\* intervened, and what it was credited and what is left make up its sampled touch
\* (_advance_visit, _advance_visits).
THEOREM TimeOfVisitsAccounted == LaborSpec => []VisitTimeAccounted
<1>1. LaborInv => VisitTimeAccounted
  BY DEF LaborInv
<1> QED
  BY <1>1, LaborAlways, PTL

\* Nobody works more on a date than the member's capacity or the date's business time,
\* and the labor booked on members is the labor credited to visits (_segment_capacity,
\* _advance_visit).
THEOREM LaborBounded == LaborSpec => []MemberLaborBounded
<1>1. LaborInv => MemberLaborBounded
  BY DEF LaborInv, UsageBounded, DayTime, Total, MemberLaborBounded
<1> QED
  BY <1>1, LaborAlways, PTL
-----------------------------------------------------------------------------
(* Waits for an external dependency.                                       *)

\* A dependency holds a visit from its entry, without a gap, until the wait is over.
WaitsFromEntry ==
  \A i \in Open(visit) : visit[i].pause > 0 /\ visit[i].pause < Wait => visit[i].pause = sim - visit[i].entered

SliceInv == LaborInv /\ WaitsFromEntry

\* A wait that goes on has lasted since the entry of its visit (_dependency_records).
LEMMA DependencyWaits ==
  ASSUME SliceInv, NEW e \in sim..Horizon, NEW D, NEW i \in Open(visit), NEW p, p = Paused(e, D)[i]
  PROVE  /\ i \in Dependent(e, D) => sim < e /\ visit[i].pause = sim - visit[i].entered /\ visit[i].pause < p.pause
         /\ p.pause > 0 /\ p.pause < Wait => p.pause = e - p.entered
<1> PICK u, c, q, n : u = visit[i] /\ c = u.entered /\ q = u.pause /\ n = p.pause
  OBVIOUS
<1>0. LaborTypes /\ i \in Items /\ sim \in Nat /\ e \in Nat /\ sim <= e /\ Wait \in Nat
  BY LaborAssumption DEF SliceInv, LaborInv, LaborTypes, Open
<1>1. /\ u \in VisitState /\ c <= sim /\ c \in Nat /\ q \in Nat
      /\ p.entered = c /\ (i \notin Dependent(e, D) => p = u)
      /\ i \in Dependent(e, D) => n = IF Wait - q <= e - sim THEN Wait ELSE q + (e - sim)
  <2>1. u \in VisitState /\ c <= sim
    BY <1>0, VisitFields DEF LaborTypes, EnteredBy
  <2>2. /\ p.entered = u.entered /\ (i \notin Dependent(e, D) => p = u)
        /\ i \in Dependent(e, D) => p.pause = IF Wait - u.pause <= e - sim THEN Wait ELSE u.pause + (e - sim)
    BY <1>0, VisitPaused
  <2> QED
    BY <2>1, <2>2 DEF VisitState
<1>2. q > 0 /\ q < Wait => q = sim - c
  BY DEF SliceInv, WaitsFromEntry
<1>3. CASE i \notin Dependent(e, D)
  <2>1. q > 0 /\ q < Wait => ~(sim < e)
    BY <1>3 DEF Dependent
  <2> QED
    BY <1>0, <1>1, <1>2, <1>3, <2>1
<1>4. CASE i \in Dependent(e, D)
  <2>1. sim < e /\ q < Wait /\ (q > 0 \/ c = sim)
    BY <1>4 DEF Dependent
  <2>2. q = sim - c
    <3>1. CASE q > 0
      BY <1>2, <2>1, <3>1
    <3>2. CASE ~(q > 0)
      <4>1. q = 0 /\ c = sim
        BY <1>1, <2>1, <3>2
      <4> QED
        BY <1>0, <4>1
    <3> QED
      BY <3>1, <3>2
  <2>3. q < n /\ (n < Wait => n = e - c)
    BY <1>0, <1>1, <1>4, <2>1, <2>2
  <2> QED
    BY <1>1, <1>4, <2>1, <2>2, <2>3
<1> QED
  BY <1>3, <1>4

\* A tick keeps it that waits start at the entry.
LEMMA WaitsGoOn ==
  ASSUME SliceInv, NEW limit, NEW D, NEW L, NEW r, NEW e, NEW drawn, Ticked(limit, D, L, r, e, drawn)
  PROVE  SliceInv'
<1>0. LaborInv /\ LaborTypes
  BY DEF SliceInv, LaborInv
<1>1. /\ limit \in (sim + 1)..Horizon /\ e \in sim..limit /\ Slice(r, e, D, L)
      /\ \A i \in r.closed : r.vs[i].step < LastStep => drawn[i] \in Samples
      /\ sim' = e /\ visit' = Transition(r, drawn)
  BY DEF Ticked
<1> PICK x, C : x = Transition(r, drawn) /\ C = r.closed
  OBVIOUS
<1>2. e \in Nat /\ e \in sim..Horizon
  BY <1>0, <1>1, LaborAssumption DEF LaborTypes
<1>3. /\ r.end = e /\ r.vs \in Visits
      /\ \A i \in Items : /\ r.vs[i].entered = visit[i].entered /\ r.vs[i].open = visit[i].open
                          /\ r.vs[i].pause = Paused(e, D)[i].pause
  BY <1>1 DEF Slice
<1>4. ASSUME NEW i \in Open(x) PROVE x[i].pause > 0 /\ x[i].pause < Wait => x[i].pause = e - x[i].entered
  <2> PICK v, p : v = x[i] /\ p = Paused(e, D)[i]
    OBVIOUS
  <2>1. i \in Items /\ v.open
    BY DEF Open
  <2>2. (i \notin C => v = r.vs[i]) /\ (i \in C => v.pause = 0)
    <3>1. r.end \in Nat /\ (i \in r.closed /\ r.vs[i].step < LastStep => drawn[i] \in Samples)
      BY <1>1, <1>2, <1>3
    <3> QED
      BY <1>3, <2>1, <3>1, Moved
  <2>3. CASE i \in C
    BY <2>2, <2>3
  <2>4. CASE i \notin C
    <3>1. i \in Open(visit)
      BY <1>3, <2>1, <2>2, <2>4 DEF Open
    <3>2. p.pause > 0 /\ p.pause < Wait => p.pause = e - p.entered
      BY <1>2, <3>1, DependencyWaits
    <3>3. p.entered = visit[i].entered
      BY <1>0, <1>2, <2>1, VisitPaused
    <3>4. v.entered = p.entered /\ v.pause = p.pause
      BY <1>3, <2>1, <2>2, <2>4, <3>3
    <3> QED
      BY <3>2, <3>4
  <2> QED
    BY <2>3, <2>4
<1>5. LaborInv'
  BY <1>0, LaborGoesOn
<1>6. WaitsFromEntry'
  BY <1>1, <1>4 DEF WaitsFromEntry, Open
<1> QED
  BY <1>5, <1>6 DEF SliceInv

LEMMA SliceStarts == LaborInit => SliceInv
<1> SUFFICES ASSUME LaborInit PROVE SliceInv
  OBVIOUS
<1>1. \A i \in Open(visit) : visit[i].pause = 0
  BY DEF LaborInit, Open, EnteredVisit
<1> QED
  BY <1>1, LaborStarts DEF SliceInv, WaitsFromEntry
-----------------------------------------------------------------------------
(* Long stays.                                                             *)

LongStayInv == SliceInv /\ LongStayDetected

\* The service time of visit v at t.
Service(v, t) == Floor0(Elapsed(v.entered, t) - v.pause)

\* What LongStayDetected says of visit v at t when n long stays were recorded.
Detected(v, t, n) ==
  IF LongStayFirst /\ v.pause > 0 THEN v.dwell > 0 /\ Service(v, t) >= v.dwell => n >= 1
  ELSE n = IF v.dwell > 0 /\ Service(v, t) >= v.dwell THEN 1 ELSE 0

\* The visit that LONG_STAY sees in a slice that is to end at e.
Seen(e, D, i) == IF LongStayFirst THEN visit[i] ELSE Paused(e, D)[i]

\* The service time of a visit at the cursor and at the end of a slice, when the visit has
\* v.pause, or more, behind it.
LEMMA ServiceGrows ==
  ASSUME NEW v \in VisitState, NEW s \in 0..Horizon, NEW e \in s..Horizon, v.entered <= s
  PROVE  /\ Service(v, s) \in Nat /\ Service(v, e) \in Nat /\ Service(v, s) <= Service(v, e)
         /\ v.pause >= s - v.entered => Service(v, s) = 0
<1> PICK c, p : c = v.entered /\ p = v.pause
  OBVIOUS
<1>1. c \in Nat /\ p \in Nat /\ c <= s /\ s \in Nat /\ e \in Nat /\ s <= e /\ Horizon \in Nat /\ e <= Horizon
  BY LaborAssumption DEF VisitState
<1>2. c \in 0..Horizon /\ e \in 0..Horizon
  BY <1>1
<1>3. /\ Elapsed(c, s) \in Nat /\ Elapsed(s, e) \in Nat /\ Elapsed(c, e) = Elapsed(c, s) + Elapsed(s, e)
      /\ Elapsed(c, s) <= s - c
  BY <1>1, <1>2, ElapsedInt
<1> PICK a, b : a = Elapsed(c, s) - p /\ b = Elapsed(c, e) - p
  OBVIOUS
<1>4. a \in Int /\ b \in Int /\ a <= b /\ (p >= s - c => a <= 0)
  BY <1>1, <1>3
<1>5. /\ Floor0(a) \in Nat /\ Floor0(b) \in Nat /\ Floor0(a) <= Floor0(b)
      /\ a <= 0 => Floor0(a) = 0
  BY <1>4 DEF Floor0
<1>6. Service(v, s) = Floor0(a) /\ Service(v, e) = Floor0(b)
  BY DEF Service
<1> QED
  BY <1>1, <1>4, <1>5, <1>6

\* A wait that is added sets the service time back, and nothing else does.
LEMMA WaitSetsBack ==
  ASSUME NEW u \in VisitState, NEW p \in VisitState, p.entered = u.entered, u.pause <= p.pause,
         NEW e \in 0..Horizon, u.entered <= e
  PROVE  /\ Service(p, e) <= Service(u, e)
         /\ p.pause = u.pause => Service(p, e) = Service(u, e)
<1> PICK c, q, n : c = u.entered /\ q = u.pause /\ n = p.pause
  OBVIOUS
<1>1. c \in Nat /\ q \in Nat /\ n \in Nat /\ q <= n /\ c <= e /\ Horizon \in Nat /\ c \in 0..Horizon
  BY LaborAssumption DEF VisitState
<1>2. Elapsed(c, e) \in Nat
  BY <1>1, ElapsedInt
<1> PICK a, b : a = Elapsed(c, e) - q /\ b = Elapsed(c, e) - n
  OBVIOUS
<1>3. a \in Int /\ b \in Int /\ b <= a /\ (n = q => b = a)
  BY <1>1, <1>2
<1>4. Floor0(b) <= Floor0(a)
  BY <1>3 DEF Floor0
<1>5. Service(u, e) = Floor0(a) /\ Service(p, e) = Floor0(b)
  BY DEF Service
<1> QED
  BY <1>3, <1>4, <1>5

\* A slice counts what LONG_STAY sees in it: with the waits of the slice where the rule
\* comes after EXTERNAL_DEPENDENCY, without them where it stands first.
LEMMA StayCounted ==
  ASSUME LongStayInv, NEW e \in sim..Horizon, NEW D, NEW i \in Open(visit),
         NEW p, p = Paused(e, D)[i], NEW n, n = visit[i].stays + (IF Crossed(Seen(e, D, i), e) THEN 1 ELSE 0)
  PROVE  Detected(p, e, n)
<1> PICK u : u = visit[i]
  OBVIOUS
<1>0. LaborTypes /\ i \in Items /\ sim \in 0..Horizon /\ sim \in Nat /\ e \in Nat /\ sim <= e /\ Horizon \in Nat
      /\ e \in 0..Horizon
  BY LaborAssumption DEF LongStayInv, SliceInv, LaborInv, LaborTypes, Open
<1>1. /\ p \in VisitState /\ p.entered = u.entered /\ p.dwell = u.dwell /\ u.pause <= p.pause
      /\ i \notin Dependent(e, D) => p = u
      /\ i \in Dependent(e, D) => p.pause > 0
  BY <1>0, VisitPaused
<1>2. /\ u \in VisitState /\ u.entered <= sim /\ u.entered \in Nat /\ u.pause \in Nat /\ u.dwell \in Nat
      /\ p.pause \in Nat /\ p.dwell \in Nat /\ u.stays \in Nat
  BY <1>0, <1>1, VisitFields DEF LaborTypes, EnteredBy, VisitState
<1>3. /\ Service(p, sim) \in Nat /\ Service(p, e) \in Nat /\ Service(p, sim) <= Service(p, e)
      /\ p.pause >= sim - p.entered => Service(p, sim) = 0
      /\ Service(u, sim) \in Nat /\ Service(u, e) \in Nat /\ Service(u, sim) <= Service(u, e)
      /\ u.pause >= sim - u.entered => Service(u, sim) = 0
  <2>1. p.entered <= sim /\ u.entered <= sim
    BY <1>0, <1>1, <1>2
  <2> QED
    BY <1>0, <1>1, <1>2, <2>1, ServiceGrows
<1>4. Detected(u, sim, u.stays)
  BY DEF LongStayInv, LongStayDetected, Detected, Service
<1>5. Seen(e, D, i) = (IF LongStayFirst THEN u ELSE p)
  BY DEF Seen
<1>6. \A x : Crossed(x, e) <=> Service(x, sim) < x.dwell /\ x.dwell <= Service(x, e)
  BY DEF Crossed, Service
<1> PICK d : d = u.dwell
  OBVIOUS
<1>7. CASE i \notin Dependent(e, D)
  <2>1. p = u /\ Seen(e, D, i) = u
    BY <1>1, <1>5, <1>7
  <2> PICK a, b : a = Service(u, sim) /\ b = Service(u, e)
    OBVIOUS
  <2>2. a \in Nat /\ b \in Nat /\ a <= b /\ d \in Nat /\ u.stays \in Nat
    BY <1>2, <1>3
  <2>3. n = u.stays + (IF a < d /\ d <= b THEN 1 ELSE 0)
    BY <1>6, <2>1
  <2>4. CASE LongStayFirst /\ u.pause > 0
    <3>1. d > 0 /\ a >= d => u.stays >= 1
      BY <1>4, <2>4 DEF Detected
    <3>2. d > 0 /\ b >= d => n >= 1
      BY <2>2, <2>3, <3>1
    <3> QED
      BY <2>1, <2>4, <3>2 DEF Detected
  <2>5. CASE ~(LongStayFirst /\ u.pause > 0)
    <3>1. u.stays = IF d > 0 /\ a >= d THEN 1 ELSE 0
      BY <1>4, <2>5 DEF Detected
    <3>2. n = IF d > 0 /\ b >= d THEN 1 ELSE 0
      BY <2>2, <2>3, <3>1
    <3> QED
      BY <2>1, <2>5, <3>2 DEF Detected
  <2> QED
    BY <2>4, <2>5
<1>8. CASE i \in Dependent(e, D)
  <2>1. u.pause = sim - u.entered /\ p.pause > 0
    BY <1>1, <1>8, DependencyWaits DEF LongStayInv
  <2>2. u.pause >= sim - u.entered
    BY <1>0, <1>2, <2>1
  <2>3. Service(u, sim) = 0 /\ Service(p, sim) = 0
    <3> PICK c, q, k : c = u.entered /\ q = u.pause /\ k = p.pause
      OBVIOUS
    <3>1. k >= sim - c
      <4>1. q <= k /\ q >= sim - c /\ q \in Nat /\ k \in Nat /\ c \in Nat
        BY <1>1, <1>2, <2>2
      <4> QED
        BY <1>0, <4>1
    <3>2. p.pause >= sim - p.entered
      BY <1>1, <3>1
    <3>3. Service(p, sim) = 0
      BY <1>3, <3>2
    <3>4. Service(u, sim) = 0
      BY <1>3, <2>2
    <3> QED
      BY <3>3, <3>4
  <2> PICK b, w : b = Service(p, e) /\ w = Service(u, e)
    OBVIOUS
  <2>4. b \in Nat /\ w \in Nat /\ d \in Nat /\ u.stays \in Nat /\ b <= w
    <3>1. u.entered <= e
      BY <1>0, <1>2
    <3> QED
      BY <1>0, <1>1, <1>2, <1>3, <3>1, WaitSetsBack
  <2>5. CASE LongStayFirst
    <3>1. n = u.stays + (IF 0 < d /\ d <= w THEN 1 ELSE 0)
      BY <1>5, <1>6, <2>3, <2>5
    <3>2. d > 0 /\ b >= d => n >= 1
      BY <2>4, <3>1
    <3> QED
      BY <1>1, <2>1, <2>5, <3>2 DEF Detected
  <2>6. CASE ~LongStayFirst
    <3>1. u.stays = 0
      <4>1. u.stays = IF d > 0 /\ 0 >= d THEN 1 ELSE 0
        BY <1>4, <2>3, <2>6 DEF Detected
      <4> QED
        BY <2>4, <4>1
    <3>2. n = u.stays + (IF 0 < d /\ d <= b THEN 1 ELSE 0)
      BY <1>1, <1>5, <1>6, <2>3, <2>6
    <3>3. n = IF d > 0 /\ b >= d THEN 1 ELSE 0
      BY <2>4, <3>1, <3>2
    <3> QED
      BY <1>1, <2>6, <3>3 DEF Detected
  <2> QED
    BY <2>5, <2>6
<1> QED
  BY <1>7, <1>8

\* A tick keeps the count of long stays at what the service time says.
LEMMA StaysGoOn ==
  ASSUME LongStayInv, NEW limit, NEW D, NEW L, NEW r, NEW e, NEW drawn,
         Ticked(limit, D, L, r, e, drawn)
  PROVE  LongStayInv'
<1>0. LaborInv /\ LaborTypes
  BY DEF LongStayInv, SliceInv, LaborInv
<1>1. /\ limit \in (sim + 1)..Horizon /\ e \in sim..limit /\ Slice(r, e, D, L)
      /\ \A i \in r.closed : r.vs[i].step < LastStep => drawn[i] \in Samples
      /\ sim' = e /\ visit' = Transition(r, drawn)
  BY DEF Ticked
<1> PICK x, S, C : x = Transition(r, drawn) /\ S = Open(visit) /\ C = r.closed
  OBVIOUS
<1>2. sim \in Nat /\ sim \in 0..Horizon /\ e \in Nat /\ e \in 0..Horizon /\ e \in sim..Horizon /\ Horizon \in Nat
  BY <1>0, <1>1, LaborAssumption DEF LaborTypes
<1>3. /\ r.end = e /\ r.vs \in Visits
      /\ \A i \in Items : /\ r.vs[i].entered = visit[i].entered /\ r.vs[i].dwell = visit[i].dwell
                          /\ r.vs[i].open = visit[i].open /\ r.vs[i].pause = Paused(e, D)[i].pause
  BY <1>1 DEF Slice
<1>4. \A i \in S : r.vs[i].stays = visit[i].stays + (IF Crossed(Seen(e, D, i), e) THEN 1 ELSE 0)
  BY <1>1 DEF Slice, Seen
<1>5. ASSUME NEW i \in Open(x)
      PROVE Detected(x[i], e, x[i].stays)
  <2> PICK v : v = x[i]
    OBVIOUS
  <2>1. i \in Items /\ v.open
    BY DEF Open
  <2>2. /\ v \in VisitState /\ (i \notin C => v = r.vs[i])
        /\ i \in C => v.entered = e /\ v.pause = 0 /\ v.stays = 0
    <3>1. r.end \in Nat /\ (i \in r.closed /\ r.vs[i].step < LastStep => drawn[i] \in Samples)
      BY <1>1, <1>2, <1>3
    <3> QED
      BY <1>3, <2>1, <3>1, Moved
  <2>3. v.dwell \in Nat
    BY <2>2 DEF VisitState
  <2>4. CASE i \in C
    <3>1. Service(v, e) = 0
      <4>1. Elapsed(e, e) = 0
        BY <1>2, ElapsedInt
      <4>2. Service(v, e) = Floor0(0 - 0)
        BY <2>2, <2>4, <4>1 DEF Service
      <4> QED
        BY <4>2 DEF Floor0
    <3> QED
      BY <2>2, <2>3, <2>4, <3>1 DEF Detected
  <2>5. CASE i \notin C
    <3> PICK p : p = Paused(e, D)[i]
      OBVIOUS
    <3>1. i \in S
      BY <1>3, <2>1, <2>2, <2>5 DEF Open
    <3> PICK n : n = visit[i].stays + (IF Crossed(Seen(e, D, i), e) THEN 1 ELSE 0)
      OBVIOUS
    <3>2. Detected(p, e, n)
      BY <1>2, <3>1, StayCounted
    <3>3. p.entered = visit[i].entered /\ p.dwell = visit[i].dwell
      BY <1>0, <1>2, <2>1, VisitPaused
    <3>4. v.entered = p.entered /\ v.dwell = p.dwell /\ v.pause = p.pause
          /\ v.stays = n
      BY <1>3, <1>4, <2>1, <2>2, <2>5, <3>1, <3>3
    <3>5. Service(v, e) = Service(p, e)
      BY <3>4 DEF Service
    <3> QED
      BY <3>2, <3>4, <3>5 DEF Detected
  <2> QED
    BY <2>4, <2>5
<1>6. SliceInv'
  BY WaitsGoOn DEF LongStayInv
<1>7. LongStayDetected'
  BY <1>1, <1>5 DEF LongStayDetected, Open, Service, Detected
<1> QED
  BY <1>6, <1>7 DEF LongStayInv

\* In every order of the rules a long stay is recorded when the service time reaches the
\* threshold; and it is recorded once, and not before, but where LONG_STAY stands first and a
\* wait was added to the visit: a wait begins at the entry or goes on, so the service time
\* falls in no other case (risks._long_stay_record, _threshold_crossed, _dependency_records).
THEOREM LongStaysDetected == LaborSpec => []LongStayDetected
<1>1. LaborInit => LongStayInv
  <2> SUFFICES ASSUME LaborInit PROVE LongStayInv
    OBVIOUS
  <2>0. 0 \in 0..Horizon
    BY LaborAssumption
  <2>1. ASSUME NEW i \in Open(visit)
        PROVE  /\ visit[i].pause = 0 /\ visit[i].stays = 0 /\ visit[i].dwell \in Nat
               /\ visit[i].entered = 0
    <3>1. PICK s \in Samples : visit[i] = EnteredVisit(1, 0, s)
      BY DEF LaborInit, Open
    <3>2. s.dwell \in Nat
      BY <3>1, LaborAssumption
    <3> QED
      BY <3>1, <3>2 DEF EnteredVisit
  <2>2. LongStayDetected
    <3> SUFFICES ASSUME NEW i \in Open(visit) PROVE Detected(visit[i], sim, visit[i].stays)
      BY DEF LongStayDetected, Service, Detected
    <3>1. Elapsed(0, 0) = 0 /\ sim = 0
      BY <2>0, ElapsedInt DEF LaborInit
    <3>2. Service(visit[i], sim) = 0
      <4>1. Service(visit[i], sim) = Floor0(0 - 0)
        BY <2>1, <3>1 DEF Service
      <4> QED
        BY <4>1 DEF Floor0
    <3> QED
      BY <2>1, <3>2 DEF Detected
  <2> QED
    BY <2>2, SliceStarts DEF LongStayInv
<1>2. LongStayInv /\ [Tick]_laborVars => LongStayInv'
  <2>1. CASE Tick
    <3> SUFFICES ASSUME LongStayInv PROVE LongStayInv'
      BY <2>1
    <3>1. \E limit, D, L, r, e, drawn : Ticked(limit, D, L, r, e, drawn)
      BY <2>1, TickIs DEF LongStayInv, SliceInv
    <3> QED
      BY <3>1, StaysGoOn
  <2>2. CASE UNCHANGED laborVars
    BY <2>2 DEF laborVars, LongStayInv, SliceInv, WaitsFromEntry, LongStayDetected, LaborInv, LaborTypes, UsageBounded, DayTime,
                Total, LaborOf, Open, VisitTimeAccounted, Left, EnteredBy
  <2> QED
    BY <2>1, <2>2
<1>3. LongStayInv => LongStayDetected
  BY DEF LongStayInv
<1> QED
  BY <1>1, <1>2, <1>3, PTL DEF LaborSpec
-----------------------------------------------------------------------------
(* A segment that is run again with a shorter end (the second call of      *)
(* _advance_segment).                                                      *)

LEMMA RoundedGrows ==
  ASSUME NEW a \in Nat, NEW b \in Nat, a <= b
  PROVE  Rounded(a) <= Rounded(b) /\ a \div Whole <= Rounded(a)
<1> PICK w : w = Whole
  OBVIOUS
<1>1. w \in Nat /\ w > 0
  BY WholeNat
<1> PICK p, q, r, s : p = a \div w /\ q = b \div w /\ r = a % w /\ s = b % w
  OBVIOUS
<1>2. /\ p \in Nat /\ q \in Nat /\ r \in Nat /\ s \in Nat /\ r < w /\ s < w
      /\ a = w * p + r /\ b = w * q + s
  BY <1>1
<1>3. /\ Rounded(a) = (IF 2 * r > w \/ (2 * r = w /\ p % 2 = 1) THEN p + 1 ELSE p)
      /\ Rounded(b) = (IF 2 * s > w \/ (2 * s = w /\ q % 2 = 1) THEN q + 1 ELSE q)
  BY DEF Rounded
<1>4. p <= q
  <2> SUFFICES ASSUME p >= q + 1 PROVE FALSE
    BY <1>2
  <2>1. w * p >= w * (q + 1)
    BY <1>1, <1>2
  <2>2. w * (q + 1) = w * q + w
    BY <1>1, <1>2
  <2>3. w * p \in Nat /\ w * q \in Nat
    BY <1>1, <1>2
  <2> QED
    BY <1>1, <1>2, <2>1, <2>2, <2>3
<1>5. CASE p = q
  <2>1. r <= s
    <3> PICK z : z = w * p
      OBVIOUS
    <3>1. z \in Nat /\ a = z + r /\ b = z + s
      BY <1>1, <1>2, <1>5
    <3> QED
      BY <1>2, <3>1
  <2> QED
    BY <1>1, <1>2, <1>3, <1>5, <2>1
<1>6. CASE p < q
  <2> PICK c, d : c = Rounded(a) /\ d = Rounded(b)
    OBVIOUS
  <2>1. (c = p \/ c = p + 1) /\ (d = q \/ d = q + 1)
    BY <1>3
  <2>2. c <= d /\ p <= c
    BY <1>2, <1>6, <2>1
  <2> QED
    BY <2>2
<1> QED
  BY <1>2, <1>3, <1>4, <1>5, <1>6

\* More than half of a member's time, and only that, never rounds to nothing.
LEMMA MostRounds ==
  ASSUME NEW long \in Nat, long > 0, NEW part \in 0..Whole, part = 0 \/ 2 * part > Whole
  PROVE  Rounded(long * part) > 0 <=> part > 0
<1> PICK w : w = Whole
  OBVIOUS
<1>1. w \in Nat /\ w > 0 /\ part \in Nat /\ part <= w
  BY WholeNat
<1>2. CASE part = 0
  <2>1. long * part = 0
    BY <1>2
  <2>2. 0 \div w = 0 /\ 0 % w = 0
    BY <1>1
  <2>3. Rounded(0) = 0
    BY <1>1, <2>2 DEF Rounded
  <2> QED
    BY <1>2, <2>1, <2>3
<1>3. CASE part > 0
  <2>1. 2 * part > w
    BY <1>3
  <2>2. Rounded(part) > 0
    <3>1. CASE part = w
      <4>1. w \div w = 1
        BY <1>1
      <4>2. part \div Whole = 1 /\ part <= part
        BY <1>1, <3>1, <4>1
      <4>3. 1 <= Rounded(part) /\ Rounded(part) \in Nat
        BY <1>1, <4>2, RoundedGrows, RoundedNat
      <4> QED
        BY <4>3
    <3>2. CASE part < w
      <4>1. part \div w = 0 /\ part % w = part
        BY <1>1, <3>2
      <4>2. Rounded(part) = 1
        BY <1>1, <2>1, <4>1 DEF Rounded
      <4> QED
        BY <4>2
    <3> QED
      BY <1>1, <3>1, <3>2
  <2> PICK n : n = long * part
    OBVIOUS
  <2>3. n \in Nat /\ part <= n
    BY <1>1
  <2>4. Rounded(part) <= Rounded(n) /\ Rounded(part) \in Nat /\ Rounded(n) \in Nat
    BY <1>1, <2>3, RoundedGrows, RoundedNat
  <2>5. Rounded(n) > 0
    BY <2>2, <2>4
  <2> QED
    BY <1>3, <2>5
<1> QED
  BY <1>1, <1>2, <1>3

\* Segment k starts with g and is not longer.
Shorter(k, g) == WorkSpan(g) /\ WorkSpan(k) /\ k.from = g.from /\ k.to \in (g.from + 1)..g.to

\* Who is absent at t is away for more than half of the time or altogether.
MostlyThere(away, t) ==
  \A a \in away : a.from <= t /\ t < a.to => a.part = 0 \/ 2 * a.part > Whole

\* Where nobody is away for half of the time or less, a shorter segment has the same
\* shares and ceilings, and the same members are available.
LEMMA SameShares ==
  ASSUME NEW away, Shared(away), NEW g, NEW k, Shorter(k, g), MostlyThere(away, g.from), NEW m \in Members
  PROVE  /\ Fraction(k, m, away) = Fraction(g, m, away) /\ Ceiling(k, m, away) = Ceiling(g, m, away)
         /\ Fraction(g, m, away) \in 0..Whole /\ Ceiling(g, m, away) \in Nat
         /\ Available(g, m, away) \in Nat /\ Available(k, m, away) \in Nat
         /\ Available(k, m, away) <= Available(g, m, away)
         /\ Available(k, m, away) = Rounded((k.to - g.from) * Fraction(g, m, away))
         /\ Available(g, m, away) > 0 <=> Fraction(g, m, away) > 0
         /\ Available(k, m, away) > 0 <=> Fraction(g, m, away) > 0
<1>0. WorkSpan(g) /\ WorkSpan(k) /\ k.from = g.from /\ k.to \in (g.from + 1)..g.to
  BY DEF Shorter
<1>1. Active(k, m, away) = Active(g, m, away)
  BY <1>0 DEF Active
<1>2. Fraction(k, m, away) = Fraction(g, m, away)
  BY <1>1 DEF Fraction
<1>3. Ceiling(k, m, away) = Ceiling(g, m, away)
  BY <1>1, <1>2 DEF Ceiling
<1> PICK p : p = Fraction(g, m, away)
  OBVIOUS
<1>4. p \in 0..Whole /\ Ceiling(g, m, away) \in Nat
  BY <1>0, Shares
<1>5. p = 0 \/ 2 * p > Whole
  <2> PICK S : S = {Whole} \cup {i.part : i \in Active(g, m, away)}
    OBVIOUS
  <2>1. S \in SUBSET Nat /\ S # {}
    <3>1. \A i \in Active(g, m, away) : i.part \in 0..Whole
      BY DEF Active, Shared
    <3> QED
      BY <3>1, WholeNat
  <2>2. p \in S
    BY <2>1, LeastIsMin DEF Fraction
  <2>3. CASE p = Whole
    BY <2>3, WholeNat
  <2>4. CASE p # Whole
    <3>1. PICK i \in Active(g, m, away) : p = i.part
      BY <2>2, <2>4
    <3> QED
      BY <3>1 DEF Active, MostlyThere
  <2> QED
    BY <2>3, <2>4
<1> PICK a, b : a = g.to - g.from /\ b = k.to - g.from
  OBVIOUS
<1>6. a \in Nat /\ b \in Nat /\ b > 0 /\ a > 0 /\ b <= a
  <2>1. g.from \in Nat /\ g.to \in Nat
    BY <1>0, SpanDate
  <2> QED
    BY <1>0, <2>1
<1>7. Available(g, m, away) = Rounded(a * p) /\ Available(k, m, away) = Rounded(b * p)
  BY <1>0, <1>2 DEF Available
<1>8. a * p \in Nat /\ b * p \in Nat /\ b * p <= a * p
  BY <1>4, <1>6, WholeNat
<1>9. Rounded(a * p) \in Nat /\ Rounded(b * p) \in Nat /\ Rounded(b * p) <= Rounded(a * p)
  BY <1>8, RoundedGrows, RoundedNat
<1>10. (Rounded(a * p) > 0 <=> p > 0) /\ (Rounded(b * p) > 0 <=> p > 0)
  BY <1>4, <1>5, <1>6, MostRounds
<1> QED
  BY <1>2, <1>3, <1>4, <1>7, <1>9, <1>10

\* The same members have room, so the same ones own the visits.
LEMMA SameOwners ==
  ASSUME NEW away, Shared(away), NEW g, NEW k, Shorter(k, g), MostlyThere(away, g.from),
         NEW vs \in Visits, NEW us \in Usage, NEW ranked \in SUBSET Items
  PROVE  AssignOwners(vs, us, k, away, ranked) = AssignOwners(vs, us, g, away, ranked)
<1>1. WorkSpan(g) /\ WorkSpan(k) /\ k.from = g.from /\ DateOf(g.from) \in Days
  BY SpanDate DEF Shorter
<1> PICK S : S = {i \in ranked : /\ vs[i].owner # 0
                                 /\ Proficiency[vs[i].owner][vs[i].step] > 0
                                 /\ Available(g, vs[i].owner, away) > 0}
  OBVIOUS
<1>2. S = {i \in ranked : /\ vs[i].owner # 0
                          /\ Proficiency[vs[i].owner][vs[i].step] > 0
                          /\ Available(k, vs[i].owner, away) > 0}
  <2>1. ASSUME NEW i \in ranked, vs[i].owner # 0
        PROVE  Available(g, vs[i].owner, away) > 0 <=> Available(k, vs[i].owner, away) > 0
    <3> PICK m : m = vs[i].owner
      OBVIOUS
    <3>1. m \in Members
      BY <2>1, VisitFields
    <3>2. (Available(g, m, away) > 0 <=> Fraction(g, m, away) > 0)
          /\ (Available(k, m, away) > 0 <=> Fraction(g, m, away) > 0)
      BY <3>1, SameShares
    <3> QED
      BY <3>2
  <2> QED
    BY <2>1
<1> PICK x : x = Retained(vs, g, away, ranked)
  OBVIOUS
<1> PICK kept : kept = {i \in S : Cardinality({j \in S : j < i /\ vs[j].owner = vs[i].owner}) < Wip[vs[i].owner]}
  OBVIOUS
<1>3. x = Updated(vs, ranked \ kept, LAMBDA v, i : [v EXCEPT !.owner = 0])
  BY DEF Retained
<1>4. Retained(vs, k, away, ranked) = Updated(vs, ranked \ kept, LAMBDA v, i : [v EXCEPT !.owner = 0])
  BY <1>2 DEF Retained
<1>5. x = Retained(vs, k, away, ranked)
  BY <1>3, <1>4 DEF Updated
<1> PICK room, n : /\ room = {m \in Members : /\ Fraction(g, m, away) > 0
                                              /\ RemainingCapacity(g, m, away, us) > 0}
                   /\ n = Cardinality(Items)
  OBVIOUS
<1>6. room = {m \in Members : /\ Fraction(k, m, away) > 0
                              /\ RemainingCapacity(k, m, away, us) > 0}
  <2>1. ASSUME NEW m \in Members
        PROVE /\ Fraction(k, m, away) = Fraction(g, m, away)
              /\ Fraction(g, m, away) > 0 =>
                   (RemainingCapacity(k, m, away, us) > 0 <=> RemainingCapacity(g, m, away, us) > 0)
    <3>1. /\ Fraction(k, m, away) = Fraction(g, m, away) /\ Ceiling(k, m, away) = Ceiling(g, m, away)
          /\ Ceiling(g, m, away) \in Nat /\ Available(g, m, away) \in Nat /\ Available(k, m, away) \in Nat
          /\ Available(g, m, away) > 0 <=> Fraction(g, m, away) > 0
          /\ Available(k, m, away) > 0 <=> Fraction(g, m, away) > 0
      BY SameShares
    <3> PICK a, b, c : /\ a = Available(g, m, away) /\ b = Available(k, m, away)
                       /\ c = Ceiling(g, m, away) - us[m][DateOf(g.from)]
      OBVIOUS
    <3>2. a \in Nat /\ b \in Nat /\ c \in Int
      <4>1. us[m][DateOf(g.from)] \in Nat
        BY <1>1, UsageFields
      <4> QED
        BY <3>1, <4>1
    <3>3. RemainingCapacity(g, m, away, us) = Floor0(Min({a, c})) /\ RemainingCapacity(k, m, away, us) = Floor0(Min({b, c}))
      BY <1>1, <3>1 DEF RemainingCapacity
    <3>4. Min({a, c}) = (IF a <= c THEN a ELSE c) /\ Min({b, c}) = (IF b <= c THEN b ELSE c)
      BY <3>2 DEF Min
    <3>5. ASSUME Fraction(g, m, away) > 0
          PROVE  Floor0(Min({a, c})) > 0 <=> Floor0(Min({b, c})) > 0
      <4>1. a > 0 /\ b > 0
        BY <3>1, <3>5
      <4> QED
        BY <3>2, <3>4, <4>1 DEF Floor0
    <3> QED
      BY <3>1, <3>3, <3>5
  <2> QED
    BY <2>1
<1> DEFINE Is(h) == h = [c \in 0..n |-> IF c = 0 THEN x ELSE AssignOwner(h[c - 1], c, room, ranked)]
<1>7. AssignOwners(vs, us, g, away, ranked) = (CHOOSE h : Is(h))[n]
  BY DEF AssignOwners
<1>8. AssignOwners(vs, us, k, away, ranked) = (CHOOSE h : Is(h))[n]
  BY <1>5, <1>6 DEF AssignOwners
<1> QED
  BY <1>7, <1>8

\* What _advance_visit gives visit i.
Given(w, i, g, away, start) ==
  IF w.vs[i].owner = 0 \/ w.vs[i].left = 0 THEN 0 ELSE Credit(w, i, g, away, start)

\* x comes from w by labor c on visit i on date d.
Stepped(x, w, i, c, d) ==
  /\ c \in Nat
  /\ \A j \in Items : j # i => x.vs[j] = w.vs[j]
  /\ x.vs[i].owner = w.vs[i].owner
  /\ x.vs[i].left = w.vs[i].left - c /\ x.vs[i].credited = w.vs[i].credited + c
  /\ \A m \in Members : x.us[m][d] = w.us[m][d] + (IF m = w.vs[i].owner THEN c ELSE 0)

LEMMA BookedOne ==
  ASSUME NEW us \in Usage, NEW m \in Members, NEW d \in Days, NEW c \in Nat, NEW b, b = Booked(us, m, d, c),
         NEW n \in Members
  PROVE  b[n][d] = us[n][d] + (IF n = m THEN c ELSE 0)
<1>1. us[n][d] \in Nat
  BY UsageFields
<1> QED
  BY <1>1, BookedFields

\* A visit in its turn gets its credit, which is booked on its owner (_advance_visit).
LEMMA VisitStep ==
  ASSUME NEW vs \in Visits, NEW us \in Usage, NEW g, WorkSpan(g), NEW away, Shared(away),
         NEW S \in SUBSET Items, NEW ranked \in SUBSET S, NEW i \in ranked,
         NEW w, SoFar(w, vs, us, g, away, ranked, S, i - 1),
         NEW x, x = AdvanceVisit(w, i, g, away, us)
  PROVE  Stepped(x, w, i, Given(w, i, g, away, us), DateOf(g.from))
<1> PICK u, m, d, long, idle : /\ u = w.vs[i] /\ m = u.owner /\ d = DateOf(g.from)
                               /\ long = g.to - g.from
                               /\ idle = (u.owner = 0 \/ u.left = 0)
  OBVIOUS
<1> PICK c : c = Given(w, i, g, away, us)
  OBVIOUS
<1> PICK v : v = Labored(u, c, long)
  OBVIOUS
<1>1. /\ w.vs \in Visits /\ w.us \in Usage /\ SpentFrom(w.us, us, g, away) /\ i \in Items /\ d \in Days
      /\ long \in Nat /\ u \in VisitState
  <2>1. w.vs \in Visits /\ SpentFrom(w.us, us, g, away) /\ i \in Items
    BY DEF SoFar
  <2> QED
    BY <2>1, SpanDate, VisitFields DEF SpentFrom
<1>2. c = IF idle THEN 0 ELSE Credit(w, i, g, away, us)
  BY DEF Given
<1>3. x.vs = [w.vs EXCEPT ![i] = v] /\ x.us = IF idle THEN w.us ELSE Booked(w.us, m, d, c)
  BY <1>2 DEF AdvanceVisit
<1>4. u.left \in Nat /\ (u.owner # 0 => m \in Members)
  BY <1>1, VisitFields
<1>5. c \in Nat /\ c <= u.left /\ c <= long
  <2>1. CASE idle
    BY <1>1, <1>2, <1>4, <2>1
  <2>2. CASE ~idle
    <3>1. m \in Members /\ c = Credit(w, i, g, away, us)
      BY <1>2, <1>4, <2>2
    <3> QED
      BY <1>1, <3>1, CreditBounded
  <2> QED
    BY <2>1, <2>2
<1>6. v.owner = u.owner /\ v.left = u.left - c /\ v.credited = u.credited + c
  BY <1>1, <1>5, LaborDone
<1>7. x.vs[i] = v /\ \A j \in Items : j # i => x.vs[j] = w.vs[j]
  BY <1>1, <1>3 DEF Visits
<1>8. ASSUME NEW n \in Members PROVE x.us[n][d] = w.us[n][d] + (IF n = m THEN c ELSE 0)
  <2>1. w.us[n][d] \in Nat
    BY <1>1, UsageFields
  <2>2. CASE idle
    BY <1>2, <1>3, <2>1, <2>2
  <2>3. CASE ~idle
    <3>1. m \in Members /\ x.us = Booked(w.us, m, d, c)
      BY <1>3, <1>4, <2>3
    <3>2. x.us[n][d] = w.us[n][d] + (IF n = m THEN c ELSE 0)
      BY <1>1, <1>5, <3>1, BookedOne
    <3> QED
      BY <3>2
  <2> QED
    BY <2>2, <2>3
<1> QED
  BY <1>5, <1>6, <1>7, <1>8 DEF Stepped

\* One rank of a segment.
LEMMA RunStep ==
  ASSUME NEW vs \in Visits, NEW us \in Usage, NEW g, WorkSpan(g), NEW away, Shared(away),
         NEW S \in SUBSET Items, NEW ranked \in SUBSET S,
         NEW h, NEW x, Ranked(h, x, vs, us, g, away, ranked, S), NEW c \in 0..(Cardinality(Items) - 1)
  PROVE  /\ c + 1 \in ranked =>
              Stepped(h[c + 1], h[c], c + 1, Given(h[c], c + 1, g, away, us), DateOf(g.from))
         /\ c + 1 \notin ranked => h[c + 1] = h[c]
<1>1. Cardinality(Items) \in Nat
  BY ItemRanks
<1>2. SoFar(h[c], vs, us, g, away, ranked, S, c)
  BY <1>1 DEF Ranked
<1>3. h[c + 1] = IF c + 1 \in ranked THEN AdvanceVisit(h[c], c + 1, g, away, us) ELSE h[c]
  BY DEF Ranked, Advancing
<1>4. ASSUME c + 1 \in ranked
      PROVE  Stepped(h[c + 1], h[c], c + 1, Given(h[c], c + 1, g, away, us), DateOf(g.from))
  <2> PICK i, w, y : i = c + 1 /\ w = h[c] /\ y = h[c + 1]
    OBVIOUS
  <2>1. i - 1 = c /\ y = AdvanceVisit(w, i, g, away, us) /\ i \in ranked
    BY <1>1, <1>3, <1>4
  <2>2. SoFar(w, vs, us, g, away, ranked, S, i - 1)
    BY <1>2, <2>1
  <2>3. Stepped(y, w, i, Given(w, i, g, away, us), DateOf(g.from))
    BY <2>1, <2>2, VisitStep
  <2> QED
    BY <2>3
<1> QED
  BY <1>3, <1>4

\* A visit is not touched after its rank.
RankKept(h, x, j) ==
  /\ \A c \in j..Cardinality(Items) : h[c].vs[j] = h[j].vs[j]
  /\ x.vs[j] = h[j].vs[j]

\* A visit changes at its own rank only.
LEMMA RankSettled ==
  ASSUME NEW vs \in Visits, NEW us \in Usage, NEW g, WorkSpan(g), NEW away, Shared(away),
         NEW S \in SUBSET Items, NEW ranked \in SUBSET S,
         NEW h, NEW x, Ranked(h, x, vs, us, g, away, ranked, S), NEW j \in Items
  PROVE  RankKept(h, x, j)
<1> PICK n : n = Cardinality(Items)
  OBVIOUS
<1>1. n \in Nat /\ j \in 1..n /\ j \in Nat /\ j <= n /\ n \in j..n
  BY ItemRanks
<1> DEFINE E == {c \in j..n : h[c].vs[j] = h[j].vs[j]}
<1>2. j \in E
  BY <1>1
<1>3. ASSUME NEW c \in j..(n - 1), c \in E PROVE c + 1 \in E
  <2>1. c \in 0..(Cardinality(Items) - 1) /\ c + 1 \in j..n /\ c + 1 # j
    BY <1>1
  <2>2. /\ c + 1 \in ranked => Stepped(h[c + 1], h[c], c + 1, Given(h[c], c + 1, g, away, us), DateOf(g.from))
        /\ c + 1 \notin ranked => h[c + 1] = h[c]
    BY <2>1, RunStep
  <2>3. h[c + 1].vs[j] = h[c].vs[j]
    BY <2>1, <2>2 DEF Stepped
  <2> QED
    BY <1>3, <2>1, <2>3
<1> HIDE DEF E
<1>4. \A c \in j..n : c \in E
  BY <1>1, <1>2, <1>3, FromUpTo
<1>5. \A c \in j..n : h[c].vs[j] = h[j].vs[j]
  BY <1>4 DEF E
<1>6. x = h[n]
  BY DEF Ranked
<1> QED
  BY <1>1, <1>5, <1>6 DEF RankKept

\* The labor of member m by visit.
Gains(v, vs, m) == [j \in Items |-> IF v[j].owner = m THEN v[j].credited - vs[j].credited ELSE 0]

\* After every rank the labor of member m on date d is the labor of its visits.
AddedUp(h, vs, us, m, d) ==
  \A c \in 0..Cardinality(Items) :
    /\ SumFunction(Gains(h[c].vs, vs, m)) \in Int
    /\ h[c].us[m][d] = us[m][d] + SumFunction(Gains(h[c].vs, vs, m))

\* What a member has worked up to a rank is the credit of the member's visits up to it.
LEMMA MemberLabor ==
  ASSUME NEW vs \in Visits, NEW us \in Usage, NEW g, WorkSpan(g), NEW away, Shared(away),
         NEW S \in SUBSET Items, NEW ranked \in SUBSET S,
         NEW h, NEW x, Ranked(h, x, vs, us, g, away, ranked, S),
         NEW m \in Members, NEW d, d = DateOf(g.from)
  PROVE  AddedUp(h, vs, us, m, d)
<1> PICK n : n = Cardinality(Items)
  OBVIOUS
<1>1. n \in Nat /\ 0 \in Nat /\ 0 <= n /\ 0 \in 0..n /\ d \in Days
  BY ItemRanks, SpanDate
<1> DEFINE sum(c) == SumFunctionOnSet(Gains(h[c].vs, vs, m), Items)
           E == {c \in 0..n : sum(c) \in Int /\ h[c].us[m][d] = us[m][d] + sum(c)}
<1>2. 0 \in E
  <2>1. h[0] = [vs |-> AssignOwners(vs, us, g, away, ranked), us |-> us]
    BY DEF Ranked, Advancing
  <2>2. Reowned(h[0].vs, vs, ranked) /\ h[0].us = us
    <3>1. ranked \in SUBSET Items
      OBVIOUS
    <3> QED
      BY <2>1, <3>1, OwnersAssigned
  <2>3. \A j \in Items : Gains(h[0].vs, vs, m)[j] = 0
    <3> TAKE j \in Items
    <3>1. h[0].vs[j].credited = vs[j].credited /\ vs[j].credited \in Nat
      BY <2>2, VisitFields DEF Reowned, SameWork
    <3> QED
      BY <3>1 DEF Gains
  <2>4. sum(0) = 0
    BY <2>3, DaysFinite, SumZero
  <2>5. us[m][d] \in Nat
    BY <1>1, UsageFields
  <2> QED
    BY <1>1, <2>2, <2>4, <2>5
<1>3. ASSUME NEW c \in 0..(n - 1), c \in E PROVE c + 1 \in E
  <2> PICK i, w, y, f, k : i = c + 1 /\ w = h[c] /\ y = h[c + 1] /\ f = Gains(w.vs, vs, m) /\ k = Gains(y.vs, vs, m)
    OBVIOUS
  <2>1. c \in 0..(Cardinality(Items) - 1) /\ i \in 0..n /\ i \in Items
    BY <1>1, ItemRanks
  <2>2. w.vs \in Visits /\ w.us \in Usage
    <3>1. c \in 0..Cardinality(Items)
      BY <1>1
    <3> QED
      BY <3>1 DEF Ranked, SoFar, SpentFrom
  <2>3. /\ i \in ranked => Stepped(y, w, i, Given(w, i, g, away, us), DateOf(g.from))
        /\ i \notin ranked => y = w
    BY <2>1, RunStep
  <2>4. SumFunctionOnSet(f, Items) \in Int /\ w.us[m][d] = us[m][d] + SumFunctionOnSet(f, Items)
    BY <1>3
  <2>5. CASE i \notin ranked
    BY <2>1, <2>3, <2>4, <2>5
  <2>6. CASE i \in ranked
    <3> PICK b : b = Given(w, i, g, away, us)
      OBVIOUS
    <3> PICK e : e = IF m = w.vs[i].owner THEN b ELSE 0
      OBVIOUS
    <3>1. Stepped(y, w, i, b, d) /\ b \in Nat /\ e \in Int
      BY <2>3, <2>6 DEF Stepped
    <3>2. ASSUME NEW j \in Items PROVE f[j] \in Int /\ k[j] = f[j] + (IF j = i THEN e ELSE 0)
      <4>1. vs[j].credited \in Nat /\ w.vs[j].credited \in Nat
        BY <2>2, VisitFields
      <4>2. /\ f[j] = (IF w.vs[j].owner = m THEN w.vs[j].credited - vs[j].credited ELSE 0)
            /\ k[j] = (IF y.vs[j].owner = m THEN y.vs[j].credited - vs[j].credited ELSE 0)
        BY DEF Gains
      <4>3. CASE j # i
        <5>1. y.vs[j] = w.vs[j]
          BY <3>1, <4>3 DEF Stepped
        <5> QED
          BY <4>1, <4>2, <4>3, <5>1
      <4>4. CASE j = i
        <5>1. y.vs[j].owner = w.vs[j].owner /\ y.vs[j].credited = w.vs[j].credited + b
          BY <3>1, <4>4 DEF Stepped
        <5> QED
          BY <3>1, <4>1, <4>2, <4>4, <5>1
      <4> QED
        BY <4>3, <4>4
    <3>3. Grown(k, f, Items, i, e)
      BY <3>2 DEF Grown
    <3>4. SumFunctionOnSet(k, Items) = SumFunctionOnSet(f, Items) + e
      BY <2>1, <3>1, <3>3, DaysFinite, SumGrows
    <3>5. y.us[m][d] = w.us[m][d] + e
      BY <3>1 DEF Stepped
    <3>6. us[m][d] \in Nat
      BY <1>1, UsageFields
    <3>7. SumFunctionOnSet(k, Items) \in Int /\ y.us[m][d] = us[m][d] + SumFunctionOnSet(k, Items)
      BY <2>4, <3>1, <3>4, <3>5, <3>6
    <3> QED
      BY <2>1, <3>7
  <2> QED
    BY <2>5, <2>6
<1> HIDE DEF E
<1>4. \A c \in 0..n : c \in E
  BY <1>1, <1>2, <1>3, FromUpTo
<1>5. \A c \in 0..n : SumFunction(Gains(h[c].vs, vs, m)) = sum(c)
  BY DEF SumFunction, Gains
<1> QED
  BY <1>4, <1>5 DEF E, AddedUp

\* Less of a member's time gives a visit the same labor, or there was more of it before.
SameCredit(l, u, a, b, s) ==
  \/ Min({l, Floor0(a - s), u}) = Min({l, Floor0(b - s), u})
  \/ s + Min({l, Floor0(a - s), u}) > b

\* A credit that the shorter segment has room for is the same in both.
LEMMA ShortenedCredit ==
  ASSUME NEW l \in Nat, NEW u \in Nat, NEW a \in Nat, NEW b \in Nat, b <= a, NEW s \in 0..a
  PROVE  SameCredit(l, u, a, b, s)
<1> PICK A, B, x, y : /\ A = {l, Floor0(a - s), u} /\ B = {l, Floor0(b - s), u}
                      /\ x = Floor0(a - s) /\ y = Floor0(b - s)
  OBVIOUS
<1>1. x \in Nat /\ y \in Nat /\ x = a - s /\ (s <= b => y = b - s) /\ y <= x
  BY DEF Floor0
<1>2. A \in SUBSET Nat /\ A # {} /\ B \in SUBSET Nat /\ B # {}
  BY <1>1
<1> PICK c, e : c = Min(A) /\ e = Min(B)
  OBVIOUS
<1>3. c \in A /\ (\A z \in A : c <= z) /\ e \in B /\ (\A z \in B : e <= z)
  BY <1>2, LeastIsMin
<1>4. /\ c \in {l, x, u} /\ c <= l /\ c <= x /\ c <= u /\ c \in Nat
      /\ e \in {l, y, u} /\ e <= l /\ e <= y /\ e <= u /\ e \in Nat
  BY <1>1, <1>2, <1>3
<1>5. ASSUME s + c <= b PROVE c = e
  <2>1. y = b - s /\ c <= y
    BY <1>1, <1>4, <1>5
  <2> QED
    BY <1>1, <1>4, <2>1
<1>6. c = e \/ s + c > b
  BY <1>4, <1>5
<1> QED
  BY <1>6 DEF SameCredit

\* Two runs are alike for member m: the owners, its visits and its labor on date d.
Alike(y, z, m, d) ==
  /\ y.us[m][d] = z.us[m][d]
  /\ \A j \in Items : y.vs[j].owner = z.vs[j].owner /\ (y.vs[j].owner = m => y.vs[j].left = z.vs[j].left)

\* Two runs that agree on a member before a rank agree after it, or the longer one has
\* gone beyond the shorter segment.
LEMMA StepAlike ==
  ASSUME NEW away, Shared(away), NEW g, NEW k, Shorter(k, g), MostlyThere(away, g.from), NEW us \in Usage,
         NEW m \in Members, NEW d, d = DateOf(g.from), NEW i \in Items,
         NEW y, NEW z, y.vs \in Visits, z.vs \in Visits, SpentFrom(y.us, us, g, away), SpentFrom(z.us, us, k, away),
         Alike(y, z, m, d),
         NEW a, NEW b, Stepped(a, y, i, Given(y, i, g, away, us), d), Stepped(b, z, i, Given(z, i, k, away, us), d)
  PROVE  Alike(a, b, m, d) \/ a.us[m][d] - us[m][d] > Available(k, m, away)
<1>0. WorkSpan(g) /\ WorkSpan(k) /\ k.from = g.from /\ d \in Days
  BY SpanDate DEF Shorter
<1> PICK c, e, v, w : c = Given(y, i, g, away, us) /\ e = Given(z, i, k, away, us) /\ v = y.vs[i] /\ w = z.vs[i]
  OBVIOUS
<1>1. Stepped(a, y, i, c, d) /\ Stepped(b, z, i, e, d) /\ c \in Nat /\ e \in Nat
  BY DEF Stepped
<1>2. /\ a.us[m][d] = y.us[m][d] + (IF m = v.owner THEN c ELSE 0)
      /\ b.us[m][d] = z.us[m][d] + (IF m = w.owner THEN e ELSE 0)
      /\ a.vs[i].owner = v.owner /\ b.vs[i].owner = w.owner
      /\ a.vs[i].left = v.left - c /\ b.vs[i].left = w.left - e
      /\ \A j \in Items : j # i => a.vs[j] = y.vs[j] /\ b.vs[j] = z.vs[j]
  BY <1>1 DEF Stepped
<1>3. v.owner = w.owner /\ (v.owner = m => v.left = w.left) /\ y.us[m][d] = z.us[m][d]
  BY DEF Alike
<1>4. v.left \in Nat /\ w.left \in Nat /\ y.us[m][d] \in Nat /\ z.us[m][d] \in Nat /\ us[m][d] \in Nat
  <2>1. y.us \in Usage /\ z.us \in Usage
    BY DEF SpentFrom
  <2> QED
    BY <1>0, <2>1, UsageFields, VisitFields
<1>5. CASE v.owner # m
  <2>1. a.us[m][d] = b.us[m][d]
    BY <1>2, <1>3, <1>4, <1>5
  <2>2. ASSUME NEW j \in Items
        PROVE a.vs[j].owner = b.vs[j].owner /\ (a.vs[j].owner = m => a.vs[j].left = b.vs[j].left)
    BY <1>2, <1>3, <1>5 DEF Alike
  <2> QED
    BY <2>1, <2>2 DEF Alike
<1>6. CASE v.owner = m
  <2>1. c = e \/ (y.us[m][d] - us[m][d]) + c > Available(k, m, away)
    <3>1. CASE v.owner = 0 \/ v.left = 0
      BY <1>3, <1>6, <3>1 DEF Given
    <3>2. CASE ~(v.owner = 0 \/ v.left = 0)
      <4> PICK now, before, t, l, p, q, top : /\ now = y.us[m][d] /\ before = us[m][d] /\ t = now - before /\ l = v.left
                                              /\ p = Available(g, m, away) /\ q = Available(k, m, away)
                                              /\ top = Ceiling(g, m, away)
        OBVIOUS
      <4>1. /\ Ceiling(k, m, away) = top /\ top \in Nat /\ p \in Nat /\ q \in Nat /\ q <= p
        BY SameShares
      <4>2. before <= now /\ now - before <= p
        BY <1>0 DEF SpentFrom
      <4>3. t \in 0..p
        BY <1>4, <4>1, <4>2
      <4>4. c = Min({l, Floor0(p - t), Floor0(top - now)})
        <5>1. c = Credit(y, i, g, away, us)
          BY <3>2 DEF Given
        <5> QED
          BY <1>6, <5>1 DEF Credit
      <4>5. e = Min({l, Floor0(q - t), Floor0(top - now)})
        <5>1. e = Credit(z, i, k, away, us)
          BY <1>3, <1>6, <3>2 DEF Given
        <5>2. w.owner = m /\ w.left = l /\ z.us[m][d] = now /\ DateOf(k.from) = d
          BY <1>0, <1>3, <1>6
        <5> QED
          BY <4>1, <5>1, <5>2 DEF Credit
      <4> PICK u : u = Floor0(top - now)
        OBVIOUS
      <4>6. u \in Nat
        BY <1>4, <4>1 DEF Floor0
      <4>7. c = e \/ t + c > q
        <5>1. l \in Nat /\ q <= p /\ t \in 0..p /\ p \in Nat /\ q \in Nat
          BY <1>4, <4>1, <4>3
        <5>2. SameCredit(l, u, p, q, t)
          BY <4>6, <5>1, ShortenedCredit
        <5> QED
          BY <4>4, <4>5, <5>2 DEF SameCredit
      <4> QED
        BY <4>7
    <3> QED
      BY <3>1, <3>2
  <2>2. CASE c = e
    <3>1. a.us[m][d] = b.us[m][d]
      BY <1>2, <1>3, <1>6, <2>2
    <3>2. ASSUME NEW j \in Items
          PROVE a.vs[j].owner = b.vs[j].owner /\ (a.vs[j].owner = m => a.vs[j].left = b.vs[j].left)
      <4>1. CASE j = i
        BY <1>2, <1>3, <1>6, <2>2, <4>1
      <4>2. CASE j # i
        BY <1>2, <4>2 DEF Alike
      <4> QED
        BY <4>1, <4>2
    <3> QED
      BY <3>1, <3>2 DEF Alike
  <2>3. CASE (y.us[m][d] - us[m][d]) + c > Available(k, m, away)
    <3> PICK n, o, q : n = y.us[m][d] /\ o = us[m][d] /\ q = Available(k, m, away)
      OBVIOUS
    <3>1. a.us[m][d] = n + c /\ n \in Nat /\ o \in Nat /\ q \in Nat
      BY <1>2, <1>4, <1>6, SameShares
    <3>2. (n + c) - o > q
      BY <1>1, <2>3, <3>1
    <3> QED
      BY <3>1, <3>2
  <2> QED
    BY <2>1, <2>2, <2>3
<1> QED
  BY <1>5, <1>6

\* Both runs are alike until a member has worked for longer than the shorter one.
AlikeUpTo(h, f, us, k, away, m, d) ==
  \A c \in 0..Cardinality(Items) :
    Alike(h[c], f[c], m, d) \/ h[c].us[m][d] - us[m][d] > Available(k, m, away)

\* Rank by rank the two runs agree on a member as long as the longer one has not gone
\* beyond the shorter segment.
LEMMA RunsAlike ==
  ASSUME NEW away, Shared(away), NEW g, NEW k, Shorter(k, g), MostlyThere(away, g.from),
         NEW vs \in Visits, NEW us \in Usage, NEW S \in SUBSET Items, NEW ranked \in SUBSET S,
         NEW h, NEW x, Ranked(h, x, vs, us, g, away, ranked, S),
         NEW f, NEW y, Ranked(f, y, vs, us, k, away, ranked, S),
         NEW m \in Members, NEW d, d = DateOf(g.from)
  PROVE  AlikeUpTo(h, f, us, k, away, m, d)
<1>0. WorkSpan(g) /\ WorkSpan(k) /\ k.from = g.from /\ d \in Days /\ DateOf(k.from) = d
  BY SpanDate DEF Shorter
<1> PICK n, q : n = Cardinality(Items) /\ q = Available(k, m, away)
  OBVIOUS
<1>1. n \in Nat /\ 0 \in Nat /\ 0 <= n /\ 0 \in 0..n
  BY ItemRanks
<1>2. q \in Nat
  BY SameShares
<1> DEFINE E == {c \in 0..n : Alike(h[c], f[c], m, d) \/ h[c].us[m][d] - us[m][d] > q}
<1>3. 0 \in E
  <2>1. h[0] = [vs |-> AssignOwners(vs, us, g, away, ranked), us |-> us]
        /\ f[0] = [vs |-> AssignOwners(vs, us, k, away, ranked), us |-> us]
    BY DEF Ranked, Advancing
  <2>2. ranked \in SUBSET Items
    OBVIOUS
  <2>3. AssignOwners(vs, us, k, away, ranked) = AssignOwners(vs, us, g, away, ranked)
    BY <2>2, SameOwners
  <2>4. Alike(h[0], f[0], m, d)
    BY <2>1, <2>3 DEF Alike
  <2> QED
    BY <1>1, <2>4
<1>4. ASSUME NEW c \in 0..(n - 1), c \in E PROVE c + 1 \in E
  <2> PICK i, w, z, a, b : i = c + 1 /\ w = h[c] /\ z = f[c] /\ a = h[c + 1] /\ b = f[c + 1]
    OBVIOUS
  <2>1. c \in 0..(Cardinality(Items) - 1) /\ i \in 0..n /\ i \in Items /\ c \in 0..n
    BY <1>1, ItemRanks
  <2>2. /\ w.vs \in Visits /\ z.vs \in Visits /\ SpentFrom(w.us, us, g, away) /\ SpentFrom(z.us, us, k, away)
    BY <2>1 DEF Ranked, SoFar
  <2>3. /\ i \in ranked => Stepped(a, w, i, Given(w, i, g, away, us), d)
        /\ i \notin ranked => a = w
    BY <1>0, <2>1, RunStep
  <2>4. /\ i \in ranked => Stepped(b, z, i, Given(z, i, k, away, us), d)
        /\ i \notin ranked => b = z
    BY <1>0, <2>1, RunStep
  <2>5. Alike(w, z, m, d) \/ w.us[m][d] - us[m][d] > q
    BY <1>4
  <2>6. CASE i \notin ranked
    BY <2>1, <2>3, <2>4, <2>5, <2>6
  <2>7. CASE i \in ranked /\ Alike(w, z, m, d)
    <3>1. Alike(a, b, m, d) \/ a.us[m][d] - us[m][d] > q
      BY <2>1, <2>2, <2>3, <2>4, <2>7, StepAlike
    <3> QED
      BY <2>1, <3>1
  <2>8. CASE i \in ranked /\ w.us[m][d] - us[m][d] > q
    <3>1. w.us[m][d] \in Nat /\ us[m][d] \in Nat
      <4>1. w.us \in Usage
        BY <2>2 DEF SpentFrom
      <4> QED
        BY <1>0, <4>1, UsageFields
    <3> PICK e : e = IF m = w.vs[i].owner THEN Given(w, i, g, away, us) ELSE 0
      OBVIOUS
    <3>2. a.us[m][d] = w.us[m][d] + e /\ e \in Nat
      BY <2>3, <2>8 DEF Stepped
    <3>3. a.us[m][d] - us[m][d] > q
      BY <1>2, <2>8, <3>1, <3>2
    <3> QED
      BY <2>1, <3>3
  <2> QED
    BY <2>5, <2>6, <2>7, <2>8
<1> HIDE DEF E
<1>5. \A c \in 0..n : c \in E
  BY <1>1, <1>3, <1>4, FromUpTo
<1> QED
  BY <1>5 DEF E, AlikeUpTo

\* What the owner of visit i has worked when its rank is done.
PriorDone(h, x, vs, us, i, m, d) ==
  h[i].us[m][d] = us[m][d] + Prior(vs, x.vs, i) + (x.vs[i].credited - vs[i].credited)

\* The labor that the estimate puts before a visit is what its owner did for higher ranks.
LEMMA PriorIs ==
  ASSUME NEW vs \in Visits, NEW us \in Usage, NEW g, WorkSpan(g), NEW away, Shared(away),
         NEW S, S = Open(vs), NEW ranked \in SUBSET S,
         NEW h, NEW x, Ranked(h, x, vs, us, g, away, ranked, S),
         NEW i \in S, NEW m \in Members, x.vs[i].owner = m, NEW d, d = DateOf(g.from)
  PROVE  PriorDone(h, x, vs, us, i, m, d)
<1> PICK n, w, p, c : /\ n = Cardinality(Items) /\ w = h[i] /\ p = Prior(vs, x.vs, i)
                      /\ c = x.vs[i].credited - vs[i].credited
  OBVIOUS
<1>1. S \in SUBSET Items /\ i \in Items /\ n \in Nat /\ i \in 0..n /\ i \in Nat /\ i \in i..n /\ n \in 0..n
  BY ItemRanks DEF Open
<1>2. x = h[n] /\ SoFar(w, vs, us, g, away, ranked, S, i) /\ SoFar(x, vs, us, g, away, ranked, S, n)
  BY <1>1 DEF Ranked
<1> PICK f, e : /\ f = Gains(w.vs, vs, m)
                /\ e = [j \in Items |-> IF j \in Open(vs) /\ j < i /\ x.vs[j].owner = x.vs[i].owner
                                        THEN x.vs[j].credited - vs[j].credited ELSE 0]
  OBVIOUS
<1>3. ASSUME NEW j \in Items
      PROVE  /\ vs[j].credited \in Nat /\ x.vs[j].credited \in Nat /\ w.vs[j].credited \in Nat
             /\ j \in Nat
             /\ j <= i => w.vs[j] = x.vs[j]
             /\ j > i => w.vs[j].credited = vs[j].credited
             /\ j \notin S => w.vs[j] = vs[j] /\ x.vs[j] = vs[j]
  <2>1. w.vs \in Visits /\ x.vs \in Visits
    BY <1>2 DEF SoFar
  <2>2. vs[j].credited \in Nat /\ x.vs[j].credited \in Nat /\ w.vs[j].credited \in Nat /\ j \in Nat /\ j <= n
    BY <2>1, VisitFields, ItemRanks
  <2>3. j <= i => w.vs[j] = x.vs[j]
    <3>1. RankKept(h, x, j)
      BY <1>1, RankSettled
    <3>2. j <= i => i \in j..Cardinality(Items)
      BY <1>1, <2>2
    <3> QED
      BY <3>1, <3>2 DEF RankKept
  <2>4. j \notin ranked => w.vs[j] = vs[j] /\ x.vs[j] = vs[j]
    BY <1>2 DEF SoFar
  <2>5. ASSUME j > i PROVE w.vs[j].credited = vs[j].credited
    <3>1. ~(j <= i)
      BY <1>1, <2>2, <2>5
    <3>2. j \in ranked => SameWork(w.vs[j], vs[j])
      BY <1>2, <3>1 DEF SoFar
    <3> QED
      BY <2>4, <3>2 DEF SameWork
  <2> QED
    BY <2>2, <2>3, <2>4, <2>5
<1>4. ASSUME NEW j \in Items PROVE e[j] \in Int /\ f[j] = e[j] + (IF j = i THEN c ELSE 0)
  <2>1. /\ f[j] = (IF w.vs[j].owner = m THEN w.vs[j].credited - vs[j].credited ELSE 0)
        /\ e[j] = (IF j \in S /\ j < i /\ x.vs[j].owner = m THEN x.vs[j].credited - vs[j].credited ELSE 0)
    BY DEF Gains
  <2>2. CASE j = i
    <3>1. w.vs[j] = x.vs[j] /\ w.vs[j].owner = m /\ ~(j < i)
      BY <1>1, <1>3, <2>2
    <3>2. f[j] = c /\ e[j] = 0 /\ c \in Int
      BY <1>3, <2>1, <2>2, <3>1
    <3> QED
      BY <2>2, <3>2
  <2>3. CASE j < i
    <3>1. w.vs[j] = x.vs[j] /\ j # i
      BY <1>1, <1>3, <2>3
    <3>2. CASE j \in S
      BY <1>3, <2>1, <2>3, <3>1, <3>2
    <3>3. CASE j \notin S
      <4>1. w.vs[j].credited - vs[j].credited = 0
        BY <1>3, <3>3
      <4> QED
        BY <2>1, <3>1, <3>3, <4>1
    <3> QED
      BY <3>2, <3>3
  <2>4. CASE j > i
    <3>1. w.vs[j].credited - vs[j].credited = 0 /\ ~(j < i) /\ j # i
      BY <1>1, <1>3, <2>4
    <3> QED
      BY <2>1, <3>1
  <2> QED
    BY <1>1, <1>3, <2>2, <2>3, <2>4
<1>5. c \in Int
  BY <1>1, <1>3
<1>6. Grown(f, e, Items, i, c)
  BY <1>4 DEF Grown
<1>7. SumFunctionOnSet(e, Items) \in Int /\ SumFunctionOnSet(f, Items) = SumFunctionOnSet(e, Items) + c
  BY <1>1, <1>5, <1>6, DaysFinite, SumGrows
<1>8. p = SumFunctionOnSet(e, Items) /\ SumFunction(f) = SumFunctionOnSet(f, Items)
  BY DEF Prior, SumFunction, Gains
<1>9. w.us[m][d] = us[m][d] + SumFunction(f)
  <2>1. AddedUp(h, vs, us, m, d)
    BY <1>1, MemberLabor
  <2> QED
    BY <1>1, <2>1 DEF AddedUp
<1>10. us[m][d] \in Nat
  BY SpanDate, UsageFields
<1>11. w.us[m][d] = us[m][d] + p + c
  <2> PICK a, b, s : a = us[m][d] /\ b = w.us[m][d] /\ s = SumFunctionOnSet(f, Items)
    OBVIOUS
  <2>1. b = a + s /\ s = p + c /\ p \in Int /\ a \in Nat
    BY <1>7, <1>8, <1>9, <1>10
  <2>2. b = a + p + c
    BY <1>5, <2>1
  <2> QED
    BY <2>2
<1> QED
  BY <1>11 DEF PriorDone

\* What fits a share q of the time b rounds to no more than the share.
LEMMA FitsShare ==
  ASSUME NEW l \in Nat, NEW q \in 1..Whole, NEW b \in Nat, (l * Whole + q - 1) \div q <= b
  PROVE  l <= Rounded(b * q)
<1> PICK w : w = Whole
  OBVIOUS
<1>1. w \in Nat /\ w > 0 /\ q \in Nat /\ q > 0
  BY WholeNat
<1> PICK z, r, t, n : z = l * w /\ r = (z + q - 1) \div q /\ t = (z + q - 1) % q /\ n = b * q
  OBVIOUS
<1>2. z \in Nat /\ n \in Nat
  BY <1>1
<1>3. z + q - 1 \in Nat
  BY <1>1, <1>2
<1>4. r \in Nat /\ t \in Nat /\ t < q /\ z + q - 1 = q * r + t
  <2> PICK a : a = z + q - 1
    OBVIOUS
  <2>1. a \in Nat /\ r = a \div q /\ t = a % q
    BY <1>3
  <2>2. r \in Nat /\ t \in Nat /\ t < q /\ a = q * r + t
    BY <1>1, <2>1
  <2> QED
    BY <2>2
<1>5. r <= b
  OBVIOUS
<1>6. q * r <= n
  <2>1. q * r <= q * b
    BY <1>1, <1>4, <1>5
  <2>2. q * b = n
    BY <1>1
  <2> QED
    BY <2>1, <2>2
<1>7. z <= n
  <2> PICK y : y = q * r
    OBVIOUS
  <2>1. y \in Nat /\ z + q - 1 = y + t /\ y <= n
    BY <1>1, <1>4, <1>6
  <2> QED
    BY <1>1, <1>2, <1>4, <2>1
<1> PICK c, s : c = n \div w /\ s = n % w
  OBVIOUS
<1>8. c \in Nat /\ s \in Nat /\ s < w /\ n = w * c + s
  BY <1>1, <1>2
<1>9. l <= c
  <2> SUFFICES ASSUME l >= c + 1 PROVE FALSE
    BY <1>8
  <2>1. l * w >= (c + 1) * w
    BY <1>1, <1>8
  <2>2. (c + 1) * w = w * c + w
    BY <1>1, <1>8
  <2> PICK y : y = w * c
    OBVIOUS
  <2>3. y \in Nat /\ z >= y + w /\ n = y + s
    BY <1>1, <1>8, <2>1, <2>2
  <2> QED
    BY <1>1, <1>2, <1>7, <1>8, <2>3
<1>10. c <= Rounded(n) /\ Rounded(n) \in Nat
  BY <1>2, RoundedGrows, RoundedNat
<1> QED
  BY <1>8, <1>9, <1>10

\* A visit whose touch is estimated before the end of the shorter segment ends its work
\* in it: _completion_boundary counts the labor of the owner for visits of a higher rank.
\* No work is left on visit i after segment x.
NoneLeft(x, i) == x.vs[i].left = 0

\* The touch of visit i is estimated to be done by t.
TouchedBy(vs, after, g, away, i, t) == Touched(vs, after, g, away, i) <= t

\* A visit that is estimated to be done within the shorter segment is done in it.
LEMMA EstimateHolds ==
  ASSUME NEW away, Shared(away), NEW g, NEW k, Shorter(k, g), MostlyThere(away, g.from),
         NEW vs \in Visits, NEW us \in Usage, NEW blocked, NEW S, S = Open(vs), NEW ranked, ranked = S \ blocked,
         NEW x, x = AdvanceSegment(vs, us, g, away, blocked),
         NEW y, y = AdvanceSegment(vs, us, k, away, blocked),
         NEW i \in S, NoneLeft(x, i), TouchedBy(vs, x.vs, g, away, i, k.to)
  PROVE  NoneLeft(y, i)
<1> SUFFICES ASSUME x.vs[i].left = 0 PROVE y.vs[i].left = 0
  BY DEF NoneLeft
<1>0. /\ WorkSpan(g) /\ WorkSpan(k) /\ k.from = g.from /\ k.to \in (g.from + 1)..g.to
      /\ S \in SUBSET Items /\ ranked \in SUBSET S /\ i \in Items
  BY DEF Shorter, Open
<1> PICK n, d : n = Cardinality(Items) /\ d = DateOf(g.from)
  OBVIOUS
<1>1. PICK h : Ranked(h, x, vs, us, g, away, ranked, S)
  BY <1>0, SegmentRun
<1>2. PICK f : Ranked(f, y, vs, us, k, away, ranked, S)
  BY <1>0, SegmentRun
<1>3. n \in Nat /\ n \in 0..n /\ i \in 0..n /\ i \in i..n /\ d \in Days
  BY <1>0, ItemRanks, SpanDate
<1>4. /\ SoFar(x, vs, us, g, away, ranked, S, n) /\ SoFar(y, vs, us, k, away, ranked, S, n)
  BY <1>1, <1>2, <1>3 DEF Ranked
<1>5. x.vs \in Visits /\ y.vs \in Visits /\ vs[i].left \in Nat /\ y.vs[i].left \in Nat /\ x.vs[i].credited \in Nat
      /\ vs[i].credited \in Nat
  <2>1. x.vs \in Visits /\ y.vs \in Visits
    BY <1>4 DEF SoFar
  <2> QED
    BY <1>0, <2>1, VisitFields
<1>6. CASE vs[i].left = 0
  <2>1. CASE i \notin ranked
    BY <1>0, <1>4, <1>6, <2>1 DEF SoFar
  <2>2. CASE i \in ranked
    <3>1. Progressed(y.vs[i], vs[i], k, away)
      BY <1>0, <1>3, <1>4, <2>2, ItemRanks DEF SoFar
    <3> PICK c : c = y.vs[i].credited - vs[i].credited
      OBVIOUS
    <3>2. c \in Nat /\ c <= 0 /\ y.vs[i].left = 0 - c
      BY <1>6, <3>1 DEF Progressed
    <3> QED
      BY <3>2
  <2> QED
    BY <2>1, <2>2
<1>7. CASE vs[i].left > 0
  <2> PICK m, p, l, q, b : /\ m = x.vs[i].owner /\ p = Prior(vs, x.vs, i) /\ l = vs[i].left
                           /\ q = Fraction(g, x.vs[i].owner, away) /\ b = k.to - g.from
    OBVIOUS
  <2>1. p \in Nat /\ i \in ranked /\ m \in Members /\ q \in 1..Whole
    <3>1. ranked \subseteq S /\ SoFar(x, vs, us, g, away, ranked, S, Cardinality(Items))
      BY <1>0, <1>4
    <3> QED
      BY <1>0, <1>7, <3>1, TouchLeft
  <2>2. Touched(vs, x.vs, g, away, i) = g.from + ((p + l) * Whole + q - 1) \div q
    BY <1>7 DEF Touched
  <2>3. b \in Nat /\ b > 0
    <3>1. g.from \in Nat /\ k.to \in Nat
      BY <1>0, SpanDate
    <3> QED
      BY <1>0, <3>1
  <2>4. ((p + l) * Whole + q - 1) \div q <= b
    <3> PICK r, z : r = ((p + l) * Whole + q - 1) \div q /\ z = (p + l) * Whole
      OBVIOUS
    <3>1. z \in Nat
      BY <1>5, <2>1, WholeNat
    <3>2. r \in Int
      <4>1. z + q - 1 \in Int /\ q \in Nat /\ q > 0
        BY <2>1, <3>1, WholeNat
      <4> QED
        BY <4>1
    <3>3. g.from + r <= k.to /\ g.from \in Nat /\ k.to \in Nat
      BY <1>0, <2>2, SpanDate DEF TouchedBy
    <3> QED
      BY <3>2, <3>3
  <2>5. p + l <= Rounded(b * q)
    <3> PICK a : a = p + l
      OBVIOUS
    <3>1. a \in Nat /\ (a * Whole + q - 1) \div q <= b
      BY <1>5, <2>1, <2>4
    <3>2. a <= Rounded(b * q)
      BY <2>1, <2>3, <3>1, FitsShare
    <3> QED
      BY <3>2
  <2>6. Available(k, m, away) = Rounded(b * q) /\ Available(k, m, away) \in Nat
    BY <2>1, SameShares
  <2>7. h[i].us[m][d] = us[m][d] + p + l
    <3>1. h[i].us[m][d] = us[m][d] + p + (x.vs[i].credited - vs[i].credited)
      <4>1. PriorDone(h, x, vs, us, i, m, d)
        BY <1>0, <1>1, <2>1, PriorIs
      <4> QED
        BY <4>1 DEF PriorDone
    <3>2. x.vs[i].credited - vs[i].credited = l
      <4>1. Progressed(x.vs[i], vs[i], g, away)
        BY <1>0, <1>3, <1>4, <2>1, ItemRanks DEF SoFar
      <4> PICK c : c = x.vs[i].credited - vs[i].credited
        OBVIOUS
      <4>2. c \in Nat /\ 0 = l - c
        BY <4>1 DEF Progressed
      <4>3. c = l
        BY <1>5, <4>2
      <4> QED
        BY <4>3
    <3> QED
      BY <3>1, <3>2
  <2>8. Alike(h[i], f[i], m, d)
    <3>1. AlikeUpTo(h, f, us, k, away, m, d)
      BY <1>0, <1>1, <1>2, <2>1, RunsAlike
    <3>2. Alike(h[i], f[i], m, d) \/ h[i].us[m][d] - us[m][d] > Available(k, m, away)
      BY <1>3, <3>1 DEF AlikeUpTo
    <3>3. ~(h[i].us[m][d] - us[m][d] > Available(k, m, away))
      <4> PICK a, c, e : a = us[m][d] /\ c = h[i].us[m][d] /\ e = Available(k, m, away)
        OBVIOUS
      <4>1. c = a + p + l /\ p + l <= e /\ e \in Nat /\ a \in Nat
        BY <1>3, <2>1, <2>5, <2>6, <2>7, UsageFields
      <4>2. \A o, u, v, z \in Nat : u + v <= z => ~((o + u + v) - o > z)
        OBVIOUS
      <4> QED
        <5>1. p \in Nat /\ l \in Nat /\ p + l <= e
          BY <1>5, <2>1, <4>1
        <5>2. ~((a + p + l) - a > e)
          BY <4>1, <4>2, <5>1
        <5> QED
          BY <4>1, <5>2
    <3> QED
      BY <3>2, <3>3
  <2>9. x.vs[i] = h[i].vs[i] /\ y.vs[i] = f[i].vs[i]
    <3>1. x.vs[i] = h[i].vs[i]
      <4>1. RankKept(h, x, i)
        BY <1>0, <1>1, RankSettled
      <4> QED
        BY <4>1 DEF RankKept
    <3>2. y.vs[i] = f[i].vs[i]
      <4>1. RankKept(f, y, i)
        BY <1>0, <1>2, RankSettled
      <4> QED
        BY <4>1 DEF RankKept
    <3> QED
      BY <3>1, <3>2
  <2>10. h[i].vs[i].owner = m
    BY <2>9
  <2>11. h[i].vs[i].left = f[i].vs[i].left
    BY <1>0, <2>8, <2>10 DEF Alike
  <2> QED
    BY <2>9, <2>11
<1> QED
  BY <1>5, <1>6, <1>7
-----------------------------------------------------------------------------
(* A slice that is run again up to where a longer one was cut.             *)

\* h is the work of a slice, and what is known of it at every instant.
WorkRun(h, vs, us, from, end, away, blocked, S, ranked) ==
  /\ Working(h, vs, us, from, end, away, blocked)
  /\ \A t \in from..end : h[t] \in WorkState /\ AtWork(h[t], vs, us, from, end, away, ranked, S, t)

LEMMA RunIs ==
  ASSUME NEW vs, NEW us, NEW from, NEW end, NEW away, NEW blocked, NEW S, NEW ranked,
         Setting(vs, us, from, end, away, blocked, S, ranked), UsageBounded(us, from),
         NEW r, r = AdvanceVisits(vs, us, from, end, away, blocked)
  PROVE  \E h : WorkRun(h, vs, us, from, end, away, blocked, S, ranked) /\ r = Finished(h[end])
BY WorkDone DEF WorkRun

\* A segment of a longer slice is one of the shorter slice, or it is cut at its end.
LEMMA SegmentCutShort ==
  ASSUME NEW from \in Nat, NEW end \in from..Horizon, NEW e \in from..end, NEW away, NEW t \in from..(e - 1),
         StartsSegment(t, from, away), NEW g, g = Segment(t, end, away), NEW k, k = Segment(t, e, away)
  PROVE  /\ g.to <= e => k = g
         /\ e <= g.to => k = [from |-> t, to |-> e]
<1>1. /\ from \in Nat /\ end \in Nat /\ e \in Nat /\ t \in Nat /\ Horizon \in Nat
      /\ e \in from..Horizon /\ t \in from..(end - 1)
  BY LaborAssumption
<1>2. g = [from |-> t, to |-> g.to] /\ k = [from |-> t, to |-> k.to]
  BY DEF Segment
<1>3. g.to \in (t + 1)..end /\ (g.to = end \/ Edge(g.to, away)) /\ \A x \in (t + 1)..(g.to - 1) : ~Edge(x, away)
  BY <1>1, SegmentSpan
<1>4. k.to \in (t + 1)..e /\ (k.to = e \/ Edge(k.to, away)) /\ \A x \in (t + 1)..(k.to - 1) : ~Edge(x, away)
  BY <1>1, SegmentSpan
<1> PICK a, b : a = g.to /\ b = k.to
  OBVIOUS
<1>5. ASSUME a <= e PROVE b = a
  <2>1. ~(b < a)
    <3> SUFFICES ASSUME b < a PROVE FALSE
      OBVIOUS
    <3>1. b \in (t + 1)..(a - 1) /\ b # e
      BY <1>1, <1>3, <1>4, <1>5
    <3> QED
      BY <1>3, <1>4, <3>1
  <2>2. ~(a < b)
    <3> SUFFICES ASSUME a < b PROVE FALSE
      OBVIOUS
    <3>1. a \in (t + 1)..(b - 1) /\ a # end
      BY <1>1, <1>3, <1>4
    <3> QED
      BY <1>3, <1>4, <3>1
  <2> QED
    BY <1>1, <1>3, <1>4, <2>1, <2>2
<1>6. ASSUME e <= a PROVE b = e
  <2> SUFFICES ASSUME b # e PROVE FALSE
    OBVIOUS
  <2>1. b \in (t + 1)..(a - 1)
    BY <1>1, <1>3, <1>4, <1>6
  <2> QED
    BY <1>3, <1>4, <2>1
<1> QED
  BY <1>2, <1>5, <1>6

\* Where a segment starts the work has come to its start.
LEMMA ReachedAt ==
  ASSUME NEW from \in Nat, NEW end \in from..Horizon, NEW vs, NEW us, NEW away, NEW ranked, NEW S,
         NEW t \in from..(end - 1), StartsSegment(t, from, away),
         NEW w, ~w.cut, AtWork(w, vs, us, from, end, away, ranked, S, t)
  PROVE  Reached(w, vs, us, from, ranked, S, t)
<1>1. end \in Nat /\ t \in Nat /\ t < end
  BY LaborAssumption
<1>2. PICK z \in t..end : Reached(w, vs, us, from, ranked, S, z) /\ \A y \in t..(z - 1) : ~StartsSegment(y, from, away)
  BY DEF AtWork
<1>3. ~(t \in t..(z - 1))
  BY <1>2
<1>4. z = t
  BY <1>1, <1>3
<1> QED
  BY <1>2, <1>4

\* Work that is cut goes on no more.
LEMMA CutStays ==
  ASSUME NEW from \in Nat, NEW end \in from..Horizon, NEW vs, NEW us, NEW away, NEW blocked,
         NEW h, Working(h, vs, us, from, end, away, blocked), NEW u \in from..end, h[u].cut
  PROVE  h[end] = h[u]
<1>1. end \in Nat /\ u \in Nat /\ u <= end /\ from <= u
  BY LaborAssumption
<1> DEFINE E == {y \in u..end : h[y] = h[u]}
<1>2. u \in E
  BY <1>1
<1>3. ASSUME NEW y \in u..(end - 1), y \in E PROVE y + 1 \in E
  <2>1. y \in from..(end - 1) /\ y + 1 \in u..end
    BY <1>1
  <2>2. h[y + 1] = WorkStep(h[y], y, from, end, away, blocked)
    BY <2>1 DEF Working
  <2>3. h[y + 1] = h[y]
    BY <1>3, <2>2 DEF WorkStep
  <2> QED
    BY <1>3, <2>1, <2>3
<1> HIDE DEF E
<1>4. end \in E
  <2>1. \A y \in u..end : y \in E
    BY <1>1, <1>2, <1>3, FromUpTo
  <2> QED
    BY <1>1, <2>1
<1> QED
  BY <1>4 DEF E

\* The work a of a slice is cut at e in the segment that starts at t.
CutAt(a, t, e, from, end, away, blocked) ==
  LET g == Segment(t, end, away)
      ends == Completions(a[t].vs, AdvanceSegment(a[t].vs, a[t].us, g, away, blocked).vs, g, away)
  IN /\ t \in from..(end - 1) /\ StartsSegment(t, from, away) /\ \A y \in from..t : ~a[y].cut
     /\ ends # {} /\ e = Min(ends)

\* A slice that ends early was cut in one segment, and in none before it.
LEMMA WhereCut ==
  ASSUME NEW from \in Nat, NEW end \in from..Horizon, NEW vs, NEW us, NEW away, NEW blocked, NEW S, NEW ranked,
         NEW a, WorkRun(a, vs, us, from, end, away, blocked, S, ranked), NEW e, a[end].end = e, e # end
  PROVE  \E t : CutAt(a, t, e, from, end, away, blocked)
<1>1. end \in Nat /\ from <= end /\ end \in from..end /\ from \in from..end
  BY LaborAssumption
<1>2. Working(a, vs, us, from, end, away, blocked)
  BY DEF WorkRun
<1>3. a[end].cut
  <2>1. AtWork(a[end], vs, us, from, end, away, ranked, S, end)
    BY <1>1 DEF WorkRun
  <2> QED
    BY <2>1 DEF AtWork
<1> DEFINE C == {y \in from..end : a[y].cut}
<1>4. PICK u \in C : \A y \in C : u <= y
  <2>1. C \in SUBSET Nat /\ C # {}
    BY <1>1, <1>3
  <2> HIDE DEF C
  <2> QED
    BY <2>1, LeastNumber
<1>5. a[from].cut = FALSE
  BY <1>2 DEF Working
<1> PICK t : t = u - 1
  OBVIOUS
<1>6. t \in from..(end - 1) /\ t + 1 = u /\ u \in from..end /\ t \in Nat
  BY <1>1, <1>4, <1>5
<1>7. \A y \in from..t : ~a[y].cut
  <2> TAKE y \in from..t
  <2>1. y \in from..end /\ ~(u <= y)
    BY <1>1, <1>6
  <2> QED
    BY <1>4, <2>1
<1>8. ~a[t].cut
  BY <1>6, <1>7
<1>9. a[u] = WorkStep(a[t], t, from, end, away, blocked)
  BY <1>2, <1>6 DEF Working
<1> PICK g, ends : /\ g = Segment(t, end, away)
                   /\ ends = Completions(a[t].vs, AdvanceSegment(a[t].vs, a[t].us, g, away, blocked).vs, g, away)
  OBVIOUS
<1>10. StartsSegment(t, from, away)
  BY <1>4, <1>8, <1>9 DEF WorkStep
<1>11. a[u] = KeptOrCut(a[t], g, AdvanceSegment(a[t].vs, a[t].us, g, away, blocked), ends, away, blocked)
  BY <1>8, <1>9, <1>10 DEF WorkStep
<1>12. ends # {} /\ a[u].end = Min(ends)
  <2>1. a[u].cut
    BY <1>4
  <2>2. ends # {}
    BY <1>11, <2>1 DEF KeptOrCut
  <2>3. a[u].end = Min(ends)
    BY <1>11, <2>2 DEF KeptOrCut, Stopped
  <2> QED
    BY <2>2, <2>3
<1>13. a[end] = a[u]
  BY <1>2, <1>4, <1>6, CutStays
<1>14. CutAt(a, t, e, from, end, away, blocked)
  BY <1>6, <1>7, <1>10, <1>12, <1>13 DEF CutAt
<1> QED
  BY <1>14
\* Up to the segment in which the longer slice is cut both do the same.
LEMMA RunsTogether ==
  ASSUME NEW from \in Nat, NEW end \in from..Horizon, NEW e \in from..end, NEW vs, NEW us, NEW away, NEW blocked,
         NEW a, Working(a, vs, us, from, end, away, blocked), NEW b, Working(b, vs, us, from, e, away, blocked),
         NEW t, CutAt(a, t, e, from, end, away, blocked), t <= e
  PROVE  \A y \in from..t : ~b[y].cut /\ b[y].vs = a[y].vs /\ b[y].us = a[y].us
<1>1. end \in Nat /\ e \in Nat /\ e <= end /\ t \in from..(end - 1) /\ t \in Nat /\ from <= t
  BY LaborAssumption DEF CutAt
<1>2. StartsSegment(t, from, away) /\ \A y \in from..t : ~a[y].cut
  BY DEF CutAt
<1> DEFINE E == {y \in from..t : ~b[y].cut /\ b[y].vs = a[y].vs /\ b[y].us = a[y].us}
<1>3. from \in E
  BY <1>1 DEF Working
<1>4. ASSUME NEW y \in from..(t - 1), y \in E PROVE y + 1 \in E
  <2> PICK x : x = y + 1
    OBVIOUS
  <2>1. y \in from..(end - 1) /\ y \in from..(e - 1) /\ y \in from..t /\ x \in from..t /\ y \in Nat /\ y < t
    BY <1>1
  <2>2. a[x] = WorkStep(a[y], y, from, end, away, blocked) /\ b[x] = WorkStep(b[y], y, from, e, away, blocked)
    BY <2>1 DEF Working
  <2>3. ~a[x].cut /\ ~a[y].cut /\ ~b[y].cut /\ b[y].vs = a[y].vs /\ b[y].us = a[y].us
    BY <1>2, <1>4, <2>1
  <2>4. CASE ~StartsSegment(y, from, away)
    <3>1. a[x] = a[y] /\ b[x] = b[y]
      BY <2>2, <2>4 DEF WorkStep
    <3> QED
      BY <2>1, <2>3, <3>1
  <2>5. CASE StartsSegment(y, from, away)
    <3> PICK g, k : g = Segment(y, end, away) /\ k = Segment(y, e, away)
      OBVIOUS
    <3>1. g.to \in (y + 1)..end /\ \A z \in (y + 1)..(g.to - 1) : ~Edge(z, away)
      BY <2>1, <2>5, SegmentSpan
    <3>2. Edge(t, away)
      BY <1>2, <2>1 DEF StartsSegment
    <3>3. ~(t \in (y + 1)..(g.to - 1))
      BY <3>1, <3>2
    <3>4. g.to <= e
      <4>1. g.to \in Nat
        BY <1>1, <2>1, <3>1
      <4> QED
        BY <1>1, <2>1, <3>3, <4>1
    <3>5. k = g
      BY <2>1, <2>5, <3>4, SegmentCutShort
    <3> PICK probe : probe = AdvanceSegment(a[y].vs, a[y].us, g, away, blocked)
      OBVIOUS
    <3> PICK ends : ends = Completions(a[y].vs, probe.vs, g, away)
      OBVIOUS
    <3>6. a[x] = KeptOrCut(a[y], g, probe, ends, away, blocked)
      BY <2>2, <2>3, <2>5 DEF WorkStep
    <3>7. b[x] = KeptOrCut(b[y], g, probe, ends, away, blocked)
      BY <2>2, <2>3, <2>5, <3>5 DEF WorkStep
    <3>8. ends = {}
      BY <2>3, <3>6 DEF KeptOrCut, Stopped
    <3>9. /\ a[x] = [vs |-> probe.vs, us |-> probe.us, end |-> a[y].end, cut |-> FALSE]
          /\ b[x] = [vs |-> probe.vs, us |-> probe.us, end |-> b[y].end, cut |-> FALSE]
      BY <3>6, <3>7, <3>8 DEF KeptOrCut
    <3> QED
      BY <2>1, <3>9
  <2> QED
    BY <2>4, <2>5
<1> HIDE DEF E
<1>5. \A y \in from..t : y \in E
  BY <1>1, <1>3, <1>4, FromUpTo
<1> QED
  BY <1>5 DEF E

\* Inside the last segment of a slice nothing more is worked.
LEMMA LastSegment ==
  ASSUME NEW from \in Nat, NEW e \in from..Horizon, NEW vs, NEW us, NEW away, NEW blocked,
         NEW b, Working(b, vs, us, from, e, away, blocked),
         NEW t \in from..(e - 1), StartsSegment(t, from, away), NEW k, k = Segment(t, e, away), k.to = e,
         NEW f, f = t + 1
  PROVE  b[e] = b[f]
<1>1. e \in Nat /\ t \in Nat /\ t < e /\ from <= t
  BY LaborAssumption
<1>2. \A z \in f..(e - 1) : ~Edge(z, away)
  <2>1. \A z \in (t + 1)..(k.to - 1) : ~Edge(z, away)
    BY SegmentSpan
  <2> QED
    BY <2>1
<1>3. f \in Nat /\ f <= e /\ from < f
  BY <1>1
<1> DEFINE E == {y \in f..e : b[y] = b[f]}
<1>4. f \in E
  BY <1>3, <1>1
<1>5. ASSUME NEW y \in f..(e - 1), y \in E PROVE y + 1 \in E
  <2>1. y \in from..(e - 1) /\ y + 1 \in f..e /\ y # from
    BY <1>1, <1>3
  <2>2. ~StartsSegment(y, from, away)
    BY <1>2, <2>1 DEF StartsSegment
  <2>3. b[y + 1] = WorkStep(b[y], y, from, e, away, blocked)
    BY <2>1 DEF Working
  <2>4. b[y + 1] = b[y]
    BY <2>2, <2>3 DEF WorkStep
  <2> QED
    BY <1>5, <2>1, <2>4
<1> HIDE DEF E
<1>6. e \in E
  <2>1. \A y \in f..e : y \in E
    BY <1>1, <1>3, <1>4, <1>5, FromUpTo
  <2> QED
    BY <1>1, <1>3, <2>1
<1> QED
  BY <1>6 DEF E
\* The dwell of a visit is over where it was estimated to be.
LEMMA DwellOver ==
  ASSUME NEW g, WorkSpan(g), NEW e \in g.from..g.to, NEW v \in VisitState, v.entered <= g.from,
         v.pause <= Elapsed(v.entered, g.from),
         g.from + Floor0(v.dwell - Floor0(Elapsed(v.entered, g.from) - v.pause)) <= e
  PROVE  Floor0(Elapsed(v.entered, e) - v.pause) >= v.dwell
<1> PICK c, p, d, f : c = v.entered /\ p = v.pause /\ d = v.dwell /\ f = g.from
  OBVIOUS
<1>1. c \in Nat /\ p \in Nat /\ d \in Nat /\ f \in 0..Horizon /\ g.to \in f..Horizon /\ Horizon \in Nat
  BY SpanDate, LaborAssumption DEF VisitState
<1>2. c \in 0..Horizon /\ e \in 0..Horizon /\ e \in Nat /\ f \in Nat /\ f <= e /\ c <= f
  BY <1>1
<1>3. \A t \in f..(e - 1) : Works(t)
  <2> TAKE t \in f..(e - 1)
  <2>1. t \in f..(g.to - 1)
    BY <1>1, <1>2
  <2> QED
    BY <2>1 DEF WorkSpan
<1> PICK a, b : a = Elapsed(c, f) /\ b = Elapsed(c, e)
  OBVIOUS
<1>4. a \in Nat /\ b = a + (e - f)
  <2>1. Elapsed(f, e) = e - f
    BY <1>1, <1>2, <1>3, ElapsedInt
  <2>2. Elapsed(c, f) \in Nat /\ Elapsed(c, e) = Elapsed(c, f) + Elapsed(f, e)
    BY <1>1, <1>2, ElapsedInt
  <2> QED
    BY <2>1, <2>2
<1>5. p <= a /\ f + Floor0(d - Floor0(a - p)) <= e
  OBVIOUS
<1>6. Floor0(a - p) = a - p /\ a - p \in Nat
  BY <1>1, <1>4, <1>5 DEF Floor0
<1>7. f + Floor0(d - (a - p)) <= e
  BY <1>5, <1>6
<1>8. d - (a - p) <= e - f
  BY <1>1, <1>2, <1>6, <1>7 DEF Floor0
<1>9. Floor0(b - p) >= d
  BY <1>1, <1>2, <1>4, <1>8 DEF Floor0
<1> QED
  BY <1>9

\* The waits of the visits are over in business time.
WaitsSettled(vs, S, t) == \A i \in S : vs[i].pause <= Elapsed(vs[i].entered, t)

\* A visit whose estimate is the end of a segment is complete there.
LEMMA CutCloses ==
  ASSUME NEW vs \in Visits, NEW us \in Usage, NEW away, NEW blocked, NEW S, NEW ranked, ranked = S \ blocked,
         NEW g, NEW x, x = AdvanceSegment(vs, us, g, away, blocked), Estimated(x, vs, us, g, away, ranked, S),
         NEW k, Shorter(k, g), MostlyThere(away, g.from), NEW y, y = AdvanceSegment(vs, us, k, away, blocked),
         NEW e, e = k.to, e \in Completions(vs, x.vs, g, away),
         WaitsSettled(vs, S, g.from)
  PROVE  \E i \in S : Completed(y.vs[i], e)
<1>0. /\ WorkSpan(g) /\ EnteredBy(vs, g.from) /\ Shared(away) /\ S = Open(vs) /\ ranked \subseteq S
      /\ SoFar(x, vs, us, g, away, ranked, S, Cardinality(Items))
  BY DEF Estimated
<1>1. WorkSpan(k) /\ k.from = g.from /\ e \in (g.from + 1)..g.to /\ S \subseteq Items
  BY <1>0 DEF Shorter, Open
<1>2. PICK i \in S : x.vs[i].left = 0 /\ e = Due(vs, x.vs, g, away, i)
  BY <1>0, CompletionsAre
<1>3. i \in Items
  BY <1>1
<1>4. Touched(vs, x.vs, g, away, i) <= e /\ Dwelt(vs, g, i) <= e
  <2>1. Touched(vs, x.vs, g, away, i) \in Nat
    BY <1>0, <1>2, TouchLeft
  <2>2. Dwelt(vs, g, i) \in Nat
    BY <1>0, <1>3, DwellLeft
  <2> PICK p, q : p = Touched(vs, x.vs, g, away, i) /\ q = Dwelt(vs, g, i)
    OBVIOUS
  <2>3. p \in Nat /\ q \in Nat
    BY <2>1, <2>2
  <2>4. e = IF p <= q THEN q ELSE p
    BY <1>2, <2>3, Later DEF Due
  <2> QED
    BY <2>3, <2>4
<1>5. y.vs[i].left = 0
  <2>1. NoneLeft(x, i) /\ TouchedBy(vs, x.vs, g, away, i, k.to)
    BY <1>2, <1>4 DEF NoneLeft, TouchedBy
  <2>2. Shared(away) /\ S = Open(vs) /\ i \in S
    BY <1>0
  <2>3. NoneLeft(y, i)
    BY <2>1, <2>2, EstimateHolds
  <2> QED
    BY <2>3 DEF NoneLeft
<1>6. Fixed(y.vs[i], vs[i])
  <2>1. SoFar(y, vs, us, k, away, ranked, S, Cardinality(Items))
    BY <1>0, <1>1, SegmentAdvanced
  <2> QED
    BY <1>3, <2>1 DEF SoFar
<1>7. Floor0(Elapsed(vs[i].entered, e) - vs[i].pause) >= vs[i].dwell
  <2> PICK v : v = vs[i]
    OBVIOUS
  <2>1. v \in VisitState /\ v.entered <= g.from /\ v.pause <= Elapsed(v.entered, g.from)
    BY <1>0, <1>3, VisitFields DEF EnteredBy, WaitsSettled
  <2>2. g.from + Floor0(v.dwell - Floor0(Elapsed(v.entered, g.from) - v.pause)) <= e
    BY <1>4 DEF Dwelt
  <2>3. e \in g.from..g.to
    <3>1. g.from \in Nat /\ g.to \in Nat
      BY <1>0, SpanDate
    <3> QED
      BY <1>1, <3>1
  <2>4. Floor0(Elapsed(v.entered, e) - v.pause) >= v.dwell
    BY <1>0, <2>1, <2>2, <2>3, DwellOver
  <2> QED
    BY <2>4
<1>8. Completed(y.vs[i], e)
  BY <1>5, <1>6, <1>7 DEF Completed, Fixed
<1> QED
  BY <1>8

\* Waits that business time has caught up with stay so.
LEMMA SettledLater ==
  ASSUME NEW vs \in Visits, NEW S \in SUBSET Items, NEW s \in 0..Horizon, NEW t \in s..Horizon, EnteredBy(vs, s),
         WaitsSettled(vs, S, s), NEW ws, \A i \in Items : Fixed(ws[i], vs[i])
  PROVE  WaitsSettled(ws, S, t)
<1> SUFFICES ASSUME NEW i \in S PROVE ws[i].pause <= Elapsed(ws[i].entered, t)
  BY DEF WaitsSettled
<1> PICK c, p : c = vs[i].entered /\ p = vs[i].pause
  OBVIOUS
<1>1. /\ c \in Nat /\ p \in Nat /\ c <= s /\ p <= Elapsed(c, s)
      /\ ws[i].pause = p /\ ws[i].entered = c
  BY VisitFields DEF EnteredBy, WaitsSettled, Fixed
<1>2. s \in Nat /\ t \in Nat /\ s <= t /\ Horizon \in Nat /\ c \in 0..Horizon /\ t \in 0..Horizon
  BY <1>1, LaborAssumption
<1>3. Elapsed(s, t) \in Nat
  BY <1>2, ElapsedInt
<1>4. Elapsed(c, s) \in Int /\ Elapsed(c, t) = Elapsed(c, s) + Elapsed(s, t)
  BY <1>2, ElapsedInt
<1>5. p <= Elapsed(c, t)
  BY <1>1, <1>3, <1>4
<1> QED
  BY <1>1, <1>5

MostlyThereUpTo(away, from, e) == \A u \in from..(e - 1) : MostlyThere(away, u)

\* Where nobody is away for half of the time or less a slice is cut at an estimated
\* completion that happens.
LEMMA SliceCloses ==
  ASSUME NEW vs, NEW us, NEW from, NEW end, NEW away, NEW blocked, NEW S, NEW ranked,
         Setting(vs, us, from, end, away, blocked, S, ranked),
         NEW a, WorkRun(a, vs, us, from, end, away, blocked, S, ranked),
         NEW e \in from..end, e < end, a[end].end = e,
         NEW b, WorkRun(b, vs, us, from, e, away, blocked, S, ranked), b[e].end = e,
         WaitsSettled(vs, S, from),
         MostlyThereUpTo(away, from, e)
  PROVE  \E i \in S : Completed(b[e].vs[i], e)
<1>0. /\ vs \in Visits /\ us \in Usage /\ from \in 0..Horizon /\ end \in from..Horizon
      /\ Shared(away) /\ S = Open(vs) /\ ranked = S \ blocked /\ EnteredBy(vs, from)
  BY DEF Setting
<1>1. from \in Nat /\ end \in Nat /\ e \in Nat /\ from <= e /\ e < end /\ Horizon \in Nat /\ e \in from..Horizon
      /\ e # end /\ S \in SUBSET Items
  BY <1>0, LaborAssumption DEF Open
<1>2. Working(a, vs, us, from, end, away, blocked) /\ Working(b, vs, us, from, e, away, blocked)
  BY DEF WorkRun
<1>3. PICK t : CutAt(a, t, e, from, end, away, blocked)
  BY <1>0, <1>1, WhereCut
<1> PICK w, g : w = a[t] /\ g = Segment(t, end, away)
  OBVIOUS
<1> PICK x : x = AdvanceSegment(w.vs, w.us, g, away, blocked)
  OBVIOUS
<1> PICK ends : ends = Completions(w.vs, x.vs, g, away)
  OBVIOUS
<1>4. /\ t \in from..(end - 1) /\ StartsSegment(t, from, away) /\ ~w.cut /\ ends # {} /\ e = Min(ends)
      /\ t \in from..end /\ t \in from..t
  <2>1. /\ t \in from..(end - 1) /\ StartsSegment(t, from, away) /\ ends # {} /\ e = Min(ends)
        /\ \A y \in from..t : ~a[y].cut
    BY <1>3 DEF CutAt
  <2>2. t \in from..end /\ t \in from..t
    BY <1>1, <2>1
  <2> QED
    BY <2>1, <2>2
<1>5. Reached(w, vs, us, from, ranked, S, t)
  <2>1. AtWork(w, vs, us, from, end, away, ranked, S, t)
    BY <1>4 DEF WorkRun
  <2> QED
    BY <1>0, <1>1, <1>4, <2>1, ReachedAt
<1>6. /\ g.from = t /\ g.to \in (t + 1)..end /\ WorkSpan(g) /\ t \in Nat /\ from <= t
  <2>1. end \in from..Horizon /\ t \in Nat /\ from <= t
    BY <1>0, <1>1, <1>4
  <2>2. g.from = t /\ g.to \in (t + 1)..end /\ WorkSpan(g)
    BY <1>1, <1>4, <2>1, SegmentSpan
  <2> QED
    BY <2>1, <2>2
<1>7. /\ w.vs \in Visits /\ w.us \in Usage /\ S = Open(w.vs) /\ ranked \subseteq S
      /\ \A i \in Items : Fixed(w.vs[i], vs[i])
  <2>1. w.vs \in Visits /\ w.us \in Usage /\ \A i \in Items : Fixed(w.vs[i], vs[i])
    BY <1>5 DEF Reached
  <2> QED
    BY <1>0, <2>1, OpenFixed
<1>8. EnteredBy(w.vs, g.from)
  <2> SUFFICES ASSUME NEW i \in Items PROVE w.vs[i].entered <= g.from
    BY DEF EnteredBy
  <2>1. w.vs[i].entered = vs[i].entered /\ vs[i].entered <= from /\ vs[i].entered \in Nat
    BY <1>0, <1>7, VisitFields DEF Fixed, EnteredBy
  <2> QED
    BY <1>1, <1>6, <2>1
<1>9. Estimated(x, w.vs, w.us, g, away, ranked, S)
  <2>1. from <= g.from /\ Reached(w, vs, us, from, ranked, S, g.from)
    BY <1>5, <1>6
  <2>2. SoFar(x, w.vs, w.us, g, away, ranked, S, Cardinality(Items))
    BY <1>6, <2>1, ReachedSegment
  <2> QED
    BY <1>0, <1>6, <1>7, <1>8, <2>2 DEF Estimated
<1>10. e \in ends
  <2>1. \A c \in ends : c \in g.from..g.to
    BY <1>9, CompletionsWithin
  <2>2. ends \in SUBSET Nat
    <3>1. \A c \in g.from..g.to : c \in Nat
      BY <1>6
    <3> QED
      BY <2>1, <3>1
  <2>3. ends # {} /\ e = Min(ends)
    BY <1>4
  <2>4. Min(ends) \in ends
    BY <2>2, <2>3, LeastIsMin
  <2> QED
    BY <2>3, <2>4
<1>11. e \in Completions(w.vs, x.vs, g, away) /\ e \in g.from..g.to
       /\ (e = g.from => \E i \in S : w.vs[i].left = 0 /\ Completed(w.vs[i], g.from))
  <2>1. e \in Completions(w.vs, x.vs, g, away)
    BY <1>10
  <2> QED
    BY <1>9, <2>1, CompletionsWithin
<1>12. ~b[t].cut /\ b[t].vs = w.vs /\ b[t].us = w.us
  <2>1. t <= e
    BY <1>6, <1>11
  <2>2. end \in from..Horizon /\ t \in from..t
    BY <1>0, <1>4
  <2>3. \A y \in from..t : ~b[y].cut /\ b[y].vs = a[y].vs /\ b[y].us = a[y].us
    BY <1>1, <1>2, <1>3, <2>1, <2>2, RunsTogether
  <2> QED
    BY <2>2, <2>3
<1>13. CASE e = t
  BY <1>6, <1>11, <1>12, <1>13
<1>14. CASE e # t
  <2>1. t \in from..(e - 1) /\ t < e /\ e <= g.to /\ t + 1 \in from..e /\ e \in (t + 1)..g.to
    BY <1>1, <1>6, <1>11, <1>14
  <2> PICK k : k = Segment(t, e, away)
    OBVIOUS
  <2>2. k = [from |-> t, to |-> e] /\ WorkSpan(k)
    <3>1. from \in Nat /\ end \in from..Horizon /\ e \in from..Horizon /\ StartsSegment(t, from, away)
      BY <1>0, <1>1, <1>4
    <3>2. k = [from |-> t, to |-> e]
      BY <2>1, <3>1, SegmentCutShort
    <3>3. WorkSpan(k)
      BY <2>1, <3>1, SegmentSpan
    <3> QED
      BY <3>2, <3>3
  <2>3. Shorter(k, g) /\ MostlyThere(away, g.from)
    BY <1>6, <2>1, <2>2 DEF Shorter, MostlyThereUpTo
  <2> PICK y : y = AdvanceSegment(w.vs, w.us, k, away, blocked)
    OBVIOUS
  <2>4. \E i \in S : Completed(y.vs[i], e)
    <3>1. WaitsSettled(w.vs, S, g.from)
      <4>1. g.from \in from..Horizon
        <5>1. t \in from..(end - 1) /\ end \in from..Horizon
          BY <1>0, <1>4
        <5>2. from \in Nat /\ end \in Nat /\ Horizon \in Nat
          BY <1>1
        <5>3. t \in from..Horizon
          BY <5>1, <5>2
        <5> QED
          BY <1>6, <5>3
      <4> QED
        BY <1>0, <1>1, <1>7, <4>1, SettledLater
    <3> PICK ws, uw : ws = w.vs /\ uw = w.us
      OBVIOUS
    <3>2. /\ ws \in Visits /\ uw \in Usage /\ x = AdvanceSegment(ws, uw, g, away, blocked)
          /\ Estimated(x, ws, uw, g, away, ranked, S) /\ y = AdvanceSegment(ws, uw, k, away, blocked)
          /\ e = k.to /\ e \in Completions(ws, x.vs, g, away)
      BY <1>7, <1>9, <1>11, <2>2
    <3>3. WaitsSettled(ws, S, g.from)
      BY <3>1
    <3> QED
      BY <1>0, <2>3, <3>2, <3>3, CutCloses
  <2>5. b[e].vs = y.vs
    <3> PICK u, f : u = Completions(w.vs, y.vs, k, away) /\ f = t + 1
      OBVIOUS
    <3>1. b[f] = WorkStep(b[t], t, from, e, away, blocked)
      BY <1>2, <2>1 DEF Working
    <3>2. b[f] = KeptOrCut(b[t], k, y, u, away, blocked)
      BY <1>4, <1>12, <3>1 DEF WorkStep
    <3>3. CASE u = {}
      <4>1. b[f].vs = y.vs
        BY <3>2, <3>3 DEF KeptOrCut
      <4>2. k.to = e
        BY <2>2
      <4>3. b[e] = b[f]
        <5>1. /\ from \in Nat /\ e \in from..Horizon /\ Working(b, vs, us, from, e, away, blocked)
              /\ t \in from..(e - 1) /\ StartsSegment(t, from, away)
          BY <1>1, <1>2, <1>4, <2>1
        <5> QED
          BY <4>2, <5>1, LastSegment
      <4> QED
        BY <4>1, <4>3
    <3>4. CASE u # {}
      <4>1. b[f] = Stopped(AdvanceSegment(w.vs, w.us, [from |-> t, to |-> Min(u)], away, blocked), Min(u))
        <5>1. k.from = t
          BY <2>2
        <5>2. b[f] = Stopped(AdvanceSegment(b[t].vs, b[t].us, [from |-> k.from, to |-> Min(u)], away, blocked), Min(u))
          BY <3>2, <3>4 DEF KeptOrCut
        <5> QED
          BY <1>12, <5>1, <5>2
      <4>2. b[f].cut /\ b[f].end = Min(u)
            /\ b[f].vs = AdvanceSegment(w.vs, w.us, [from |-> t, to |-> Min(u)], away, blocked).vs
        BY <4>1 DEF Stopped
      <4>3. b[e] = b[f]
        BY <1>1, <1>2, <2>1, <4>2, CutStays
      <4>4. Min(u) = e
        BY <4>2, <4>3
      <4> QED
        BY <2>2, <4>2, <4>3, <4>4
    <3> QED
      BY <3>3, <3>4
  <2> QED
    BY <2>4, <2>5
<1> QED
  BY <1>13, <1>14
\* A slice that is shorter than its limit closes a visit.
LEMMA ShortSliceCloses ==
  ASSUME SliceInv, NEW limit, NEW D, NEW L, NEW r, NEW e, NEW drawn, Ticked(limit, D, L, r, e, drawn),
         e < limit, WaitsSettled(r.vs, Open(visit), sim),
         \A a \in Absence : a.part = 0 \/ 2 * a.part > Whole \/ a.to <= sim \/ e < a.from
  PROVE  r.closed # {}
<1> SUFFICES ASSUME r.closed = {} PROVE FALSE
  OBVIOUS
<1>0. LaborInv /\ LaborTypes /\ UsageBounded(used, sim)
  BY DEF SliceInv, LaborInv
<1>1. /\ limit \in (sim + 1)..Horizon /\ e \in sim..limit /\ Slice(r, e, D, L)
      /\ r = RiskAwareAdvance(limit, D, L)
  BY DEF Ticked
<1>2. /\ sim \in Nat /\ limit \in Nat /\ e \in Nat /\ Horizon \in Nat /\ sim \in 0..Horizon /\ limit <= Horizon
      /\ sim <= e /\ sim # e /\ sim < e
  <2>1. sim # e
    BY <1>1 DEF Slice
  <2> QED
    BY <1>0, <1>1, <2>1, LaborAssumption DEF LaborTypes
<1>3. e \in sim..Horizon
  BY <1>1, <1>2
<1> PICK S : S = Open(visit)
  OBVIOUS
<1>4. PICK f \in sim..limit : /\ r = Kept(f, D, L) /\ Tried(f, D, L).end = f
                              /\ f = limit \/ \E j \in (f + 1)..limit : Tried(j, D, L).end = f
  BY <1>0, <1>1, RiskAware
<1>5. f = e
  <2>1. r.end = f
    BY <1>4 DEF Kept, Watched
  <2>2. r.end = e
    BY <1>1 DEF Slice
  <2> QED
    BY <2>1, <2>2
<1>6. r = Kept(e, D, L) /\ Tried(e, D, L).end = e
  BY <1>4, <1>5
<1>7. PICK j \in (e + 1)..limit : Tried(j, D, L).end = e
  <2>1. f # limit
    BY <1>2, <1>5
  <2> QED
    BY <1>4, <1>5, <2>1
<1>8. j \in sim..Horizon /\ j \in e..Horizon /\ e < j /\ sim < j /\ e \in sim..j
  BY <1>2, <1>7
<1> PICK vs : vs = Paused(e, D)
  OBVIOUS
<1>9. Dependent(e, D) = {}
  <2> SUFFICES ASSUME NEW i \in Dependent(e, D) PROVE FALSE
    OBVIOUS
  <2> PICK c, p, q : c = visit[i].entered /\ p = vs[i].pause /\ q = visit[i].pause
    OBVIOUS
  <2>1. i \in Open(visit) /\ i \in Items
    BY DEF Dependent, Open
  <2>2. q = sim - c /\ q < p
    BY <1>3, <2>1, DependencyWaits
  <2>3. p <= Elapsed(c, sim)
    <3>1. r.vs[i].pause = p /\ r.vs[i].entered = c
      BY <1>1, <2>1 DEF Slice
    <3>2. r.vs[i].pause <= Elapsed(r.vs[i].entered, sim)
      BY <2>1 DEF WaitsSettled
    <3> QED
      BY <3>1, <3>2
  <2>4. visit[i] \in VisitState /\ vs[i] \in VisitState /\ c <= sim
    BY <1>0, <1>3, <2>1, VisitFields, VisitPaused DEF LaborTypes, EnteredBy
  <2>5. c \in Nat /\ p \in Nat /\ q \in Nat
    BY <2>4 DEF VisitState
  <2>6. c \in 0..Horizon
    BY <1>2, <2>4, <2>5
  <2>7. Elapsed(c, sim) \in Nat /\ Elapsed(c, sim) <= sim - c
    BY <1>2, <2>4, <2>6, ElapsedInt
  <2> QED
    BY <1>2, <2>2, <2>3, <2>5, <2>7
<1>10. Dependent(j, D) = {} /\ Paused(j, D) = vs /\ Over(j, L) = Over(e, L)
  <2>1. Dependent(j, D) = {}
    BY <1>2, <1>8, <1>9 DEF Dependent
  <2>2. Paused(j, D) = vs
    BY <1>9, <2>1 DEF Paused
  <2>3. Over(j, L) = Over(e, L)
    BY <1>2, <1>8 DEF Over, Overlays
  <2> QED
    BY <2>1, <2>2, <2>3
<1> PICK away, blocked : away = Absence \cup Over(e, L) /\ blocked = Dependent(e, D)
  OBVIOUS
<1> PICK ranked : ranked = S \ blocked
  OBVIOUS
<1>11. Setting(vs, used, sim, e, away, blocked, S, ranked) /\ Tried(e, D, L) = AdvanceVisits(vs, used, sim, e, away, blocked)
  <2>1. Setting(vs, used, sim, e, away, blocked, S, ranked)
    BY <1>0, <1>3, RiskSetting
  <2> QED
    BY <2>1 DEF Tried
<1>12. Setting(vs, used, sim, j, away, blocked, S, ranked) /\ Tried(j, D, L) = AdvanceVisits(vs, used, sim, j, away, blocked)
  <2>1. j \in 0..Horizon /\ j \in sim..Horizon
    BY <1>2, <1>8
  <2>2. Setting(vs, used, sim, j, away, blocked, S, ranked)
    BY <1>11, <2>1 DEF Setting
  <2> QED
    BY <1>9, <1>10, <2>2 DEF Tried
<1>13. PICK a : WorkRun(a, vs, used, sim, j, away, blocked, S, ranked) /\ Tried(j, D, L) = Finished(a[j])
  BY <1>0, <1>12, RunIs
<1>14. PICK b : WorkRun(b, vs, used, sim, e, away, blocked, S, ranked) /\ Tried(e, D, L) = Finished(b[e])
  BY <1>0, <1>11, RunIs
<1>15. a[j].end = e /\ b[e].end = e /\ Tried(e, D, L).vs = b[e].vs
  BY <1>6, <1>7, <1>13, <1>14 DEF Finished
<1>16. WaitsSettled(vs, S, sim)
  <2>1. \A i \in S : i \in Items
    BY DEF Open
  <2>2. \A i \in S : r.vs[i].pause = vs[i].pause /\ r.vs[i].entered = visit[i].entered
    BY <1>1, <2>1 DEF Slice
  <2>3. \A i \in S : vs[i].entered = visit[i].entered
    BY <1>0, <1>3, <2>1, VisitPaused
  <2> QED
    BY <2>2, <2>3 DEF WaitsSettled
<1>17. MostlyThereUpTo(away, sim, e)
  <2> SUFFICES ASSUME NEW u \in sim..(e - 1), NEW x \in away, x.from <= u, u < x.to PROVE x.part = 0 \/ 2 * x.part > Whole
    BY DEF MostlyThereUpTo, MostlyThere
  <2>1. CASE x \in Absence
    <3>1. x.from \in Int /\ x.to \in Int
      BY <2>1, LaborAssumption
    <3>2. ~(x.to <= sim) /\ ~(e < x.from)
      BY <1>2, <3>1
    <3> QED
      BY <2>1, <3>2
  <2>2. CASE x \in Over(e, L)
    BY <1>0, <2>2 DEF Over, Overlays, LaborTypes, Left
  <2> QED
    BY <2>1, <2>2
<1>18. \E i \in S : Completed(b[e].vs[i], e)
  BY <1>8, <1>12, <1>13, <1>14, <1>15, <1>16, <1>17, SliceCloses
<1>19. r.closed = {i \in S : Completed(r.vs[i], e)}
  BY <1>1 DEF Slice
<1>20. Tried(e, D, L).closed = {i \in S : Completed(Tried(e, D, L).vs[i], Tried(e, D, L).end)}
  BY <1>0, <1>11, SliceWorked
<1>21. r.closed = Tried(e, D, L).closed
  BY <1>6 DEF Kept, Watched
<1> QED
  BY <1>6, <1>15, <1>18, <1>20, <1>21

\* A tick moves on or closes a visit.
LEMMA SliceGetsOn ==
  ASSUME SliceInv, NEW limit, NEW D, NEW L, NEW r, NEW e, NEW drawn, Ticked(limit, D, L, r, e, drawn)
  PROVE  SlicesProgress'
<1>0. LaborInv /\ LaborTypes
  BY DEF SliceInv, LaborInv
<1>1. /\ limit \in (sim + 1)..Horizon /\ e \in sim..limit /\ Slice(r, e, D, L)
      /\ \A i \in r.closed : r.vs[i].step < LastStep => drawn[i] \in Samples
      /\ sim' = e /\ visit' = Transition(r, drawn)
      /\ slice'.from = sim /\ slice'.limit = limit /\ slice'.closed = r.closed
  BY DEF Ticked
<1>2. sim \in Nat /\ limit \in Nat /\ e \in Nat /\ sim <= e
  BY <1>0, <1>1, LaborAssumption DEF LaborTypes
<1>3. sim < e \/ r.closed # {}
  <2>1. e = sim => r.closed # {}
    BY <1>1 DEF Slice
  <2> QED
    BY <1>2, <2>1
<1> PICK x : x = Transition(r, drawn)
  OBVIOUS
<1>4. ASSUME e < limit, \A i \in Open(x) : Settled(x[i], sim),
             \A a \in Absence : a.part = 0 \/ 2 * a.part > Whole \/ a.to <= sim \/ e < a.from
      PROVE  r.closed # {}
  <2> SUFFICES ASSUME r.closed = {} PROVE FALSE
    OBVIOUS
  <2>1. r.end \in Nat /\ r.vs \in Visits /\ \A i \in Items : r.vs[i].open = visit[i].open
    BY <1>1, <1>2 DEF Slice
  <2>2. \A i \in Items : x[i] = r.vs[i]
    BY <2>1, Moved
  <2>3. WaitsSettled(r.vs, Open(visit), sim)
    <3> SUFFICES ASSUME NEW i \in Open(visit) PROVE r.vs[i].pause <= Elapsed(r.vs[i].entered, sim)
      BY DEF WaitsSettled
    <3>1. i \in Items /\ i \in Open(x)
      BY <2>1, <2>2 DEF Open
    <3> QED
      BY <1>4, <2>2, <3>1 DEF Settled
  <2> QED
    BY <1>4, <2>3, ShortSliceCloses
<1>5. SlicesProgress' <=>
        /\ sim < e \/ r.closed # {} \/ limit = 0
        /\ /\ e < limit /\ \A i \in Open(x) : Settled(x[i], sim)
           /\ \A a \in Absence : a.part = 0 \/ 2 * a.part > Whole \/ a.to <= sim \/ e < a.from
           => r.closed # {}
  BY <1>1 DEF SlicesProgress, Open, Settled, Elapsed
<1> QED
  BY <1>3, <1>4, <1>5

\* A slice moves the cursor or closes a visit; and one that ends before its limit closes a
\* visit, unless a wait outran business time or somebody gives half of the time or less:
\* the estimate and the final test agree (_completion_boundary, _is_complete).
THEOREM SlicesGetOn == LaborSpec => []SlicesProgress
<1>1. LaborInit => SliceInv /\ SlicesProgress
  BY SliceStarts DEF LaborInit, SlicesProgress
<1>2. SliceInv /\ SlicesProgress /\ [Tick]_laborVars => (SliceInv /\ SlicesProgress)'
  <2>1. CASE Tick
    <3> SUFFICES ASSUME SliceInv PROVE (SliceInv /\ SlicesProgress)'
      BY <2>1
    <3>1. PICK limit, D, L, r, e, drawn : Ticked(limit, D, L, r, e, drawn)
      BY <2>1, TickIs DEF SliceInv
    <3>2. SliceInv'
      BY <3>1, WaitsGoOn
    <3>3. SlicesProgress'
      BY <3>1, SliceGetsOn
    <3> QED
      BY <3>2, <3>3
  <2>2. CASE UNCHANGED laborVars
    BY <2>2 DEF laborVars, SliceInv, WaitsFromEntry, SlicesProgress, Settled, LaborInv, LaborTypes, UsageBounded,
                DayTime, Total, LaborOf, Open, VisitTimeAccounted, Left, EnteredBy
  <2> QED
    BY <2>1, <2>2
<1> QED
  BY <1>1, <1>2, PTL DEF LaborSpec
=============================================================================
