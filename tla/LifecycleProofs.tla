--------------------------- MODULE LifecycleProofs ---------------------------
(***************************************************************************)
(* What bootstrap, the boundary crossings and the tick slices do to a      *)
(* team's state, for every value of the constants: each takes a sound      *)
(* state to a sound state.  TeamTimelineProofs and LiveSchedulerProofs     *)
(* build their inductive invariants on these lemmas.                       *)
(***************************************************************************)
EXTENDS ScrumTick, TLAPS

\* A team that is not bootstrapped has no sprint.
Unstarted(s) == s.state = "CREATED" => \A o \in Ordinals : s.sprint[o] = "NONE"

Scoped(s) == ScopeInActive(s) /\ BacklogUnscoped(s)

Sound(s) ==
  /\ s \in TeamState /\ Unstarted(s) /\ SprintChain(s) /\ BoundaryAhead(s)
  /\ Scoped(s) /\ IntentsTellSprints(s)

\* The rows of the items and their scope.
SameItems(n, s) == n.scope = s.scope /\ n.life = s.life /\ n.step = s.step /\ n.entered = s.entered

USE DEF Time, NoTime, Ordinals

\* The selection of a sprint's scope is drawn from its candidates.
LEMMA SelectionType ==
  ASSUME NEW cands, NEW used, NEW target
  PROVE  RankedSelection(cands, used, target) \subseteq cands
BY DEF RankedSelection

-----------------------------------------------------------------------------
(* The ledger of intents.                                                  *)

\* The story of a sprint start is three intents of that sprint.
LEMMA StartChainType ==
  ASSUME NEW o \in Ordinals
  PROVE  /\ StartChain(o) \in Seq(Intent) /\ Len(StartChain(o)) = 3
         /\ StartChain(o)[1] = [op |-> "CREATE_SPRINT", ord |-> o]
         /\ StartChain(o)[2] = [op |-> "SCOPE_SPRINT", ord |-> o]
         /\ StartChain(o)[3] = [op |-> "START_SPRINT", ord |-> o]
<1> DEFINE ops == <<"CREATE_SPRINT", "SCOPE_SPRINT", "START_SPRINT">>
<1>2. Len(ops) = 3 /\ ops[1] = "CREATE_SPRINT" /\ ops[2] = "SCOPE_SPRINT" /\ ops[3] = "START_SPRINT"
  OBVIOUS
<1> HIDE DEF ops
<1>3. \A k \in 1..3 : ops[k] \in SprintOps
  BY <1>2 DEF SprintOps
<1> DEFINE f == [k \in 1..3 |-> [op |-> ops[k], ord |-> o]]
<1>4. f \in [1..3 -> Intent]
  BY <1>3 DEF Intent
<1>5. StartChain(o) = f
  BY <1>2 DEF StartChain, IntentsFor, ops
<1>6. /\ f[1] = [op |-> "CREATE_SPRINT", ord |-> o]
      /\ f[2] = [op |-> "SCOPE_SPRINT", ord |-> o]
      /\ f[3] = [op |-> "START_SPRINT", ord |-> o]
  BY <1>2
<1> HIDE DEF f
<1> HIDE DEF Ordinals
<1>7. f \in Seq(Intent) /\ Len(f) = 3 /\ DOMAIN f = 1..3
  <2>1. \E k \in Nat : f \in [1..k -> Intent]
    BY <1>4
  <2>2. f \in Seq(Intent)
    BY <2>1
  <2> QED
    BY <1>4, <2>2
<1> QED
  BY <1>5, <1>6, <1>7

\* An appended ledger keeps the old entries and their places.
LEMMA AppendedParts ==
  ASSUME NEW a \in Seq(Intent), NEW q \in Seq(Intent)
  PROVE  LET c == a \o q
         IN /\ c \in Seq(Intent) /\ Len(c) = Len(a) + Len(q) /\ Len(a) \in Nat /\ Len(q) \in Nat
            /\ DOMAIN a = 1..Len(a) /\ DOMAIN q = 1..Len(q) /\ DOMAIN c = 1..Len(c)
            /\ \A k \in 1..Len(a) : c[k] = a[k]
            /\ \A j \in 1..Len(q) : c[Len(a) + j] = q[j]
OBVIOUS

\* Where an appended ledger has an entry.
LEMMA AppendedAt ==
  ASSUME NEW a \in Seq(Intent), NEW q \in Seq(Intent), NEW x
  PROVE  LET At(z) == {k \in DOMAIN z : z[k] = x}
         IN /\ (\A j \in DOMAIN q : q[j] # x) => At(a \o q) = At(a)
            /\ \A j \in DOMAIN q :
                 (At(a) = {} /\ q[j] = x /\ \A i \in DOMAIN q : q[i] = x => i = j) =>
                   At(a \o q) = {Len(a) + j}
<1> DEFINE c == a \o q
           At(z) == {k \in DOMAIN z : z[k] = x}
<1>1. /\ c \in Seq(Intent) /\ Len(c) = Len(a) + Len(q) /\ Len(a) \in Nat /\ Len(q) \in Nat
      /\ DOMAIN a = 1..Len(a) /\ DOMAIN q = 1..Len(q) /\ DOMAIN c = 1..Len(c)
      /\ \A k \in 1..Len(a) : c[k] = a[k]
      /\ \A j \in 1..Len(q) : c[Len(a) + j] = q[j]
  BY AppendedParts
<1> HIDE DEF c
<1>2. \A k \in DOMAIN c : k \in DOMAIN a \/ \E j \in DOMAIN q : k = Len(a) + j
  <2> SUFFICES ASSUME NEW k \in 1..(Len(a) + Len(q)), ~(k \in 1..Len(a))
               PROVE  \E j \in 1..Len(q) : k = Len(a) + j
    BY <1>1
  <2>1. k - Len(a) \in 1..Len(q) /\ k = Len(a) + (k - Len(a))
    BY <1>1
  <2> QED
    BY <2>1
<1>3. \A k \in DOMAIN a : k \in DOMAIN c /\ c[k] = a[k]
  BY <1>1
<1>4. \A j \in DOMAIN q : Len(a) + j \in DOMAIN c /\ c[Len(a) + j] = q[j]
  BY <1>1
<1>5. ASSUME \A j \in DOMAIN q : q[j] # x PROVE At(c) = At(a)
  BY <1>2, <1>3, <1>4, <1>5
<1>6. ASSUME NEW j \in DOMAIN q, At(a) = {}, q[j] = x, \A i \in DOMAIN q : q[i] = x => i = j
      PROVE  At(c) = {Len(a) + j}
  BY <1>2, <1>3, <1>4, <1>6
<1> QED
  BY <1>5, <1>6 DEF c

\* Starting a sprint that is not told yet appends its story in order.
LEMMA ToldStart ==
  ASSUME NEW s, IntentsTellSprints(s), s.intents \in Seq(Intent),
         NEW o \in Ordinals, s.sprint[o] \in {"NONE", "PLANNED"},
         NEW n, n.intents = s.intents \o StartChain(o),
         \A u \in Ordinals : n.sprint[u] = IF u = o THEN "ACTIVE" ELSE s.sprint[u]
  PROVE  IntentsTellSprints(n)
<1> DEFINE a == s.intents
           q == StartChain(o)
           L == Len(a)
           states(op) == IF op = "COMPLETE_SPRINT" THEN {"COMPLETED"} ELSE {"ACTIVE", "COMPLETED"}
<1>1. /\ q \in Seq(Intent) /\ Len(q) = 3 /\ DOMAIN q = 1..3
      /\ q[1] = [op |-> "CREATE_SPRINT", ord |-> o]
      /\ q[2] = [op |-> "SCOPE_SPRINT", ord |-> o]
      /\ q[3] = [op |-> "START_SPRINT", ord |-> o]
  BY StartChainType
<1>2. /\ n.intents = a \o q /\ a \in Seq(Intent) /\ L \in Nat
      /\ DOMAIN a = 1..L /\ DOMAIN n.intents = 1..(L + 3)
      /\ \A k \in 1..L : n.intents[k] = a[k]
      /\ \A j \in 1..3 : n.intents[L + j] = q[j]
  <2>1. n.intents = a \o q /\ a \in Seq(Intent)
    OBVIOUS
  <2> HIDE DEF q, a, Ordinals
  <2>2. L \in Nat /\ DOMAIN a = 1..L
    BY <2>1
  <2>3. q \in Seq(Intent) /\ Len(q) = 3
    BY <1>1
  <2> DEFINE c == a \o q
  <2>4. /\ Len(c) = Len(a) + Len(q) /\ DOMAIN c = 1..Len(c)
        /\ \A k \in 1..Len(a) : c[k] = a[k]
        /\ \A j \in 1..Len(q) : c[Len(a) + j] = q[j]
    BY <2>1, <2>3, AppendedParts
  <2> HIDE DEF c
  <2>5. n.intents = c
    BY <2>1 DEF c
  <2>6. /\ DOMAIN n.intents = 1..(L + 3)
        /\ \A k \in 1..L : n.intents[k] = a[k]
        /\ \A j \in 1..3 : n.intents[L + j] = q[j]
    BY <2>3, <2>4, <2>5
  <2> QED
    BY <2>1, <2>2, <2>6
<1> HIDE DEF q, a
<1>3. ASSUME NEW u \in Ordinals, NEW op \in SprintOps
      PROVE  IF n.sprint[u] \in states(op) THEN ToldOnce(n, op, u) ELSE TellsOf(n, op, u) = {}
  <2> DEFINE x == [op |-> op, ord |-> u]
             At(z) == {k \in DOMAIN z : z[k] = x}
  <2>1. At(n.intents) = TellsOf(n, op, u) /\ At(a) = TellsOf(s, op, u)
    BY DEF TellsOf, a
  <2>2. IF s.sprint[u] \in states(op) THEN ToldOnce(s, op, u) ELSE TellsOf(s, op, u) = {}
    BY DEF IntentsTellSprints
  <2>3. CASE u # o \/ op = "COMPLETE_SPRINT"
    <3>1. \A j \in DOMAIN q : q[j] # x
      <4>1. /\ q[1].op = "CREATE_SPRINT" /\ q[2].op = "SCOPE_SPRINT" /\ q[3].op = "START_SPRINT"
            /\ q[1].ord = o /\ q[2].ord = o /\ q[3].ord = o /\ x.op = op /\ x.ord = u
        BY <1>1
      <4>2. \A j \in DOMAIN q : j = 1 \/ j = 2 \/ j = 3
        BY <1>1
      <4> HIDE DEF x
      <4> QED
        BY <2>3, <4>1, <4>2
    <3>2. At(n.intents) = At(a)
      BY SMTT(30), <1>1, <1>2, <3>1, AppendedAt
    <3>3. n.sprint[u] \in states(op) <=> s.sprint[u] \in states(op)
      <4>1. CASE u # o
        BY <4>1
      <4>2. CASE u = o
        BY <2>3, <4>2
      <4> QED
        BY <4>1, <4>2
    <3>4. ToldOnce(s, op, u) => ToldOnce(n, op, u)
      BY <1>2, <2>1, <3>2 DEF ToldOnce, a
    <3> HIDE DEF At, states
    <3> QED
      BY <2>1, <2>2, <3>2, <3>3, <3>4
  <2>4. CASE u = o /\ op # "COMPLETE_SPRINT"
    <3>1. PICK j \in 1..3 : q[j] = x /\ \A i \in 1..3 : q[i] = x => i = j
      <4>1. \A i \in 1..3 : i = 1 \/ i = 2 \/ i = 3
        OBVIOUS
      <4>2. CASE op = "CREATE_SPRINT"
        <5>1. q[1] = x /\ q[2] # x /\ q[3] # x
          BY <1>1, <2>4, <4>2
        <5> QED
          BY <4>1, <5>1
      <4>3. CASE op = "SCOPE_SPRINT"
        <5>1. q[1] # x /\ q[2] = x /\ q[3] # x
          BY <1>1, <2>4, <4>3
        <5> QED
          BY <4>1, <5>1
      <4>4. CASE op = "START_SPRINT"
        <5>1. q[1] # x /\ q[2] # x /\ q[3] = x
          BY <1>1, <2>4, <4>4
        <5> QED
          BY <4>1, <5>1
      <4> QED
        BY <2>4, <4>2, <4>3, <4>4 DEF SprintOps
    <3>2. At(a) = {}
      BY <2>1, <2>2, <2>4
    <3>3. At(n.intents) = {L + j}
      BY SMTT(30), <1>1, <1>2, <3>1, <3>2, AppendedAt
    <3>4. L + j \in DOMAIN n.intents
      BY <1>2
    <3>5. ToldOnce(n, op, u)
      BY <2>1, <3>3, <3>4 DEF ToldOnce
    <3>6. n.sprint[u] \in states(op)
      BY <2>4
    <3> QED
      BY <3>5, <3>6
  <2> QED
    BY <2>3, <2>4
<1>4. ASSUME NEW j \in DOMAIN n.intents, NEW k \in DOMAIN n.intents,
             n.intents[j].op = "COMPLETE_SPRINT", n.intents[k].op = "START_SPRINT",
             n.intents[k].ord > n.intents[j].ord
      PROVE  j < k
  <2>1. j \in 1..L
    <3>1. CASE ~(j \in 1..L)
      <4>1. j = L + 1 \/ j = L + 2 \/ j = L + 3
        BY SMTT(30), <1>2, <3>1
      <4> QED
        BY SMTT(30), <1>1, <1>2, <1>4, <4>1
    <3> QED
      BY <3>1
  <2>2. CASE k \in 1..L
    BY <1>2, <1>4, <2>1, <2>2 DEF IntentsTellSprints, a
  <2>3. CASE ~(k \in 1..L)
    BY <1>2, <2>1, <2>3
  <2> QED
    BY <2>2, <2>3
<1> QED
  BY <1>3, <1>4 DEF IntentsTellSprints

\* Completing the last sprint that was started appends its completion.
LEMMA ToldComplete ==
  ASSUME NEW s, IntentsTellSprints(s), s.intents \in Seq(Intent),
         NEW o \in Ordinals, s.sprint[o] = "ACTIVE",
         \A u \in Ordinals : s.sprint[u] \in {"ACTIVE", "COMPLETED"} => u <= o,
         NEW n, n.intents = s.intents \o <<[op |-> "COMPLETE_SPRINT", ord |-> o]>>,
         \A u \in Ordinals : n.sprint[u] = IF u = o THEN "COMPLETED" ELSE s.sprint[u]
  PROVE  IntentsTellSprints(n)
<1> DEFINE a == s.intents
           c == [op |-> "COMPLETE_SPRINT", ord |-> o]
           q == <<c>>
           L == Len(a)
           states(op) == IF op = "COMPLETE_SPRINT" THEN {"COMPLETED"} ELSE {"ACTIVE", "COMPLETED"}
<1>1. c \in Intent /\ c.op = "COMPLETE_SPRINT" /\ c.ord = o
  BY DEF Intent, SprintOps
<1> HIDE DEF c
<1>2. /\ n.intents = a \o q /\ a \in Seq(Intent) /\ L \in Nat /\ q \in Seq(Intent)
      /\ DOMAIN q = {1} /\ q[1] = c
      /\ DOMAIN a = 1..L /\ DOMAIN n.intents = 1..(L + 1)
      /\ (\A k \in 1..L : n.intents[k] = a[k]) /\ n.intents[L + 1] = c
  <2> HIDE DEF Ordinals
  <2>1. n.intents = a \o q /\ a \in Seq(Intent) /\ q \in Seq(Intent) /\ Len(q) = 1 /\ q[1] = c /\ DOMAIN q = {1}
    BY <1>1 DEF c
  <2> HIDE DEF q
  <2> QED
    BY SMTT(30), <2>1
<1> HIDE DEF q, a
<1>3. ASSUME NEW u \in Ordinals, NEW op \in SprintOps
      PROVE  IF n.sprint[u] \in states(op) THEN ToldOnce(n, op, u) ELSE TellsOf(n, op, u) = {}
  <2> DEFINE x == [op |-> op, ord |-> u]
             At(z) == {k \in DOMAIN z : z[k] = x}
  <2>1. At(n.intents) = TellsOf(n, op, u) /\ At(a) = TellsOf(s, op, u)
    BY DEF TellsOf, a
  <2>2. IF s.sprint[u] \in states(op) THEN ToldOnce(s, op, u) ELSE TellsOf(s, op, u) = {}
    BY DEF IntentsTellSprints
  <2>3. CASE u # o \/ op # "COMPLETE_SPRINT"
    <3>1. \A j \in DOMAIN q : q[j] # x
      BY <1>1, <1>2, <2>3
    <3>2. At(n.intents) = At(a)
      <4>1. At(a \o q) = At(a)
        BY SMTT(30), <1>2, <3>1, AppendedAt
      <4> QED
        BY <1>2, <4>1
    <3>3. n.sprint[u] \in states(op) <=> s.sprint[u] \in states(op)
      <4>1. CASE u # o
        BY <4>1
      <4>2. CASE u = o
        BY <2>3, <4>2
      <4> QED
        BY <4>1, <4>2
    <3>4. ToldOnce(s, op, u) => ToldOnce(n, op, u)
      BY <1>2, <2>1, <3>2 DEF ToldOnce, a
    <3> HIDE DEF At, states
    <3> QED
      BY <2>1, <2>2, <3>2, <3>3, <3>4
  <2>4. CASE u = o /\ op = "COMPLETE_SPRINT"
    <3>1. q[1] = x /\ \A i \in DOMAIN q : q[i] = x => i = 1
      BY <1>2, <2>4 DEF c
    <3>2. At(a) = {}
      BY <2>1, <2>2, <2>4
    <3>3. At(n.intents) = {L + 1}
      <4>1. 1 \in DOMAIN q
        BY <1>2
      <4> HIDE DEF x
      <4>2. At(a \o q) = {Len(a) + 1}
        BY <1>2, <3>1, <3>2, <4>1, AppendedAt
      <4> QED
        BY <1>2, <4>2
    <3>4. L + 1 \in DOMAIN n.intents
      BY <1>2
    <3>5. ToldOnce(n, op, u)
      BY <2>1, <3>3, <3>4 DEF ToldOnce
    <3>6. n.sprint[u] \in states(op)
      BY <2>4
    <3> QED
      BY <3>5, <3>6
  <2> QED
    BY <2>3, <2>4
<1>4. ASSUME NEW j \in DOMAIN n.intents, NEW k \in DOMAIN n.intents,
             n.intents[j].op = "COMPLETE_SPRINT", n.intents[k].op = "START_SPRINT",
             n.intents[k].ord > n.intents[j].ord
      PROVE  j < k
  <2>1. k \in 1..L /\ n.intents[k] = a[k] /\ a[k] \in Intent
    <3>1. k # L + 1
      BY <1>1, <1>2, <1>4
    <3> QED
      BY <1>2, <3>1
  <2>2. a[k].ord \in Ordinals /\ a[k].ord <= o
    <3> DEFINE u == a[k].ord
    <3>1. u \in Ordinals /\ a[k] = [op |-> "START_SPRINT", ord |-> u]
      BY <1>4, <2>1 DEF Intent
    <3>2. k \in TellsOf(s, "START_SPRINT", u)
      BY <1>2, <2>1, <3>1 DEF TellsOf, a
    <3>3. "START_SPRINT" \in SprintOps
      BY DEF SprintOps
    <3>4. s.sprint[u] \in {"ACTIVE", "COMPLETED"}
      BY <3>1, <3>2, <3>3 DEF IntentsTellSprints
    <3> QED
      BY <3>1, <3>4
  <2>3. j \in 1..L
    <3>1. ASSUME j = L + 1 PROVE FALSE
      <4>1. n.intents[j].ord = o
        BY <1>1, <1>2, <3>1
      <4>2. a[k].ord > o /\ a[k].ord \in Nat /\ o \in Nat
        BY SMTT(30), <1>4, <2>1, <2>2, <4>1, OrdAssumption
      <4> QED
        BY <2>2, <4>2
    <3> QED
      BY <1>2, <3>1
  <2> QED
    BY <1>2, <1>4, <2>1, <2>3 DEF IntentsTellSprints, a
<1> QED
  BY <1>3, <1>4 DEF IntentsTellSprints

\* Appending in two steps is appending at once.
LEMMA AppendedTwice ==
  ASSUME NEW a \in Seq(Intent), NEW b \in Seq(Intent), NEW c \in Seq(Intent)
  PROVE  a \o (b \o c) = (a \o b) \o c
<1> DEFINE l == a \o (b \o c)
           r == (a \o b) \o c
           n == Len(a) + Len(b) + Len(c)
<1>1. /\ a \o b \in Seq(Intent) /\ Len(a \o b) = Len(a) + Len(b)
      /\ b \o c \in Seq(Intent) /\ Len(b \o c) = Len(b) + Len(c)
      /\ Len(a) \in Nat /\ Len(b) \in Nat /\ Len(c) \in Nat
  OBVIOUS
<1>2. l \in Seq(Intent) /\ r \in Seq(Intent) /\ Len(l) = n /\ Len(r) = n
  BY <1>1
<1>3. ASSUME NEW k \in 1..n PROVE l[k] = r[k]
  <2>1. CASE k <= Len(a)
    BY <1>1, <2>1
  <2>2. CASE Len(a) < k /\ k <= Len(a) + Len(b)
    BY <1>1, <2>2
  <2>3. CASE Len(a) + Len(b) < k
    BY <1>1, <2>3
  <2> QED
    BY <1>1, <2>1, <2>2, <2>3
<1> HIDE DEF l, r
<1>4. l = r
  BY <1>2, <1>3
<1> QED
  BY <1>4 DEF l, r

\* The rollover tells the completion of the old sprint, then the new start.
LEMMA ToldRoll ==
  ASSUME NEW s, IntentsTellSprints(s), s.intents \in Seq(Intent),
         NEW o \in Ordinals, NEW new \in Ordinals, s.sprint[o] = "ACTIVE", s.sprint[new] = "NONE",
         \A u \in Ordinals : s.sprint[u] \in {"ACTIVE", "COMPLETED"} => u <= o,
         NEW n,
         n.intents = s.intents \o (<<[op |-> "COMPLETE_SPRINT", ord |-> o]>> \o StartChain(new)),
         \A u \in Ordinals :
           n.sprint[u] = IF u = new THEN "ACTIVE" ELSE IF u = o THEN "COMPLETED" ELSE s.sprint[u]
  PROVE  IntentsTellSprints(n)
<1> DEFINE c == [op |-> "COMPLETE_SPRINT", ord |-> o]
           intents == s.intents \o <<c>>
           sprint == [u \in Ordinals |-> IF u = o THEN "COMPLETED" ELSE s.sprint[u]]
           m == [intents |-> intents, sprint |-> sprint]
<1>1. c \in Intent
  BY DEF Intent, SprintOps
<1>2. intents \in Seq(Intent) /\ n.intents = intents \o StartChain(new)
  <2>1. StartChain(new) \in Seq(Intent)
    BY StartChainType
  <2> HIDE DEF c, Ordinals
  <2>2. <<c>> \in Seq(Intent)
    BY <1>1
  <2>3. n.intents = s.intents \o (<<c>> \o StartChain(new))
    BY DEF c
  <2> DEFINE b == <<c>>
  <2> HIDE DEF b
  <2>4. intents = s.intents \o b /\ b \in Seq(Intent) /\ n.intents = s.intents \o (b \o StartChain(new))
    BY <2>2, <2>3 DEF b
  <2>5. s.intents \o b \in Seq(Intent)
    BY <2>4
  <2> HIDE DEF intents
  <2>6. s.intents \o (b \o StartChain(new)) = (s.intents \o b) \o StartChain(new)
    BY <2>1, <2>4, AppendedTwice
  <2> QED
    BY <2>4, <2>5, <2>6
<1>3. m.intents = intents /\ \A u \in Ordinals : m.sprint[u] = IF u = o THEN "COMPLETED" ELSE s.sprint[u]
  OBVIOUS
<1>4. IntentsTellSprints(m)
  <2> HIDE DEF m
  <2> QED
    BY <1>3, ToldComplete
<1>5. /\ m.sprint[new] = "NONE"
      /\ \A u \in Ordinals : n.sprint[u] = IF u = new THEN "ACTIVE" ELSE m.sprint[u]
  BY <1>3
<1> HIDE DEF m, intents
<1> QED
  BY <1>2, <1>3, <1>4, <1>5, ToldStart

\* The first sprint's start is the whole ledger.
LEMMA ToldFirst ==
  ASSUME NEW o \in Ordinals, NEW n, n.intents = StartChain(o),
         \A u \in Ordinals : n.sprint[u] = IF u = o THEN "ACTIVE" ELSE "NONE"
  PROVE  IntentsTellSprints(n)
<1> DEFINE m == [intents |-> <<>>, sprint |-> [u \in Ordinals |-> "NONE"]]
<1>1. m.intents = <<>> /\ m.intents \in Seq(Intent) /\ \A u \in Ordinals : m.sprint[u] = "NONE"
  OBVIOUS
<1> HIDE DEF m
<1>2. IntentsTellSprints(m)
  BY <1>1 DEF IntentsTellSprints, TellsOf
<1>3. n.intents = m.intents \o StartChain(o)
  BY <1>1, StartChainType
<1> QED
  BY <1>1, <1>2, <1>3, ToldStart

\* What neither starts nor completes a sprint leaves the story alone.
LEMMA ToldSame ==
  ASSUME NEW s, IntentsTellSprints(s), NEW n, n.intents = s.intents,
         \A u \in Ordinals : n.sprint[u] = s.sprint[u] \/ {n.sprint[u], s.sprint[u]} \subseteq {"NONE", "PLANNED"}
  PROVE  IntentsTellSprints(n)
<1>1. \A op, o : TellsOf(n, op, o) = TellsOf(s, op, o) /\ (ToldOnce(n, op, o) <=> ToldOnce(s, op, o))
  BY DEF TellsOf, ToldOnce
<1>2. ASSUME NEW o \in Ordinals
      PROVE  /\ n.sprint[o] \in {"COMPLETED"} <=> s.sprint[o] \in {"COMPLETED"}
             /\ n.sprint[o] \in {"ACTIVE", "COMPLETED"} <=> s.sprint[o] \in {"ACTIVE", "COMPLETED"}
  OBVIOUS
<1> QED
  BY <1>1, <1>2 DEF IntentsTellSprints

\* Scope rows that stay with their sprint, of items that do not return to the
\* backlog.
LEMMA ScopedSame ==
  ASSUME NEW s, Scoped(s), s.scope \subseteq Ordinals \X Items, NEW n, n.scope \subseteq s.scope,
         \A o \in Ordinals : s.sprint[o] = "ACTIVE" => n.sprint[o] = "ACTIVE",
         \A i \in Items : n.life[i] = "BACKLOG" => s.life[i] = "BACKLOG"
  PROVE  Scoped(n)
BY DEF Scoped, ScopeInActive, BacklogUnscoped
-----------------------------------------------------------------------------
(* Bootstrap.                                                              *)

\* A freshly created team is sound.
LEMMA NewTeamSound == Sound(NewTeam) /\ NewTeam.state = "CREATED" /\ NewTeam.sim = 0
<1>1. <<>> \in Seq(Intent)
  OBVIOUS
<1>2. NewTeam \in TeamState
  BY <1>1, TimeAssumption, OrdAssumption DEF NewTeam, TeamState, SprintLife, ItemLife
<1>3. IntentsTellSprints(NewTeam) /\ Scoped(NewTeam)
  BY DEF NewTeam, IntentsTellSprints, TellsOf, Scoped, ScopeInActive, BacklogUnscoped
<1> QED
  BY <1>2, <1>3 DEF NewTeam, Sound, Unstarted, SprintChain, BoundaryAhead

\* Activating selected work touches the items only.
LEMMA ActivateKeeps ==
  ASSUME NEW s \in TeamState, NEW sel \in SUBSET Items, NEW at \in 0..(MaxTime + 1)
  PROVE  LET n == ActivateItems(s, sel, at)
         IN /\ n \in TeamState
            /\ n.version = s.version /\ n.state = s.state /\ n.sim = s.sim /\ n.wake = s.wake
            /\ n.sprint = s.sprint /\ n.nextOrd = s.nextOrd /\ n.scope = s.scope
            /\ n.gaps = s.gaps /\ n.intents = s.intents
BY ItemAssumption DEF ActivateItems, TeamState, ItemLife

\* Selected items leave the backlog, the other items stay as they are.
LEMMA ActivateSelects ==
  ASSUME NEW s \in TeamState, NEW sel \in SUBSET Items, NEW at
  PROVE  LET n == ActivateItems(s, sel, at)
         IN /\ \A i \in Items : n.life[i] = "BACKLOG" => s.life[i] = "BACKLOG" /\ i \notin sel
            /\ \A i \in Items \ sel :
                 n.life[i] = s.life[i] /\ n.step[i] = s.step[i] /\ n.entered[i] = s.entered[i]
BY DEF ActivateItems, TeamState

\* Starting a team sets its runtime row only.
LEMMA StartedKeeps ==
  ASSUME NEW s \in TeamState, NEW sim \in Time, NEW wake \in 0..(MaxTime + 1)
  PROVE  LET n == Started(s, sim, wake)
         IN /\ n \in TeamState /\ n.state = "RUNNING" /\ n.sim = sim
            /\ n.version = s.version /\ n.sprint = s.sprint /\ n.nextOrd = s.nextOrd
            /\ SameItems(n, s)
BY DEF TeamState, Started, SameItems

\* Replacing the sprint rows leaves the rest of the state alone.
LEMMA WithSprintsKeeps ==
  ASSUME NEW s \in TeamState, NEW sprint \in [Ordinals -> SprintLife], NEW nextOrd \in 0..MaxOrd,
         NEW scope \in SUBSET (Ordinals \X Items), NEW intents \in Seq(Intent)
  PROVE  LET n == WithSprints(s, sprint, nextOrd, scope, intents)
         IN /\ n \in TeamState
            /\ n.sprint = sprint /\ n.nextOrd = nextOrd /\ n.scope = scope /\ n.intents = intents
            /\ n.version = s.version /\ n.state = s.state /\ n.sim = s.sim /\ n.wake = s.wake
            /\ n.life = s.life /\ n.step = s.step /\ n.entered = s.entered /\ n.gaps = s.gaps
BY DEF TeamState, WithSprints

\* Bootstrap before the first boundary: the first sprint is planned.
LEMMA PlannedStartSound ==
  ASSUME NEW s, Sound(s), s.state = "CREATED", NEW started \in Time, started < Boundary[0]
  PROVE  LET n == PlannedStart(s, started)
         IN Sound(n) /\ n.sim = started /\ n.state = "RUNNING" /\ n.version = s.version
<1> DEFINE n == PlannedStart(s, started)
           r == Started(s, started, FirstWake)
           sprint == [s.sprint EXCEPT ![0] = "PLANNED"]
<1>1. s \in TeamState /\ 0 \in Ordinals /\ 1 \in 0..MaxOrd /\ Boundary[0] \in Nat
  BY OrdAssumption, BoundaryAssumption DEF Sound
<1>2. sprint \in [Ordinals -> SprintLife] /\ FirstWake \in 0..(MaxTime + 1)
  BY <1>1, TimeAssumption DEF TeamState, SprintLife, FirstWake
<1>3. s.scope \in SUBSET (Ordinals \X Items) /\ s.intents \in Seq(Intent)
  BY <1>1 DEF TeamState
<1>4. /\ r \in TeamState /\ r.state = "RUNNING" /\ r.sim = started /\ r.version = s.version
      /\ r.life = s.life
  BY <1>1, <1>2, StartedKeeps DEF SameItems
<1>5. \A q \in Ordinals : sprint[q] = (IF q = 0 THEN "PLANNED" ELSE "NONE") /\ s.sprint[q] = "NONE"
  BY <1>1 DEF Sound, Unstarted, TeamState
<1> HIDE DEF r, sprint
<1>6. n = WithSprints(r, sprint, 1, s.scope, s.intents)
  BY DEF PlannedStart, r, sprint
<1>7. /\ n \in TeamState /\ n.state = "RUNNING" /\ n.sim = started /\ n.version = s.version
      /\ n.sprint = sprint /\ n.nextOrd = 1
      /\ n.intents = s.intents /\ n.scope = s.scope /\ n.life = s.life
  BY <1>1, <1>2, <1>3, <1>4, <1>6, WithSprintsKeeps
<1> HIDE DEF n
<1>8. Unstarted(n) /\ SprintChain(n)
  BY <1>5, <1>7, OrdAssumption DEF Unstarted, SprintChain
<1>9. BoundaryAhead(n)
  BY <1>1, <1>5, <1>7 DEF BoundaryAhead
<1>10. IntentsTellSprints(n)
  BY <1>5, <1>7, ToldSame DEF Sound
<1>11. Scoped(n)
  BY <1>3, <1>5, <1>7, ScopedSame DEF Sound
<1> QED
  BY <1>7, <1>8, <1>9, <1>10, <1>11 DEF Sound, n

\* Bootstrap inside a sprint window: that sprint is active at once.
LEMMA ActiveStartSound ==
  ASSUME NEW s, Sound(s), s.state = "CREATED", NEW started \in Time, NEW o \in Ordinals,
         NEW target, started < Boundary[o + 1]
  PROVE  LET n == ActiveStart(s, started, o, target)
         IN Sound(n) /\ n.sim = started /\ n.state = "RUNNING" /\ n.version = s.version
<1> DEFINE n == ActiveStart(s, started, o, target)
           sel == RankedSelection(Items, 0, target)
           a == ActivateItems(s, sel, started)
           r == Started(a, started, started)
           sprint == [s.sprint EXCEPT ![o] = "ACTIVE"]
<1>1. s \in TeamState /\ sel \in SUBSET Items /\ StartChain(o) \in Seq(Intent)
  BY SelectionType, StartChainType DEF Sound
<1>2. started \in 0..(MaxTime + 1) /\ o + 1 \in 0..MaxOrd /\ Boundary[o + 1] \in Nat
  BY TimeAssumption, OrdAssumption, BoundaryAssumption
<1>3. sprint \in [Ordinals -> SprintLife] /\ {o} \X sel \in SUBSET (Ordinals \X Items)
  BY <1>1 DEF TeamState, SprintLife
<1>4. \A q \in Ordinals : sprint[q] = IF q = o THEN "ACTIVE" ELSE "NONE"
  BY <1>1 DEF Sound, Unstarted, TeamState
<1> HIDE DEF a, r, sel, sprint
<1>5. a \in TeamState /\ a.version = s.version /\ \A i \in sel : a.life[i] # "BACKLOG"
  <2>1. a \in TeamState /\ a.version = s.version
    BY <1>1, <1>2, ActivateKeeps DEF a
  <2>2. \A i \in Items : a.life[i] = "BACKLOG" => i \notin sel
    BY <1>1, ActivateSelects DEF a
  <2> QED
    BY <1>1, <2>1, <2>2
<1>6. /\ r \in TeamState /\ r.state = "RUNNING" /\ r.sim = started /\ r.version = s.version
      /\ r.life = a.life
  BY <1>2, <1>5, StartedKeeps DEF r, SameItems
<1>7. n = WithSprints(r, sprint, o + 1, {o} \X sel, StartChain(o))
  BY DEF ActiveStart, a, r, sel, sprint
<1>8. /\ n \in TeamState /\ n.state = "RUNNING" /\ n.sim = started /\ n.version = s.version
      /\ n.sprint = sprint /\ n.nextOrd = o + 1
      /\ n.intents = StartChain(o) /\ n.scope = {o} \X sel /\ n.life = a.life
  BY <1>1, <1>2, <1>3, <1>6, <1>7, WithSprintsKeeps
<1> HIDE DEF n
<1>9. Unstarted(n) /\ SprintChain(n)
  BY <1>4, <1>8, OrdAssumption DEF Unstarted, SprintChain
<1>10. BoundaryAhead(n)
  BY <1>2, <1>4, <1>8 DEF BoundaryAhead
<1>11. IntentsTellSprints(n)
  BY <1>4, <1>8, ToldFirst
<1>12. Scoped(n)
  BY <1>4, <1>5, <1>8 DEF Scoped, ScopeInActive, BacklogUnscoped
<1> QED
  BY <1>8, <1>9, <1>10, <1>11, <1>12 DEF Sound, n

\* ensure_bootstrapped starts a sound, running team at its start instant.
LEMMA BootstrapSound ==
  ASSUME NEW s, Sound(s), s.state = "CREATED", NEW started \in Time, NEW o \in Ordinals,
         NEW target, ContainingOrdinal(o, started)
  PROVE  LET n == EnsureBootstrapped(s, started, o, target)
         IN Sound(n) /\ n.sim = started /\ n.state = "RUNNING" /\ n.version = s.version
<1>1. Boundary[o] \in Nat /\ Boundary[o + 1] \in Nat /\ Boundary[0] \in Nat /\ Boundary[o] < Boundary[o + 1]
  BY BoundaryAssumption, OrdAssumption
<1>2. CASE started < Boundary[o]
  <2>1. o = 0
    BY <1>1, <1>2, TimeAssumption DEF ContainingOrdinal
  <2> QED
    BY <1>2, <2>1, PlannedStartSound DEF EnsureBootstrapped
<1>3. CASE ~(started < Boundary[o])
  <2>1. started < Boundary[o + 1]
    BY <1>1, <1>3, TimeAssumption DEF ContainingOrdinal
  <2> QED
    BY <1>3, <2>1, ActiveStartSound DEF EnsureBootstrapped
<1> QED
  BY <1>2, <1>3
-----------------------------------------------------------------------------
(* Crossing a sprint boundary.                                             *)

\* What a crossing does not touch, and what it only adds to.
Extends(n, s) ==
  /\ n.version = s.version /\ n.state = s.state /\ n.sim = s.sim /\ n.wake = s.wake
  /\ n.gaps = s.gaps
  /\ \A o \in Ordinals : s.sprint[o] = "COMPLETED" => n.sprint[o] = "COMPLETED"
  /\ \E q \in Seq(Intent) : n.intents = s.intents \o q
  /\ CarriesOver(s, n)

\* A step that completes no sprint leaves nothing to carry over.
LEMMA NothingToCarry ==
  ASSUME NEW s, NEW n, \A o \in Ordinals : s.sprint[o] = "ACTIVE" => n.sprint[o] = "ACTIVE"
  PROVE  CarriesOver(s, n)
BY DEF CarriesOver

\* Only the last claimed ordinal can be planned or active.
LEMMA CurrentSprint ==
  ASSUME NEW s, Sound(s), s.state = "RUNNING", NEW o \in Ordinals,
         s.sprint[o] \in {"PLANNED", "ACTIVE"}
  PROVE  o = s.nextOrd - 1 /\ s.nextOrd \in 1..MaxOrd
<1>1. /\ s.nextOrd \in 1..MaxOrd
      /\ o < s.nextOrd - 1 => s.sprint[o] \in {"NONE", "COMPLETED"}
      /\ o >= s.nextOrd => s.sprint[o] = "NONE"
  BY DEF Sound, SprintChain
<1>2. ~(o < s.nextOrd - 1) /\ ~(o >= s.nextOrd)
  BY <1>1
<1> QED
  BY <1>1, <1>2, OrdAssumption

\* The intents of a rollover are a sequence of intents.
LEMMA RollIntentsType ==
  ASSUME NEW o \in Ordinals, NEW new \in Ordinals
  PROVE  <<[op |-> "COMPLETE_SPRINT", ord |-> o]>> \o StartChain(new) \in Seq(Intent)
<1>1. [op |-> "COMPLETE_SPRINT", ord |-> o] \in Intent
  BY DEF Intent, SprintOps
<1>2. StartChain(new) \in Seq(Intent)
  BY StartChainType
<1> HIDE DEF Ordinals
<1> QED
  BY <1>1, <1>2

\* The planned first sprint becomes active at its own start.
LEMMA ActivatePlannedSound ==
  ASSUME NEW s, Sound(s), s.state = "RUNNING", NEW at \in Time, NEW target,
         NEW o \in PlannedAt(s, at)
  PROVE  LET n == ActivatePlannedSprint(s, o, at, target) IN Sound(n) /\ Extends(n, s)
<1> DEFINE n == ActivatePlannedSprint(s, o, at, target)
           sel == RankedSelection(Items, 0, target)
           a == ActivateItems(s, sel, at)
           sprint == [s.sprint EXCEPT ![o] = "ACTIVE"]
           scope == s.scope \cup ({o} \X sel)
           intents == s.intents \o StartChain(o)
<1>1. o \in Ordinals /\ s.sprint[o] = "PLANNED" /\ Boundary[o] = at
  BY DEF PlannedAt
<1>2. s \in TeamState /\ sel \in SUBSET Items /\ StartChain(o) \in Seq(Intent)
  BY <1>1, SelectionType, StartChainType DEF Sound
<1>3. /\ at \in 0..(MaxTime + 1) /\ s.nextOrd \in 0..MaxOrd /\ s.sim \in Nat
      /\ Boundary[o] \in Nat /\ Boundary[o + 1] \in Nat /\ Boundary[o] < Boundary[o + 1]
  BY <1>1, <1>2, TimeAssumption, OrdAssumption, BoundaryAssumption DEF TeamState
<1>4. /\ sprint \in [Ordinals -> SprintLife] /\ scope \in SUBSET (Ordinals \X Items)
      /\ intents \in Seq(Intent)
  BY <1>1, <1>2 DEF TeamState, SprintLife
<1>5. o = s.nextOrd - 1
  BY <1>1, CurrentSprint
<1>6. \A q \in Ordinals : sprint[q] = IF q = o THEN "ACTIVE" ELSE s.sprint[q]
  BY <1>1, <1>2 DEF TeamState
<1>7. \E q \in Seq(Intent) : intents = s.intents \o q
  BY <1>2
<1> HIDE DEF a, sel, sprint, scope, intents
<1>8. /\ a \in TeamState /\ a.version = s.version /\ a.state = s.state /\ a.sim = s.sim
      /\ a.wake = s.wake /\ a.gaps = s.gaps
      /\ \A i \in Items : a.life[i] = "BACKLOG" => s.life[i] = "BACKLOG" /\ i \notin sel
  <2>1. /\ a \in TeamState /\ a.version = s.version /\ a.state = s.state /\ a.sim = s.sim
        /\ a.wake = s.wake /\ a.gaps = s.gaps
    BY <1>2, <1>3, ActivateKeeps DEF a
  <2>2. \A i \in Items : a.life[i] = "BACKLOG" => s.life[i] = "BACKLOG" /\ i \notin sel
    BY <1>2 DEF a, ActivateItems, TeamState
  <2> QED
    BY <2>1, <2>2
<1>9. n = WithSprints(a, sprint, s.nextOrd, scope, intents)
  BY DEF ActivatePlannedSprint, a, sel, sprint, scope, intents
<1>10. /\ n \in TeamState /\ n.state = s.state /\ n.sim = s.sim /\ n.version = s.version
       /\ n.wake = s.wake /\ n.gaps = s.gaps
       /\ n.sprint = sprint /\ n.nextOrd = s.nextOrd /\ n.intents = intents
       /\ n.scope = scope /\ n.life = a.life
  BY <1>3, <1>4, <1>8, <1>9, WithSprintsKeeps
<1> HIDE DEF n
<1>11. Unstarted(n) /\ SprintChain(n)
  BY <1>1, <1>5, <1>6, <1>10 DEF Sound, Unstarted, SprintChain
<1>12. BoundaryAhead(n)
  <2>1. s.sim <= Boundary[o + 1]
    BY <1>1, <1>3 DEF Sound, BoundaryAhead
  <2> QED
    BY <1>6, <1>10, <2>1 DEF Sound, BoundaryAhead
<1>13. Extends(n, s)
  <2>1. CarriesOver(s, n)
    BY <1>6, <1>10, NothingToCarry
  <2> QED
    BY <1>1, <1>6, <1>7, <1>10, <2>1 DEF Extends
<1>14. IntentsTellSprints(n)
  <2>1. s.intents \in Seq(Intent) /\ IntentsTellSprints(s)
    BY <1>2 DEF Sound, TeamState
  <2> QED
    BY <1>1, <1>6, <1>10, <2>1, ToldStart DEF intents
<1>15. Scoped(n)
  <2>1. ScopeInActive(s) /\ BacklogUnscoped(s) /\ s.scope \subseteq Ordinals \X Items
    BY <1>2 DEF Sound, Scoped, TeamState
  <2>2. ScopeInActive(n)
    BY <1>1, <1>6, <1>10, <2>1 DEF ScopeInActive, scope
  <2>3. BacklogUnscoped(n)
    BY <1>8, <1>10, <2>1, <1>2 DEF BacklogUnscoped, scope
  <2> QED
    BY <2>2, <2>3 DEF Scoped
<1> QED
  BY <1>10, <1>11, <1>12, <1>13, <1>14, <1>15 DEF Sound, n

\* The active sprint ends and its successor starts: the claimed ordinal is
\* within the bound because the boundary has been reached.
LEMMA RollSound ==
  ASSUME NEW s, Sound(s), s.state = "RUNNING", NEW at \in Time, NEW target,
         NEW o \in EndingAt(s, at)
  PROVE  LET n == RollActiveSprint(s, o, at, target) IN Sound(n) /\ Extends(n, s)
<1> DEFINE n == RollActiveSprint(s, o, at, target)
           new == s.nextOrd
           carry == CarryoverIds(s, o)
           sel == RankedSelection(ItemsIn(s, "BACKLOG"), SumFunctionOnSet(Points, carry), target)
           a == ActivateItems(s, sel, at)
           sprint == [s.sprint EXCEPT ![o] = "COMPLETED", ![new] = "ACTIVE"]
           scope == {r \in s.scope : r[1] # o} \cup ({new} \X (carry \cup sel))
           added == <<[op |-> "COMPLETE_SPRINT", ord |-> o]>> \o StartChain(new)
           intents == s.intents \o added
<1>1. o \in Ordinals /\ s.sprint[o] = "ACTIVE" /\ Boundary[o + 1] = at
  BY DEF EndingAt
<1>2. s \in TeamState /\ carry \in SUBSET Items /\ sel \in SUBSET Items
  BY SelectionType DEF Sound, CarryoverIds, ItemsIn
<1>3. o = new - 1 /\ new \in 1..MaxOrd
  BY <1>1, CurrentSprint
<1>4. new \in Ordinals
  <2>1. new # MaxOrd
    BY <1>1, <1>3, BoundaryAssumption, TimeAssumption, OrdAssumption
  <2> QED
    BY <1>3, <2>1, OrdAssumption
<1>5. /\ at \in 0..(MaxTime + 1) /\ s.sim \in Nat /\ new + 1 \in 0..MaxOrd
      /\ Boundary[new] \in Nat /\ Boundary[new + 1] \in Nat /\ Boundary[new] < Boundary[new + 1]
  BY SMTT(30), <1>2, <1>4, TimeAssumption, OrdAssumption, BoundaryAssumption DEF TeamState
<1>6. sprint \in [Ordinals -> SprintLife] /\ scope \in SUBSET (Ordinals \X Items)
  BY <1>1, <1>2, <1>4 DEF TeamState, SprintLife
<1>7. added \in Seq(Intent) /\ s.intents \in Seq(Intent)
  BY <1>1, <1>2, <1>4, RollIntentsType DEF TeamState
<1> HIDE DEF added
<1>8. intents \in Seq(Intent) /\ \E q \in Seq(Intent) : intents = s.intents \o q
  BY <1>7
<1>9. \A q \in Ordinals : sprint[q] = IF q = new THEN "ACTIVE" ELSE IF q = o THEN "COMPLETED" ELSE s.sprint[q]
  BY <1>1, <1>2, <1>3, <1>4 DEF TeamState
<1> HIDE DEF a, carry, sel, sprint, scope, intents, new
<1>10. /\ a \in TeamState /\ a.version = s.version /\ a.state = s.state /\ a.sim = s.sim
       /\ a.wake = s.wake /\ a.gaps = s.gaps
       /\ \A i \in Items : a.life[i] = "BACKLOG" => s.life[i] = "BACKLOG" /\ i \notin sel
       /\ \A i \in Items \ sel :
            a.life[i] = s.life[i] /\ a.step[i] = s.step[i] /\ a.entered[i] = s.entered[i]
  <2>1. /\ a \in TeamState /\ a.version = s.version /\ a.state = s.state /\ a.sim = s.sim
        /\ a.wake = s.wake /\ a.gaps = s.gaps
    BY <1>2, <1>5, ActivateKeeps DEF a
  <2>2. /\ \A i \in Items : a.life[i] = "BACKLOG" => s.life[i] = "BACKLOG" /\ i \notin sel
        /\ \A i \in Items \ sel :
             a.life[i] = s.life[i] /\ a.step[i] = s.step[i] /\ a.entered[i] = s.entered[i]
    BY <1>2 DEF a, ActivateItems, TeamState
  <2> QED
    BY <2>1, <2>2
<1>11. n = WithSprints(a, sprint, new + 1, scope, intents)
  BY DEF RollActiveSprint, a, carry, sel, sprint, scope, added, intents, new
<1>12. /\ n \in TeamState /\ n.state = s.state /\ n.sim = s.sim /\ n.version = s.version
       /\ n.wake = s.wake /\ n.gaps = s.gaps
       /\ n.sprint = sprint /\ n.nextOrd = new + 1 /\ n.intents = intents
       /\ n.scope = scope /\ n.life = a.life /\ n.step = a.step /\ n.entered = a.entered
  <2>1. intents \in Seq(Intent)
    BY <1>8
  <2>2. new + 1 \in 0..MaxOrd
    BY <1>5
  <2> DEFINE m == WithSprints(a, sprint, new + 1, scope, intents)
  <2>3. /\ m \in TeamState
        /\ m.sprint = sprint /\ m.nextOrd = new + 1 /\ m.intents = intents
        /\ m.version = a.version /\ m.state = a.state /\ m.sim = a.sim /\ m.wake = a.wake
        /\ m.gaps = a.gaps /\ m.scope = scope
        /\ m.life = a.life /\ m.step = a.step /\ m.entered = a.entered
    BY <1>6, <1>10, <2>1, <2>2, WithSprintsKeeps
  <2> HIDE DEF m
  <2> QED
    BY <1>10, <1>11, <2>3 DEF m
<1> HIDE DEF n
<1>13. Unstarted(n) /\ SprintChain(n)
  <2>1. \A q \in Ordinals : /\ q < new - 1 => s.sprint[q] \in {"NONE", "COMPLETED"}
                            /\ q >= new => s.sprint[q] = "NONE"
    BY DEF Sound, SprintChain, new
  <2>2. \A q \in Ordinals : /\ q < new => sprint[q] \in {"NONE", "COMPLETED"}
                            /\ q >= new + 1 => sprint[q] = "NONE"
    BY <1>3, <1>4, <1>9, <2>1
  <2>3. new + 1 \in 1..MaxOrd /\ (new + 1) - 1 = new /\ sprint[new] = "ACTIVE"
    BY <1>4, <1>5, <1>9
  <2> QED
    BY <1>12, <2>2, <2>3 DEF Unstarted, SprintChain
<1>14. BoundaryAhead(n)
  <2>1. s.sim <= Boundary[new + 1]
    BY <1>1, <1>3, <1>5 DEF Sound, BoundaryAhead
  <2> QED
    BY <1>9, <1>12, <2>1 DEF Sound, BoundaryAhead
<1>15. Extends(n, s)
  <2>1. s.sprint[new] = "NONE"
    BY <1>3, <1>4 DEF Sound, SprintChain, new
  <2>2. CarriesOver(s, n)
    <3> SUFFICES ASSUME NEW u \in Ordinals, s.sprint[u] = "ACTIVE", n.sprint[u] = "COMPLETED"
                 PROVE  /\ new > u /\ s.sprint[new] = "NONE" /\ n.sprint[new] = "ACTIVE"
                        /\ \A i \in CarryoverIds(s, u) :
                             /\ <<new, i>> \in n.scope
                             /\ n.life[i] = "ACTIVE" /\ n.step[i] = s.step[i] /\ n.entered[i] = s.entered[i]
      BY <1>4 DEF CarriesOver, new
    <3>1. u = o
      BY <1>9, <1>12
    <3>2. \A i \in carry : i \in Items /\ s.life[i] = "ACTIVE" /\ i \notin sel
      <4>1. \A i \in sel : s.life[i] = "BACKLOG"
        BY SelectionType DEF sel, ItemsIn
      <4> QED
        BY <4>1 DEF carry, CarryoverIds
    <3>3. \A i \in carry : <<new, i>> \in scope
      BY DEF scope
    <3> QED
      BY <1>3, <1>4, <1>9, <1>10, <1>12, <2>1, <3>1, <3>2, <3>3, OrdAssumption DEF carry
  <2> QED
    BY <1>1, <1>8, <1>9, <1>12, <2>1, <2>2 DEF Extends
<1>16. IntentsTellSprints(n)
  <2>1. IntentsTellSprints(s) /\ s.sprint[new] = "NONE"
    BY <1>3, <1>4 DEF Sound, SprintChain, new
  <2>2. \A u \in Ordinals : s.sprint[u] \in {"ACTIVE", "COMPLETED"} => u <= o
    <3> SUFFICES ASSUME NEW u \in Ordinals, u > o PROVE s.sprint[u] = "NONE"
      BY <1>1, OrdAssumption
    <3>1. u >= s.nextOrd
      BY <1>3, OrdAssumption DEF new
    <3> QED
      BY <3>1 DEF Sound, SprintChain
  <2>3. n.intents = s.intents \o (<<[op |-> "COMPLETE_SPRINT", ord |-> o]>> \o StartChain(new))
    BY <1>12 DEF intents, added
  <2>4. \A u \in Ordinals :
          n.sprint[u] = IF u = new THEN "ACTIVE" ELSE IF u = o THEN "COMPLETED" ELSE s.sprint[u]
    BY <1>9, <1>12
  <2>5. o \in Ordinals /\ new \in Ordinals /\ s.sprint[o] = "ACTIVE" /\ s.intents \in Seq(Intent)
    BY <1>1, <1>4, <1>7
  <2> HIDE DEF Ordinals
  <2> QED
    BY ZenonT(30), <2>1, <2>2, <2>3, <2>4, <2>5, ToldRoll
<1>17. Scoped(n)
  <2>1. ScopeInActive(s) /\ BacklogUnscoped(s) /\ s.scope \subseteq Ordinals \X Items
    BY <1>2 DEF Sound, Scoped, TeamState
  <2>2. \A r \in s.scope : r[1] = o
    <3> SUFFICES ASSUME NEW r \in s.scope PROVE r[1] = o
      OBVIOUS
    <3>1. r[1] \in Ordinals /\ s.sprint[r[1]] = "ACTIVE"
      BY <2>1 DEF ScopeInActive
    <3> QED
      BY <1>3, <3>1, CurrentSprint DEF new
  <2>3. n.scope = {new} \X (carry \cup sel)
    BY <1>12, <2>2 DEF scope
  <2>4. \A i \in carry \cup sel : i \in Items /\ a.life[i] # "BACKLOG"
    <3>1. \A i \in carry : s.life[i] = "ACTIVE"
      BY DEF carry, CarryoverIds
    <3> QED
      BY <1>2, <1>10, <3>1
  <2>5. ScopeInActive(n)
    BY <1>4, <1>9, <1>12, <2>3 DEF ScopeInActive
  <2>6. BacklogUnscoped(n)
    BY <1>12, <2>3, <2>4 DEF BacklogUnscoped
  <2> QED
    BY <2>5, <2>6 DEF Scoped
<1> QED
  BY <1>12, <1>13, <1>14, <1>15, <1>16, <1>17 DEF Sound, n

\* cross_sprint_boundary keeps a running team sound and its history intact.
LEMMA CrossSound ==
  ASSUME NEW s, Sound(s), s.state = "RUNNING", NEW at \in Time, NEW target
  PROVE  LET n == CrossSprintBoundary(s, at, target) IN Sound(n) /\ Extends(n, s)
<1>1. CASE PlannedAt(s, at) # {}
  <2>1. (CHOOSE o \in PlannedAt(s, at) : TRUE) \in PlannedAt(s, at)
    BY <1>1
  <2> QED
    BY <1>1, <2>1, ActivatePlannedSound DEF CrossSprintBoundary
<1>2. CASE PlannedAt(s, at) = {} /\ EndingAt(s, at) # {}
  <2>1. (CHOOSE o \in EndingAt(s, at) : TRUE) \in EndingAt(s, at)
    BY <1>2
  <2> QED
    BY <1>2, <2>1, RollSound DEF CrossSprintBoundary
<1>3. CASE PlannedAt(s, at) = {} /\ EndingAt(s, at) = {}
  <2>1. <<>> \in Seq(Intent) /\ s.intents = s.intents \o <<>>
    BY DEF Sound, TeamState
  <2>2. CarriesOver(s, s)
    BY NothingToCarry
  <2> QED
    BY <1>3, <2>1, <2>2 DEF CrossSprintBoundary, Extends
<1> QED
  BY <1>1, <1>2, <1>3
-----------------------------------------------------------------------------
(* The tick slice.                                                         *)

\* Fields that risks and visit progress never touch.
SameSprints(n, s) ==
  /\ n.version = s.version /\ n.state = s.state /\ n.sim = s.sim /\ n.wake = s.wake
  /\ n.sprint = s.sprint /\ n.nextOrd = s.nextOrd /\ n.scope = s.scope
  /\ n.gaps = s.gaps /\ n.intents = s.intents

\* No item returns to the backlog.
NoneReturns(n, s) == \A i \in Items : n.life[i] = "BACKLOG" => s.life[i] = "BACKLOG"

\* A cancellation touches items only.
LEMMA CancelKeeps ==
  ASSUME NEW s \in TeamState, NEW X \in SUBSET Items, NEW W
  PROVE  LET n == AfterCancel(s, X, W) IN n \in TeamState /\ SameSprints(n, s) /\ NoneReturns(n, s)
<1> DEFINE life == [i \in Items |-> IF i \in X THEN "CANCELLED" ELSE s.life[i]]
           exited == [i \in Items |-> IF i \in X \cap AtReview(s) THEN s.sim ELSE s.exited[i]]
           rejects == [i \in Items |-> IF i \in X \cap AtReview(s)
                                       THEN i \in W \/ (s.rejects[i] /\ s.exited[i] = s.sim)
                                       ELSE s.rejects[i]]
<1>1. life \in [Items -> ItemLife]
  BY DEF TeamState, ItemLife
<1>2. exited \in [Items -> 0..(MaxTime + 1)]
  BY TimeAssumption DEF TeamState
<1>3. rejects \in [Items -> BOOLEAN]
  BY DEF TeamState
<1>4. s.cancelled \cup X \in SUBSET Items
  BY DEF TeamState
<1>5. AfterCancel(s, X, W) = [s EXCEPT !.cancelled = s.cancelled \cup X, !.life = life,
                                        !.exited = exited, !.rejects = rejects]
  BY DEF AfterCancel
<1> HIDE DEF life, exited, rejects
<1>6. AfterCancel(s, X, W) \in TeamState
  BY ZenonT(30), <1>1, <1>2, <1>3, <1>4, <1>5 DEF TeamState
<1>7. SameSprints(AfterCancel(s, X, W), s)
  BY <1>5 DEF TeamState, SameSprints
<1>8. NoneReturns(AfterCancel(s, X, W), s)
  <2>1. AfterCancel(s, X, W).life = life
    BY <1>5 DEF TeamState
  <2> QED
    BY <2>1 DEF NoneReturns, life
<1> QED
  BY <1>6, <1>7, <1>8

\* A rejection touches items only.
LEMMA RejectionKeeps ==
  ASSUME NEW s \in TeamState
  PROVE  LET n == AfterRejection(s) IN n \in TeamState /\ SameSprints(n, s) /\ NoneReturns(n, s)
<1> DEFINE life == [i \in Items |-> IF i \in Rejected(s) THEN "ACTIVE" ELSE s.life[i]]
           step == [i \in Items |-> IF i \in Rejected(s) THEN ReturnStep ELSE s.step[i]]
           entered == [i \in Items |-> IF i \in Rejected(s) THEN s.sim ELSE s.entered[i]]
<1>1. life \in [Items -> ItemLife]
  BY DEF TeamState, ItemLife
<1>2. step \in [Items -> Nat]
  BY RiskAssumption DEF TeamState
<1>3. entered \in [Items -> 0..(MaxTime + 1)]
  BY TimeAssumption DEF TeamState
<1>4. AfterRejection(s) = [s EXCEPT !.life = life, !.step = step, !.entered = entered]
  BY DEF AfterRejection
<1> HIDE DEF life, step, entered
<1>5. AfterRejection(s) \in TeamState
  BY ZenonT(30), <1>1, <1>2, <1>3, <1>4 DEF TeamState
<1>6. SameSprints(AfterRejection(s), s)
  BY <1>4 DEF TeamState, SameSprints
<1>7. NoneReturns(AfterRejection(s), s)
  <2>1. AfterRejection(s).life = life
    BY <1>4 DEF TeamState
  <2> QED
    BY <2>1 DEF NoneReturns, life
<1> QED
  BY <1>5, <1>6, <1>7

\* Visit progress touches items only.
LEMMA AdvanceKeeps ==
  ASSUME NEW s \in TeamState, NEW e \in Time, NEW C, NEW V
  PROVE  LET n == AdvanceVisits(s, e, C, V) IN n \in TeamState /\ SameSprints(n, s) /\ NoneReturns(n, s)
<1> DEFINE
      life == [i \in Items |-> IF i \in C /\ s.step[i] >= Steps[i] THEN "DONE" ELSE s.life[i]]
      step == [i \in Items |-> IF i \in C /\ s.step[i] < Steps[i] THEN s.step[i] + 1 ELSE s.step[i]]
      entered == [i \in Items |-> IF i \in C /\ s.step[i] < Steps[i] THEN e ELSE s.entered[i]]
      exited == [i \in Items |-> IF i \in C \cap AtReview(s) THEN e ELSE s.exited[i]]
      rejects == [i \in Items |-> IF i \in C \cap AtReview(s) THEN i \in V ELSE s.rejects[i]]
<1>1. life \in [Items -> ItemLife]
  BY DEF TeamState, ItemLife
<1>2. step \in [Items -> Nat]
  BY DEF TeamState
<1>3. entered \in [Items -> 0..(MaxTime + 1)] /\ exited \in [Items -> 0..(MaxTime + 1)]
  BY TimeAssumption DEF TeamState
<1>4. rejects \in [Items -> BOOLEAN]
  <2>1. s.rejects \in [Items -> BOOLEAN]
    BY DEF TeamState
  <2>2. ASSUME NEW i \in Items
        PROVE  (IF i \in C \cap AtReview(s) THEN i \in V ELSE s.rejects[i]) \in BOOLEAN
    <3>1. s.rejects[i] \in BOOLEAN
      BY <2>1
    <3>2. (i \in V) \in BOOLEAN
      OBVIOUS
    <3>3. CASE i \in C \cap AtReview(s)
      BY <3>2, <3>3
    <3>4. CASE i \notin C \cap AtReview(s)
      BY <3>1, <3>4
    <3> QED
      BY <3>3, <3>4
  <2> QED
    BY <2>2, Zenon
<1>5. AdvanceVisits(s, e, C, V) = [s EXCEPT !.life = life, !.step = step, !.entered = entered,
                                             !.exited = exited, !.rejects = rejects]
  BY DEF AdvanceVisits
<1> HIDE DEF life, step, entered, exited, rejects
<1>6. AdvanceVisits(s, e, C, V) \in TeamState
  <2> DEFINE r == [s EXCEPT !.life = life, !.step = step, !.entered = entered]
  <2>1. r \in TeamState
    BY <1>1, <1>2, <1>3 DEF TeamState
  <2>2. AdvanceVisits(s, e, C, V) = [r EXCEPT !.exited = exited, !.rejects = rejects]
    BY <1>5
  <2> HIDE DEF r
  <2> QED
    BY ZenonT(30), <1>3, <1>4, <2>1, <2>2 DEF TeamState
<1>7. SameSprints(AdvanceVisits(s, e, C, V), s)
  BY <1>5 DEF TeamState, SameSprints
<1>8. NoneReturns(AdvanceVisits(s, e, C, V), s)
  <2>1. AdvanceVisits(s, e, C, V).life = life
    BY <1>5 DEF TeamState
  <2> QED
    BY <2>1 DEF NoneReturns, life
<1> QED
  BY <1>6, <1>7, <1>8

\* The slice ends before or on every sprint boundary that is still ahead.
LEMMA SliceEndsAhead ==
  ASSUME NEW s, Sound(s), s.state = "RUNNING", NEW asof \in Time, NEW e \in Time,
         ~HasBoundaryAt(s, s.sim), s.sim <= e,
         \A l \in SliceLimits(s, asof) : e <= l,
         NEW o \in Ordinals
  PROVE  /\ s.sprint[o] = "PLANNED" => e <= Boundary[o]
         /\ s.sprint[o] = "ACTIVE" => e <= Boundary[o + 1]
<1>1. s.sim \in Nat /\ Boundary[o] \in Nat /\ Boundary[o + 1] \in Nat
  BY SMTT(30), TimeAssumption, OrdAssumption, BoundaryAssumption DEF Sound, TeamState
<1> DEFINE planned == {q \in Ordinals : s.sprint[q] = "PLANNED" /\ Boundary[q] > s.sim}
           active == {q \in Ordinals : s.sprint[q] = "ACTIVE"}
           fixed == IF planned # {} THEN {Boundary[q] : q \in planned}
                    ELSE {Boundary[q + 1] : q \in active}
<1>2. \A b \in fixed : b >= s.sim => e <= b
  <2> SUFFICES ASSUME NEW b \in fixed, b >= s.sim PROVE e <= b
    OBVIOUS
  <2>1. b \in Nat
    <3>1. \A q \in Ordinals : Boundary[q] \in Nat /\ Boundary[q + 1] \in Nat
      BY SMTT(30), BoundaryAssumption, OrdAssumption
    <3> QED
      BY <3>1
  <2> DEFINE days == {d \in WorkdayStarts : s.sim < d /\ ItemsIn(s, "ACTIVE") # {}}
             limits == {asof} \cup fixed \cup days
  <2>2. SliceLimits(s, asof) = {IF l < s.sim THEN s.sim ELSE l : l \in limits}
    BY DEF SliceLimits
  <2>3. b \in limits /\ b = IF b < s.sim THEN s.sim ELSE b
    BY <1>1, <2>1
  <2> HIDE DEF limits
  <2>4. b \in SliceLimits(s, asof)
    BY <2>2, <2>3
  <2> QED
    BY <2>4
<1>3. ASSUME s.sprint[o] = "PLANNED" PROVE e <= Boundary[o]
  <2>1. s.sim <= Boundary[o] /\ s.sim # Boundary[o]
    BY <1>3 DEF Sound, BoundaryAhead, HasBoundaryAt, PlannedAt
  <2>2. Boundary[o] \in fixed
    BY <1>1, <1>3, <2>1
  <2> QED
    BY <1>1, <1>2, <2>1, <2>2
<1>4. ASSUME s.sprint[o] = "ACTIVE" PROVE e <= Boundary[o + 1]
  <2>1. s.sim <= Boundary[o + 1]
    BY <1>4 DEF Sound, BoundaryAhead
  <2>2. planned = {}
    <3> SUFFICES ASSUME NEW q \in planned PROVE FALSE
      OBVIOUS
    <3>1. q = s.nextOrd - 1 /\ o = s.nextOrd - 1
      BY <1>4, CurrentSprint
    <3> QED
      BY <1>4, <3>1
  <2>3. Boundary[o + 1] \in fixed
    BY <1>4, <2>2
  <2> QED
    BY <1>1, <1>2, <2>1, <2>3
<1> QED
  BY <1>3, <1>4

\* Moving the cursor changes the runtime row only.
LEMMA CursorKeeps ==
  ASSUME NEW s \in TeamState, NEW e \in Time
  PROVE  LET n == [s EXCEPT !.sim = e, !.wake = e]
         IN /\ n \in TeamState /\ n.sim = e
            /\ n.version = s.version /\ n.state = s.state /\ n.sprint = s.sprint
            /\ n.nextOrd = s.nextOrd /\ n.gaps = s.gaps /\ n.intents = s.intents
            /\ n.scope = s.scope /\ n.life = s.life
<1>1. e \in 0..(MaxTime + 1)
  BY TimeAssumption
<1> QED
  BY <1>1 DEF TeamState

\* A tick slice keeps a running team sound, moves its cursor to the slice's
\* end and leaves sprints, downtime windows and intents alone.
LEMMA SliceSound ==
  ASSUME NEW s, Sound(s), s.state = "RUNNING", NEW asof \in Time, NEW e \in Time, s.sim <= e,
         NEW X \in SUBSET Items, NEW W, NEW C, NEW V, TickAllowed(s, asof, X, W, e, C, V)
  PROVE  LET n == TickResult(s, X, W, e, C, V)
         IN /\ Sound(n) /\ n.sim = e /\ n.version = s.version /\ n.state = s.state
            /\ n.sprint = s.sprint /\ n.gaps = s.gaps /\ n.intents = s.intents
<1> DEFINE c == AfterCancel(s, X, W)
           r == AfterRejection(c)
           a == AdvanceVisits(r, e, C, V)
           n == [a EXCEPT !.sim = e, !.wake = e]
<1>1. s \in TeamState
  BY DEF Sound
<1>2. c \in TeamState /\ SameSprints(c, s) /\ NoneReturns(c, s)
  BY <1>1, CancelKeeps
<1> HIDE DEF c
<1>3. r \in TeamState /\ SameSprints(r, c) /\ NoneReturns(r, c)
  BY <1>2, RejectionKeeps
<1> HIDE DEF r
<1>4. a \in TeamState /\ SameSprints(a, r) /\ NoneReturns(a, r)
  BY <1>3, AdvanceKeeps
<1> HIDE DEF a
<1>5. SameSprints(a, s) /\ NoneReturns(a, s)
  BY <1>2, <1>3, <1>4 DEF SameSprints, NoneReturns
<1>6. /\ n \in TeamState /\ n.sim = e /\ n.version = s.version /\ n.state = s.state
      /\ n.sprint = s.sprint /\ n.nextOrd = s.nextOrd /\ n.gaps = s.gaps /\ n.intents = s.intents
      /\ n.scope = s.scope /\ NoneReturns(n, s)
  <2>1. /\ n \in TeamState /\ n.sim = e /\ n.version = a.version /\ n.state = a.state
        /\ n.sprint = a.sprint /\ n.nextOrd = a.nextOrd /\ n.gaps = a.gaps /\ n.intents = a.intents
        /\ n.scope = a.scope /\ n.life = a.life
    BY <1>4, CursorKeeps
  <2> QED
    BY <1>5, <2>1 DEF SameSprints, NoneReturns
<1>7. TickResult(s, X, W, e, C, V) = n
  BY DEF TickResult, AfterRisks, c, r, a
<1> HIDE DEF n
<1>8. Unstarted(n) /\ SprintChain(n)
  BY <1>6 DEF Sound, Unstarted, SprintChain
<1>9. BoundaryAhead(n)
  <2>1. ~HasBoundaryAt(s, s.sim) /\ \A l \in SliceLimits(s, asof) : e <= l
    BY DEF TickAllowed
  <2>2. \A o \in Ordinals : /\ s.sprint[o] = "PLANNED" => e <= Boundary[o]
                            /\ s.sprint[o] = "ACTIVE" => e <= Boundary[o + 1]
    BY <2>1, SliceEndsAhead
  <2> QED
    BY <1>6, <2>2 DEF BoundaryAhead
<1>10. IntentsTellSprints(n)
  BY <1>6, ToldSame DEF Sound
<1>11. Scoped(n)
  <2>1. Scoped(s) /\ s.scope \subseteq Ordinals \X Items
    BY <1>1 DEF Sound, TeamState
  <2>2. /\ n.scope \subseteq s.scope
        /\ \A o \in Ordinals : s.sprint[o] = "ACTIVE" => n.sprint[o] = "ACTIVE"
        /\ \A i \in Items : n.life[i] = "BACKLOG" => s.life[i] = "BACKLOG"
    BY <1>6 DEF NoneReturns
  <2> HIDE DEF Ordinals
  <2> QED
    BY <2>1, <2>2, ScopedSame
<1> QED
  BY <1>6, <1>7, <1>8, <1>9, <1>10, <1>11 DEF Sound

\* Skipping silent downtime: no boundary is pending up to the new cursor.
LEMMA SkipSound ==
  ASSUME NEW s, Sound(s), s.state = "RUNNING", NEW asof \in Time,
         PendingBoundaries(s, asof) = {}
  PROVE  LET n == [s EXCEPT !.sim = asof, !.wake = asof]
         IN /\ Sound(n) /\ n.sim = asof /\ n.version = s.version /\ n.state = s.state
            /\ n.sprint = s.sprint /\ n.gaps = s.gaps /\ n.intents = s.intents
<1> DEFINE n == [s EXCEPT !.sim = asof, !.wake = asof]
<1>1. s \in TeamState /\ s.sim \in Nat
  BY SMTT(30) DEF Sound, TeamState
<1>2. /\ n \in TeamState /\ n.sim = asof /\ n.version = s.version /\ n.state = s.state
      /\ n.sprint = s.sprint /\ n.nextOrd = s.nextOrd /\ n.gaps = s.gaps /\ n.intents = s.intents
      /\ n.scope = s.scope /\ n.life = s.life
  BY <1>1, CursorKeeps
<1> HIDE DEF n
<1>3. Unstarted(n) /\ SprintChain(n)
  BY <1>2 DEF Sound, Unstarted, SprintChain
<1>4. \A b \in Nat : s.sim <= b /\ b <= asof => ~HasBoundaryAt(s, b)
  BY <1>1 DEF PendingBoundaries
<1>5. BoundaryAhead(n)
  <2> SUFFICES ASSUME NEW o \in Ordinals
               PROVE  /\ s.sprint[o] = "PLANNED" => asof <= Boundary[o]
                      /\ s.sprint[o] = "ACTIVE" => asof <= Boundary[o + 1]
    BY <1>2 DEF BoundaryAhead
  <2>1. Boundary[o] \in Nat /\ Boundary[o + 1] \in Nat
    BY OrdAssumption, BoundaryAssumption
  <2>2. ASSUME s.sprint[o] = "PLANNED" PROVE asof <= Boundary[o]
    <3>1. s.sim <= Boundary[o] /\ HasBoundaryAt(s, Boundary[o])
      BY <2>2 DEF Sound, BoundaryAhead, HasBoundaryAt, PlannedAt
    <3> QED
      BY <1>4, <2>1, <3>1
  <2>3. ASSUME s.sprint[o] = "ACTIVE" PROVE asof <= Boundary[o + 1]
    <3>1. s.sim <= Boundary[o + 1] /\ HasBoundaryAt(s, Boundary[o + 1])
      BY <2>3 DEF Sound, BoundaryAhead, HasBoundaryAt, EndingAt
    <3> QED
      BY <1>4, <2>1, <3>1
  <2> QED
    BY <2>2, <2>3
<1>6. IntentsTellSprints(n) /\ Scoped(n)
  BY <1>1, <1>2, ToldSame, ScopedSame DEF Sound, TeamState
<1> QED
  BY <1>2, <1>3, <1>5, <1>6 DEF Sound, n

\* Recording a downtime window changes the window ledger only.
LEMMA EvidenceSound ==
  ASSUME NEW s, Sound(s), NEW g \in Time \X Time
  PROVE  LET n == [s EXCEPT !.gaps = @ \cup {g}]
         IN /\ Sound(n) /\ n.gaps = s.gaps \cup {g} /\ n.sim = s.sim /\ n.version = s.version
            /\ n.state = s.state /\ n.sprint = s.sprint /\ n.intents = s.intents
<1> DEFINE n == [s EXCEPT !.gaps = @ \cup {g}]
<1>1. /\ n \in TeamState /\ n.gaps = s.gaps \cup {g} /\ n.sim = s.sim /\ n.version = s.version
      /\ n.state = s.state /\ n.sprint = s.sprint /\ n.nextOrd = s.nextOrd /\ n.intents = s.intents
      /\ n.scope = s.scope /\ n.life = s.life
  BY ZenonT(30) DEF Sound, TeamState
<1> HIDE DEF n
<1>2. IntentsTellSprints(n) /\ Scoped(n)
  BY <1>1, ToldSame, ScopedSame DEF Sound, TeamState
<1> QED
  BY <1>1, <1>2 DEF Sound, Unstarted, SprintChain, BoundaryAhead, n

\* The compare-and-swap writes the next version and nothing else.
LEMMA VersionSound ==
  ASSUME NEW s, Sound(s), NEW v \in Nat
  PROVE  LET n == [s EXCEPT !.version = v]
         IN /\ Sound(n) /\ n.version = v /\ n.sim = s.sim /\ n.state = s.state
            /\ n.sprint = s.sprint /\ n.gaps = s.gaps /\ n.intents = s.intents /\ SameItems(n, s)
<1> DEFINE n == [s EXCEPT !.version = v]
<1>1. /\ n \in TeamState /\ n.version = v /\ n.sim = s.sim /\ n.state = s.state
      /\ n.sprint = s.sprint /\ n.nextOrd = s.nextOrd /\ n.gaps = s.gaps /\ n.intents = s.intents
      /\ SameItems(n, s)
  BY DEF Sound, TeamState, SameItems
<1> HIDE DEF n
<1>2. IntentsTellSprints(n) /\ Scoped(n)
  BY <1>1, ToldSame, ScopedSame DEF Sound, TeamState, SameItems
<1> QED
  BY <1>1, <1>2 DEF Sound, Unstarted, SprintChain, BoundaryAhead, n

\* A state with the same intents extends them by nothing.
LEMMA SameIntents ==
  ASSUME NEW s, Sound(s), NEW n, n.intents = s.intents
  PROVE  \E q \in Seq(Intent) : n.intents = s.intents \o q
<1>1. <<>> \in Seq(Intent) /\ s.intents = s.intents \o <<>>
  BY DEF Sound, TeamState
<1> QED
  BY <1>1

\* Waking the team at its cursor after a crossing touches the wake-up only.
LEMMA WakeSound ==
  ASSUME NEW s, Sound(s), NEW k \in Time
  PROVE  LET n == [s EXCEPT !.wake = k]
         IN /\ Sound(n) /\ n.version = s.version /\ n.sim = s.sim /\ n.state = s.state
            /\ n.sprint = s.sprint /\ n.gaps = s.gaps /\ n.intents = s.intents /\ SameItems(n, s)
<1> DEFINE n == [s EXCEPT !.wake = k]
<1>1. k \in 0..(MaxTime + 1)
  BY TimeAssumption
<1>2. /\ n \in TeamState /\ n.version = s.version /\ n.sim = s.sim /\ n.state = s.state
      /\ n.sprint = s.sprint /\ n.nextOrd = s.nextOrd /\ n.gaps = s.gaps /\ n.intents = s.intents
      /\ SameItems(n, s)
  BY <1>1 DEF Sound, TeamState, SameItems
<1> HIDE DEF n
<1>3. IntentsTellSprints(n) /\ Scoped(n)
  BY <1>2, ToldSame, ScopedSame DEF Sound, TeamState, SameItems
<1> QED
  BY <1>2, <1>3 DEF Sound, Unstarted, SprintChain, BoundaryAhead, n
=============================================================================
