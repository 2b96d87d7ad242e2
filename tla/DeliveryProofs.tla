--------------------------- MODULE DeliveryProofs ---------------------------
(***************************************************************************)
(* Proofs about JiraDelivery.  The replay of the script is a recursive     *)
(* function: that its definition has a solution, and what it tells of the  *)
(* sprints and the resources after n intents, is shown by induction on n   *)
(* (UpTo).  The inductive invariant DeliveryInv says that the delivered    *)
(* intents of a team are a prefix of its script, that Jira is their replay *)
(* with at most one more, and that the worker holds each team's next one.  *)
(***************************************************************************)
EXTENDS JiraDelivery, FiniteSetTheorems, TLAPS

Size == Len(Script)

Statuses == {0} \cup {Script[k].v : k \in Positions}

\* The shape of a team's side of Jira.
Provider ==
  [count : [Resources -> Nat], sprint : [Sprints -> {"none", "future", "active", "closed"}],
   scoped : SUBSET Sprints, status : [Issues -> Statuses]]

\* What Jira tells of the sprints after n intents, and that no resource of a
\* kind that is looked up by its marker exists twice.
SprintStory(j, n) ==
  \A o \in Sprints :
    /\ j.sprint[o] = "active" => \E k \in At("START_SPRINT", o) : k <= n
    /\ \A k \in At("COMPLETE_SPRINT", o) : k <= n => j.sprint[o] = "closed"
    /\ \A k \in At("SCOPE_SPRINT", o) : k <= n => o \in j.scoped

Unambiguous(j) ==
  /\ \A i \in Issues : j.count[<<"ISSUE", i>>] <= 1
  /\ \A o \in Sprints : j.count[<<"SPRINT", o>>] <= 1
  /\ j.count[<<"BOARD", 0>>] = j.count[<<"PROJECT", 0>>]

Told(j, n) == j \in Provider /\ SprintStory(j, n) /\ Unambiguous(j)
-----------------------------------------------------------------------------
(* Facts about numbers.                                                    *)

\* A set of natural numbers has a least member.
LEMMA LeastMember ==
  ASSUME NEW S \in SUBSET Nat, S # {}
  PROVE  \E m \in S : \A k \in S : m <= k
<1> DEFINE R == OpToRel(<, Nat)
<1>1. PICK m \in S : \A k \in S : ~(<<k, m>> \in R)
  <2>1. IsWellFoundedOn(R, Nat)
    BY NatLessThanWellFounded
  <2> HIDE DEF R
  <2> QED
    BY <2>1, WFMin
<1>2. ASSUME NEW k \in S PROVE m <= k
  <2>1. ~(<<k, m>> \in Nat \X Nat /\ k < m)
    BY <1>1 DEF OpToRel
  <2> QED
    BY <2>1
<1> QED
  BY <1>2

\* A set that holds 0 and with each number below n the next one holds them all.
LEMMA UpTo ==
  ASSUME NEW n \in Nat, NEW S, 0 \in S, \A m \in 1..n : m - 1 \in S => m \in S
  PROVE  \A m \in 0..n : m \in S
<1> DEFINE Out == {m \in 0..n : m \notin S}
<1> SUFFICES ASSUME Out # {} PROVE FALSE
  OBVIOUS
<1>1. Out \in SUBSET Nat
  OBVIOUS
<1>2. PICK m \in Out : \A k \in Out : m <= k
  BY <1>1, LeastMember
<1>3. m \in 1..n /\ m - 1 \in 0..n /\ m - 1 < m
  BY <1>2
<1>4. m - 1 \in S
  BY <1>2, <1>3
<1> QED
  BY <1>2, <1>3, <1>4
-----------------------------------------------------------------------------
(* The replay of the script.                                               *)

\* The recursive definition of the replay has a solution.
LEMMA ReplayExists ==
  \E f : f = [n \in 0..Size |-> IF n = 0 THEN EmptyJira ELSE Replay(f[n - 1], Script[n])]
<1> DEFINE Is(g, m) == /\ g = [k \in 0..m |-> g[k]] /\ g[0] = EmptyJira
                       /\ \A k \in 1..m : g[k] = Replay(g[k - 1], Script[k])
           Good == {m \in Nat : \E g : Is(g, m)}
<1>1. Size \in Nat
  BY SliceAssumption DEF Size
<1>2. 0 \in Good
  <2> DEFINE g == [k \in 0..0 |-> EmptyJira]
  <2>1. Is(g, 0)
    OBVIOUS
  <2> QED
    BY <2>1
<1>3. ASSUME NEW m \in 1..Size, m - 1 \in Good PROVE m \in Good
  <2>1. PICK g : Is(g, m - 1)
    BY <1>3
  <2> DEFINE x == Replay(g[m - 1], Script[m])
             h == [k \in 0..m |-> IF k = m THEN x ELSE g[k]]
  <2> HIDE DEF x
  <2>2. h[0] = EmptyJira /\ h = [k \in 0..m |-> h[k]]
    BY <1>1, <2>1
  <2>3. ASSUME NEW k \in 1..m PROVE h[k] = Replay(h[k - 1], Script[k])
    <3>1. h[k - 1] = g[k - 1]
      BY <1>1
    <3>2. CASE k = m
      <4>1. h[k] = x /\ g[k - 1] = g[m - 1]
        BY <3>2
      <4> QED
        BY <3>1, <3>2, <4>1 DEF x
    <3>3. CASE k # m
      <4>1. h[k] = g[k] /\ k \in 1..(m - 1)
        BY <1>1, <3>3
      <4>2. g[k] = Replay(g[k - 1], Script[k])
        BY <2>1, <4>1
      <4> QED
        BY <3>1, <4>1, <4>2
    <3> QED
      BY <3>2, <3>3
  <2> HIDE DEF h
  <2>4. \A k \in 1..m : h[k] = Replay(h[k - 1], Script[k])
    BY <2>3
  <2>5. Is(h, m)
    BY <2>2, <2>4, Zenon
  <2>6. m \in Nat
    BY <1>1
  <2> QED
    BY <2>5, <2>6
<1> HIDE DEF Good
<1>4. Size \in Good
  BY <1>1, <1>2, <1>3, UpTo
<1>5. PICK f : Is(f, Size)
  BY <1>4 DEF Good
<1>6. ASSUME NEW n \in 0..Size
      PROVE  f[n] = IF n = 0 THEN EmptyJira ELSE Replay(f[n - 1], Script[n])
  BY <1>1, <1>5
<1> QED
  BY <1>5, <1>6

\* The replay, one intent at a time.
LEMMA ReplaySteps ==
  /\ Replayed[0] = EmptyJira
  /\ \A n \in 1..Size : Replayed[n] = Replay(Replayed[n - 1], Script[n])
<1> DEFINE f == Replayed
<1>1. f = [n \in 0..Size |-> IF n = 0 THEN EmptyJira ELSE Replay(f[n - 1], Script[n])]
  BY ReplayExists DEF Replayed, Size
<1> HIDE DEF f
<1>2. Size \in Nat
  BY SliceAssumption DEF Size
<1>3. f[0] = EmptyJira /\ \A n \in 1..Size : f[n] = Replay(f[n - 1], Script[n])
  BY <1>1, <1>2
<1> QED
  BY <1>3 DEF f
-----------------------------------------------------------------------------
(* One write to Jira.                                                      *)

\* The script names known issues, sprints and statuses.
LEMMA ScriptFacts ==
  ASSUME NEW k \in Positions
  PROVE  /\ Script[k].op \in Operations /\ Script[k].v \in Statuses
         /\ Script[k].op \in {"CREATE_ISSUE", "TRANSITION_ISSUE"} => Script[k].n \in Issues
         /\ Script[k].op \in {"CREATE_SPRINT", "SCOPE_SPRINT", "START_SPRINT", "COMPLETE_SPRINT"} =>
              Script[k].n \in Sprints
<1>1. Script[k].op = "CREATE_SPRINT" => Script[k].n \in Sprints
  BY DEF Sprints
<1>2. Script[k].v \in Statuses
  BY DEF Statuses
<1> QED
  BY <1>1, <1>2, ScriptAssumption

\* What one write changes.
LEMMA WriteEffect ==
  ASSUME NEW j \in Provider, NEW k \in Positions
  PROVE  LET x == Script[k]
             n == Written(j, x)
             made == IF x.op \in {"CREATE_PROJECT", "CREATE_BOARD"}
                     THEN {<<"PROJECT", 0>>, <<"BOARD", 0>>} ELSE ResourceOf(x)
         IN /\ n \in Provider
            /\ \A r \in Resources : n.count[r] = IF r \in made THEN j.count[r] + 1 ELSE j.count[r]
            /\ \A o \in Sprints :
                 n.sprint[o] = IF x.op = "CREATE_SPRINT" /\ o = x.n THEN "future"
                               ELSE IF x.op = "START_SPRINT" /\ o = x.n THEN "active"
                               ELSE IF x.op = "COMPLETE_SPRINT" /\ o = x.n THEN "closed"
                               ELSE j.sprint[o]
            /\ n.scoped = IF x.op = "SCOPE_SPRINT" THEN j.scoped \cup {x.n} ELSE j.scoped
            /\ n.status = IF x.op = "TRANSITION_ISSUE" THEN [j.status EXCEPT ![x.n] = x.v] ELSE j.status
<1> DEFINE x == Script[k]
           n == Written(j, x)
           made == IF x.op \in {"CREATE_PROJECT", "CREATE_BOARD"}
                   THEN {<<"PROJECT", 0>>, <<"BOARD", 0>>} ELSE ResourceOf(x)
           Counted == \A r \in Resources : n.count[r] = IF r \in made THEN j.count[r] + 1 ELSE j.count[r]
           Moved == \A o \in Sprints :
                      n.sprint[o] = IF x.op = "CREATE_SPRINT" /\ o = x.n THEN "future"
                                    ELSE IF x.op = "START_SPRINT" /\ o = x.n THEN "active"
                                    ELSE IF x.op = "COMPLETE_SPRINT" /\ o = x.n THEN "closed"
                                    ELSE j.sprint[o]
           Rest == /\ n.scoped = IF x.op = "SCOPE_SPRINT" THEN j.scoped \cup {x.n} ELSE j.scoped
                   /\ n.status = IF x.op = "TRANSITION_ISSUE" THEN [j.status EXCEPT ![x.n] = x.v] ELSE j.status
<1>1. /\ x.op \in Operations /\ x.v \in Statuses
      /\ x.op \in {"CREATE_ISSUE", "TRANSITION_ISSUE"} => x.n \in Issues
      /\ x.op \in {"CREATE_SPRINT", "SCOPE_SPRINT", "START_SPRINT", "COMPLETE_SPRINT"} => x.n \in Sprints
  BY ScriptFacts
<1>2. /\ j.count \in [Resources -> Nat] /\ j.scoped \in SUBSET Sprints
      /\ j.sprint \in [Sprints -> {"none", "future", "active", "closed"}]
      /\ j.status \in [Issues -> Statuses]
      /\ j = [count |-> j.count, sprint |-> j.sprint, scoped |-> j.scoped, status |-> j.status]
  BY DEF Provider
<1>3. <<"PROJECT", 0>> \in Resources /\ <<"BOARD", 0>> \in Resources
  BY DEF Resources
<1> HIDE DEF x
<1>4. CASE x.op \in {"CREATE_PROJECT", "CREATE_BOARD"}
  <2> DEFINE c == [r \in Resources |-> IF r \in made THEN j.count[r] + 1 ELSE j.count[r]]
  <2>1. n = [j EXCEPT !.count[<<"PROJECT", 0>>] = @ + 1, !.count[<<"BOARD", 0>>] = @ + 1]
    BY <1>4 DEF Written
  <2>2. made = {<<"PROJECT", 0>>, <<"BOARD", 0>>}
    BY <1>4
  <2> HIDE DEF n, made
  <2>3. /\ n.count = [[j.count EXCEPT ![<<"PROJECT", 0>>] = @ + 1] EXCEPT ![<<"BOARD", 0>>] = @ + 1]
        /\ n = [count |-> n.count, sprint |-> j.sprint, scoped |-> j.scoped, status |-> j.status]
    BY <1>2, <2>1
  <2>4. n.count = c
    BY <1>2, <1>3, <2>2, <2>3
  <2>5. c \in [Resources -> Nat]
    BY <1>2
  <2>6. /\ n.sprint = j.sprint /\ n.scoped = j.scoped /\ n.status = j.status
    BY <2>3
  <2>7. n \in Provider
    BY <1>2, <2>3, <2>4, <2>5 DEF Provider
  <2>8. Counted
    BY <2>4
  <2> QED
    BY <1>4, <2>6, <2>7, <2>8 DEF n, made, x
<1>5. CASE x.op = "CREATE_ISSUE"
  <2> DEFINE r1 == <<"ISSUE", x.n>>
  <2>1. n = [j EXCEPT !.count[r1] = @ + 1] /\ made = {r1}
    BY <1>5 DEF Written, ResourceOf
  <2>2. r1 \in Resources
    BY <1>1, <1>5 DEF Resources
  <2> HIDE DEF n, made, r1
  <2>3. /\ n.count = [j.count EXCEPT ![r1] = @ + 1]
        /\ n = [count |-> n.count, sprint |-> j.sprint, scoped |-> j.scoped, status |-> j.status]
    BY <1>2, <2>1
  <2>4. n.count \in [Resources -> Nat]
    BY <1>2, <2>2, <2>3
  <2>5. n.sprint = j.sprint /\ n.scoped = j.scoped /\ n.status = j.status
    BY <2>3
  <2>6. n \in Provider
    BY <1>2, <2>3, <2>4 DEF Provider
  <2>7. Counted
    BY <1>2, <2>1, <2>2, <2>3
  <2> QED
    BY <1>5, <2>5, <2>6, <2>7 DEF n, made, x
<1>6. CASE x.op = "CREATE_SPRINT"
  <2> DEFINE r1 == <<"SPRINT", x.n>>
  <2>1. n = [j EXCEPT !.count[r1] = @ + 1, !.sprint[x.n] = "future"] /\ made = {r1}
    BY <1>6 DEF Written, ResourceOf
  <2>2. r1 \in Resources /\ x.n \in Sprints
    BY <1>1, <1>6 DEF Resources
  <2> HIDE DEF n, made, r1
  <2>3. /\ n.count = [j.count EXCEPT ![r1] = @ + 1] /\ n.sprint = [j.sprint EXCEPT ![x.n] = "future"]
        /\ n = [count |-> n.count, sprint |-> n.sprint, scoped |-> j.scoped, status |-> j.status]
    BY <1>2, <2>1
  <2>4. n.count \in [Resources -> Nat] /\ n.sprint \in [Sprints -> {"none", "future", "active", "closed"}]
    BY <1>2, <2>2, <2>3
  <2>5. n.scoped = j.scoped /\ n.status = j.status
    BY <2>3
  <2>6. n \in Provider
    BY <1>2, <2>3, <2>4 DEF Provider
  <2>7. Counted
    BY <1>2, <2>1, <2>2, <2>3
  <2>8. Moved
    BY <1>2, <1>6, <2>2, <2>3
  <2> QED
    BY <1>6, <2>5, <2>6, <2>7, <2>8 DEF n, made, x
<1>7. CASE x.op = "SCOPE_SPRINT"
  <2>1. n = [j EXCEPT !.scoped = @ \cup {x.n}] /\ made = {}
    BY <1>7 DEF Written, ResourceOf
  <2>2. x.n \in Sprints
    BY <1>1, <1>7
  <2> HIDE DEF n, made
  <2>3. /\ n.scoped = j.scoped \cup {x.n}
        /\ n = [count |-> j.count, sprint |-> j.sprint, scoped |-> n.scoped, status |-> j.status]
    BY <1>2, <2>1
  <2>4. n.count = j.count /\ n.sprint = j.sprint /\ n.status = j.status
    BY <2>3
  <2>5. n \in Provider
    BY <1>2, <2>2, <2>3 DEF Provider
  <2> QED
    BY <1>7, <2>1, <2>3, <2>4, <2>5 DEF n, made, x
<1>8. CASE x.op \in {"START_SPRINT", "COMPLETE_SPRINT"}
  <2> DEFINE st == SprintTarget(x.op)
  <2>1. n = [j EXCEPT !.sprint[x.n] = st] /\ made = {}
    BY <1>8 DEF Written, ResourceOf
  <2>2. x.n \in Sprints /\ st = IF x.op = "START_SPRINT" THEN "active" ELSE "closed"
    BY <1>1, <1>8 DEF SprintTarget
  <2> HIDE DEF n, made, st
  <2>3. /\ n.sprint = [j.sprint EXCEPT ![x.n] = st]
        /\ n = [count |-> j.count, sprint |-> n.sprint, scoped |-> j.scoped, status |-> j.status]
    BY <1>2, <2>1
  <2>4. n.count = j.count /\ n.scoped = j.scoped /\ n.status = j.status
    BY <2>3
  <2>5. n.sprint \in [Sprints -> {"none", "future", "active", "closed"}]
    BY <1>2, <2>2, <2>3
  <2>6. n \in Provider
    BY <1>2, <2>3, <2>5 DEF Provider
  <2>7. Moved
    BY <1>2, <1>8, <2>2, <2>3
  <2> QED
    BY <1>8, <2>1, <2>4, <2>6, <2>7 DEF n, made, x
<1>9. CASE x.op = "TRANSITION_ISSUE"
  <2>1. n = [j EXCEPT !.status[x.n] = x.v] /\ made = {}
    BY <1>9 DEF Written, ResourceOf
  <2>2. x.n \in Issues /\ x.v \in Statuses
    BY <1>1, <1>9
  <2> HIDE DEF n, made
  <2>3. /\ n.status = [j.status EXCEPT ![x.n] = x.v]
        /\ n = [count |-> j.count, sprint |-> j.sprint, scoped |-> j.scoped, status |-> n.status]
    BY <1>2, <2>1
  <2>4. n.count = j.count /\ n.scoped = j.scoped /\ n.sprint = j.sprint
    BY <2>3
  <2>5. n.status \in [Issues -> Statuses]
    BY <1>2, <2>2, <2>3
  <2>6. n \in Provider
    BY <1>2, <2>3, <2>5 DEF Provider
  <2> QED
    BY <1>9, <2>1, <2>3, <2>4, <2>6 DEF n, made, x
<1> QED
  BY <1>1, <1>4, <1>5, <1>6, <1>7, <1>8, <1>9 DEF Operations

\* A write leaves its effect in place.
LEMMA WriteInPlace ==
  ASSUME NEW j \in Provider, NEW k \in Positions
  PROVE  InPlace(Written(j, Script[k]), Script[k])
<1> DEFINE x == Script[k]
           n == Written(j, x)
           made == IF x.op \in {"CREATE_PROJECT", "CREATE_BOARD"}
                   THEN {<<"PROJECT", 0>>, <<"BOARD", 0>>} ELSE ResourceOf(x)
<1>1. /\ \A r \in Resources : n.count[r] = IF r \in made THEN j.count[r] + 1 ELSE j.count[r]
      /\ \A o \in Sprints :
           n.sprint[o] = IF x.op = "CREATE_SPRINT" /\ o = x.n THEN "future"
                         ELSE IF x.op = "START_SPRINT" /\ o = x.n THEN "active"
                         ELSE IF x.op = "COMPLETE_SPRINT" /\ o = x.n THEN "closed"
                         ELSE j.sprint[o]
      /\ n.scoped = IF x.op = "SCOPE_SPRINT" THEN j.scoped \cup {x.n} ELSE j.scoped
      /\ n.status = IF x.op = "TRANSITION_ISSUE" THEN [j.status EXCEPT ![x.n] = x.v] ELSE j.status
  BY WriteEffect
<1>2. /\ x.op \in Operations
      /\ x.op \in {"CREATE_ISSUE", "TRANSITION_ISSUE"} => x.n \in Issues
      /\ x.op \in {"CREATE_SPRINT", "SCOPE_SPRINT", "START_SPRINT", "COMPLETE_SPRINT"} => x.n \in Sprints
  BY ScriptFacts
<1>3. j.count \in [Resources -> Nat] /\ j.status \in [Issues -> Statuses]
  BY DEF Provider
<1>4. ResourceOf(x) \subseteq made /\ ResourceOf(x) \subseteq Resources
  BY <1>2 DEF ResourceOf, Resources
<1> HIDE DEF x, n, made
<1>5. \A r \in ResourceOf(x) : n.count[r] > 0
  BY <1>1, <1>3, <1>4
<1>6. CASE x.op \in {"CREATE_PROJECT", "CREATE_BOARD", "CREATE_ISSUE", "CREATE_SPRINT"}
  <2>1. \E r : r \in ResourceOf(x)
    BY <1>6 DEF ResourceOf
  <2> QED
    BY <1>5, <2>1 DEF InPlace, n, x
<1>7. CASE x.op \in {"SCOPE_SPRINT", "START_SPRINT", "COMPLETE_SPRINT", "TRANSITION_ISSUE"}
  <2>1. InPlace(n, x)
    BY <1>1, <1>2, <1>3, <1>7 DEF InPlace, SprintTarget
  <2> QED
    BY <2>1 DEF n, x
<1> QED
  BY <1>2, <1>6, <1>7 DEF Operations

\* Replaying one more intent carries the story on.
LEMMA ReplayKeeps ==
  ASSUME NEW n \in 1..Size, NEW j, Told(j, n - 1)
  PROVE  Told(Replay(j, Script[n]), n)
<1> DEFINE x == Script[n]
           m == Replay(j, x)
<1>1. Size \in Nat /\ n \in Positions /\ j \in Provider /\ SprintStory(j, n - 1) /\ Unambiguous(j)
  BY SliceAssumption DEF Told, Size, Positions
<1>2. \A op, o : \A k \in At(op, o) : k \in Positions /\ k \in Nat /\ Script[k].op = op /\ Script[k].n = o
  BY <1>1 DEF At, Positions
<1>3. \A op : x.op = op => n \in At(op, x.n)
  BY <1>1 DEF At
<1>4. CASE InPlace(j, x)
  <2>1. m = j
    BY <1>4 DEF Replay
  <2>2. ASSUME NEW o \in Sprints PROVE
          /\ j.sprint[o] = "active" => \E k \in At("START_SPRINT", o) : k <= n
          /\ \A k \in At("COMPLETE_SPRINT", o) : k <= n => j.sprint[o] = "closed"
          /\ \A k \in At("SCOPE_SPRINT", o) : k <= n => o \in j.scoped
    <3>1. j.sprint[o] = "active" => \E k \in At("START_SPRINT", o) : k <= n
      <4> SUFFICES ASSUME j.sprint[o] = "active" PROVE \E k \in At("START_SPRINT", o) : k <= n
        OBVIOUS
      <4>1. PICK k \in At("START_SPRINT", o) : k <= n - 1
        BY <1>1 DEF SprintStory
      <4>2. k <= n
        BY <1>2, <4>1
      <4> QED
        BY <4>2
    <3>2. ASSUME NEW k \in At("COMPLETE_SPRINT", o), k <= n PROVE j.sprint[o] = "closed"
      <4>1. CASE k = n
        <5>1. x.op = "COMPLETE_SPRINT" /\ x.n = o
          BY <1>2, <4>1
        <5> HIDE DEF x
        <5> QED
          BY <1>4, <5>1 DEF InPlace, ResourceOf, SprintTarget
      <4>2. CASE k # n
        <5>1. k <= n - 1
          BY <1>2, <3>2, <4>2
        <5> QED
          BY <1>1, <5>1 DEF SprintStory
      <4> QED
        BY <4>1, <4>2
    <3>3. ASSUME NEW k \in At("SCOPE_SPRINT", o), k <= n PROVE o \in j.scoped
      <4>1. CASE k = n
        <5>1. x.op = "SCOPE_SPRINT" /\ x.n = o
          BY <1>2, <4>1
        <5> HIDE DEF x
        <5> QED
          BY <1>4, <5>1 DEF InPlace, ResourceOf
      <4>2. CASE k # n
        <5>1. k <= n - 1
          BY <1>2, <3>3, <4>2
        <5> QED
          BY <1>1, <5>1 DEF SprintStory
      <4> QED
        BY <4>1, <4>2
    <3> QED
      BY <3>1, <3>2, <3>3
  <2>3. SprintStory(j, n)
    BY <2>2 DEF SprintStory
  <2> QED
    BY <1>1, <2>1, <2>3 DEF Told
<1>5. CASE ~InPlace(j, x)
  <2> DEFINE made == IF x.op \in {"CREATE_PROJECT", "CREATE_BOARD"}
                     THEN {<<"PROJECT", 0>>, <<"BOARD", 0>>} ELSE ResourceOf(x)
  <2>1. m = Written(j, x)
    BY <1>5 DEF Replay
  <2>2. /\ m \in Provider
        /\ \A r \in Resources : m.count[r] = IF r \in made THEN j.count[r] + 1 ELSE j.count[r]
        /\ \A o \in Sprints :
             m.sprint[o] = IF x.op = "CREATE_SPRINT" /\ o = x.n THEN "future"
                           ELSE IF x.op = "START_SPRINT" /\ o = x.n THEN "active"
                           ELSE IF x.op = "COMPLETE_SPRINT" /\ o = x.n THEN "closed"
                           ELSE j.sprint[o]
        /\ m.scoped = IF x.op = "SCOPE_SPRINT" THEN j.scoped \cup {x.n} ELSE j.scoped
    <3> DEFINE q == Written(j, x)
    <3>1. /\ q \in Provider
          /\ \A r \in Resources : q.count[r] = IF r \in made THEN j.count[r] + 1 ELSE j.count[r]
          /\ \A o \in Sprints :
               q.sprint[o] = IF x.op = "CREATE_SPRINT" /\ o = x.n THEN "future"
                             ELSE IF x.op = "START_SPRINT" /\ o = x.n THEN "active"
                             ELSE IF x.op = "COMPLETE_SPRINT" /\ o = x.n THEN "closed"
                             ELSE j.sprint[o]
          /\ q.scoped = IF x.op = "SCOPE_SPRINT" THEN j.scoped \cup {x.n} ELSE j.scoped
      BY <1>1, WriteEffect
    <3> HIDE DEF m, x, made
    <3> QED
      BY <2>1, <3>1
  <2>3. x.op \in Operations /\ j.count \in [Resources -> Nat]
    BY <1>1, ScriptFacts DEF Provider
  <2>4. \A r \in ResourceOf(x) : ~(j.count[r] > 0)
    BY <1>5 DEF InPlace
  <2>5. SprintStory(m, n)
    <3>1. ASSUME NEW o \in Sprints, m.sprint[o] = "active"
          PROVE  \E k \in At("START_SPRINT", o) : k <= n
      <4>1. CASE x.op = "START_SPRINT" /\ o = x.n
        BY <1>1, <1>3, <4>1
      <4>2. CASE ~(x.op = "START_SPRINT" /\ o = x.n)
        <5>1. j.sprint[o] = "active"
          BY <2>2, <3>1, <4>2
        <5>2. PICK k \in At("START_SPRINT", o) : k <= n - 1
          BY <1>1, <5>1 DEF SprintStory
        <5>3. k <= n
          BY <1>2, <5>2
        <5> QED
          BY <5>3
      <4> QED
        BY <4>1, <4>2
    <3>2. ASSUME NEW o \in Sprints, NEW k \in At("COMPLETE_SPRINT", o), k <= n
          PROVE  m.sprint[o] = "closed"
      <4>1. CASE k = n
        <5>1. x.op = "COMPLETE_SPRINT" /\ x.n = o
          BY <1>2, <4>1
        <5> QED
          BY <2>2, <5>1
      <4>2. CASE k # n
        <5>1. k <= n - 1 /\ k \in Nat
          BY <1>2, <3>2, <4>2
        <5>2. j.sprint[o] = "closed"
          BY <1>1, <5>1 DEF SprintStory
        <5>3. ~(x.op \in {"CREATE_SPRINT", "START_SPRINT"} /\ o = x.n)
          <6> SUFFICES ASSUME x.op \in {"CREATE_SPRINT", "START_SPRINT"}, o = x.n PROVE FALSE
            OBVIOUS
          <6>1. n \in At("CREATE_SPRINT", o) \cup At("START_SPRINT", o)
            BY <1>3
          <6>2. n < k
            BY <6>1, ScriptAssumption
          <6> QED
            BY <5>1, <6>2
        <5> QED
          BY <2>2, <5>2, <5>3
      <4> QED
        BY <4>1, <4>2
    <3>3. ASSUME NEW o \in Sprints, NEW k \in At("SCOPE_SPRINT", o), k <= n
          PROVE  o \in m.scoped
      <4>1. CASE k = n
        <5>1. x.op = "SCOPE_SPRINT" /\ x.n = o
          BY <1>2, <4>1
        <5> QED
          BY <2>2, <5>1
      <4>2. CASE k # n
        <5>1. k <= n - 1
          BY <1>2, <3>3, <4>2
        <5>2. o \in j.scoped
          BY <1>1, <5>1 DEF SprintStory
        <5> QED
          BY <2>2, <5>2
      <4> QED
        BY <4>1, <4>2
    <3> HIDE DEF m, x
    <3> QED
      BY <3>1, <3>2, <3>3 DEF SprintStory
  <2>6. Unambiguous(m)
    <3>1. /\ \A i \in Issues : <<"ISSUE", i>> \in Resources
          /\ \A o \in Sprints : <<"SPRINT", o>> \in Resources
          /\ <<"BOARD", 0>> \in Resources /\ <<"PROJECT", 0>> \in Resources
      BY DEF Resources
    <3>2. /\ \A i \in Issues : j.count[<<"ISSUE", i>>] <= 1
          /\ \A o \in Sprints : j.count[<<"SPRINT", o>>] <= 1
          /\ j.count[<<"BOARD", 0>>] = j.count[<<"PROJECT", 0>>]
      BY <1>1 DEF Unambiguous
    <3>3. \A i : <<"ISSUE", i>> \in made => <<"ISSUE", i>> \in ResourceOf(x)
      OBVIOUS
    <3>4. \A o : <<"SPRINT", o>> \in made => <<"SPRINT", o>> \in ResourceOf(x)
      OBVIOUS
    <3>5. <<"BOARD", 0>> \in made <=> <<"PROJECT", 0>> \in made
      BY <2>3 DEF ResourceOf
    <3> HIDE DEF m, x, made
    <3>6. ASSUME NEW i \in Issues PROVE m.count[<<"ISSUE", i>>] <= 1
      BY <2>2, <2>3, <2>4, <3>1, <3>2, <3>3
    <3>7. ASSUME NEW o \in Sprints PROVE m.count[<<"SPRINT", o>>] <= 1
      BY <2>2, <2>3, <2>4, <3>1, <3>2, <3>4
    <3>8. m.count[<<"BOARD", 0>>] = m.count[<<"PROJECT", 0>>]
      BY <2>2, <2>3, <3>1, <3>2, <3>5
    <3> QED
      BY <3>6, <3>7, <3>8 DEF Unambiguous
  <2> QED
    BY <2>2, <2>5, <2>6 DEF Told
<1> QED
  BY <1>4, <1>5

\* The story of every prefix of the script.
LEMMA ReplayTold == \A n \in 0..Size : Told(Replayed[n], n)
<1> DEFINE S == {n \in 0..Size : Told(Replayed[n], n)}
<1>1. Size \in Nat
  BY SliceAssumption DEF Size
<1>2. Told(EmptyJira, 0)
  <2>1. EmptyJira \in Provider
    BY DEF EmptyJira, Provider, Statuses
  <2>2. SprintStory(EmptyJira, 0)
    BY DEF SprintStory, EmptyJira, At, Positions
  <2>3. Unambiguous(EmptyJira)
    BY DEF Unambiguous, EmptyJira, Resources
  <2> QED
    BY <2>1, <2>2, <2>3 DEF Told
<1>3. 0 \in S
  BY <1>1, <1>2, ReplaySteps
<1>4. ASSUME NEW m \in 1..Size, m - 1 \in S PROVE m \in S
  <2>1. Told(Replayed[m - 1], m - 1)
    BY <1>4
  <2>2. Told(Replay(Replayed[m - 1], Script[m]), m)
    BY <2>1, ReplayKeeps
  <2>3. Replayed[m] = Replay(Replayed[m - 1], Script[m]) /\ m \in 0..Size
    BY <1>1, ReplaySteps
  <2> QED
    BY <2>2, <2>3
<1> HIDE DEF S
<1>5. \A m \in 0..Size : m \in S
  BY <1>1, <1>3, <1>4, UpTo
<1> QED
  BY <1>5 DEF S
-----------------------------------------------------------------------------
(* The inductive invariant.                                                *)

\* The intents of a team that are delivered, and those it committed.
Acked(t) == Cardinality(DeliveredOf(t))

Committed(t) == SizeAfter[batches[t]]

Shapes ==
  /\ batches \in [Teams -> 0..Slices]
  /\ ledger \in Seq(Teams \X Positions)
  /\ receipt = [t \in Teams |-> [k \in Positions |-> receipt[t][k]]]
  /\ unacked \in [Teams -> {0, 1}]
  /\ jira = [t \in Teams |-> jira[t]]
  /\ w = [pc |-> w.pc, asof |-> w.asof, queue |-> w.queue, processed |-> w.processed,
          outcome |-> w.outcome, delay |-> w.delay]
  /\ w.pc \in {"idle", "fetch", "deliver", "record"}

\* The ledger holds the committed intents of each team, in script order.
LedgerInOrder ==
  /\ \A i \in DOMAIN ledger : ledger[i][2] <= Committed(ledger[i][1])
  /\ \A t \in Teams : \A k \in 1..Committed(t) : \E i \in DOMAIN ledger : ledger[i] = <<t, k>>
  /\ \A i, j \in DOMAIN ledger :
       (i < j /\ ledger[i][1] = ledger[j][1]) => ledger[i][2] < ledger[j][2]

\* The delivered intents of a team are the first ones it committed, Jira is
\* their replay with at most one more, whose effect the retry finds in place,
\* and what they created is recorded.
TeamInStep(t) ==
  /\ DeliveredOf(t) = 1..Acked(t)
  /\ Acked(t) \in Nat /\ Acked(t) + unacked[t] <= Committed(t)
  /\ jira[t] = Replayed[Acked(t) + unacked[t]]
  /\ unacked[t] = 1 => InPlace(jira[t], Script[Acked(t) + 1])
  /\ \A k \in 1..Acked(t) : \A r \in ResourceOf(Script[k]) : <<t, r[1], r[2]>> \in mapping

\* The worker holds the next intent of each of the teams it serves, and
\* reports a success only when the effect is in place.
WorkerInStep ==
  /\ w.pc \in {"idle", "fetch"} <=> w.queue = {}
  /\ \A i \in w.queue : i \in DOMAIN ledger /\ ledger[i][2] = Acked(ledger[i][1]) + 1
  /\ (w.pc = "record" /\ w.outcome = "success") => InPlace(jira[Current[1]], CurrentIntent)

DeliveryInv == Shapes /\ LedgerInOrder /\ (\A t \in Teams : TeamInStep(t)) /\ WorkerInStep

\* The interval of the first n numbers has n members.
LEMMA FirstNumbers ==
  ASSUME NEW n \in Nat
  PROVE  Cardinality(1..n) = n
<1>1. Cardinality(1..n) = IF 1 > n THEN 0 ELSE n - 1 + 1
  BY FS_Interval
<1> QED
  BY <1>1

\* A team commits a part of the script.
LEMMA CommittedPart ==
  ASSUME Shapes, NEW t \in Teams
  PROVE  Committed(t) \in 0..Size /\ Committed(t) \in Nat /\ Size \in Nat
<1>1. batches[t] \in 0..Slices
  BY DEF Shapes
<1> QED
  BY <1>1, SliceAssumption DEF Committed, Size

\* The rows of the ledger.
LEMMA RowOf ==
  ASSUME Shapes, NEW i \in DOMAIN ledger
  PROVE  /\ ledger[i][1] \in Teams /\ ledger[i][2] \in Positions
         /\ ledger[i] = <<ledger[i][1], ledger[i][2]>>
         /\ i \in Nat
<1>1. ledger \in Seq(Teams \X Positions)
  BY DEF Shapes
<1>2. ledger[i] \in Teams \X Positions /\ i \in Nat
  BY <1>1
<1> QED
  BY <1>2

\* A team's first undelivered row holds the intent after its delivered ones.
LEMMA HeadIsNext ==
  ASSUME Shapes, LedgerInOrder, \A t \in Teams : TeamInStep(t), NEW i \in Heads
  PROVE  ledger[i][2] = Acked(ledger[i][1]) + 1
<1> DEFINE t == ledger[i][1]
           p == ledger[i][2]
           n == Acked(t)
<1>1. /\ i \in DOMAIN ledger /\ ~Delivered(ledger[i])
      /\ \A j \in 1..(i - 1) : ledger[j][1] = t => Delivered(ledger[j])
  BY DEF Heads
<1>2. t \in Teams /\ p \in Positions /\ ledger[i] = <<t, p>> /\ i \in Nat
  BY <1>1, RowOf
<1>3. DeliveredOf(t) = 1..n /\ n \in Nat
  BY <1>2 DEF TeamInStep
<1>4. Committed(t) \in Nat /\ p <= Committed(t) /\ Committed(t) <= Size /\ Size \in Nat
  BY <1>1, <1>2, CommittedPart DEF LedgerInOrder
<1>5. p \in Nat /\ p >= 1 /\ p \notin 1..n
  <2>1. p \notin DeliveredOf(t)
    BY <1>1, <1>2 DEF DeliveredOf
  <2>2. p \in Nat /\ p >= 1
    BY <1>2, <1>4 DEF Positions, Size
  <2> HIDE DEF t, p, n
  <2> QED
    BY <1>3, <2>1, <2>2
<1>6. ASSUME p # n + 1 PROVE FALSE
  <2>1. n + 1 \in 1..Committed(t) /\ n + 1 < p
    <3> HIDE DEF t, p, n
    <3> QED
      BY <1>3, <1>4, <1>5, <1>6
  <2>2. PICK j \in DOMAIN ledger : ledger[j] = <<t, n + 1>>
    BY <1>2, <2>1 DEF LedgerInOrder
  <2>3. j \in Nat /\ j >= 1 /\ ledger[j][1] = t /\ ledger[j][2] = n + 1
    <3>1. ledger \in Seq(Teams \X Positions)
      BY DEF Shapes
    <3>2. j \in Nat /\ j >= 1
      BY <3>1
    <3> QED
      BY <2>2, <3>2
  <2>4. j < i
    <3>1. ~(i < j)
      <4>1. (i < j /\ ledger[i][1] = ledger[j][1]) => ledger[i][2] < ledger[j][2]
        BY <1>1 DEF LedgerInOrder
      <4> HIDE DEF n
      <4> QED
        BY <1>3, <1>5, <2>1, <2>3, <4>1
    <3>2. i # j
      <4> HIDE DEF n
      <4> QED
        BY <1>6, <2>3
    <3> QED
      BY <1>2, <2>3, <3>1, <3>2
  <2>5. Delivered(ledger[j])
    <3>1. j \in 1..(i - 1)
      BY <1>2, <2>3, <2>4
    <3> QED
      BY <1>1, <2>3, <3>1
  <2>6. n + 1 \in DeliveredOf(t)
    <3>1. n + 1 \in Positions
      <4> HIDE DEF t, p, n
      <4> QED
        BY <1>3, <1>4, <2>1 DEF Positions, Size
    <3> HIDE DEF t, p, n
    <3> QED
      BY <2>2, <2>5, <3>1 DEF DeliveredOf
  <2> HIDE DEF t, p, n
  <2> QED
    BY <1>3, <2>6
<1> QED
  BY <1>6

\* What the worker has at hand.
LEMMA AtHand ==
  ASSUME DeliveryInv, w.queue # {}
  PROVE  /\ First \in w.queue /\ First \in DOMAIN ledger
         /\ Current = <<Current[1], Current[2]>> /\ Current[1] \in Teams /\ Current[2] \in Positions
         /\ Current[2] = Acked(Current[1]) + 1 /\ Current[2] <= Committed(Current[1])
         /\ ~Delivered(Current)
<1>1. w.queue \in SUBSET Nat
  <2>1. \A i \in w.queue : i \in DOMAIN ledger
    BY DEF DeliveryInv, WorkerInStep
  <2> QED
    BY <2>1, RowOf DEF DeliveryInv
<1>2. PICK m \in w.queue : \A k \in w.queue : m <= k
  BY <1>1, LeastMember
<1>3. First \in w.queue
  <2> DEFINE q == w.queue
  <2>1. First = CHOOSE x \in q : \A y \in q : x <= y
    BY DEF First, Min
  <2> HIDE DEF q
  <2>2. \E x \in q : \A y \in q : x <= y
    BY <1>2 DEF q
  <2> QED
    BY <2>1, <2>2 DEF q
<1>4. First \in DOMAIN ledger /\ ledger[First][2] = Acked(ledger[First][1]) + 1
  BY <1>3 DEF DeliveryInv, WorkerInStep
<1>5. /\ ledger[First][1] \in Teams /\ ledger[First][2] \in Positions
      /\ ledger[First] = <<ledger[First][1], ledger[First][2]>>
  BY <1>4, RowOf DEF DeliveryInv
<1>6. ledger[First][2] <= Committed(ledger[First][1])
  BY <1>4 DEF DeliveryInv, LedgerInOrder
<1>7. ~Delivered(ledger[First])
  <2> DEFINE t == ledger[First][1]
             n == Acked(t)
  <2>1. DeliveredOf(t) = 1..n /\ n \in Nat
    BY <1>5 DEF DeliveryInv, TeamInStep
  <2>2. ledger[First][2] \notin DeliveredOf(t)
    <3> HIDE DEF t
    <3> HIDE DEF n
    <3>1. n + 1 \notin DeliveredOf(t)
      BY <2>1
    <3> QED
      BY <1>4, <3>1 DEF n, t
  <2> QED
    BY <1>5, <2>2 DEF DeliveredOf
<1> QED
  BY <1>3, <1>4, <1>5, <1>6, <1>7 DEF Current
-----------------------------------------------------------------------------
(* The invariant is inductive.                                             *)

\* What the worker leaves alone between two receipts.
Same == UNCHANGED <<batches, ledger, receipt, mapping, jira, unacked>>

\* At first nothing is committed, delivered or written.
LEMMA InvInit == Init => DeliveryInv
<1> SUFFICES ASSUME Init PROVE DeliveryInv
  OBVIOUS
<1>1. Shapes
  BY SliceAssumption DEF Init, Shapes, Idle
<1>2. LedgerInOrder
  <2>1. ledger = <<>> /\ DOMAIN ledger = {}
    BY DEF Init
  <2>2. \A t \in Teams : Committed(t) = 0
    BY SliceAssumption DEF Init, Committed
  <2> QED
    BY <2>1, <2>2 DEF LedgerInOrder
<1>3. ASSUME NEW t \in Teams PROVE TeamInStep(t)
  <2>1. DeliveredOf(t) = {}
    BY DEF Init, DeliveredOf, Delivered, NoReceipt
  <2>2. Acked(t) = 0
    BY <2>1, FS_EmptySet DEF Acked
  <2>3. unacked[t] = 0 /\ jira[t] = EmptyJira /\ Committed(t) = 0
    BY <1>3, SliceAssumption DEF Init, Committed
  <2>4. Replayed[0] = EmptyJira
    BY ReplaySteps
  <2> QED
    BY <2>1, <2>2, <2>3, <2>4 DEF TeamInStep
<1>4. WorkerInStep
  BY DEF Init, WorkerInStep, Idle
<1> QED
  BY <1>1, <1>2, <1>3, <1>4 DEF DeliveryInv

\* A step of the worker alone leaves the teams as they are.
LEMMA TeamsStay ==
  ASSUME Same
  PROVE  /\ LedgerInOrder => LedgerInOrder'
         /\ \A t \in Teams : Acked(t)' = Acked(t)
         /\ \A t \in Teams : TeamInStep(t) => TeamInStep(t)'
<1>1. LedgerInOrder => LedgerInOrder'
  BY DEF Same, LedgerInOrder, Committed
<1>2. \A t : DeliveredOf(t)' = DeliveredOf(t)
  BY DEF Same, DeliveredOf, Delivered
<1>3. \A t \in Teams : Acked(t)' = Acked(t)
  BY <1>2 DEF Acked
<1>4. \A t : Committed(t)' = Committed(t)
  BY DEF Same, Committed
<1>5. ASSUME NEW t \in Teams, TeamInStep(t) PROVE TeamInStep(t)'
  <2>1. Acked(t)' = Acked(t) /\ DeliveredOf(t)' = DeliveredOf(t) /\ Committed(t)' = Committed(t)
    BY <1>2, <1>3, <1>4
  <2>2. unacked' = unacked /\ jira' = jira /\ mapping' = mapping
    BY DEF Same
  <2> QED
    BY <1>5, <2>1, <2>2 DEF TeamInStep
<1> QED
  BY <1>1, <1>3, <1>5

\* The worker alone moves, and holds the next intents.
LEMMA WorkerMoves ==
  ASSUME DeliveryInv, Same, Shapes',
         w'.pc \in {"idle", "fetch"} <=> w'.queue = {},
         \A i \in w'.queue : i \in DOMAIN ledger /\ ledger[i][2] = Acked(ledger[i][1]) + 1,
         (w'.pc = "record" /\ w'.outcome = "success") => InPlace(jira[Current[1]], CurrentIntent)'
  PROVE  DeliveryInv'
<1>1. LedgerInOrder' /\ \A t \in Teams : TeamInStep(t)' /\ Acked(t)' = Acked(t)
  BY TeamsStay DEF DeliveryInv
<1>2. \A i \in w'.queue : (i \in DOMAIN ledger /\ ledger[i][2] = Acked(ledger[i][1]) + 1)'
  <2>1. \A i \in w'.queue : i \in DOMAIN ledger /\ ledger[i][2] = Acked(ledger[i][1]) + 1
    OBVIOUS
  <2> QED
    BY <2>1 DEF Acked, DeliveredOf, Delivered, Same
<1>3. WorkerInStep'
  BY <1>2 DEF WorkerInStep
<1> QED
  BY <1>1, <1>3 DEF DeliveryInv

\* The worker goes back to rest: a crash, an abort, or an empty fetch.
LEMMA Rests ==
  ASSUME DeliveryInv, Same, w' = Idle
  PROVE  DeliveryInv'
<1>1. w'.pc = "idle" /\ w'.queue = {}
  BY DEF Idle
<1>2. Shapes'
  BY DEF DeliveryInv, Shapes, Same, Idle
<1> QED
  BY <1>1, <1>2, WorkerMoves

\* The worker turns to the next phase with the rows it has.
LEMMA Turns ==
  ASSUME DeliveryInv, Same, w.pc \in {"deliver", "record"},
         w' = [w EXCEPT !.pc = "record", !.processed = w'.processed, !.outcome = w'.outcome, !.delay = w'.delay],
         w'.outcome = "success" => InPlace(jira[Current[1]], CurrentIntent)
  PROVE  DeliveryInv'
<1>1. w = [pc |-> w.pc, asof |-> w.asof, queue |-> w.queue, processed |-> w.processed,
           outcome |-> w.outcome, delay |-> w.delay]
  BY DEF DeliveryInv, Shapes
<1>2. /\ w' = [pc |-> "record", asof |-> w.asof, queue |-> w.queue, processed |-> w'.processed,
               outcome |-> w'.outcome, delay |-> w'.delay]
      /\ w'.pc = "record" /\ w'.queue = w.queue
  BY <1>1
<1>3. Shapes'
  BY <1>2 DEF DeliveryInv, Shapes, Same
<1>4. w'.pc \in {"idle", "fetch"} <=> w'.queue = {}
  BY <1>2 DEF DeliveryInv, WorkerInStep
<1>5. \A i \in w'.queue : i \in DOMAIN ledger /\ ledger[i][2] = Acked(ledger[i][1]) + 1
  BY <1>2 DEF DeliveryInv, WorkerInStep
<1>6. (w'.pc = "record" /\ w'.outcome = "success") => InPlace(jira[Current[1]], CurrentIntent)'
  BY <1>2 DEF Same, First, Current, CurrentIntent
<1> QED
  BY <1>3, <1>4, <1>5, <1>6, WorkerMoves

\* The steps that write neither Jira nor a receipt.
LEMMA WorkerSteps ==
  ASSUME DeliveryInv,
         \/ Poll \/ Fetch \/ DeliverFound \/ DeliverRefused \/ DeliverFails
         \/ RecordAborts \/ Crash \/ Clock \/ UNCHANGED vars
  PROVE  DeliveryInv'
<1>1. CASE Poll
  <2>1. Same /\ w.pc = "idle" /\ w' = [Idle EXCEPT !.pc = "fetch", !.asof = now]
    BY <1>1 DEF Poll, Same
  <2>2. w' = [pc |-> "fetch", asof |-> now, queue |-> {}, processed |-> {}, outcome |-> "none", delay |-> 0]
    BY <2>1 DEF Idle
  <2>3. Shapes'
    BY ZenonT(30), <2>1, <2>2 DEF DeliveryInv, Shapes, Same
  <2>4. w'.pc = "fetch" /\ w'.queue = {}
    BY <2>2
  <2> QED
    BY <2>1, <2>3, <2>4, WorkerMoves
<1>2. CASE Fetch
  <2> DEFINE rows == Pending(w.asof, Limit - Cardinality(w.processed)) \ w.processed
  <2>1. Same
    BY <1>2 DEF Fetch, Same
  <2>2. CASE w' = Idle
    BY <2>1, <2>2, Rests
  <2>3. CASE w' # Idle
    <3>1. rows # {} /\ w' = [w EXCEPT !.pc = "deliver", !.queue = rows]
      BY <1>2, <2>3 DEF Fetch
    <3>2. rows \subseteq Heads
      BY DEF Pending
    <3> HIDE DEF rows
    <3>3. w = [pc |-> w.pc, asof |-> w.asof, queue |-> w.queue, processed |-> w.processed,
               outcome |-> w.outcome, delay |-> w.delay]
      BY DEF DeliveryInv, Shapes
    <3>4. w' = [pc |-> "deliver", asof |-> w.asof, queue |-> rows, processed |-> w.processed,
                outcome |-> w.outcome, delay |-> w.delay]
      BY <3>1, <3>3
    <3>5. Shapes'
      BY <2>1, <3>4 DEF DeliveryInv, Shapes, Same
    <3>6. ASSUME NEW i \in rows PROVE i \in DOMAIN ledger /\ ledger[i][2] = Acked(ledger[i][1]) + 1
      BY <3>2, HeadIsNext DEF DeliveryInv, Heads
    <3> QED
      BY <2>1, <3>1, <3>4, <3>5, <3>6, WorkerMoves
  <2> QED
    BY <2>2, <2>3
<1>3. CASE DeliverFound
  <2>1. /\ Same /\ w.pc = "deliver" /\ InPlace(jira[Current[1]], CurrentIntent)
        /\ w' = [w EXCEPT !.pc = "record", !.processed = w.processed \cup {First},
                          !.outcome = "success", !.delay = 0]
    BY <1>3 DEF DeliverFound, Outcome, Same
  <2>2. w' = [w EXCEPT !.pc = "record", !.processed = w'.processed, !.outcome = w'.outcome, !.delay = w'.delay]
    BY <2>1 DEF DeliveryInv, Shapes
  <2> QED
    BY <2>1, <2>2, Turns
<1>4. CASE DeliverRefused \/ DeliverFails
  <2>1. PICK d : /\ Same /\ w.pc = "deliver"
                 /\ w' = [w EXCEPT !.pc = "record", !.processed = w.processed \cup {First},
                                   !.outcome = "failure", !.delay = d]
    BY <1>4 DEF DeliverRefused, DeliverFails, Outcome, Same
  <2>2. /\ w' = [w EXCEPT !.pc = "record", !.processed = w'.processed, !.outcome = w'.outcome, !.delay = w'.delay]
        /\ w'.outcome = "failure"
    BY <2>1 DEF DeliveryInv, Shapes
  <2> QED
    BY <2>1, <2>2, Turns
<1>5. CASE RecordAborts \/ Crash
  BY <1>5, Rests DEF RecordAborts, Crash, Same
<1>6. CASE Clock \/ UNCHANGED vars
  <2>1. Same /\ w' = w
    BY <1>6 DEF Clock, vars, Same
  <2>2. Shapes'
    BY <2>1 DEF DeliveryInv, Shapes, Same
  <2>3. /\ w'.pc \in {"idle", "fetch"} <=> w'.queue = {}
        /\ \A i \in w'.queue : i \in DOMAIN ledger /\ ledger[i][2] = Acked(ledger[i][1]) + 1
        /\ (w'.pc = "record" /\ w'.outcome = "success") => InPlace(jira[Current[1]], CurrentIntent)'
    BY <2>1 DEF DeliveryInv, WorkerInStep, Same, First, Current, CurrentIntent
  <2> QED
    BY <2>1, <2>2, <2>3, WorkerMoves
<1> QED
  BY <1>1, <1>2, <1>3, <1>4, <1>5, <1>6

\* A team's intents are numbered by the script.
LEMMA TeamFacts ==
  ASSUME DeliveryInv, NEW t \in Teams
  PROVE  /\ Acked(t) \in Nat /\ unacked[t] \in {0, 1} /\ Committed(t) \in 0..Size /\ Size \in Nat
         /\ Acked(t) + unacked[t] \in 0..Size /\ Acked(t) + unacked[t] <= Committed(t)
         /\ DeliveredOf(t) = 1..Acked(t)
         /\ jira[t] = Replayed[Acked(t) + unacked[t]]
         /\ Told(jira[t], Acked(t) + unacked[t])
<1>1. /\ Acked(t) \in Nat /\ Acked(t) + unacked[t] <= Committed(t)
      /\ DeliveredOf(t) = 1..Acked(t) /\ jira[t] = Replayed[Acked(t) + unacked[t]]
  BY DEF DeliveryInv, TeamInStep
<1>2. unacked[t] \in {0, 1}
  BY DEF DeliveryInv, Shapes
<1>3. Committed(t) \in 0..Size /\ Size \in Nat
  BY CommittedPart DEF DeliveryInv
<1>4. Acked(t) + unacked[t] \in 0..Size
  BY <1>1, <1>2, <1>3
<1>5. Told(jira[t], Acked(t) + unacked[t])
  BY <1>1, <1>4, ReplayTold
<1> QED
  BY <1>1, <1>2, <1>3, <1>4, <1>5

\* The intent at hand is written to Jira: it is the next of its team's
\* script, and no other write waits for its receipt.
LEMMA WriteStep ==
  ASSUME DeliveryInv, w.pc = "deliver", ~InPlace(jira[Current[1]], CurrentIntent), WriteJira,
         UNCHANGED <<batches, ledger, receipt, mapping>>,
         w' = [w EXCEPT !.pc = "record", !.processed = w'.processed, !.outcome = w'.outcome, !.delay = w'.delay]
  PROVE  /\ DeliveryInv'
         /\ unacked[Current[1]] = 0 /\ Acked(Current[1]) < Committed(Current[1])
         /\ unacked' = [unacked EXCEPT ![Current[1]] = 1]
<1> DEFINE c == Current[1]
           p == Current[2]
           n == Acked(c)
<1>1. /\ First \in w.queue /\ First \in DOMAIN ledger /\ c \in Teams /\ p \in Positions
      /\ p = n + 1 /\ p <= Committed(c)
  <2>1. w.queue # {}
    BY DEF DeliveryInv, WorkerInStep
  <2> QED
    BY <2>1, AtHand
<1>2. /\ n \in Nat /\ unacked[c] \in {0, 1} /\ Committed(c) \in 0..Size /\ Size \in Nat
      /\ jira[c] = Replayed[n + unacked[c]] /\ Told(jira[c], n + unacked[c])
  BY <1>1, TeamFacts
<1>3. unacked[c] = 0
  <2>1. unacked[c] = 1 => InPlace(jira[c], Script[n + 1])
    BY <1>1 DEF DeliveryInv, TeamInStep
  <2>2. CurrentIntent = Script[n + 1]
    BY <1>1 DEF CurrentIntent
  <2> QED
    BY <1>2, <2>1, <2>2
<1>4. unacked' = [unacked EXCEPT ![c] = 1]
  <2>1. unacked' = [unacked EXCEPT ![c] = unacked[c] + 1]
    BY DEF WriteJira
  <2> HIDE DEF c
  <2> QED
    BY <1>3, <2>1
<1>5. jira' = [jira EXCEPT ![c] = Written(jira[c], Script[p])]
  BY DEF WriteJira, CurrentIntent
<1>6. jira[c] = Replayed[n] /\ jira[c] \in Provider
  BY <1>2, <1>3 DEF Told
<1>7. Written(jira[c], Script[p]) = Replayed[n + 1]
  <2>1. Replayed[p] = Replay(Replayed[p - 1], Script[p])
    BY <1>1, ReplaySteps DEF Positions, Size
  <2>2. p - 1 = n
    <3> HIDE DEF n
    <3> QED
      BY <1>1, <1>2
  <2>3. ~InPlace(jira[c], Script[p])
    BY DEF CurrentIntent
  <2> QED
    BY <1>1, <1>6, <2>1, <2>2, <2>3 DEF Replay
<1>8. InPlace(Written(jira[c], Script[p]), Script[p])
  BY <1>1, <1>6, WriteInPlace
<1>9. /\ \A t : DeliveredOf(t)' = DeliveredOf(t) /\ Acked(t)' = Acked(t) /\ Committed(t)' = Committed(t)
      /\ LedgerInOrder'
  <2>1. \A t : DeliveredOf(t)' = DeliveredOf(t) /\ Committed(t)' = Committed(t)
    BY DEF DeliveredOf, Delivered, Committed
  <2>2. \A t : Acked(t)' = Acked(t)
    BY <2>1 DEF Acked
  <2>3. LedgerInOrder'
    BY DEF DeliveryInv, LedgerInOrder, Committed
  <2> QED
    BY <2>1, <2>2, <2>3
<1>10. /\ w' = [pc |-> "record", asof |-> w.asof, queue |-> w.queue, processed |-> w'.processed,
                outcome |-> w'.outcome, delay |-> w'.delay]
       /\ w'.pc = "record" /\ w'.queue = w.queue
  BY DEF DeliveryInv, Shapes
<1>11. jira = [t \in Teams |-> jira[t]] /\ unacked \in [Teams -> {0, 1}]
  BY DEF DeliveryInv, Shapes
<1>12. Shapes'
  <2>1. jira' = [t \in Teams |-> jira'[t]] /\ unacked' \in [Teams -> {0, 1}]
    <3> HIDE DEF c, p
    <3> QED
      BY <1>4, <1>5, <1>11
  <2> QED
    BY <1>10, <2>1 DEF DeliveryInv, Shapes
<1>13. ASSUME NEW t \in Teams PROVE TeamInStep(t)'
  <2>1. Acked(t)' = Acked(t) /\ DeliveredOf(t)' = DeliveredOf(t) /\ Committed(t)' = Committed(t)
    BY <1>9
  <2>2. CASE t = c
    <3>1. jira'[c] = Written(jira[c], Script[p]) /\ unacked'[c] = 1
      <4> HIDE DEF c, p
      <4> QED
        BY <1>1, <1>4, <1>5, <1>11
    <3>2. /\ DeliveredOf(c) = 1..n /\ n \in Nat
          /\ \A k \in 1..n : \A r \in ResourceOf(Script[k]) : <<c, r[1], r[2]>> \in mapping
      BY <1>1 DEF DeliveryInv, TeamInStep
    <3>3. /\ jira'[t] = Replayed[Acked(t) + unacked'[t]] /\ Acked(t) + unacked'[t] <= Committed(t)
          /\ InPlace(jira'[t], Script[Acked(t) + 1])
      BY <1>1, <1>7, <1>8, <2>2, <3>1
    <3> HIDE DEF c, n, p
    <3> QED
      BY <2>1, <2>2, <3>2, <3>3 DEF TeamInStep, n
  <2>3. CASE t # c
    <3>1. jira'[t] = jira[t] /\ unacked'[t] = unacked[t]
      <4> HIDE DEF c, p
      <4> QED
        BY <1>4, <1>5, <1>11, <2>3
    <3>2. TeamInStep(t)
      BY DEF DeliveryInv
    <3> QED
      BY <2>1, <3>1, <3>2 DEF TeamInStep
  <2> QED
    BY <2>2, <2>3
<1>14. WorkerInStep'
  <2>1. w'.pc \in {"idle", "fetch"} <=> w'.queue = {}
    BY <1>10 DEF DeliveryInv, WorkerInStep
  <2>2. \A i \in w'.queue : (i \in DOMAIN ledger /\ ledger[i][2] = Acked(ledger[i][1]) + 1)'
    <3>1. \A i \in w.queue : i \in DOMAIN ledger /\ ledger[i][2] = Acked(ledger[i][1]) + 1
      BY DEF DeliveryInv, WorkerInStep
    <3> QED
      BY <1>10, <3>1 DEF Acked, DeliveredOf, Delivered
  <2>3. InPlace(jira[Current[1]], CurrentIntent)'
    <3>1. Current' = Current /\ CurrentIntent' = CurrentIntent
      BY <1>10 DEF First, Current, CurrentIntent
    <3>2. jira'[c] = Written(jira[c], Script[p])
      <4> HIDE DEF c, p
      <4> QED
        BY <1>1, <1>5, <1>11
    <3> QED
      BY <1>8, <3>1, <3>2 DEF CurrentIntent
  <2> QED
    BY <2>1, <2>2, <2>3 DEF WorkerInStep
<1> QED
  BY <1>1, <1>2, <1>3, <1>4, <1>9, <1>12, <1>13, <1>14 DEF DeliveryInv

\* The worker goes on with its other rows.
LEMMA GoesOn ==
  ASSUME DeliveryInv, w.pc = "record", NextItem
  PROVE  /\ w' = [pc |-> w'.pc, asof |-> w'.asof, queue |-> w'.queue, processed |-> w'.processed,
                  outcome |-> w'.outcome, delay |-> w'.delay]
         /\ w'.pc \in {"fetch", "deliver"} /\ w'.queue = w.queue \ {First}
         /\ w'.pc = "fetch" <=> w'.queue = {}
<1>1. First \in w.queue
  <2>1. w.queue # {}
    BY DEF DeliveryInv, WorkerInStep
  <2> QED
    BY <2>1, AtHand
<1>2. w = [pc |-> w.pc, asof |-> w.asof, queue |-> w.queue, processed |-> w.processed,
           outcome |-> w.outcome, delay |-> w.delay]
  BY DEF DeliveryInv, Shapes
<1> DEFINE phase == IF w.queue = {First} THEN "fetch" ELSE "deliver"
           rest == w.queue \ {First}
<1>3. w' = [w EXCEPT !.pc = phase, !.queue = rest, !.outcome = "none", !.delay = 0]
  BY DEF NextItem
<1>4. phase \in {"fetch", "deliver"} /\ (phase = "fetch" <=> rest = {})
  BY <1>1
<1> HIDE DEF phase
<1> HIDE DEF rest
<1>5. w' = [pc |-> phase, asof |-> w.asof, queue |-> rest, processed |-> w.processed,
            outcome |-> "none", delay |-> 0]
  BY <1>2, <1>3
<1>6. w'.pc = phase /\ w'.queue = rest /\ rest = w.queue \ {First}
  BY <1>5 DEF rest
<1> QED
  BY <1>4, <1>5, <1>6

\* The receipt of a success: the team's next intent is delivered.
LEMMA SuccessStep ==
  ASSUME DeliveryInv, RecordSuccess, NEW c, c = Current[1]
  PROVE  /\ DeliveryInv'
         /\ c \in Teams /\ Acked(c) < Committed(c)
         /\ Acked(c)' = Acked(c) + 1
         /\ \A t \in Teams \ {c} : Acked(t)' = Acked(t)
         /\ unacked' = [unacked EXCEPT ![c] = 0]
<1>p. PICK p : p = Current[2]
  OBVIOUS
<1>n. PICK n : n = Acked(c)
  OBVIOUS
<1>1. /\ First \in w.queue /\ First \in DOMAIN ledger /\ c \in Teams /\ p \in Positions
      /\ p = n + 1 /\ p <= Committed(c) /\ ~Delivered(Current) /\ Current = <<c, p>>
  <2>1. w.queue # {}
    BY DEF DeliveryInv, WorkerInStep, RecordSuccess
  <2> QED
    BY <1>p, <1>n, <2>1, AtHand
<1>2. /\ n \in Nat /\ unacked[c] \in {0, 1} /\ Committed(c) \in 0..Size /\ Size \in Nat
      /\ jira[c] = Replayed[n + unacked[c]] /\ Told(jira[c], n + unacked[c])
      /\ DeliveredOf(c) = 1..n
  BY <1>1, <1>n, TeamFacts
<1> DEFINE made == {<<c, x[1], x[2]>> : x \in ResourceOf(CurrentIntent)}
<1>3. PICK done : /\ receipt' = [receipt EXCEPT ![c][p] = done] /\ done.state = "DELIVERED"
                  /\ mapping' = mapping \cup made
                  /\ unacked' = [unacked EXCEPT ![c] = 0]
                  /\ UNCHANGED <<batches, ledger, jira>>
  <2> DEFINE done == [state |-> "DELIVERED", attempts |-> Attempted(receipt[c][p]), next |-> 0]
  <2>1. receipt' = [receipt EXCEPT ![c][p] = done]
    BY <1>p DEF RecordSuccess
  <2>2. /\ mapping' = mapping \cup made /\ unacked' = [unacked EXCEPT ![c] = 0]
        /\ UNCHANGED <<batches, ledger, jira>>
    BY DEF RecordSuccess
  <2>3. done.state = "DELIVERED"
    OBVIOUS
  <2> HIDE DEF done, made
  <2> QED
    BY <2>1, <2>2, <2>3
<1>4. InPlace(jira[c], CurrentIntent) /\ w.pc = "record" /\ NextItem
  BY DEF RecordSuccess, DeliveryInv, WorkerInStep
<1>5. receipt = [t \in Teams |-> [k \in Positions |-> receipt[t][k]]]
  BY DEF DeliveryInv, Shapes
<1>6. receipt' = [t \in Teams |-> [k \in Positions |-> IF t = c /\ k = p THEN done ELSE receipt[t][k]]]
  <2> QED
    BY <1>1, <1>3, <1>5
<1>7. \A t \in Teams : DeliveredOf(t)' = IF t = c THEN DeliveredOf(t) \cup {p} ELSE DeliveredOf(t)
  <2> HIDE DEF made
  <2> QED
    BY <1>1, <1>3, <1>6 DEF DeliveredOf, Delivered
<1>8. DeliveredOf(c)' = 1..(n + 1) /\ Acked(c)' = n + 1
  <2>1. 1..n \cup {n + 1} = 1..(n + 1) /\ n + 1 \in Nat
    <3> QED
      BY <1>2
  <2>2. DeliveredOf(c)' = 1..(n + 1)
    <3> QED
      BY <1>1, <1>2, <1>7, <2>1
  <2>3. Cardinality(1..(n + 1)) = n + 1
    BY <2>1, FirstNumbers
  <2> QED
    BY <2>2, <2>3 DEF Acked
<1>9. \A t \in Teams \ {c} : DeliveredOf(t)' = DeliveredOf(t) /\ Acked(t)' = Acked(t)
  <2>1. \A t \in Teams \ {c} : DeliveredOf(t)' = DeliveredOf(t)
    BY <1>7
  <2> QED
    BY <2>1 DEF Acked
<1>10. \A t : Committed(t)' = Committed(t)
  BY <1>3 DEF Committed
<1>11. LedgerInOrder'
  BY <1>3 DEF DeliveryInv, LedgerInOrder, Committed
<1>12. unacked \in [Teams -> {0, 1}]
  BY DEF DeliveryInv, Shapes
<1>13. jira[c] = Replayed[n + 1]
  <2>1. CASE unacked[c] = 1
    BY <1>2, <2>1
  <2>2. CASE unacked[c] = 0
    <3>1. jira[c] = Replayed[n] /\ p - 1 = n
      <4> QED
        BY <1>1, <1>2, <2>2
    <3>2. Replayed[p] = Replay(Replayed[p - 1], Script[p])
      BY <1>1, ReplaySteps DEF Positions, Size
    <3>3. InPlace(jira[c], Script[p])
      BY <1>4, <1>p DEF CurrentIntent
    <3> QED
      BY <1>1, <3>1, <3>2, <3>3 DEF Replay
  <2> QED
    BY <1>2, <2>1, <2>2
<1>14. Shapes'
  <2>1. receipt' = [t \in Teams |-> [k \in Positions |-> receipt'[t][k]]]
    <3> QED
      BY <1>6
  <2>2. unacked' \in [Teams -> {0, 1}]
    <3> QED
      BY <1>3, <1>12
  <2>3. w' = [pc |-> w'.pc, asof |-> w'.asof, queue |-> w'.queue, processed |-> w'.processed,
              outcome |-> w'.outcome, delay |-> w'.delay] /\ w'.pc \in {"fetch", "deliver"}
    BY <1>4, GoesOn
  <2> QED
    BY <1>3, <2>1, <2>2, <2>3 DEF DeliveryInv, Shapes
<1>15. ASSUME NEW t \in Teams PROVE TeamInStep(t)'
  <2>1. CASE t = c
    <3>1. unacked'[c] = 0
      <4> QED
        BY <1>1, <1>3, <1>12
    <3>2. ASSUME NEW k \in 1..(n + 1), NEW r \in ResourceOf(Script[k])
          PROVE  <<c, r[1], r[2]>> \in mapping'
      <4>1. CASE k = n + 1
        <5>1. r \in ResourceOf(CurrentIntent)
          BY <1>1, <1>p, <4>1 DEF CurrentIntent
        <5>2. <<c, r[1], r[2]>> \in made
          BY <5>1
        <5> QED
          BY <1>3, <5>2
      <4>2. CASE k # n + 1
        <5>1. k \in 1..n
          <6> QED
            BY <1>2, <4>2
        <5> QED
          BY <1>1, <1>3, <1>n, <5>1 DEF DeliveryInv, TeamInStep
      <4> QED
        BY <4>1, <4>2
    <3>3. n + 1 <= Committed(c) /\ n + 1 \in Nat /\ n + 1 + 0 = n + 1
      <4> QED
        BY <1>1, <1>2
    <3>4. jira'[c] = Replayed[n + 1]
      BY <1>3, <1>13
    <3> HIDE DEF made
    <3> QED
      BY <1>8, <1>10, <2>1, <3>1, <3>2, <3>3, <3>4 DEF TeamInStep
  <2>2. CASE t # c
    <3>1. jira'[t] = jira[t] /\ unacked'[t] = unacked[t] /\ mapping \subseteq mapping'
      <4> HIDE DEF made
      <4> QED
        BY <1>3, <1>12, <2>2
    <3>2. TeamInStep(t) /\ Committed(t)' = Committed(t) /\ DeliveredOf(t)' = DeliveredOf(t)
      BY <1>9, <1>10, <2>2 DEF DeliveryInv
    <3>3. Acked(t)' = Acked(t)
      BY <1>9, <2>2
    <3> QED
      BY <3>1, <3>2, <3>3 DEF TeamInStep
  <2> QED
    BY <2>1, <2>2
<1>16. WorkerInStep'
  <2>1. /\ w'.pc \in {"fetch", "deliver"} /\ w'.queue = w.queue \ {First}
        /\ w'.pc = "fetch" <=> w'.queue = {}
    BY <1>4, GoesOn
  <2>2. ASSUME NEW i \in w.queue, i # First
        PROVE  i \in DOMAIN ledger /\ ledger[i][1] \in Teams /\ ledger[i][1] # c
               /\ ledger[i][2] = Acked(ledger[i][1]) + 1
    <3>1. i \in DOMAIN ledger /\ ledger[i][2] = Acked(ledger[i][1]) + 1
      BY DEF DeliveryInv, WorkerInStep
    <3>2. ledger[i][1] \in Teams /\ i \in Nat /\ First \in Nat
      BY <1>1, <3>1, RowOf DEF DeliveryInv
    <3>3. ASSUME ledger[i][1] = c PROVE FALSE
      <4>1. ledger[i][2] = p /\ ledger[First][1] = c /\ ledger[First][2] = p
        BY <1>1, <1>p, <1>n, <3>1, <3>3 DEF Current
      <4>2. p \in Nat
        <5> QED
          BY <1>1, <1>2
      <4>3. i < First \/ First < i
        BY <2>2, <3>2
      <4>4. \A a, b \in DOMAIN ledger : (a < b /\ ledger[a][1] = ledger[b][1]) => ledger[a][2] < ledger[b][2]
        BY DEF DeliveryInv, LedgerInOrder
      <4>5. p < p
        <5> QED
          BY <1>1, <3>1, <3>3, <4>1, <4>3, <4>4
      <4> QED
        BY <4>2, <4>5
    <3> QED
      BY <3>1, <3>2, <3>3
  <2>3. \A i \in w'.queue : (i \in DOMAIN ledger /\ ledger[i][2] = Acked(ledger[i][1]) + 1)'
    <3>1. \A t \in Teams \ {c} : \A i \in w.queue \ {First} :
            ledger[i][1] = t => ledger[i][2] = Acked(t)' + 1
      BY <1>9, <2>2
    <3>2. ledger' = ledger
      BY <1>3
    <3>3. \A t \in Teams \ {c} : \A i \in w'.queue :
            (ledger[i][1] = t => ledger[i][2] = Acked(t) + 1)'
      BY <2>1, <3>1, <3>2
    <3>4. \A i \in w'.queue : (i \in DOMAIN ledger /\ ledger[i][1] \in Teams \ {c})'
      BY <2>1, <2>2, <3>2
    <3> HIDE DEF made
    <3> QED
      BY <3>3, <3>4
  <2> QED
    BY <2>1, <2>3 DEF WorkerInStep
<1>17. n < Committed(c)
  <2> QED
    BY <1>1, <1>2
<1> QED
  BY <1>1, <1>3, <1>n, <1>8, <1>9, <1>11, <1>14, <1>15, <1>16, <1>17 DEF DeliveryInv

\* The receipt of a failure delivers nothing and undoes nothing.
LEMMA FailureStep ==
  ASSUME DeliveryInv, RecordFailure
  PROVE  /\ DeliveryInv'
         /\ \A t \in Teams : Acked(t)' = Acked(t)
<1>c. PICK c : c = Current[1]
  OBVIOUS
<1>p. PICK p : p = Current[2]
  OBVIOUS
<1>1. c \in Teams /\ p \in Positions /\ Current = <<c, p>> /\ ~Delivered(Current) /\ First \in w.queue
  <2>1. w.queue # {}
    BY DEF DeliveryInv, WorkerInStep, RecordFailure
  <2> QED
    BY <1>c, <1>p, <2>1, AtHand
<1>2. PICK failed : /\ receipt' = [receipt EXCEPT ![c][p] = failed] /\ failed.state = "RETRYABLE"
                    /\ UNCHANGED <<batches, ledger, mapping, jira, unacked>>
                    /\ w.pc = "record" /\ NextItem
  <2> DEFINE r == [state |-> "RETRYABLE", attempts |-> Attempted(receipt[c][p]), next |-> w.asof + w.delay]
  <2>1. receipt' = [receipt EXCEPT ![c][p] = r]
    BY <1>c, <1>p DEF RecordFailure
  <2>2. UNCHANGED <<batches, ledger, mapping, jira, unacked>> /\ w.pc = "record" /\ NextItem
    BY DEF RecordFailure
  <2>3. r.state = "RETRYABLE"
    OBVIOUS
  <2> HIDE DEF r
  <2> QED
    BY <2>1, <2>2, <2>3
<1>3. receipt = [t \in Teams |-> [k \in Positions |-> receipt[t][k]]]
  BY DEF DeliveryInv, Shapes
<1>4. receipt' = [t \in Teams |-> [k \in Positions |-> IF t = c /\ k = p THEN failed ELSE receipt[t][k]]]
  BY <1>1, <1>2, <1>3
<1>5. \A t \in Teams : DeliveredOf(t)' = DeliveredOf(t) /\ Acked(t)' = Acked(t)
  <2>1. \A t \in Teams : DeliveredOf(t)' = DeliveredOf(t)
    BY <1>1, <1>2, <1>4 DEF DeliveredOf, Delivered
  <2> QED
    BY <2>1 DEF Acked
<1>6. \A t : Committed(t)' = Committed(t)
  BY <1>2 DEF Committed
<1>7. LedgerInOrder'
  BY <1>2 DEF DeliveryInv, LedgerInOrder, Committed
<1>8. /\ w' = [pc |-> w'.pc, asof |-> w'.asof, queue |-> w'.queue, processed |-> w'.processed,
               outcome |-> w'.outcome, delay |-> w'.delay]
      /\ w'.pc \in {"fetch", "deliver"} /\ w'.queue = w.queue \ {First}
      /\ w'.pc = "fetch" <=> w'.queue = {}
  BY <1>2, GoesOn
<1>9. Shapes'
  <2>1. receipt' = [t \in Teams |-> [k \in Positions |-> receipt'[t][k]]]
    BY <1>4
  <2> QED
    BY <1>2, <1>8, <2>1 DEF DeliveryInv, Shapes
<1>10. ASSUME NEW t \in Teams PROVE TeamInStep(t)'
  <2>1. TeamInStep(t) /\ jira' = jira /\ unacked' = unacked /\ mapping' = mapping
    BY <1>2 DEF DeliveryInv
  <2>2. DeliveredOf(t)' = DeliveredOf(t) /\ Acked(t)' = Acked(t) /\ Committed(t)' = Committed(t)
    BY <1>5, <1>6
  <2> QED
    BY <2>1, <2>2 DEF TeamInStep
<1>11. WorkerInStep'
  <2>1. \A i \in w.queue : /\ i \in DOMAIN ledger /\ ledger[i][1] \in Teams
                           /\ ledger[i][2] = Acked(ledger[i][1]) + 1
    <3>1. \A i \in w.queue : i \in DOMAIN ledger /\ ledger[i][2] = Acked(ledger[i][1]) + 1
      BY DEF DeliveryInv, WorkerInStep
    <3> QED
      BY <3>1, RowOf DEF DeliveryInv
  <2>2. \A t \in Teams : \A i \in w.queue : ledger[i][1] = t => ledger[i][2] = Acked(t)' + 1
    BY <1>5, <2>1
  <2>3. \A t \in Teams : \A i \in w'.queue : (ledger[i][1] = t => ledger[i][2] = Acked(t) + 1)'
    BY <1>2, <1>8, <2>2
  <2>4. \A i \in w'.queue : (i \in DOMAIN ledger /\ ledger[i][1] \in Teams)'
    BY <1>2, <1>8, <2>1
  <2>5. \A i \in w'.queue : (i \in DOMAIN ledger /\ ledger[i][2] = Acked(ledger[i][1]) + 1)'
    BY <2>3, <2>4
  <2> QED
    BY <1>8, <2>5 DEF WorkerInStep
<1> QED
  BY <1>5, <1>7, <1>9, <1>10, <1>11 DEF DeliveryInv

\* A slice appends its intents to the ledger; no row at hand changes.
LEMMA CommitStep ==
  ASSUME DeliveryInv, NEW c \in Teams, CommitBatch(c)
  PROVE  /\ DeliveryInv'
         /\ \A t \in Teams : Acked(t)' = Acked(t)
         /\ \A t \in Teams \ {c} : Committed(t)' = Committed(t)
         /\ Committed(c)' \in Nat /\ Committed(c)' >= Committed(c)
<1>1. /\ batches \in [Teams -> 0..Slices] /\ ledger \in Seq(Teams \X Positions)
      /\ batches[c] \in Nat /\ batches[c] < Slices /\ Slices \in Nat
  BY SliceAssumption DEF DeliveryInv, Shapes, CommitBatch
<1>2. /\ batches' = [batches EXCEPT ![c] = batches[c] + 1]
      /\ UNCHANGED <<receipt, mapping, jira, w, unacked>>
  BY DEF CommitBatch
<1> DEFINE old == SizeAfter[batches[c]]
           new == SizeAfter[batches[c] + 1]
           rows == [k \in 1..(new - old) |-> <<c, old + k>>]
<1>3. ledger' = ledger \o rows
  BY DEF CommitBatch
<1>4. old \in 0..Size /\ new \in 0..Size /\ Size \in Nat /\ old <= new
  <2>1. batches[c] \in 0..Slices /\ batches[c] + 1 \in 1..Slices /\ batches[c] + 1 - 1 = batches[c]
    BY <1>1
  <2>2. batches[c] + 1 \in 0..Slices
    BY <2>1, <1>1
  <2>3. SizeAfter[batches[c] + 1 - 1] <= SizeAfter[batches[c] + 1]
    BY <2>1, SliceAssumption
  <2> QED
    BY <2>1, <2>2, <2>3, SliceAssumption DEF Size
<1>5. /\ Committed(c) = old /\ Committed(c)' = new
      /\ \A t \in Teams \ {c} : Committed(t)' = Committed(t)
  BY <1>1, <1>2 DEF Committed
<1>6. /\ rows \in Seq(Teams \X Positions) /\ Len(rows) = new - old
      /\ \A k \in 1..(new - old) : rows[k] = <<c, old + k>>
  <2>1. new - old \in Nat
    BY <1>4
  <2>2. \A k \in 1..(new - old) : old + k \in Positions
    BY <1>4 DEF Positions, Size
  <2> HIDE DEF old, new
  <2> QED
    BY <2>1, <2>2
<1> HIDE DEF old, new, rows
<1>7. /\ Len(ledger) \in Nat /\ DOMAIN ledger = 1..Len(ledger)
      /\ ledger' \in Seq(Teams \X Positions)
      /\ DOMAIN ledger' = 1..(Len(ledger) + (new - old))
      /\ \A i \in 1..Len(ledger) : ledger'[i] = ledger[i]
      /\ \A k \in 1..(new - old) : ledger'[Len(ledger) + k] = <<c, old + k>>
  <2>1. Len(ledger) \in Nat /\ DOMAIN ledger = 1..Len(ledger)
    BY <1>1
  <2>2. new - old \in Nat
    BY <1>4
  <2>3. ledger' \in Seq(Teams \X Positions) /\ Len(ledger') = Len(ledger) + (new - old)
    <3> DEFINE Rows == Teams \X Positions
    <3>1. ledger \in Seq(Rows) /\ rows \in Seq(Rows)
      BY <1>1, <1>6
    <3> HIDE DEF Rows
    <3>2. ledger \o rows \in Seq(Rows) /\ Len(ledger \o rows) = Len(ledger) + Len(rows)
      BY <3>1
    <3> QED
      BY <1>3, <1>6, <3>2 DEF Rows
  <2>4. DOMAIN ledger' = 1..(Len(ledger) + (new - old))
    BY <2>3
  <2>5. \A i \in 1..Len(ledger) : ledger'[i] = ledger[i]
    BY <1>1, <1>3, <1>6, <2>1, <2>2
  <2>6. ASSUME NEW k \in 1..(new - old) PROVE ledger'[Len(ledger) + k] = <<c, old + k>>
    <3>1. ledger'[Len(ledger) + k] = rows[k]
      BY <1>1, <1>3, <1>6, <2>1, <2>2
    <3> QED
      BY <1>6, <3>1
  <2> QED
    BY <2>1, <2>3, <2>4, <2>5, <2>6
<1>8. \A t : DeliveredOf(t)' = DeliveredOf(t) /\ Acked(t)' = Acked(t)
  <2>1. \A t : DeliveredOf(t)' = DeliveredOf(t)
    BY <1>2 DEF DeliveredOf, Delivered
  <2> QED
    BY <2>1 DEF Acked
<1>9. Shapes'
  <2>1. batches' \in [Teams -> 0..Slices]
    BY <1>1, <1>2
  <2> QED
    BY <1>2, <1>7, <2>1 DEF DeliveryInv, Shapes
<1>10. \A t \in Teams : Committed(t) \in Nat /\ Committed(t)' \in Nat /\ Committed(t) <= Committed(t)'
  <2>1. \A t \in Teams : Committed(t) \in Nat
    BY CommittedPart DEF DeliveryInv
  <2> QED
    BY <1>4, <1>5, <2>1
<1>11. \A i \in 1..Len(ledger) : /\ ledger[i][1] \in Teams /\ ledger[i][2] \in Nat
                                 /\ ledger[i][2] <= Committed(ledger[i][1])
  <2>1. \A i \in 1..Len(ledger) : ledger[i][1] \in Teams /\ ledger[i][2] \in Positions
    BY <1>1, <1>7
  <2>2. \A i \in 1..Len(ledger) : ledger[i][2] <= Committed(ledger[i][1])
    BY <1>7 DEF DeliveryInv, LedgerInOrder
  <2> QED
    BY <1>4, <2>1, <2>2 DEF Positions, Size
<1>12. LedgerInOrder'
  <2>1. ASSUME NEW t \in Teams, NEW k \in 1..Committed(t)' PROVE \E i \in DOMAIN ledger' : ledger'[i] = <<t, k>>
    <3>1. CASE k <= Committed(t)
      <4>1. k \in 1..Committed(t)
        BY <1>10, <3>1
      <4>2. PICK i \in DOMAIN ledger : ledger[i] = <<t, k>>
        BY <4>1 DEF DeliveryInv, LedgerInOrder
      <4>3. i \in DOMAIN ledger' /\ ledger'[i] = <<t, k>>
        BY <1>4, <1>7, <4>2
      <4> QED
        BY <4>3
    <3>2. CASE ~(k <= Committed(t))
      <4>1. t = c
        BY <1>5, <1>10, <3>2
      <4>2. k - old \in 1..(new - old) /\ old + (k - old) = k
        BY <1>4, <1>5, <3>2, <4>1
      <4>3. ledger'[Len(ledger) + (k - old)] = <<t, k>>
        BY <1>7, <4>1, <4>2
      <4>4. Len(ledger) + (k - old) \in DOMAIN ledger'
        BY <1>4, <1>7, <4>2
      <4> QED
        BY <4>3, <4>4
    <3> QED
      BY <3>1, <3>2
  <2>2. ASSUME NEW i \in DOMAIN ledger', ~(i \in 1..Len(ledger))
        PROVE  ledger'[i][1] = c /\ i - Len(ledger) \in 1..(new - old)
               /\ ledger'[i][2] = old + (i - Len(ledger))
    <3>1. i - Len(ledger) \in 1..(new - old) /\ Len(ledger) + (i - Len(ledger)) = i
      BY <1>4, <1>7, <2>2
    <3>2. ledger'[i] = <<c, old + (i - Len(ledger))>>
      BY <1>7, <3>1
    <3> QED
      BY <3>1, <3>2
  <2>3. \A i \in DOMAIN ledger' : \A t \in Teams : ledger'[i][1] = t => ledger'[i][2] <= Committed(t)'
    <3> SUFFICES ASSUME NEW i \in DOMAIN ledger', NEW t \in Teams, ledger'[i][1] = t
                 PROVE  ledger'[i][2] <= Committed(t)'
      OBVIOUS
    <3>1. CASE i \in 1..Len(ledger)
      <4>1. ledger[i][1] = t /\ ledger'[i][2] = ledger[i][2] /\ ledger[i][2] \in Nat
            /\ ledger[i][2] <= Committed(t)
        BY <1>7, <1>11, <3>1
      <4> QED
        BY <1>10, <4>1
    <3>2. CASE ~(i \in 1..Len(ledger))
      BY <1>4, <1>5, <1>7, <2>2, <3>2
    <3> QED
      BY <3>1, <3>2
  <2>4. ASSUME NEW i \in DOMAIN ledger', NEW j \in DOMAIN ledger',
               i < j, ledger'[i][1] = ledger'[j][1]
        PROVE  ledger'[i][2] < ledger'[j][2]
    <3>1. CASE j \in 1..Len(ledger)
      <4>1. i \in 1..Len(ledger)
        BY <1>7, <2>4, <3>1
      <4> QED
        BY <1>7, <2>4, <3>1, <4>1 DEF DeliveryInv, LedgerInOrder
    <3>2. CASE ~(j \in 1..Len(ledger)) /\ i \in 1..Len(ledger)
      <4>1. ledger[i][1] = c /\ ledger'[i][2] = ledger[i][2]
        BY <1>7, <2>2, <2>4, <3>2
      <4>2. ledger[i][2] \in Nat /\ ledger[i][2] <= old
        BY <1>5, <1>11, <3>2, <4>1
      <4>3. ledger'[j][2] = old + (j - Len(ledger)) /\ j - Len(ledger) \in 1..(new - old)
        BY <2>2, <3>2
      <4> QED
        BY <1>4, <1>7, <4>1, <4>2, <4>3
    <3>3. CASE ~(j \in 1..Len(ledger)) /\ ~(i \in 1..Len(ledger))
      BY <1>4, <1>7, <2>2, <2>4, <3>3
    <3> QED
      BY <3>1, <3>2, <3>3
  <2>5. \A i \in DOMAIN ledger' : ledger'[i][1] \in Teams
    <3> DEFINE Rows == Teams \X Positions
    <3>1. ledger' \in Seq(Rows)
      BY <1>7
    <3> HIDE DEF Rows
    <3>2. \A i \in DOMAIN ledger' : ledger'[i] \in Rows
      BY <3>1
    <3> QED
      BY <3>2 DEF Rows
  <2>6. \A i \in DOMAIN ledger' : (ledger[i][2] <= Committed(ledger[i][1]))'
    BY <2>3, <2>5
  <2> QED
    BY <2>1, <2>4, <2>6 DEF LedgerInOrder
<1>13. ASSUME NEW t \in Teams PROVE TeamInStep(t)'
  <2>1. /\ TeamInStep(t) /\ jira' = jira /\ unacked' = unacked /\ mapping' = mapping
        /\ unacked[t] \in {0, 1} /\ Acked(t) \in Nat
    BY <1>2 DEF DeliveryInv, Shapes, TeamInStep
  <2>2. DeliveredOf(t)' = DeliveredOf(t) /\ Acked(t)' = Acked(t)
    BY <1>8
  <2>3. Acked(t) + unacked[t] <= Committed(t)'
    <3>1. Acked(t) + unacked[t] <= Committed(t)
      BY <2>1 DEF TeamInStep
    <3> QED
      BY <1>10, <2>1, <3>1
  <2> QED
    BY <2>1, <2>2, <2>3 DEF TeamInStep
<1>14. WorkerInStep'
  <2>1. \A i \in w.queue : /\ i \in 1..Len(ledger) /\ ledger[i][1] \in Teams
                           /\ ledger[i][2] = Acked(ledger[i][1]) + 1
    <3>1. \A i \in w.queue : i \in 1..Len(ledger) /\ ledger[i][2] = Acked(ledger[i][1]) + 1
      BY <1>7 DEF DeliveryInv, WorkerInStep
    <3> QED
      BY <1>11, <3>1
  <2>2. \A t \in Teams : \A i \in w.queue : ledger'[i][1] = t => ledger'[i][2] = Acked(t)' + 1
    BY <1>7, <1>8, <2>1
  <2>3. \A t \in Teams : \A i \in w'.queue : (ledger[i][1] = t => ledger[i][2] = Acked(t) + 1)'
    BY <1>2, <2>2
  <2>4. \A i \in w'.queue : (i \in DOMAIN ledger /\ ledger[i][1] \in Teams)'
    <3>1. \A i \in w.queue : i \in DOMAIN ledger' /\ ledger'[i] = ledger[i]
      BY <1>4, <1>7, <2>1
    <3> QED
      BY <1>2, <2>1, <3>1
  <2>5. \A i \in w'.queue : (i \in DOMAIN ledger /\ ledger[i][2] = Acked(ledger[i][1]) + 1)'
    BY <2>3, <2>4
  <2>6. (w.pc = "record" /\ w.outcome = "success") => InPlace(jira[Current[1]], CurrentIntent)'
    <3> SUFFICES ASSUME w.pc = "record", w.outcome = "success"
                 PROVE  InPlace(jira[Current[1]], CurrentIntent)'
      OBVIOUS
    <3>1. w.queue # {}
      BY DEF DeliveryInv, WorkerInStep
    <3>2. First \in DOMAIN ledger
      BY <3>1, AtHand
    <3>3. Current' = Current /\ CurrentIntent' = CurrentIntent
      BY <1>2, <1>7, <3>2 DEF First, Current, CurrentIntent
    <3>4. InPlace(jira[Current[1]], CurrentIntent)
      BY DEF DeliveryInv, WorkerInStep
    <3> QED
      BY <1>2, <3>3, <3>4
  <2>7. w'.pc \in {"idle", "fetch"} <=> w'.queue = {}
    BY <1>2 DEF DeliveryInv, WorkerInStep
  <2>8. (w'.pc = "record" /\ w'.outcome = "success") => InPlace(jira[Current[1]], CurrentIntent)'
    BY <1>2, <2>6
  <2> QED
    BY <2>5, <2>7, <2>8 DEF WorkerInStep
<1> QED
  BY <1>4, <1>5, <1>8, <1>9, <1>12, <1>13, <1>14 DEF DeliveryInv

\* The provider call that takes effect, whether its answer arrives or not.
LEMMA WriteActs ==
  ASSUME DeliveryInv, DeliverWrite \/ AnswerLost
  PROVE  /\ DeliveryInv' /\ Current[1] \in Teams
         /\ unacked[Current[1]] = 0 /\ Acked(Current[1]) < Committed(Current[1])
         /\ unacked' = [unacked EXCEPT ![Current[1]] = 1]
         /\ UNCHANGED <<batches, ledger, receipt, mapping>>
<1>1. /\ w.pc = "deliver" /\ ~InPlace(jira[Current[1]], CurrentIntent) /\ WriteJira
      /\ UNCHANGED <<batches, ledger, receipt, mapping>>
  BY DEF DeliverWrite, AnswerLost
<1>2. PICK o, d : w' = [w EXCEPT !.pc = "record", !.processed = w.processed \cup {First},
                                 !.outcome = o, !.delay = d]
  BY DEF DeliverWrite, AnswerLost, Outcome
<1>3. w' = [w EXCEPT !.pc = "record", !.processed = w'.processed, !.outcome = w'.outcome, !.delay = w'.delay]
  BY <1>2 DEF DeliveryInv, Shapes
<1>4. Current[1] \in Teams
  <2>1. w.queue # {}
    BY <1>1 DEF DeliveryInv, WorkerInStep
  <2> QED
    BY <2>1, AtHand
<1> QED
  BY <1>1, <1>3, <1>4, WriteStep

\* Every step keeps the invariant.
LEMMA InvNext == DeliveryInv /\ [Next]_vars => DeliveryInv'
<1> SUFFICES ASSUME DeliveryInv, [Next]_vars PROVE DeliveryInv'
  OBVIOUS
<1>1. CASE DeliverWrite \/ AnswerLost
  BY <1>1, WriteActs
<1>2. CASE RecordSuccess
  <2>1. PICK c : c = Current[1]
    OBVIOUS
  <2> QED
    BY <1>2, <2>1, SuccessStep
<1>3. CASE RecordFailure
  BY <1>3, FailureStep
<1>4. CASE \E t \in Teams : CommitBatch(t)
  BY <1>4, CommitStep
<1>5. CASE \/ Poll \/ Fetch \/ DeliverFound \/ DeliverRefused \/ DeliverFails
           \/ RecordAborts \/ Crash \/ Clock \/ UNCHANGED vars
  BY <1>5, WorkerSteps
<1> QED
  BY <1>1, <1>2, <1>3, <1>4, <1>5 DEF Next, Work, Environment

\* The invariant holds in every behaviour.
LEMMA InvHolds == Spec => []DeliveryInv
<1>1. Init => DeliveryInv
  BY InvInit
<1>2. DeliveryInv /\ [Next]_vars => DeliveryInv'
  BY InvNext
<1> QED
  BY <1>1, <1>2, PTL DEF Spec
-----------------------------------------------------------------------------
(* The theorems.                                                           *)

\* Jira is the replay of the delivered intents of each team in script order
\* and at most one more: the retry of an intent whose receipt was lost writes
\* nothing twice, and nothing is written out of order
\* (V2JiraDeliveryWorker.drain_once, V2JiraIntentAdapter.deliver).
THEOREM JiraReplaysTheLedger == Spec => []JiraIsReplay
<1>1. DeliveryInv => JiraIsReplay
  <2> SUFFICES ASSUME DeliveryInv PROVE JiraIsReplay
    OBVIOUS
  <2>1. ASSUME NEW t \in Teams
        PROVE  /\ DeliveredOf(t) = 1..Acked(t) /\ Acked(t) + unacked[t] <= Len(Script)
               /\ jira[t] = Replayed[Acked(t) + unacked[t]]
    <3>1. /\ Acked(t) + unacked[t] \in 0..Size /\ Size \in Nat /\ DeliveredOf(t) = 1..Acked(t)
          /\ jira[t] = Replayed[Acked(t) + unacked[t]]
      BY TeamFacts
    <3> QED
      BY <3>1 DEF Size
  <2> QED
    BY <2>1 DEF JiraIsReplay, Acked
<1> QED
  BY <1>1, InvHolds, PTL

\* The adapter meets neither a missing mapping nor an ambiguous marker: the
\* receipts of an intent's predecessors recorded what it needs
\* (V2JiraIntentAdapter._mapping, the marker searches).
THEOREM AdapterNeverBlocked == Spec => []AdapterReady
<1>1. DeliveryInv => AdapterReady
  <2> SUFFICES ASSUME DeliveryInv, w.pc = "deliver"
               PROVE  HasMappings(Current[1], CurrentIntent) /\ ~Unreadable(jira[Current[1]], CurrentIntent)
    BY DEF AdapterReady
  <2> DEFINE c == Current[1]
             p == Current[2]
             n == Acked(c)
             x == Script[p]
  <2>1. c \in Teams /\ p \in Positions /\ p = n + 1
    <3>1. w.queue # {}
      BY DEF DeliveryInv, WorkerInStep
    <3> QED
      BY <3>1, AtHand
  <2>2. n \in Nat /\ Told(jira[c], n + unacked[c])
    BY <2>1, TeamFacts
  <2>3. ASSUME NEW r \in RequiredMappings(x) PROVE <<c, r[1], r[2]>> \in mapping
    <3>1. PICK k \in 1..(p - 1) : r \in ResourceOf(Script[k])
      BY <2>1, ScriptAssumption
    <3>2. k \in 1..n
      <4> HIDE DEF c, p, n
      <4> QED
        BY <2>1, <2>2
    <3> QED
      BY <2>1, <3>1, <3>2 DEF DeliveryInv, TeamInStep
  <2>4. ~Unreadable(jira[c], x)
    <3>1. /\ \A i \in Issues : jira[c].count[<<"ISSUE", i>>] <= 1
          /\ \A o \in Sprints : jira[c].count[<<"SPRINT", o>>] <= 1
          /\ jira[c].count[<<"BOARD", 0>>] = jira[c].count[<<"PROJECT", 0>>]
          /\ jira[c].count \in [Resources -> Nat]
      BY <2>2 DEF Told, Unambiguous, Provider
    <3>2. /\ \A i \in Issues : <<"ISSUE", i>> \in Resources
          /\ \A o \in Sprints : <<"SPRINT", o>> \in Resources
          /\ <<"BOARD", 0>> \in Resources /\ <<"PROJECT", 0>> \in Resources
      BY DEF Resources
    <3>3. /\ x.op \in {"CREATE_ISSUE"} => x.n \in Issues
          /\ x.op \in {"CREATE_SPRINT"} => x.n \in Sprints
      BY <2>1, ScriptFacts
    <3> HIDE DEF c, p, n, x
    <3>4. ASSUME x.op \in {"CREATE_ISSUE", "CREATE_SPRINT"}, NEW r \in ResourceOf(x)
          PROVE  ~(jira[c].count[r] > 1)
      <4>1. CASE x.op = "CREATE_ISSUE"
        <5>1. r = <<"ISSUE", x.n>> /\ x.n \in Issues
          BY <3>3, <4>1 DEF ResourceOf
        <5>2. jira[c].count[<<"ISSUE", x.n>>] <= 1 /\ jira[c].count[<<"ISSUE", x.n>>] \in Nat
          BY <3>1, <3>2, <5>1
        <5> QED
          BY <5>1, <5>2
      <4>2. CASE x.op = "CREATE_SPRINT"
        <5>1. r = <<"SPRINT", x.n>> /\ x.n \in Sprints
          BY <3>3, <4>2 DEF ResourceOf
        <5>2. jira[c].count[<<"SPRINT", x.n>>] <= 1 /\ jira[c].count[<<"SPRINT", x.n>>] \in Nat
          BY <3>1, <3>2, <5>1
        <5> QED
          BY <5>1, <5>2
      <4> QED
        BY <3>4, <4>1, <4>2
    <3>5. ~(jira[c].count[<<"BOARD", 0>>] = 0 /\ jira[c].count[<<"PROJECT", 0>>] > 0)
      BY <3>1, <3>2
    <3> QED
      BY <3>4, <3>5 DEF Unreadable
  <2> QED
    BY <2>3, <2>4 DEF HasMappings, CurrentIntent
<1> QED
  BY <1>1, InvHolds, PTL

\* Jira shows a sprint as active only when its scope is there and every
\* earlier sprint of the team is closed, whatever was lost or repeated
\* (_start_sprint, _complete_sprint, _scope_sprint).
THEOREM SprintsShownInOrder == Spec => []SprintsInOrder
<1>1. DeliveryInv => SprintsInOrder
  <2> SUFFICES ASSUME DeliveryInv, NEW t \in Teams, NEW o \in Sprints, jira[t].sprint[o] = "active"
               PROVE  /\ o \in jira[t].scoped
                      /\ \A p \in Sprints : p < o => jira[t].sprint[p] = "closed"
    BY DEF SprintsInOrder
  <2> DEFINE n == Acked(t) + unacked[t]
  <2>1. SprintStory(jira[t], n) /\ n \in Nat
    BY TeamFacts DEF Told
  <2> HIDE DEF n
  <2>2. PICK k \in At("START_SPRINT", o) : k <= n
    BY <2>1 DEF SprintStory
  <2>3. \A op, q : \A j \in At(op, q) : j \in Nat
    BY SliceAssumption DEF At, Positions
  <2>4. o \in jira[t].scoped
    <3>1. PICK j \in At("SCOPE_SPRINT", o) : j < k
      BY <2>2, ScriptAssumption
    <3>2. j <= n
      BY <2>1, <2>2, <2>3, <3>1
    <3> QED
      BY <2>1, <3>1, <3>2 DEF SprintStory
  <2>5. ASSUME NEW p \in Sprints, p < o PROVE jira[t].sprint[p] = "closed"
    <3>1. PICK j \in At("COMPLETE_SPRINT", p) : j < k
      BY <2>2, <2>5, ScriptAssumption
    <3>2. j <= n
      BY <2>1, <2>2, <2>3, <3>1
    <3> QED
      BY <2>1, <3>1, <3>2 DEF SprintStory
  <2> QED
    BY <2>4, <2>5
<1> QED
  BY <1>1, InvHolds, PTL

\* Delivery implements IntentDelivery: the intents of a team take effect in
\* ledger order, each is written at most once, and none is written before the
\* last is acknowledged, although answers are lost, receipts fail to commit
\* and the worker dies between the two (drain_once, record_success).
THEOREM DeliversExactly == Spec => RefinesDelivery
<1> DEFINE tot == [t \in Teams |-> Cardinality(CommittedOf(t))]
           ack == [t \in Teams |-> Cardinality(DeliveredOf(t))]
           app == [t \in Teams |-> Cardinality(DeliveredOf(t)) + unacked[t]]
<1>1. ASSUME Init PROVE Exactly!Init
  <2>1. DeliveryInv
    BY <1>1, InvInit
  <2>2. \A t \in Teams : Cardinality(CommittedOf(t)) = 0
    <3>1. \A t \in Teams : CommittedOf(t) = {}
      BY <1>1, SliceAssumption DEF Init, CommittedOf
    <3> QED
      BY <3>1, FS_EmptySet
  <2>3. \A t \in Teams : Cardinality(DeliveredOf(t)) = 0
    <3>1. \A t \in Teams : DeliveredOf(t) = {}
      BY <1>1 DEF Init, DeliveredOf, Delivered, NoReceipt
    <3> QED
      BY <3>1, FS_EmptySet
  <2>4. \A t \in Teams : unacked[t] = 0
    BY <1>1 DEF Init
  <2> QED
    BY <2>2, <2>3, <2>4 DEF Exactly!Init
<1>2. ASSUME DeliveryInv, [Next]_vars PROVE [Exactly!Next]_(Exactly!vars)
  <2>1. DeliveryInv'
    BY <1>2, InvNext
  <2>2. \A t \in Teams : /\ tot[t] = Committed(t) /\ ack[t] = Acked(t) /\ app[t] = Acked(t) + unacked[t]
                         /\ Committed(t) \in Nat /\ Acked(t) \in Nat
    <3>1. ASSUME NEW t \in Teams PROVE Cardinality(CommittedOf(t)) = Committed(t) /\ Committed(t) \in Nat
      <4>1. Committed(t) \in Nat
        BY <1>2, CommittedPart DEF DeliveryInv
      <4>2. Cardinality(1..Committed(t)) = Committed(t)
        BY <4>1, FirstNumbers
      <4> QED
        BY <4>1, <4>2 DEF CommittedOf, Committed
    <3>2. \A t \in Teams : Acked(t) \in Nat
      BY <1>2, TeamFacts
    <3> QED
      BY <3>1, <3>2 DEF Acked
  <2>3. \A t \in Teams : /\ tot'[t] = Committed(t)' /\ ack'[t] = Acked(t)' /\ app'[t] = Acked(t)' + unacked'[t]
    <3>1. ASSUME NEW t \in Teams PROVE Cardinality(CommittedOf(t))' = Committed(t)'
      <4>1. Committed(t)' \in Nat
        <5>1. batches'[t] \in 0..Slices
          BY <2>1 DEF DeliveryInv, Shapes
        <5> QED
          BY <5>1, SliceAssumption DEF Committed
      <4>2. Cardinality(1..Committed(t)') = Committed(t)'
        BY <4>1, FirstNumbers
      <4> QED
        BY <4>2 DEF CommittedOf, Committed
    <3> QED
      BY <3>1 DEF Acked
  <2>4. /\ tot = [t \in Teams |-> tot[t]] /\ tot' = [t \in Teams |-> tot'[t]]
        /\ ack = [t \in Teams |-> ack[t]] /\ ack' = [t \in Teams |-> ack'[t]]
        /\ app = [t \in Teams |-> app[t]] /\ app' = [t \in Teams |-> app'[t]]
    OBVIOUS
  <2>5. CASE DeliverWrite \/ AnswerLost
    <3>1. PICK c : c = Current[1]
      OBVIOUS
    <3>2. /\ c \in Teams /\ unacked[c] = 0 /\ Acked(c) < Committed(c)
          /\ unacked' = [unacked EXCEPT ![c] = 1] /\ UNCHANGED <<batches, receipt>>
      BY <1>2, <2>5, <3>1, WriteActs
    <3>3. \A t \in Teams : tot'[t] = tot[t] /\ ack'[t] = ack[t]
      BY <3>2 DEF CommittedOf, DeliveredOf, Delivered
    <3>4. /\ unacked'[c] = 1 /\ \A t \in Teams \ {c} : unacked'[t] = unacked[t]
      BY <1>2, <3>2 DEF DeliveryInv, Shapes
    <3>5. app[c] = ack[c] /\ app[c] < tot[c] /\ app'[c] = app[c] + 1
          /\ \A t \in Teams \ {c} : app'[t] = app[t]
      BY <2>2, <3>2, <3>3, <3>4
    <3> HIDE DEF tot, ack, app
    <3>6. tot' = tot /\ ack' = ack /\ app' = [app EXCEPT ![c] = @ + 1]
      BY <2>4, <3>2, <3>3, <3>5
    <3>7. Exactly!Apply(c)
      BY <3>5, <3>6 DEF Exactly!Apply, tot, ack, app
    <3> QED
      BY <3>2, <3>7 DEF Exactly!Next
  <2>6. CASE RecordSuccess
    <3>1. PICK c : c = Current[1]
      OBVIOUS
    <3>2. /\ c \in Teams /\ Acked(c) < Committed(c)
          /\ Acked(c)' = Acked(c) + 1
          /\ \A t \in Teams \ {c} : Acked(t)' = Acked(t)
          /\ unacked' = [unacked EXCEPT ![c] = 0]
      BY <1>2, <2>6, <3>1, SuccessStep
    <3>3. batches' = batches
      BY <2>6 DEF RecordSuccess
    <3>4. \A t \in Teams : tot'[t] = tot[t]
      BY <3>3 DEF CommittedOf
    <3>5. unacked'[c] = 0 /\ unacked[c] \in {0, 1} /\ \A t \in Teams \ {c} : unacked'[t] = unacked[t]
      BY <1>2, <3>2 DEF DeliveryInv, Shapes
    <3>6. /\ ack'[c] = ack[c] + 1 /\ ack[c] < tot[c] /\ ack[c] \in Nat
          /\ app'[c] = ack[c] + 1 /\ app[c] = ack[c] + unacked[c]
          /\ \A t \in Teams \ {c} : ack'[t] = ack[t] /\ app'[t] = app[t]
      BY <2>2, <2>3, <3>2, <3>5
    <3> HIDE DEF tot, ack, app
    <3>7. tot' = tot /\ ack' = [ack EXCEPT ![c] = @ + 1]
      BY <2>4, <3>2, <3>4, <3>6
    <3>8. CASE unacked[c] = 1
      <4>1. app' = app /\ ack[c] < app[c]
        BY <2>4, <3>2, <3>6, <3>8
      <4>2. Exactly!Acknowledge(c)
        BY <3>7, <4>1 DEF Exactly!Acknowledge, tot, ack, app
      <4> QED
        BY <3>2, <4>2 DEF Exactly!Next
    <3>9. CASE unacked[c] = 0
      <4>1. app' = [app EXCEPT ![c] = @ + 1] /\ ack[c] = app[c] /\ app[c] < tot[c]
        BY <2>4, <3>2, <3>6, <3>9
      <4>2. Exactly!AcknowledgeInPlace(c)
        BY <3>7, <4>1 DEF Exactly!AcknowledgeInPlace, tot, ack, app
      <4> QED
        BY <3>2, <4>2 DEF Exactly!Next
    <3> QED
      BY <3>5, <3>8, <3>9
  <2>7. CASE RecordFailure
    <3>1. \A t \in Teams : Acked(t)' = Acked(t)
      BY <1>2, <2>7, FailureStep
    <3>2. UNCHANGED <<batches, unacked>>
      BY <2>7 DEF RecordFailure
    <3>3. \A t \in Teams : tot'[t] = tot[t] /\ ack'[t] = ack[t] /\ app'[t] = app[t]
      BY <2>2, <2>3, <3>1, <3>2 DEF CommittedOf
    <3> HIDE DEF tot, ack, app
    <3>4. tot' = tot /\ ack' = ack /\ app' = app
      BY <2>4, <3>3
    <3> QED
      BY <3>4 DEF Exactly!vars, tot, ack, app
  <2>8. CASE \E t \in Teams : CommitBatch(t)
    <3>1. PICK c \in Teams : CommitBatch(c)
      BY <2>8
    <3>2. /\ \A t \in Teams : Acked(t)' = Acked(t)
          /\ \A t \in Teams \ {c} : Committed(t)' = Committed(t)
          /\ Committed(c)' \in Nat /\ Committed(c)' >= Committed(c)
      BY <1>2, <3>1, CommitStep
    <3>3. unacked' = unacked
      BY <3>1 DEF CommitBatch
    <3>4. \A t \in Teams : ack'[t] = ack[t] /\ app'[t] = app[t]
      BY <2>2, <2>3, <3>2, <3>3
    <3>5. /\ tot'[c] \in Nat /\ tot[c] \in Nat /\ tot'[c] >= tot[c]
          /\ \A t \in Teams \ {c} : tot'[t] = tot[t]
      BY <2>2, <2>3, <3>2
    <3> HIDE DEF tot, ack, app
    <3>6. ack' = ack /\ app' = app /\ tot' = [tot EXCEPT ![c] = tot'[c]]
      BY <2>4, <3>4, <3>5
    <3>7. CASE tot'[c] > tot[c]
      <4>1. Exactly!Commit(c)
        BY <3>5, <3>6, <3>7 DEF Exactly!Commit, tot, ack, app
      <4> QED
        BY <4>1 DEF Exactly!Next
    <3>8. CASE ~(tot'[c] > tot[c])
      <4>1. tot'[c] = tot[c]
        BY <3>5, <3>8
      <4>2. tot' = tot
        BY <2>4, <3>6, <4>1
      <4> QED
        BY <3>6, <4>2 DEF Exactly!vars, tot, ack, app
    <3> QED
      BY <3>7, <3>8
  <2>9. CASE \/ Poll \/ Fetch \/ DeliverFound \/ DeliverRefused \/ DeliverFails
             \/ RecordAborts \/ Crash \/ Clock \/ UNCHANGED vars
    <3>1. UNCHANGED <<batches, receipt, unacked>>
      BY <2>9 DEF Poll, Fetch, DeliverFound, DeliverRefused, DeliverFails, RecordAborts, Crash, Clock, vars
    <3> QED
      BY <3>1 DEF Exactly!vars, CommittedOf, DeliveredOf, Delivered
  <2> QED
    BY <1>2, <2>5, <2>6, <2>7, <2>8, <2>9 DEF Next, Work, Environment
<1> HIDE DEF tot, ack, app
<1> QED
  BY <1>1, <1>2, InvHolds, PTL DEF Spec, RefinesDelivery, Exactly!Spec
=============================================================================
