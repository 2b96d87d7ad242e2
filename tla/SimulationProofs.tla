-------------------------- MODULE SimulationProofs --------------------------
(***************************************************************************)
(* Proofs about SprintSimulation for any number of items, members and      *)
(* ticks, any workflow and any sampled times.  The newest event of an item *)
(* stands for the step it is in and for the ticks it has spent there       *)
(* (InStep).                                                               *)
(***************************************************************************)
EXTENDS SprintSimulation, FiniteSetTheorems, TLAPS

N == Cardinality(Items)

Visit ==
  [step : 1..LastStep, work : WorkTimes, full : FullTimes, worked : Nat, spent : Nat,
   worker : Members \cup {0}, done : BOOLEAN]

MemberState == [busy : BOOLEAN, on : Items \cup {0}]

EventRow == [item : Items \cup {0}, step : 0..LastStep, tick : Nat, least : Nat]

Typed ==
  /\ item \in [Items -> Visit] /\ member \in [Members -> MemberState]
  /\ tick \in Nat /\ turn \in Nat /\ turn \in 1..(N + 1)
  /\ events \in Seq(EventRow)

Newest(h, i, j) == h[j].item = i /\ \A l \in DOMAIN h : l > j => h[l].item # i

\* The turn an item still has in this tick.
Due(i) == IF turn > i THEN 0 ELSE 1

InStep ==
  \A i \in Items, j \in DOMAIN events :
    Newest(events, i, j) =>
      events[j].step = item[i].step /\ events[j].tick + item[i].spent + Due(i) <= tick

WorkWithinStay == \A i \in Items : item[i].worked <= item[i].spent

SimInv == Typed /\ WorkWithinStay /\ InStep /\ ItemsFollowWorkflow
-----------------------------------------------------------------------------
LEMMA Counts == N \in Nat /\ Items = 1..N /\ IsFiniteSet(Items) /\ 0 \notin Items
<1>1. IsFiniteSet(Items) /\ Items = 1..N
  BY SimulationAssumption DEF N
<1>2. N \in Nat
  BY <1>1, FS_CardinalityType DEF N
<1> QED
  BY <1>1, <1>2

LEMMA EntriesTyped ==
  ASSUME NEW s \in 1..LastStep, NEW y \in Entries(s)
  PROVE  /\ y \in Visit /\ y.step = s /\ y.worked = 0 /\ y.spent = 0 /\ y.worker = 0 /\ ~y.done
<1>1. PICK w \in WorkTimes, f \in FullTimes : y = Entered(s, w, f)
  BY DEF Entries
<1>2. y = [step |-> s, work |-> w, full |-> f, worked |-> 0, spent |-> 0, worker |-> 0, done |-> FALSE]
  BY <1>1 DEF Entered
<1> QED
  BY <1>2 DEF Visit

LEMMA TimesTyped ==
  ASSUME Typed, NEW i \in Items, NEW j \in DOMAIN events
  PROVE  events[j].tick \in Nat /\ item[i].spent \in Nat
<1>1. item[i] \in Visit
  BY DEF Typed
<1>2. events[j] \in EventRow
  BY DEF Typed
<1> QED
  BY <1>1, <1>2 DEF Visit, EventRow

LEMMA TargetsAreSteps == \A s \in 1..LastStep : Targets(s) \subseteq 1..LastStep
<1>1. LastStep \in Nat /\ MoveLeft \in [1..LastStep -> SUBSET (1..LastStep)]
  BY SimulationAssumption
<1>2. \A s \in 1..LastStep : MoveLeft[s] \subseteq 1..LastStep
  BY <1>1
<1>3. \A s \in 1..LastStep : Forward(s) \subseteq 1..LastStep
  BY <1>1 DEF Forward
<1> QED
  BY <1>2, <1>3 DEF Targets

\* What an event at the end of the schedule changes: it is the newest of its
\* item, and only the event that was that before is followed by it.
LEMMA AppendFollows ==
  ASSUME NEW h \in Seq(EventRow), NEW e \in EventRow, NEW g, g = Append(h, e)
  PROVE  /\ g \in Seq(EventRow)
         /\ \A j, k \in DOMAIN g :
              Follows(g, j, k) =>
                \/ j \in DOMAIN h /\ k \in DOMAIN h /\ Follows(h, j, k) /\ g[j] = h[j] /\ g[k] = h[k]
                \/ j \in DOMAIN h /\ Newest(h, e.item, j) /\ g[j] = h[j] /\ g[k] = e
         /\ \A i : \A j \in DOMAIN g :
              Newest(g, i, j) =>
                \/ i = e.item /\ g[j] = e
                \/ i # e.item /\ j \in DOMAIN h /\ Newest(h, i, j) /\ g[j] = h[j]
<1> PICK n : n = Len(h)
  OBVIOUS
<1>1. /\ n \in Nat /\ DOMAIN h = 1..n /\ DOMAIN g = 1..(n + 1) /\ g \in Seq(EventRow)
      /\ \A j \in 1..n : g[j] = h[j]
      /\ g[n + 1] = e
  OBVIOUS
<1>2. \A j \in 1..(n + 1) : j \in 1..n \/ j = n + 1
  BY <1>1
<1>3. ASSUME NEW j \in DOMAIN g, NEW k \in DOMAIN g, Follows(g, j, k)
      PROVE  \/ j \in DOMAIN h /\ k \in DOMAIN h /\ Follows(h, j, k) /\ g[j] = h[j] /\ g[k] = h[k]
             \/ j \in DOMAIN h /\ Newest(h, e.item, j) /\ g[j] = h[j] /\ g[k] = e
  <2>1. /\ j \in 1..(n + 1) /\ k \in 1..(n + 1) /\ j < k /\ g[j].item = g[k].item
        /\ \A l \in (j + 1)..(k - 1) : g[l].item # g[j].item
    BY <1>1, <1>3 DEF Follows
  <2>2. j \in 1..n /\ g[j] = h[j]
    BY <1>1, <2>1
  <2>3. CASE k \in 1..n
    <3>1. \A l \in (j + 1)..(k - 1) : l \in 1..n
      BY <1>1, <2>1, <2>2, <2>3
    <3>2. \A l \in (j + 1)..(k - 1) : h[l].item # h[j].item
      BY <1>1, <2>1, <2>2, <3>1
    <3> QED
      BY <1>1, <2>1, <2>2, <2>3, <3>2 DEF Follows
  <2>4. CASE k = n + 1
    <3>1. g[k] = e /\ h[j].item = e.item
      BY <1>1, <2>1, <2>2, <2>4
    <3>2. \A l \in 1..n : l > j => l \in (j + 1)..(k - 1)
      BY <1>1, <2>2, <2>4
    <3>3. \A l \in 1..n : l > j => h[l].item # e.item
      BY <1>1, <2>1, <2>2, <3>1, <3>2
    <3> QED
      BY <1>1, <2>2, <3>1, <3>3 DEF Newest
  <2> QED
    BY <1>2, <2>1, <2>3, <2>4
<1>4. ASSUME NEW i, NEW j \in DOMAIN g, Newest(g, i, j)
      PROVE  \/ i = e.item /\ g[j] = e
             \/ i # e.item /\ j \in DOMAIN h /\ Newest(h, i, j) /\ g[j] = h[j]
  <2>1. g[j].item = i /\ \A l \in DOMAIN g : l > j => g[l].item # i
    BY <1>4 DEF Newest
  <2>2. CASE j = n + 1
    BY <1>1, <2>1, <2>2
  <2>3. CASE j \in 1..n
    <3>1. n + 1 \in DOMAIN g /\ n + 1 > j
      BY <1>1, <2>3
    <3>2. e.item # i
      BY <1>1, <2>1, <3>1
    <3>3. \A l \in DOMAIN h : l > j => h[l].item # i
      BY <1>1, <2>1
    <3> QED
      BY <1>1, <2>1, <2>3, <3>2, <3>3 DEF Newest
  <2> QED
    BY <1>1, <1>2, <2>2, <2>3
<1> QED
  BY <1>1, <1>3, <1>4

LEMMA EventAdded ==
  ASSUME events \in Seq(EventRow), NEW e \in EventRow, events' = Append(events, e)
  PROVE  /\ events' \in Seq(EventRow)
         /\ \A j, k \in DOMAIN events' :
              Follows(events', j, k) =>
                \/ /\ j \in DOMAIN events /\ k \in DOMAIN events /\ Follows(events, j, k)
                   /\ events'[j] = events[j] /\ events'[k] = events[k]
                \/ j \in DOMAIN events /\ Newest(events, e.item, j) /\ events'[j] = events[j] /\ events'[k] = e
         /\ \A i : \A j \in DOMAIN events' :
              Newest(events', i, j) =>
                \/ i = e.item /\ events'[j] = e
                \/ i # e.item /\ j \in DOMAIN events /\ Newest(events, i, j) /\ events'[j] = events[j]
<1> PICK h : h = events
  OBVIOUS
<1> PICK g : g = events'
  OBVIOUS
<1>1. h \in Seq(EventRow) /\ g = Append(h, e)
  OBVIOUS
<1>2. /\ g \in Seq(EventRow)
      /\ \A j, k \in DOMAIN g :
           Follows(g, j, k) =>
             \/ j \in DOMAIN h /\ k \in DOMAIN h /\ Follows(h, j, k) /\ g[j] = h[j] /\ g[k] = h[k]
             \/ j \in DOMAIN h /\ Newest(h, e.item, j) /\ g[j] = h[j] /\ g[k] = e
      /\ \A i : \A j \in DOMAIN g :
           Newest(g, i, j) =>
             \/ i = e.item /\ g[j] = e
             \/ i # e.item /\ j \in DOMAIN h /\ Newest(h, i, j) /\ g[j] = h[j]
  BY <1>1, AppendFollows
<1> QED
  BY <1>2

LEMMA InitInv == Init => SimInv
<1> SUFFICES ASSUME Init PROVE SimInv
  OBVIOUS
<1>1. LastStep \in Nat \ {0} /\ 1 \in 1..LastStep
  BY SimulationAssumption
<1>2. events \in Seq(EventRow) /\ DOMAIN events = 1..N /\ Len(events) = N
  <2>1. events = [i \in 1..N |-> [item |-> i, step |-> 1, tick |-> 0, least |-> 0]]
    BY Counts DEF Init
  <2>2. \A i \in 1..N : [item |-> i, step |-> 1, tick |-> 0, least |-> 0] \in EventRow
    BY <1>1, Counts DEF EventRow
  <2> QED
    BY <2>1, <2>2, Counts
<1>3. \A i \in 1..N : events[i].item = i /\ events[i].step = 1 /\ events[i].tick = 0
  BY Counts DEF Init
<1>4. \A i \in Items : item[i] \in Visit /\ item[i].step = 1 /\ item[i].worked = 0 /\ item[i].spent = 0
  BY <1>1, EntriesTyped DEF Init
<1>5. Typed
  <2>1. item \in [Items -> Visit]
    BY <1>4 DEF Init
  <2>2. member \in [Members -> MemberState]
    BY DEF Init, FreshMembers, MemberState
  <2> QED
    BY <1>2, <2>1, <2>2, Counts DEF Init, Typed
<1>6. WorkWithinStay
  BY <1>4 DEF Init, WorkWithinStay
<1>7. InStep
  <2>1. \A i \in Items : Due(i) = 0 /\ tick = 0
    BY <1>2, Counts DEF Init, Due
  <2> QED
    BY <1>2, <1>3, <1>4, <2>1 DEF InStep, Newest
<1>8. ItemsFollowWorkflow
  BY <1>2, <1>3 DEF ItemsFollowWorkflow, Follows
<1> QED
  BY <1>5, <1>6, <1>7, <1>8 DEF SimInv

\* What an item that has its turn keeps or changes: its type, the times it has
\* spent, and the member table.
LEMMA WorkedTyped ==
  ASSUME Typed, WorkWithinStay, NEW i \in Items, NEW m \in Workers(i), NEW x, x = Worked(i, m)
  PROVE  /\ x \in Visit /\ x.step = item[i].step /\ x.spent = item[i].spent + 1
         /\ x.worked <= x.spent /\ m \in Members \cup {0}
<1>1. item[i] \in Visit
  BY DEF Typed
<1>2. item[i].step \in 1..LastStep /\ CanWork[item[i].step] \subseteq Members
  BY <1>1, SimulationAssumption DEF Visit
<1>3. m \in Members \cup {0}
  BY <1>1, <1>2 DEF Workers, Available, Visit
<1>4. /\ x.step = item[i].step /\ x.work = item[i].work /\ x.full = item[i].full
      /\ x.worked = (IF m = 0 THEN item[i].worked ELSE item[i].worked + 1)
      /\ x.spent = item[i].spent + 1 /\ x.worker = m /\ x.done = item[i].done
      /\ x = [step |-> x.step, work |-> x.work, full |-> x.full, worked |-> x.worked,
              spent |-> x.spent, worker |-> x.worker, done |-> x.done]
  BY <1>1 DEF Worked, Visit
<1>5. /\ item[i].worked \in Nat /\ item[i].spent \in Nat /\ item[i].worked <= item[i].spent
      /\ item[i].work \in WorkTimes /\ item[i].full \in FullTimes /\ item[i].done \in BOOLEAN
  BY <1>1 DEF Visit, WorkWithinStay
<1> HIDE <1>1
<1>6. x \in Visit
  <2> PICK s, w, f, v, t, k, b :
        x.step = s /\ x.work = w /\ x.full = f /\ x.worked = v /\ x.spent = t /\ x.worker = k /\ x.done = b
    OBVIOUS
  <2>1. /\ s \in 1..LastStep /\ w \in WorkTimes /\ f \in FullTimes /\ v \in Nat /\ t \in Nat
        /\ k \in Members \cup {0} /\ b \in BOOLEAN
    BY <1>2, <1>3, <1>4, <1>5
  <2>2. x = [step |-> s, work |-> w, full |-> f, worked |-> v, spent |-> t, worker |-> k, done |-> b]
    BY <1>4
  <2> HIDE <1>4
  <2> QED
    BY <2>1, <2>2 DEF Visit
<1> QED
  BY <1>3, <1>4, <1>5, <1>6

\* A ready item has spent the larger of its two times and a tick at least.
LEMMA ReadyHasStayed ==
  ASSUME NEW x \in Visit, x.worked <= x.spent, Ready(x)
  PROVE  Least(x) \in Nat /\ Least(x) <= x.spent
<1>1. /\ x.work \in Nat /\ x.full \in Nat /\ x.worked \in Nat /\ x.spent \in Nat
  BY SimulationAssumption DEF Visit
<1> QED
  BY <1>1 DEF Ready, Least

\* The turn of an item that is not done.
LEMMA TurnInv ==
  ASSUME SimInv, NEW i, i = turn, turn <= N, ProcessItem(i), turn' = turn + 1, tick' = tick
  PROVE  SimInv'
<1>1. /\ Typed /\ i \in Items /\ i \in Nat /\ turn \in Nat /\ N \in Nat /\ item[i] \in Visit
      /\ tick \in Nat /\ turn' \in 1..(N + 1)
  BY Counts DEF SimInv, Typed
<1> DEFINE H(m) == IF m = 0 THEN member ELSE MarkBusy(member, m, i)
<1>2. PICK m \in Workers(i) :
        \/ /\ ~Ready(Worked(i, m))
           /\ item' = [item EXCEPT ![i] = Worked(i, m)]
           /\ member' = H(m)
           /\ UNCHANGED events
        \/ /\ Ready(Worked(i, m))
           /\ member' = Release(H(m), m)
           /\ Transition(i, Worked(i, m))
  BY DEF ProcessItem
<1> PICK x : x = Worked(i, m)
  OBVIOUS
<1>3. /\ x \in Visit /\ x.step = item[i].step /\ x.spent = item[i].spent + 1
      /\ x.worked <= x.spent /\ m \in Members \cup {0}
  BY <1>1, WorkedTyped DEF SimInv
<1>4. 0 \notin Members
  BY SimulationAssumption
<1>5. member' \in [Members -> MemberState]
  <2>1. H(m) \in [Members -> MemberState]
    BY <1>1, <1>3, <1>4 DEF MarkBusy, MemberState, Typed
  <2>2. Release(H(m), m) \in [Members -> MemberState]
    <3> HIDE DEF H
    <3> QED
      BY <1>3, <1>4, <2>1 DEF Release, MemberState
  <2> HIDE DEF H
  <2> QED
    BY <1>2, <2>1, <2>2
\* The item: it stays, one tick older, or moves to a target of its step.
<1>8. PICK y \in Visit :
        /\ item' = [item EXCEPT ![i] = y]
        /\ y.worked <= y.spent
        /\ \/ events' = events /\ y.step = item[i].step /\ y.spent = item[i].spent + 1
           \/ \E s \in Targets(x.step) :
                /\ Ready(x) /\ events' = Append(events, Event(i, s, Least(x)))
                /\ y.step = s /\ y.spent = 0
  <2>1. CASE ~Ready(x) /\ item' = [item EXCEPT ![i] = x] /\ UNCHANGED events
    BY <1>3, <2>1
  <2>2. CASE Ready(x) /\ Transition(i, x)
    <3>1. ASSUME NEW s \in Targets(x.step), NEW done \in BOOLEAN, Move(i, x, s, done)
          PROVE  \E y \in Visit :
                   /\ item' = [item EXCEPT ![i] = y] /\ y.worked <= y.spent
                   /\ events' = Append(events, Event(i, s, Least(x))) /\ y.step = s /\ y.spent = 0
      <4>1. PICK z \in Entries(s) : item' = [item EXCEPT ![i] = [z EXCEPT !.done = done]]
        BY <3>1 DEF Move
      <4>2. s \in 1..LastStep
        BY <1>3, TargetsAreSteps DEF Visit
      <4>3. z \in Visit /\ z.step = s /\ z.worked = 0 /\ z.spent = 0
        BY <4>2, EntriesTyped
      <4> PICK y : y = [z EXCEPT !.done = done]
        OBVIOUS
      <4>4. y \in Visit /\ y.step = s /\ y.worked = 0 /\ y.spent = 0
        BY <4>3 DEF Visit
      <4>5. events' = Append(events, Event(i, s, Least(x)))
        BY <3>1 DEF Move
      <4>6. item' = [item EXCEPT ![i] = y] /\ y.worked <= y.spent
        BY <4>1, <4>4
      <4> QED
        BY <4>4, <4>5, <4>6
    <3>2. CASE \E s \in Forward(x.step) : Move(i, x, s, s = LastStep)
      <4>1. PICK s \in Forward(x.step) : Move(i, x, s, s = LastStep)
        BY <3>2
      <4>2. s \in Targets(x.step) /\ (s = LastStep) \in BOOLEAN
        BY DEF Targets
      <4> QED
        BY <2>2, <3>1, <4>1, <4>2
    <3>3. CASE \E s \in MoveLeft[x.step] : Move(i, x, s, FALSE)
      <4>1. PICK s \in MoveLeft[x.step] : Move(i, x, s, FALSE)
        BY <3>3
      <4>2. s \in Targets(x.step)
        BY DEF Targets
      <4> QED
        BY <2>2, <3>1, <4>1, <4>2
    <3>4. CASE item' = [item EXCEPT ![i] = [x EXCEPT !.done = TRUE]] /\ UNCHANGED events
      <4> PICK y : y = [x EXCEPT !.done = TRUE]
        OBVIOUS
      <4>1. y \in Visit /\ y.step = x.step /\ y.worked = x.worked /\ y.spent = x.spent
        BY <1>3 DEF Visit
      <4> QED
        BY <1>3, <3>4, <4>1
    <3> QED
      BY <2>2, <3>2, <3>3, <3>4 DEF Transition
  <2> QED
    BY <1>2, <2>1, <2>2
<1>9. /\ \A a \in Items : a # i => item'[a] = item[a]
      /\ item'[i] = y /\ item' \in [Items -> Visit]
  BY <1>1, <1>8 DEF Typed
<1>10. WorkWithinStay'
  BY <1>8, <1>9 DEF SimInv, WorkWithinStay
<1>11. Due(i) = 1 /\ Due(i)' = 0 /\ \A a \in Items : a # i => Due(a)' = Due(a)
  BY <1>1, Counts DEF Due
<1>12. \A j \in DOMAIN events :
         Newest(events, i, j) =>
           events[j].step = x.step /\ events[j].tick \in Nat /\ item[i].spent \in Nat
           /\ events[j].tick + x.spent <= tick
  <2> SUFFICES ASSUME NEW j \in DOMAIN events, Newest(events, i, j)
               PROVE  /\ events[j].step = x.step /\ events[j].tick \in Nat /\ item[i].spent \in Nat
                      /\ events[j].tick + x.spent <= tick
    OBVIOUS
  <2>1. events[j].step = item[i].step /\ events[j].tick + item[i].spent + Due(i) <= tick
    BY <1>1 DEF SimInv, InStep
  <2>2. events[j].tick \in Nat /\ item[i].spent \in Nat
    BY <1>1, TimesTyped
  <2> QED
    BY <1>1, <1>3, <1>11, <2>1, <2>2
<1>13. CASE events' = events /\ y.step = item[i].step /\ y.spent = item[i].spent + 1
  <2>1. InStep'
    <3> SUFFICES ASSUME NEW a \in Items, NEW j \in DOMAIN events, Newest(events, a, j)
                 PROVE  /\ events[j].step = item'[a].step
                        /\ events[j].tick + item'[a].spent + Due(a)' <= tick
      BY <1>13 DEF InStep
    <3>1. CASE a = i
      <4>1. events[j].step = y.step /\ events[j].tick \in Nat /\ y.spent \in Nat
            /\ events[j].tick + y.spent <= tick
        BY <1>3, <1>12, <1>13, <3>1
      <4>2. events[j].tick + y.spent + 0 <= tick
        BY <4>1
      <4> QED
        BY <1>9, <1>11, <3>1, <4>1, <4>2
    <3>2. CASE a # i
      BY <1>9, <1>11, <3>2 DEF SimInv, InStep
    <3> QED
      BY <3>1, <3>2
  <2>2. ItemsFollowWorkflow'
    BY <1>13 DEF SimInv, ItemsFollowWorkflow
  <2>3. Typed'
    BY <1>1, <1>5, <1>9, <1>13 DEF Typed
  <2> QED
    BY <1>10, <2>1, <2>2, <2>3 DEF SimInv
<1>14. CASE \E s \in Targets(x.step) :
              /\ Ready(x) /\ events' = Append(events, Event(i, s, Least(x)))
              /\ y.step = s /\ y.spent = 0
  <2>1. PICK s \in Targets(x.step) :
          /\ Ready(x) /\ events' = Append(events, Event(i, s, Least(x)))
          /\ y.step = s /\ y.spent = 0
    BY <1>14
  <2> PICK e : e = Event(i, s, Least(x))
    OBVIOUS
  <2>2. Least(x) \in Nat /\ Least(x) <= x.spent
    BY <1>3, <2>1, ReadyHasStayed
  <2>3. e.item = i /\ e.step = s /\ e.tick = tick /\ e.least = Least(x) /\ e \in EventRow
    <3>1. s \in 0..LastStep
      BY <1>3, TargetsAreSteps, SimulationAssumption DEF Visit
    <3> QED
      BY <1>1, <2>2, <3>1 DEF Event, EventRow
  <2>4. events \in Seq(EventRow) /\ events' = Append(events, e)
    BY <1>1, <2>1 DEF Typed
  <2>5. InStep'
    <3> SUFFICES ASSUME NEW a \in Items, NEW j \in DOMAIN events', Newest(events', a, j)
                 PROVE  /\ events'[j].step = item'[a].step
                        /\ events'[j].tick + item'[a].spent + Due(a)' <= tick
      BY DEF InStep
    <3>1. \/ a = i /\ events'[j] = e
          \/ a # i /\ j \in DOMAIN events /\ Newest(events, a, j) /\ events'[j] = events[j]
      BY <2>3, <2>4, EventAdded
    <3>2. CASE a = i /\ events'[j] = e
      <4>1. tick + 0 + 0 <= tick
        BY <1>1
      <4> QED
        BY <1>9, <1>11, <2>1, <2>3, <3>2, <4>1
    <3>3. CASE a # i /\ j \in DOMAIN events /\ Newest(events, a, j) /\ events'[j] = events[j]
      BY <1>9, <1>11, <3>3 DEF SimInv, InStep
    <3> QED
      BY <3>1, <3>2, <3>3
  <2>6. ItemsFollowWorkflow'
    <3> SUFFICES ASSUME NEW j \in DOMAIN events', NEW k \in DOMAIN events',
                        events'[j].item \in Items, Follows(events', j, k)
                 PROVE  Lawful(events'[j], events'[k])
      BY DEF ItemsFollowWorkflow
    <3>1. \/ /\ j \in DOMAIN events /\ k \in DOMAIN events /\ Follows(events, j, k)
             /\ events'[j] = events[j] /\ events'[k] = events[k]
          \/ j \in DOMAIN events /\ Newest(events, i, j) /\ events'[j] = events[j] /\ events'[k] = e
      BY <2>3, <2>4, EventAdded
    <3>2. CASE /\ j \in DOMAIN events /\ k \in DOMAIN events /\ Follows(events, j, k)
               /\ events'[j] = events[j] /\ events'[k] = events[k]
      BY <3>2 DEF SimInv, ItemsFollowWorkflow
    <3>3. CASE j \in DOMAIN events /\ Newest(events, i, j) /\ events'[j] = events[j] /\ events'[k] = e
      <4>1. /\ events[j].step = x.step /\ events[j].tick \in Nat /\ item[i].spent \in Nat
            /\ events[j].tick + x.spent <= tick
        BY <1>12, <3>3
      <4>2. tick >= events[j].tick + Least(x) /\ tick > events[j].tick
        BY <1>1, <1>3, <2>2, <4>1
      <4> QED
        BY <2>1, <2>3, <3>3, <4>1, <4>2 DEF Lawful
    <3> QED
      BY <3>1, <3>2, <3>3
  <2>7. Typed'
    <3>1. events' \in Seq(EventRow)
      BY <2>3, <2>4, EventAdded
    <3> QED
      BY <1>1, <1>5, <1>9, <3>1 DEF Typed
  <2> QED
    BY <1>10, <2>5, <2>6, <2>7 DEF SimInv
<1> QED
  BY <1>8, <1>13, <1>14

LEMMA NextInv == SimInv /\ [Next]_vars => SimInv'
<1> SUFFICES ASSUME SimInv, [Next]_vars PROVE SimInv'
  OBVIOUS
<1>1. Typed /\ N \in Nat /\ Items = 1..N /\ turn \in Nat /\ tick \in Nat
  BY Counts DEF SimInv, Typed
<1>2. CASE ProcessTurn
  <2>1. turn <= N /\ turn \in Items /\ turn' = turn + 1 /\ tick' = tick
    BY <1>1, <1>2 DEF ProcessTurn, N, Typed
  <2>2. CASE UNCHANGED <<item, member, events>>
    <3>1. \A a \in Items : Due(a)' = Due(a) \/ (Due(a)' = 0 /\ Due(a) = 1)
      BY <1>1, <2>1 DEF Due
    <3>2. Typed'
      BY <1>1, <2>1, <2>2 DEF Typed
    <3>3. WorkWithinStay' /\ ItemsFollowWorkflow'
      BY <2>2 DEF SimInv, WorkWithinStay, ItemsFollowWorkflow
    <3>4. InStep'
      <4> SUFFICES ASSUME NEW a \in Items, NEW j \in DOMAIN events, Newest(events, a, j)
                   PROVE  events[j].step = item[a].step /\ events[j].tick + item[a].spent + Due(a)' <= tick
        BY <2>1, <2>2 DEF InStep
      <4>1. /\ events[j].step = item[a].step /\ events[j].tick + item[a].spent + Due(a) <= tick
            /\ events[j].tick \in Nat /\ item[a].spent \in Nat
        BY <1>1, TimesTyped DEF SimInv, InStep
      <4> QED
        BY <1>1, <3>1, <4>1
    <3> QED
      BY <3>2, <3>3, <3>4 DEF SimInv
  <2>3. CASE ProcessItem(turn)
    BY <2>1, <2>3, TurnInv
  <2> QED
    BY <1>2, <2>2, <2>3 DEF ProcessTurn
<1>3. CASE NextTick
  <2>1. /\ tick' = tick + 1 /\ turn' = 1 /\ turn > N /\ member' = FreshMembers
        /\ item' = item /\ events' = events
    BY <1>3 DEF NextTick, N
  <2>2. Typed'
    BY <1>1, <2>1 DEF Typed, FreshMembers, MemberState
  <2>3. WorkWithinStay' /\ ItemsFollowWorkflow'
    BY <2>1 DEF SimInv, WorkWithinStay, ItemsFollowWorkflow
  <2>4. InStep'
    <3> SUFFICES ASSUME NEW a \in Items, NEW j \in DOMAIN events, Newest(events, a, j)
                 PROVE  events[j].step = item[a].step /\ events[j].tick + item[a].spent + Due(a)' <= tick + 1
      BY <2>1 DEF InStep
    <3>1. Due(a) = 0 /\ Due(a)' \in {0, 1}
      BY <1>1, <2>1 DEF Due
    <3>2. /\ events[j].step = item[a].step /\ events[j].tick + item[a].spent + Due(a) <= tick
          /\ events[j].tick \in Nat /\ item[a].spent \in Nat
      BY <1>1, TimesTyped DEF SimInv, InStep
    <3> QED
      BY <1>1, <3>1, <3>2
  <2> QED
    BY <2>2, <2>3, <2>4 DEF SimInv
<1>4. CASE Complete
  <2>1. UNCHANGED <<item, member, tick, turn>>
    BY <1>4 DEF Complete
  <2> PICK e : e = Event(0, 0, 0)
    OBVIOUS
  <2>2. e \in EventRow /\ e.item = 0
    <3>1. 0 \in 0..LastStep
      BY SimulationAssumption
    <3> QED
      BY <1>1, <3>1 DEF Event, EventRow
  <2>3. events \in Seq(EventRow) /\ (events' = events \/ events' = Append(events, e))
    BY <1>1, <1>4 DEF Complete, Typed
  <2>4. CASE events' = events
    BY <2>1, <2>4 DEF SimInv, Typed, WorkWithinStay, ItemsFollowWorkflow, InStep, Due
  <2>5. CASE events' = Append(events, e)
    <3>1. Typed' /\ WorkWithinStay'
      <4>1. events' \in Seq(EventRow)
        BY <2>2, <2>3, <2>5, EventAdded
      <4> QED
        BY <1>1, <2>1, <4>1 DEF SimInv, Typed, WorkWithinStay
    <3>2. InStep'
      <4> SUFFICES ASSUME NEW a \in Items, NEW j \in DOMAIN events', Newest(events', a, j)
                   PROVE  /\ events'[j].step = item[a].step
                          /\ events'[j].tick + item[a].spent + Due(a) <= tick
        BY <2>1 DEF InStep, Due
      <4>1. a # e.item
        BY <2>2, Counts
      <4>2. j \in DOMAIN events /\ Newest(events, a, j) /\ events'[j] = events[j]
        BY <2>2, <2>3, <2>5, <4>1, EventAdded
      <4> QED
        BY <4>2 DEF SimInv, InStep
    <3>3. ItemsFollowWorkflow'
      <4> SUFFICES ASSUME NEW j \in DOMAIN events', NEW k \in DOMAIN events',
                          events'[j].item \in Items, Follows(events', j, k)
                   PROVE  Lawful(events'[j], events'[k])
        BY DEF ItemsFollowWorkflow
      <4>1. \/ /\ j \in DOMAIN events /\ k \in DOMAIN events /\ Follows(events, j, k)
               /\ events'[j] = events[j] /\ events'[k] = events[k]
            \/ j \in DOMAIN events /\ Newest(events, 0, j) /\ events'[j] = events[j] /\ events'[k] = e
        BY <2>2, <2>3, <2>5, EventAdded
      <4>2. ~Newest(events, 0, j) \/ events'[j] # events[j]
        BY Counts DEF Newest
      <4> QED
        BY <4>1, <4>2 DEF SimInv, ItemsFollowWorkflow
    <3> QED
      BY <3>1, <3>2, <3>3 DEF SimInv
  <2> QED
    BY <2>3, <2>4, <2>5
<1>5. CASE UNCHANGED vars \/ Done
  BY <1>5 DEF vars, Done, SimInv, Typed, WorkWithinStay, ItemsFollowWorkflow, InStep, Due
<1> QED
  BY <1>2, <1>3, <1>4, <1>5 DEF Next

LEMMA Invariant == Spec => []SimInv
BY InitInv, NextInv, PTL DEF Spec

\* Whatever is sampled and chosen: the stored schedule of every item is a path
\* of the workflow that leaves a step only when the work and the stay are over
\* (precompute.py, workflow_engine.process_item_tick).
THEOREM SchedulesFollowWorkflow == Spec => []ItemsFollowWorkflow
BY Invariant, PTL DEF SimInv

=============================================================================
