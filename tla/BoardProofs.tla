---------------------------- MODULE BoardProofs -----------------------------
(***************************************************************************)
(* Proofs about SprintBoard for any calendar, number of sprints, issues,   *)
(* instants, calls and requests under way.  Sprints that were checked are  *)
(* disjoint because what a request has found stands until another commits  *)
(* dates (EditsStand, CreationStands).  Waiting events stay with their     *)
(* issues because a completed sprint has none left (CompletedQuiet), an    *)
(* edit deletes all that wait when it checks and only a recomputation can  *)
(* add others before it commits (EditsOwn), and what a recomputation plans *)
(* is free or its own until it commits (PlanStands).                       *)
(***************************************************************************)
EXTENDS SprintBoard, TLAPS

SprintFields == {"phase", "start", "end", "number", "jira", "checked"}
IssueFields == {"sprint", "carried", "priority", "left"}
EventFields == {"s", "i", "at", "fin", "st"}
EditFields == {"s", "start", "gone", "frees", "stale"}

\* Two sprints overlap.
Meets(r, q) == r.start < q.end /\ q.start < r.end

\* The dates that an edit asks for.
Asked(start) == [start |-> start, end |-> EndFrom[start]]

SprintsShaped ==
  /\ nextId \in Nat \ {0}
  /\ \A s \in Ids : s \in Nat \ {0} /\ s < nextId /\ DOMAIN sprint[s] = SprintFields

TableShaped(table) == \A i \in DOMAIN table : i # 0 /\ DOMAIN table[i] = IssueFields

EventsShaped ==
  \A e \in events :
    DOMAIN e = EventFields /\ e.s \in Nat \ {0} /\ e.s < nextId /\ e.i \in {0} \cup DOMAIN issue

EditsShaped == \A r \in edits : DOMAIN r = EditFields /\ r.s \in Ids

LoopShaped ==
  /\ loop.pc = "create" =>
       DOMAIN loop = {"pc", "n", "dates", "simulate", "stale"} /\ loop.n \in Nat \ {0}
  /\ loop.pc \in {"read", "write"} => loop.s \in Nat \ {0} /\ loop.s < nextId
  /\ loop.pc = "write" =>
       /\ \A e \in loop.gone : e.s = loop.s
       /\ \A e \in loop.new : /\ DOMAIN e = EventFields /\ e.s = loop.s /\ e.st = "PENDING"
                              /\ e.i \in {0} \cup DOMAIN issue

Shaped == SprintsShaped /\ EventsShaped /\ TableShaped(issue) /\ EditsShaped /\ LoopShaped

\* The waiting events E, but for sprints in L, are about issues of their sprint.
InScope(table, E, L) ==
  \A e \in E : e.st = "PENDING" /\ e.i # 0 /\ e.s \notin L => table[e.i].sprint = e.s

\* No event of s waits for its first dispatch.
Quiet(s) == \A e \in events : e.s = s => e.st # "PENDING"

CompletedQuiet == \A s \in Ids : sprint[s].phase = "COMPLETED" /\ s \notin torn => Quiet(s)

\* An edit deletes every event of its sprint that waits.
EditsOwn ==
  \A r \in edits : r.s \notin torn =>
    \A e \in events : e.s = r.s /\ e.st = "PENDING" => e \in r.gone

\* The issues of a planned schedule belong to the sprint once the plan commits, and to
\* no other before.
PlanStands ==
  loop.pc = "write" =>
    /\ \A i \in loop.joins \cap DOMAIN issue : issue[i].sprint \in {0, loop.s}
    /\ loop.s \in Ids \ torn =>
         \A e \in loop.new : e.i # 0 => e.i \in loop.joins \/ issue[e.i].sprint = loop.s

ScheduleInv == InScope(issue, events, torn) /\ CompletedQuiet /\ EditsOwn /\ PlanStands

ChecksDisjoint ==
  \A s, x \in Ids : s # x /\ sprint[s].checked /\ sprint[x].checked => ~Meets(sprint[s], sprint[x])

\* What an edit has found still holds unless dates were committed since.
EditsStand ==
  \A r \in edits : ~r.stale =>
    \A x \in Ids : x # r.s /\ sprint[x].checked => ~Meets(sprint[x], Asked(r.start))

\* So does what a creation has found, also among its own dates.
CreationStands ==
  loop.pc = "create" /\ ~loop.stale =>
    \A k \in 1..loop.n :
      /\ \A x \in Ids : sprint[x].checked => ~Meets(sprint[x], loop.dates[k])
      /\ \A j \in 1..(k - 1) : ~Meets(loop.dates[j], loop.dates[k])

DatesInv == ChecksDisjoint /\ EditsStand /\ CreationStands

BoardInv == Shaped /\ ScheduleInv /\ DatesInv

\* A step that keeps the edits under way, some of them ended or out of date.
EditsKept ==
  \A q \in edits' : /\ DOMAIN q = EditFields
                    /\ \E r \in edits : /\ q.s = r.s /\ q.start = r.start /\ q.gone = r.gone
                                        /\ q.stale \/ ~r.stale
-----------------------------------------------------------------------------
(* The functions of the board.                                             *)

\* What a planned sprint takes is free or its own, and its schedule is about
\* what it has taken.
LEMMA PrecomputedKeeps ==
  ASSUME NEW s, NEW jira, NEW start, NEW table, TableShaped(table),
         NEW r \in Precomputed(s, jira, start, table)
  PROVE  /\ DOMAIN r.issue = DOMAIN table /\ TableShaped(r.issue)
         /\ \A i \in DOMAIN table :
              r.issue[i] = table[i] \/ (r.issue[i].sprint = s /\ table[i].sprint \in {0, s})
         /\ \A e \in r.events :
              /\ DOMAIN e = EventFields /\ e.s = s /\ e.st = "PENDING"
              /\ e.i = 0 \/ (e.i \in DOMAIN table /\ r.issue[e.i].sprint = s)
<1> DEFINE ticks == TicksFrom[start]
           plans == {PlanSprint(table, Plannable(table, s), target) : target \in CapMin..CapMax}
           ends(selected) == IF Cardinality(ticks) < 2 THEN {{}} ELSE SUBSET selected
           planned(selected) ==
             [i \in DOMAIN table |->
                IF i \in selected THEN [table[i] EXCEPT !.sprint = s] ELSE table[i]]
           outcome(selected, finished) ==
             [issue |-> planned(selected),
              events |-> ScheduleFor(s, jira, start, selected, finished)]
<1>1. CASE ticks = {}
  <2>1. r = [issue |-> table, events |-> {}]
    BY <1>1 DEF Precomputed
  <2> QED
    BY <2>1
<1>2. CASE ticks # {}
  <2>1. r \in UNION {{outcome(selected, fin) : fin \in ends(selected)} : selected \in plans}
    BY <1>2 DEF Precomputed
  <2>2. PICK selected \in plans : r \in {outcome(selected, fin) : fin \in ends(selected)}
    BY <2>1
  <2>3. PICK fin \in ends(selected) : r = outcome(selected, fin)
    BY <2>2
  <2>4. fin \subseteq selected
    BY <2>3
  <2>5. selected \subseteq Plannable(table, s)
    BY <2>2 DEF PlanSprint
  <2>6. selected \subseteq DOMAIN table /\ \A i \in selected : table[i].sprint \in {0, s}
    BY <2>5 DEF Plannable
  <2>7. r.issue = planned(selected) /\ r.events = ScheduleFor(s, jira, start, selected, fin)
    BY <2>3
  <2>8. /\ DOMAIN r.issue = DOMAIN table
        /\ \A i \in DOMAIN table : i \notin selected => r.issue[i] = table[i]
        /\ \A i \in selected : r.issue[i].sprint = s /\ DOMAIN r.issue[i] = IssueFields
    BY <2>6, <2>7 DEF TableShaped, IssueFields
  <2>9. TableShaped(r.issue)
    BY <2>8 DEF TableShaped
  <2>10. \A e \in r.events :
           /\ DOMAIN e = EventFields /\ e.s = s /\ e.st = "PENDING"
           /\ e.i = 0 \/ e.i \in selected
    <3> SUFFICES ASSUME NEW e \in r.events
                 PROVE  /\ DOMAIN e = EventFields /\ e.s = s /\ e.st = "PENDING"
                        /\ e.i = 0 \/ e.i \in selected
      OBVIOUS
    <3>1. \E i \in {0} \cup selected : \E at, last :
            e = [s |-> s, i |-> i, at |-> at, fin |-> last, st |-> "PENDING"]
      BY <2>4, <2>7 DEF ScheduleFor
    <3>2. PICK i \in {0} \cup selected :
            \E at, last : e = [s |-> s, i |-> i, at |-> at, fin |-> last, st |-> "PENDING"]
      BY <3>1
    <3> QED
      BY <3>2 DEF EventFields
  <2> QED
    BY <2>6, <2>8, <2>9, <2>10
<1> QED
  BY <1>1, <1>2

\* Backlog maintenance only adds issues.
LEMMA ReplenishedKeeps ==
  ASSUME NEW table, TableShaped(table), NEW t, t = Replenished(table)
  PROVE  /\ TableShaped(t) /\ DOMAIN table \subseteq DOMAIN t
         /\ \A i \in DOMAIN table : t[i] = table[i]
<1> DEFINE n == Cardinality(Plannable(table, 0))
           free == Issues \ DOMAIN table
           count == IF DepthTarget > n THEN Min({DepthTarget - n, 5}) ELSE 0
           new == {i \in free : Cardinality({j \in free : j < i}) < count}
           rows == [i \in new |-> [sprint |-> 0, carried |-> FALSE, priority |-> n + 1, left |-> 0]]
<1>1. t = Joined(table, rows)
  BY DEF Replenished
<1>2. DOMAIN rows = new /\ \A i \in new : DOMAIN rows[i] = IssueFields
  BY DEF IssueFields
<1>3. \A i \in new : i \in Nat \ {0}
  BY BoardAssumption
<1>4. /\ DOMAIN t = DOMAIN table \cup new
      /\ \A i \in DOMAIN table : t[i] = table[i]
      /\ \A i \in new : i \notin DOMAIN table => t[i] = rows[i]
  <2> HIDE DEF rows, new
  <2> QED
    BY <1>1, <1>2 DEF Joined
<1> HIDE DEF rows, new
<1> QED
  BY <1>2, <1>3, <1>4 DEF TableShaped

LEMMA ReleasedKeeps ==
  ASSUME NEW s, TableShaped(issue), NEW t, t = Released(s)
  PROVE  /\ TableShaped(t) /\ DOMAIN t = DOMAIN issue
         /\ \A i \in DOMAIN issue : issue[i].sprint # s => t[i] = issue[i]
BY DEF TableShaped, IssueFields, Released, ItemsOf

LEMMA FreedKeeps ==
  ASSUME NEW s, NEW items, TableShaped(issue), NEW t, t = Freed(s, items)
  PROVE  /\ TableShaped(t) /\ DOMAIN t = DOMAIN issue
         /\ \A i \in DOMAIN issue : IF i \in items THEN t[i].sprint = 0 ELSE t[i] = issue[i]
BY DEF TableShaped, IssueFields, Freed

\* An issue table in scope stays so when a sprint is planned from it.
LEMMA PlanInScope ==
  ASSUME NEW s \in Nat \ {0}, NEW jira, NEW start, NEW table, TableShaped(table),
         NEW r \in Precomputed(s, jira, start, table), NEW L, NEW E,
         \A e \in E : e.s \in Nat \ {0} /\ e.i \in {0} \cup DOMAIN table,
         InScope(table, E, L)
  PROVE  InScope(r.issue, E \cup r.events, L)
<1>1. /\ \A i \in DOMAIN table :
           r.issue[i] = table[i] \/ (r.issue[i].sprint = s /\ table[i].sprint \in {0, s})
      /\ \A e \in r.events : e.s = s /\ (e.i = 0 \/ r.issue[e.i].sprint = s)
  BY PrecomputedKeeps
<1>2. ASSUME NEW e \in E, e.st = "PENDING", e.i # 0, e.s \notin L
      PROVE  r.issue[e.i].sprint = e.s
  <2>1. e.i \in DOMAIN table /\ e.s # 0 /\ table[e.i].sprint = e.s
    BY <1>2 DEF InScope
  <2> QED
    BY <1>1, <2>1
<1> QED
  BY <1>1, <1>2 DEF InScope
-----------------------------------------------------------------------------
(* What the actions have in common.                                        *)

\* New sprints with the first n of the dates.
LEMMA SprintsAdded ==
  ASSUME SprintsShaped, NEW phase, NEW n \in Nat \ {0}, NEW dates, NEW checked,
         AddSprints(phase, n, dates, checked)
  PROVE  LET new == nextId..(nextId + n - 1) IN
         /\ SprintsShaped' /\ nextId \in Nat \ {0} /\ nextId' = nextId + n
         /\ Ids' = Ids \cup new /\ \A s \in Ids : sprint'[s] = sprint[s] /\ s \notin new
         /\ \A s \in new :
              /\ s \in Nat /\ s >= nextId /\ s - nextId + 1 \in 1..n
              /\ sprint'[s].phase = phase /\ sprint'[s].checked = checked
              /\ sprint'[s].start = dates[s - nextId + 1].start
              /\ sprint'[s].end = dates[s - nextId + 1].end
<1> DEFINE Row(s) ==
      LET k == s - nextId + 1 IN
      [phase |-> phase, start |-> dates[k].start, end |-> dates[k].end,
       number |-> NextNumber(sprint) + k - 1, jira |-> FALSE, checked |-> checked]
<1> PICK new : new = nextId..(nextId + n - 1)
  OBVIOUS
<1> PICK rows : rows = [s \in new |-> Row(s)]
  OBVIOUS
<1>1. sprint' = Joined(sprint, rows) /\ nextId' = nextId + n
  BY DEF AddSprints
<1>2. DOMAIN rows = new /\ \A s \in new : rows[s] = Row(s)
  OBVIOUS
<1>3. \A s \in new :
        /\ DOMAIN Row(s) = SprintFields
        /\ Row(s).phase = phase /\ Row(s).checked = checked
        /\ Row(s).start = dates[s - nextId + 1].start /\ Row(s).end = dates[s - nextId + 1].end
  BY DEF SprintFields
<1> HIDE DEF Row
<1>4. /\ nextId \in Nat \ {0}
      /\ \A s \in Ids : s \in Nat \ {0} /\ s < nextId /\ DOMAIN sprint[s] = SprintFields
  BY DEF SprintsShaped
<1>5. \A s \in new : s \in Nat /\ s >= nextId /\ s < nextId + n /\ s - nextId + 1 \in 1..n
  BY <1>4
<1>6. \A s \in Ids : s \notin new
  BY <1>4, <1>5
<1>7. /\ Ids' = Ids \cup new /\ \A s \in Ids : sprint'[s] = sprint[s]
      /\ \A s \in new : sprint'[s] = Row(s)
  BY <1>1, <1>2, <1>6 DEF Joined, Ids
<1>8. SprintsShaped'
  <2>1. nextId' \in Nat \ {0} /\ nextId <= nextId' /\ \A s \in new : s # 0 /\ s < nextId'
    BY <1>1, <1>4, <1>5
  <2>2. \A s \in Ids : s < nextId'
    BY <1>4, <2>1
  <2> QED
    BY <1>3, <1>4, <1>5, <1>7, <2>1, <2>2 DEF SprintsShaped
<1> QED
  BY <1>1, <1>3, <1>4, <1>5, <1>6, <1>7, <1>8

\* Checked ones among them keep the stored sprints disjoint when their dates were
\* found apart; the edits under way are then out of date.
LEMMA DatesAdded ==
  ASSUME SprintsShaped, DatesInv, NEW phase, NEW n \in Nat \ {0}, NEW dates, NEW checked,
         AddSprints(phase, n, dates, checked),
         checked => \A k \in 1..n :
           /\ \A s \in Ids : sprint[s].checked => ~Meets(sprint[s], dates[k])
           /\ \A j \in 1..(k - 1) : ~Meets(dates[j], dates[k]),
         EditsKept, EditsShaped, checked => \A q \in edits' : q.stale, loop'.pc # "create"
  PROVE  DatesInv'
<1> PICK new : new = nextId..(nextId + n - 1)
  OBVIOUS
<1>0. /\ nextId \in Nat \ {0} /\ Ids' = Ids \cup new
      /\ \A s \in Ids : sprint'[s] = sprint[s] /\ s \notin new
      /\ \A s \in new :
           /\ s \in Nat /\ s >= nextId /\ s - nextId + 1 \in 1..n
           /\ sprint'[s].phase = phase /\ sprint'[s].checked = checked
           /\ sprint'[s].start = dates[s - nextId + 1].start
           /\ sprint'[s].end = dates[s - nextId + 1].end
  <2>1. /\ nextId \in Nat \ {0} /\ Ids' = Ids \cup new
        /\ \A s \in Ids : sprint'[s] = sprint[s] /\ s \notin new
        /\ \A s \in new : s \in Nat /\ s >= nextId /\ s - nextId + 1 \in 1..n
    BY SprintsAdded
  <2>2. \A s \in new : sprint'[s].phase = phase /\ sprint'[s].checked = checked
    BY SprintsAdded
  <2>3. \A s \in new : /\ sprint'[s].start = dates[s - nextId + 1].start
                       /\ sprint'[s].end = dates[s - nextId + 1].end
    BY SprintsAdded
  <2> QED
    BY <2>1, <2>2, <2>3
<1> DEFINE Of(s) == s - nextId + 1
<1>1. /\ Ids' = Ids \cup new /\ \A s \in Ids : sprint'[s] = sprint[s] /\ s \notin new
      /\ \A s \in new :
           /\ s \in Nat /\ s >= nextId /\ Of(s) \in 1..n /\ sprint'[s].checked = checked
           /\ sprint'[s].start = dates[Of(s)].start /\ sprint'[s].end = dates[Of(s)].end
      /\ nextId \in Nat
  BY <1>0
<1>2. \A s, x \in new : s # x => Of(s) < Of(x) \/ Of(x) < Of(s)
  BY <1>1
<1> HIDE DEF Of
<1>3. ASSUME NEW s \in Ids, NEW x \in new, sprint'[s].checked, sprint'[x].checked
      PROVE  ~Meets(sprint'[s], sprint'[x])
  <2>1. ~Meets(sprint[s], dates[Of(x)])
    BY <1>1, <1>3
  <2> QED
    BY <1>1, <2>1 DEF Meets
<1>4. ASSUME NEW s \in new, NEW x \in new, Of(s) < Of(x), sprint'[x].checked
      PROVE  ~Meets(sprint'[s], sprint'[x])
  <2>1. Of(s) \in 1..(Of(x) - 1)
    BY <1>1, <1>4
  <2>2. ~Meets(dates[Of(s)], dates[Of(x)])
    BY <1>1, <1>4, <2>1
  <2> QED
    BY <1>1, <2>2 DEF Meets
<1>5. ASSUME NEW s \in Ids', NEW x \in Ids', s # x, sprint'[s].checked, sprint'[x].checked
      PROVE  ~Meets(sprint'[s], sprint'[x])
  <2>1. CASE s \in Ids /\ x \in Ids
    BY <1>1, <1>5, <2>1 DEF DatesInv, ChecksDisjoint
  <2>2. CASE s \in Ids /\ x \in new
    BY <1>3, <1>5, <2>2
  <2>3. CASE s \in new /\ x \in Ids
    <3>1. ~Meets(sprint'[x], sprint'[s])
      BY <1>3, <1>5, <2>3
    <3> QED
      BY <3>1 DEF Meets
  <2>4. CASE s \in new /\ x \in new /\ Of(s) < Of(x)
    BY <1>4, <1>5, <2>4
  <2>5. CASE s \in new /\ x \in new /\ Of(x) < Of(s)
    <3>1. ~Meets(sprint'[x], sprint'[s])
      BY <1>4, <1>5, <2>5
    <3> QED
      BY <3>1 DEF Meets
  <2> QED
    BY <1>1, <1>2, <1>5, <2>1, <2>2, <2>3, <2>4, <2>5
<1>6. ChecksDisjoint'
  BY <1>5 DEF ChecksDisjoint
<1>7. EditsStand'
  <2> SUFFICES ASSUME NEW q \in edits', ~q.stale, NEW x \in Ids', x # q.s, sprint'[x].checked
               PROVE  ~Meets(sprint'[x], Asked(q.start))
    BY DEF EditsStand, Asked
  <2>1. PICK r \in edits : q.s = r.s /\ q.start = r.start /\ ~r.stale
    BY DEF EditsKept
  <2>2. x \in Ids /\ sprint'[x] = sprint[x]
    BY <1>1
  <2> QED
    BY <2>1, <2>2 DEF DatesInv, EditsStand
<1> QED
  BY <1>6, <1>7 DEF DatesInv, CreationStands

LEMMA SprintAdded ==
  ASSUME SprintsShaped, NEW phase, NEW dates, NEW checked, AddSprints(phase, 1, dates, checked)
  PROVE  /\ SprintsShaped' /\ nextId \in Nat \ {0} /\ nextId' = nextId + 1
         /\ Ids' = Ids \cup {nextId} /\ \A s \in Ids : sprint'[s] = sprint[s] /\ s # nextId
         /\ sprint'[nextId].phase = phase
<1>1. ASSUME NEW n \in Nat \ {0}, AddSprints(phase, n, dates, checked)
      PROVE  /\ SprintsShaped' /\ nextId' = nextId + n
             /\ \A s \in nextId..(nextId + n - 1) : sprint'[s].phase = phase
  BY <1>1, SprintsAdded
<1>2. ASSUME NEW n \in Nat \ {0}, AddSprints(phase, n, dates, checked)
      PROVE  /\ Ids' = Ids \cup nextId..(nextId + n - 1)
             /\ \A s \in Ids : sprint'[s] = sprint[s] /\ s \notin nextId..(nextId + n - 1)
  BY <1>2, SprintsAdded
<1>3. nextId \in Nat \ {0} /\ nextId..(nextId + 1 - 1) = {nextId}
  BY DEF SprintsShaped
<1> QED
  BY <1>1, <1>2, <1>3

\* A row whose phase or Jira id changes keeps its dates and its check.
LEMMA RowKept ==
  ASSUME SprintsShaped, NEW s \in Ids, NEW v,
         sprint' = [sprint EXCEPT ![s].phase = v] \/ sprint' = [sprint EXCEPT ![s].jira = v],
         nextId' = nextId
  PROVE  /\ SprintsShaped' /\ Ids' = Ids
         /\ \A x \in Ids : /\ sprint'[x].start = sprint[x].start /\ sprint'[x].end = sprint[x].end
                           /\ sprint'[x].checked = sprint[x].checked
                           /\ x # s => sprint'[x] = sprint[x]
         /\ sprint' = [sprint EXCEPT ![s].phase = v] => sprint'[s].phase = v
         /\ sprint' = [sprint EXCEPT ![s].jira = v] => sprint'[s].phase = sprint[s].phase
BY DEF SprintsShaped, SprintFields, Ids

LEMMA Outdated ==
  ASSUME NEW rest, \A r \in rest : DOMAIN r = EditFields
  PROVE  \A q \in OutdatedEdits(rest) :
           /\ DOMAIN q = EditFields /\ q.stale
           /\ \E r \in rest : q.s = r.s /\ q.start = r.start /\ q.gone = r.gone
<1> SUFFICES ASSUME NEW q \in OutdatedEdits(rest)
             PROVE  /\ DOMAIN q = EditFields /\ q.stale
                    /\ \E r \in rest : q.s = r.s /\ q.start = r.start /\ q.gone = r.gone
  OBVIOUS
<1>1. PICK r \in rest : q = [r EXCEPT !.stale = TRUE]
  BY DEF OutdatedEdits
<1> QED
  BY <1>1 DEF EditFields

LEMMA EditsStay ==
  ASSUME EditsShaped, edits' \subseteq edits \/ edits' = OutdatedEdits(edits)
  PROVE  EditsKept
<1>1. CASE edits' \subseteq edits
  BY <1>1 DEF EditsKept, EditsShaped
<1>2. CASE edits' = OutdatedEdits(edits)
  BY <1>2, Outdated DEF EditsKept, EditsShaped
<1> QED
  BY <1>1, <1>2

\* A step that commits no dates: sprints and requests may go, none comes with
\* anything new to say about dates.
LEMMA DatesKept ==
  ASSUME DatesInv, Ids' \subseteq Ids, EditsKept,
         \A x \in Ids' : /\ sprint'[x].start = sprint[x].start /\ sprint'[x].end = sprint[x].end
                         /\ sprint'[x].checked = sprint[x].checked,
         loop'.pc # "create" \/ loop' = loop
  PROVE  DatesInv'
<1>1. ChecksDisjoint'
  BY DEF DatesInv, ChecksDisjoint, Meets
<1>2. EditsStand'
  <2> SUFFICES ASSUME NEW q \in edits', ~q.stale, NEW x \in Ids', x # q.s, sprint'[x].checked
               PROVE  ~Meets(sprint'[x], Asked(q.start))
    BY DEF EditsStand, Asked
  <2>1. PICK r \in edits : q.s = r.s /\ q.start = r.start /\ ~r.stale
    BY DEF EditsKept
  <2>2. ~Meets(sprint[x], Asked(q.start))
    BY <2>1 DEF DatesInv, EditsStand
  <2> QED
    BY <2>2 DEF Meets
<1>3. CreationStands'
  BY DEF DatesInv, CreationStands, Meets
<1> QED
  BY <1>1, <1>2, <1>3 DEF DatesInv

\* A step that adds no sprint, no waiting event and no dates, and moves no issue but
\* as InScope allows.
LEMMA Kept ==
  ASSUME BoardInv, UNCHANGED <<nextId, torn>>, SprintsShaped', Ids' = Ids,
         \A x \in Ids : /\ sprint'[x].start = sprint[x].start /\ sprint'[x].end = sprint[x].end
                        /\ sprint'[x].checked = sprint[x].checked
                        /\ sprint'[x].phase = "COMPLETED" => sprint[x].phase = "COMPLETED" \/ Quiet(x),
         TableShaped(issue'), DOMAIN issue \subseteq DOMAIN issue', InScope(issue', events, torn),
         \A e \in events' :
           \/ e \in events
           \/ /\ e.st # "PENDING" /\ DOMAIN e = EventFields
              /\ \E f \in events : e.s = f.s /\ e.i = f.i,
         EditsKept,
         \/ loop'.pc = "idle"
         \/ loop'.pc = "read" /\ loop'.s \in Ids
         \/ loop' = loop /\ issue' = issue
  PROVE  BoardInv'
<1>1. /\ SprintsShaped /\ EventsShaped /\ EditsShaped /\ LoopShaped
      /\ CompletedQuiet /\ EditsOwn /\ PlanStands /\ DatesInv
  BY DEF BoardInv, Shaped, ScheduleInv
<1>2. EventsShaped'
  BY <1>1 DEF EventsShaped
<1>3. EditsShaped'
  BY <1>1 DEF EditsShaped, EditsKept
<1>4. LoopShaped'
  BY <1>1 DEF LoopShaped, SprintsShaped
<1>5. InScope(issue', events', torn') /\ CompletedQuiet'
  BY <1>1 DEF InScope, CompletedQuiet, Quiet
<1>6. EditsOwn'
  BY <1>1 DEF EditsOwn, EditsKept
<1>7. PlanStands'
  BY <1>1 DEF PlanStands
<1>8. DatesInv'
  BY <1>1, DatesKept
<1> QED
  BY <1>2, <1>3, <1>4, <1>5, <1>6, <1>7, <1>8 DEF BoardInv, Shaped, ScheduleInv

\* A sprint precomputed from a table in step: its issues and events are in step, the
\* others stay so.
LEMMA ComputeInv ==
  ASSUME BoardInv, NEW table, TableShaped(table), DOMAIN table = DOMAIN issue,
         InScope(table, events, torn), NEW start, NEW end, NEW checked, NEW refill,
         Compute(start, end, checked, table, refill),
         checked => \A s \in Ids : sprint[s].checked => ~Meets(sprint[s], [start |-> start, end |-> end]),
         EditsKept, checked => \A q \in edits' : q.stale, torn' = torn, loop'.pc = "idle"
  PROVE  BoardInv'
<1>1. /\ SprintsShaped /\ EventsShaped /\ EditsShaped /\ CompletedQuiet /\ EditsOwn /\ DatesInv
  BY DEF BoardInv, Shaped, ScheduleInv
<1> PICK dates : dates = <<[start |-> start, end |-> end]>>
  OBVIOUS
<1>2. AddSprints("SIMULATED", 1, dates, checked)
  BY DEF Compute
<1>3. /\ SprintsShaped' /\ nextId \in Nat \ {0} /\ nextId' = nextId + 1
      /\ Ids' = Ids \cup {nextId} /\ \A s \in Ids : sprint'[s] = sprint[s] /\ s # nextId
      /\ sprint'[nextId].phase = "SIMULATED"
  <2> PICK phase : phase = "SIMULATED"
    OBVIOUS
  <2> QED
    BY <1>1, <1>2, SprintAdded
<1>4. PICK r \in Precomputed(nextId, FALSE, start, table) :
        /\ issue' = (IF refill THEN Replenished(r.issue) ELSE r.issue)
        /\ events' = events \cup r.events
  BY DEF Compute
<1>5. /\ DOMAIN r.issue = DOMAIN issue /\ TableShaped(r.issue)
      /\ \A e \in r.events :
           DOMAIN e = EventFields /\ e.s = nextId /\ (e.i = 0 \/ e.i \in DOMAIN issue)
  <2> PICK n, jira : n = nextId /\ jira = FALSE
    OBVIOUS
  <2>1. r \in Precomputed(n, jira, start, table)
    BY <1>4
  <2>2. /\ DOMAIN r.issue = DOMAIN table /\ TableShaped(r.issue)
        /\ \A i \in DOMAIN table :
             r.issue[i] = table[i] \/ (r.issue[i].sprint = n /\ table[i].sprint \in {0, n})
        /\ \A e \in r.events :
             /\ DOMAIN e = EventFields /\ e.s = n /\ e.st = "PENDING"
             /\ e.i = 0 \/ (e.i \in DOMAIN table /\ r.issue[e.i].sprint = n)
    BY <2>1, PrecomputedKeeps
  <2> QED
    BY <2>2
<1>6. InScope(r.issue, events \cup r.events, torn)
  BY <1>1, <1>3, <1>4, PlanInScope DEF EventsShaped
<1>7. /\ TableShaped(issue') /\ DOMAIN issue \subseteq DOMAIN issue'
      /\ \A i \in DOMAIN issue : issue'[i] = r.issue[i]
  <2>1. CASE refill
    BY <1>4, <1>5, <2>1, ReplenishedKeeps
  <2>2. CASE ~refill
    BY <1>4, <1>5, <2>2
  <2> QED
    BY <2>1, <2>2
<1>8. \A e \in events' :
        /\ DOMAIN e = EventFields /\ e.s \in Nat \ {0} /\ e.s < nextId + 1
        /\ e.i \in {0} \cup DOMAIN issue
        /\ e \in events \/ e.s = nextId
  BY <1>1, <1>3, <1>4, <1>5 DEF EventsShaped
<1>9. EventsShaped'
  BY <1>3, <1>7, <1>8 DEF EventsShaped
<1>10. EditsShaped' /\ EditsOwn'
  BY <1>1, <1>3, <1>8 DEF EditsShaped, EditsOwn, EditsKept
<1>11. LoopShaped' /\ PlanStands'
  BY DEF LoopShaped, PlanStands
<1>12. InScope(issue', events', torn')
  BY <1>4, <1>6, <1>7, <1>8 DEF InScope
<1>13. CompletedQuiet'
  BY <1>1, <1>3, <1>8 DEF CompletedQuiet, Quiet
<1>14. DatesInv'
  <2> PICK n : n = 1
    OBVIOUS
  <2>1. n \in Nat \ {0} /\ AddSprints("SIMULATED", n, dates, checked)
    BY <1>2
  <2>2. checked => \A k \in 1..n :
           /\ \A s \in Ids : sprint[s].checked => ~Meets(sprint[s], dates[k])
           /\ \A j \in 1..(k - 1) : ~Meets(dates[j], dates[k])
    <3>1. \A k \in 1..n : dates[k] = [start |-> start, end |-> end] /\ 1..(k - 1) = {}
      OBVIOUS
    <3> QED
      BY <3>1
  <2> QED
    BY <1>1, <2>1, <2>2, DatesAdded
<1> QED
  BY <1>3, <1>7, <1>9, <1>10, <1>11, <1>12, <1>13, <1>14 DEF BoardInv, Shaped, ScheduleInv
-----------------------------------------------------------------------------
(* The actions.                                                            *)

LEMMA InitInv == Init => BoardInv
<1> SUFFICES ASSUME Init PROVE BoardInv
  OBVIOUS
<1>1. /\ Ids = {} /\ nextId = 1 /\ events = {} /\ edits = {} /\ loop.pc = "idle"
  BY DEF Init, Ids, Idle
<1>2. TableShaped(issue)
  BY BoardAssumption DEF Init, TableShaped, IssueFields
<1>3. Shaped
  BY <1>1, <1>2 DEF Shaped, SprintsShaped, EventsShaped, EditsShaped, LoopShaped
<1>4. ScheduleInv
  BY <1>1 DEF ScheduleInv, InScope, CompletedQuiet, EditsOwn, PlanStands
<1>5. DatesInv
  BY <1>1 DEF DatesInv, ChecksDisjoint, EditsStand, CreationStands
<1> QED
  BY <1>3, <1>4, <1>5 DEF BoardInv

\* Precomputing now, without a check, from a table that is in step.
LEMMA ComputeNowInv ==
  ASSUME BoardInv, Loop, NEW table, TableShaped(table), DOMAIN table = DOMAIN issue,
         InScope(table, events, torn), NEW refill, ComputeNow(table, refill),
         UNCHANGED <<loop, edits, torn>>
  PROVE  BoardInv'
<1> PICK start, end, checked : start = now /\ end = EndFrom[now] /\ checked = FALSE
  OBVIOUS
<1>1. Compute(start, end, checked, table, refill) /\ loop'.pc = "idle"
  BY DEF ComputeNow, Loop
<1>2. EditsKept
  BY EditsStay DEF BoardInv, Shaped
<1> QED
  BY <1>1, <1>2, ComputeInv

LEMMA TickInv == BoardInv /\ TickTeam => BoardInv'
<1> SUFFICES ASSUME BoardInv, TickTeam PROVE BoardInv'
  OBVIOUS
<1>1. /\ SprintsShaped /\ EventsShaped /\ TableShaped(issue) /\ InScope(issue, events, torn)
      /\ CompletedQuiet /\ EditsShaped
  BY DEF BoardInv, Shaped, ScheduleInv
<1>2. Loop /\ UNCHANGED <<loop, edits, torn>> /\ loop'.pc = "idle"
  BY DEF TickTeam, Loop
<1>3. EditsKept
  BY <1>1, <1>2, EditsStay
\* The end of a tick that plans nothing.
<1>4. ASSUME NEW table, TableShaped(table), DOMAIN table = DOMAIN issue,
             InScope(table, events, torn), issue' = Replenished(table),
             UNCHANGED <<nextId, events>>, SprintsShaped', Ids' = Ids,
             \A x \in Ids :
               /\ sprint'[x].start = sprint[x].start /\ sprint'[x].end = sprint[x].end
               /\ sprint'[x].checked = sprint[x].checked
               /\ sprint'[x].phase = "COMPLETED" => sprint[x].phase = "COMPLETED" \/ Quiet(x)
      PROVE  BoardInv'
  <2>1. /\ TableShaped(issue') /\ DOMAIN issue \subseteq DOMAIN issue'
        /\ \A i \in DOMAIN issue : issue'[i] = table[i]
    BY <1>4, ReplenishedKeeps
  <2>2. InScope(issue', events, torn)
    BY <1>1, <1>4, <2>1 DEF InScope, EventsShaped
  <2> QED
    BY <1>2, <1>3, <1>4, <2>1, <2>2, Kept
\* With the issues of a completed sprint released first, or without a sprint.
<1>5. ASSUME NEW table, TableShaped(table), DOMAIN table = DOMAIN issue,
             InScope(table, events, torn), TickPlans(table)
      PROVE  BoardInv'
  <2>1. CASE ComputeNow(table, TRUE)
    BY <1>2, <1>5, <2>1, ComputeNowInv
  <2>2. CASE issue' = Replenished(table) /\ UNCHANGED <<sprint, nextId, events>>
    <3>1. SprintsShaped' /\ Ids' = Ids
      BY <1>1, <2>2 DEF SprintsShaped, Ids
    <3> QED
      BY <1>4, <1>5, <2>2, <3>1
  <2> QED
    BY <1>5, <2>1, <2>2 DEF TickPlans
<1>6. CASE Ids = {} /\ TickPlans(issue)
  BY <1>1, <1>5, <1>6
<1>7. ASSUME NEW s \in Ids, sprint[s].phase = "COMPLETED", TickPlans(Released(s))
      PROVE  BoardInv'
  <2> PICK table : table = Released(s)
    OBVIOUS
  <2>1. /\ TableShaped(table) /\ DOMAIN table = DOMAIN issue
        /\ \A i \in DOMAIN issue : issue[i].sprint # s => table[i] = issue[i]
    BY <1>1, ReleasedKeeps
  <2>2. InScope(table, events, torn)
    <3> SUFFICES ASSUME NEW e \in events, e.st = "PENDING", e.i # 0, e.s \notin torn
                 PROVE  table[e.i].sprint = e.s
      BY DEF InScope
    <3>1. issue[e.i].sprint = e.s /\ e.i \in DOMAIN issue
      BY <1>1 DEF InScope, EventsShaped
    <3>2. e.s # s
      BY <1>1, <1>7 DEF CompletedQuiet, Quiet
    <3> QED
      BY <2>1, <3>1, <3>2
  <2> QED
    BY <1>5, <1>7, <2>1, <2>2
<1>8. ASSUME NEW s \in Ids, TickCompletes(s)
      PROVE  BoardInv'
  <2>1. issue' = Replenished(issue) /\ UNCHANGED <<nextId, events>>
    BY <1>8 DEF TickCompletes
  <2>2. CASE sprint' = sprint
    BY <1>1, <1>4, <2>1, <2>2 DEF SprintsShaped, Ids
  <2>3. CASE Waiting(s) = {} /\ sprint' = [sprint EXCEPT ![s].phase = "COMPLETED"]
    <3>1. /\ SprintsShaped' /\ Ids' = Ids
          /\ \A x \in Ids : /\ sprint'[x].start = sprint[x].start /\ sprint'[x].end = sprint[x].end
                            /\ sprint'[x].checked = sprint[x].checked
                            /\ x # s => sprint'[x] = sprint[x]
      BY <1>1, <2>1, <2>3, RowKept
    <3>2. Quiet(s)
      BY <2>3 DEF Quiet, Waiting, EventsOf
    <3> QED
      BY <1>1, <1>4, <2>1, <3>1, <3>2
  <2> QED
    BY <1>8, <2>2, <2>3 DEF TickCompletes
<1>9. ASSUME issue' = Replenished(issue), UNCHANGED <<sprint, nextId, events>>
      PROVE  BoardInv'
  <2>1. TickPlans(issue)
    BY <1>9 DEF TickPlans
  <2> QED
    BY <1>1, <1>5, <2>1
<1> QED
  BY <1>6, <1>7, <1>8, <1>9 DEF TickTeam, Current

\* Steps of the event loop or of an edit that write no table.
LEMMA RequestInv ==
  ASSUME BoardInv, UNCHANGED <<sprint, nextId, issue, events, torn>>,
         edits' \subseteq edits,
         loop' = loop \/ loop'.pc = "idle" \/ (loop'.pc = "read" /\ loop'.s \in Ids)
  PROVE  BoardInv'
<1>1. EditsKept
  BY EditsStay DEF BoardInv, Shaped
<1>2. SprintsShaped' /\ Ids' = Ids
  BY DEF BoardInv, Shaped, SprintsShaped, Ids
<1>3. TableShaped(issue') /\ InScope(issue', events, torn)
  BY DEF BoardInv, Shaped, ScheduleInv
<1> QED
  BY <1>1, <1>2, <1>3, Kept

LEMMA RecomputePlanInv == BoardInv /\ RecomputePlan => BoardInv'
<1> SUFFICES ASSUME BoardInv, RecomputePlan PROVE BoardInv'
  OBVIOUS
<1>1. /\ Shaped /\ SprintsShaped /\ LoopShaped /\ TableShaped(issue) /\ EditsShaped
      /\ ScheduleInv /\ DatesInv /\ loop.pc = "read"
      /\ UNCHANGED <<sprint, nextId, issue, events, edits, torn>>
  BY DEF BoardInv, Shaped, RecomputePlan
<1> PICK s, jira, start, gone :
      s = loop.s /\ jira = loop.jira /\ start = loop.start /\ gone = Waiting(loop.s)
  OBVIOUS
<1>2. s \in Nat \ {0} /\ s < nextId /\ \A e \in gone : e.s = s
  BY <1>1 DEF LoopShaped, Waiting, EventsOf
<1>3. PICK r \in Precomputed(s, jira, start, issue) :
        loop' = [pc |-> "write", s |-> s, gone |-> gone, new |-> r.events,
                 joins |-> {i \in DOMAIN issue : r.issue[i] # issue[i]}]
  BY DEF RecomputePlan
<1>4. /\ \A i \in DOMAIN issue :
           r.issue[i] = issue[i] \/ (r.issue[i].sprint = s /\ issue[i].sprint \in {0, s})
      /\ \A e \in r.events :
           /\ DOMAIN e = EventFields /\ e.s = s /\ e.st = "PENDING"
           /\ e.i = 0 \/ (e.i \in DOMAIN issue /\ r.issue[e.i].sprint = s)
  BY <1>1, <1>3, PrecomputedKeeps
<1>5. /\ loop'.pc = "write" /\ loop'.s = s /\ loop'.gone = gone /\ loop'.new = r.events
      /\ loop'.joins = {i \in DOMAIN issue : r.issue[i] # issue[i]}
  BY <1>3
<1>6. LoopShaped'
  BY <1>1, <1>2, <1>4, <1>5 DEF LoopShaped
<1>7. PlanStands'
  BY <1>1, <1>4, <1>5 DEF PlanStands
<1>8. /\ SprintsShaped' /\ EventsShaped' /\ TableShaped(issue') /\ EditsShaped'
      /\ InScope(issue', events', torn') /\ CompletedQuiet' /\ EditsOwn'
  BY <1>1 DEF Shaped, ScheduleInv, SprintsShaped, EventsShaped, EditsShaped, CompletedQuiet,
     Quiet, EditsOwn, Ids
<1>9. EditsKept /\ Ids' = Ids
  BY <1>1, EditsStay DEF Ids
<1>10. DatesInv'
  BY <1>1, <1>5, <1>9, DatesKept
<1> QED
  BY <1>6, <1>7, <1>8, <1>10 DEF BoardInv, Shaped, ScheduleInv

LEMMA RecomputeCommitInv == BoardInv /\ RecomputeCommit => BoardInv'
<1> SUFFICES ASSUME BoardInv, RecomputeCommit PROVE BoardInv'
  OBVIOUS
<1>1. /\ SprintsShaped /\ EventsShaped /\ TableShaped(issue) /\ EditsShaped /\ LoopShaped
      /\ InScope(issue, events, torn) /\ CompletedQuiet /\ EditsOwn /\ PlanStands /\ DatesInv
  BY DEF BoardInv, Shaped, ScheduleInv
<1> PICK s, gone, new, joins :
      s = loop.s /\ gone = loop.gone /\ new = loop.new /\ joins = loop.joins
  OBVIOUS
<1>2. /\ s \in Ids /\ s \in Nat \ {0} /\ s < nextId /\ loop'.pc = "idle"
      /\ UNCHANGED <<sprint, nextId>> /\ events' = (events \ gone) \cup new
      /\ issue' = [i \in DOMAIN issue |-> IF i \in joins THEN [issue[i] EXCEPT !.sprint = s] ELSE issue[i]]
      /\ edits' = {[r EXCEPT !.gone = r.gone \ gone] : r \in edits}
      /\ torn \subseteq torn' /\ torn' \subseteq torn \cup {s}
      /\ sprint[s].phase = "COMPLETED" \/ Held(s) => s \in torn'
  BY <1>1 DEF RecomputeCommit, LoopShaped, Idle
<1>3. /\ \A e \in gone : e.s = s
      /\ \A e \in new : /\ DOMAIN e = EventFields /\ e.s = s /\ e.st = "PENDING"
                        /\ e.i \in {0} \cup DOMAIN issue
  BY <1>1 DEF LoopShaped, RecomputeCommit
<1>4. /\ \A i \in joins \cap DOMAIN issue : issue[i].sprint \in {0, s}
      /\ s \notin torn => \A e \in new : e.i # 0 => e.i \in joins \/ issue[e.i].sprint = s
  BY <1>1, <1>2 DEF PlanStands, RecomputeCommit
<1>5. /\ TableShaped(issue') /\ DOMAIN issue' = DOMAIN issue
      /\ \A i \in DOMAIN issue : IF i \in joins THEN issue'[i].sprint = s ELSE issue'[i] = issue[i]
  BY <1>1, <1>2 DEF TableShaped, IssueFields
<1>6. InScope(issue', events', torn')
  <2> SUFFICES ASSUME NEW e \in events', e.st = "PENDING", e.i # 0, e.s \notin torn'
               PROVE  issue'[e.i].sprint = e.s
    BY DEF InScope
  <2>1. CASE e \in new
    BY <1>2, <1>3, <1>4, <1>5, <2>1
  <2>2. CASE e \in events
    <3>1. issue[e.i].sprint = e.s /\ e.i \in DOMAIN issue /\ e.s # 0
      BY <1>1, <1>2, <2>2 DEF InScope, EventsShaped
    <3> QED
      BY <1>4, <1>5, <3>1
  <2> QED
    BY <1>2, <2>1, <2>2
<1>7. EventsShaped'
  BY <1>1, <1>2, <1>3, <1>5 DEF EventsShaped
<1>8. CompletedQuiet'
  <2> SUFFICES ASSUME NEW x \in Ids, sprint[x].phase = "COMPLETED", x \notin torn',
                      NEW e \in events', e.s = x
               PROVE  e.st # "PENDING"
    BY <1>2 DEF CompletedQuiet, Quiet, Ids
  <2>1. x # s /\ x \notin torn /\ e \in events
    BY <1>2, <1>3
  <2> QED
    BY <1>1, <2>1 DEF CompletedQuiet, Quiet
<1>9. \A q \in edits' :
        /\ DOMAIN q = EditFields
        /\ \E r \in edits : q.s = r.s /\ q.start = r.start /\ q.stale = r.stale /\ q.gone = r.gone \ gone
  <2> SUFFICES ASSUME NEW q \in edits'
               PROVE  /\ DOMAIN q = EditFields
                      /\ \E r \in edits : /\ q.s = r.s /\ q.start = r.start /\ q.stale = r.stale
                                          /\ q.gone = r.gone \ gone
    OBVIOUS
  <2>1. PICK r \in edits : q = [r EXCEPT !.gone = r.gone \ gone]
    BY <1>2
  <2> QED
    BY <1>1, <2>1 DEF EditsShaped, EditFields
<1>10. EditsShaped'
  BY <1>1, <1>2, <1>9 DEF EditsShaped, Ids
<1>11. EditsOwn'
  <2> SUFFICES ASSUME NEW q \in edits', q.s \notin torn', NEW e \in events', e.s = q.s, e.st = "PENDING"
               PROVE  e \in q.gone
    BY DEF EditsOwn
  <2>1. PICK r \in edits : q.s = r.s /\ q.gone = r.gone \ gone
    BY <1>9
  <2>2. q.s # s
    BY <1>2, <2>1 DEF Held
  <2>3. e \in events /\ e \notin gone
    BY <1>2, <1>3, <2>2
  <2> QED
    BY <1>1, <1>2, <2>1, <2>3 DEF EditsOwn
<1>12. LoopShaped' /\ PlanStands' /\ SprintsShaped'
  BY <1>1, <1>2 DEF LoopShaped, PlanStands, SprintsShaped, Ids
<1>13. DatesInv'
  <2>1. ChecksDisjoint' /\ CreationStands'
    BY <1>1, <1>2 DEF DatesInv, ChecksDisjoint, CreationStands, Ids
  <2>2. EditsStand'
    <3> SUFFICES ASSUME NEW q \in edits', ~q.stale, NEW x \in Ids, x # q.s, sprint[x].checked
                 PROVE  ~Meets(sprint[x], Asked(q.start))
      BY <1>2 DEF EditsStand, Ids, Asked
    <3>1. PICK r \in edits : q.s = r.s /\ q.start = r.start /\ q.stale = r.stale
      BY <1>9
    <3> QED
      BY <1>1, <3>1 DEF DatesInv, EditsStand
  <2> QED
    BY <2>1, <2>2 DEF DatesInv
<1> QED
  BY <1>5, <1>6, <1>7, <1>8, <1>10, <1>11, <1>12, <1>13 DEF BoardInv, Shaped, ScheduleInv

\* What the overlap check finds, of stored sprints or of dates.
LEMMA NoOverlap ==
  ASSUME NEW start, NEW end, NEW table, ~Overlaps(start, end, table), NEW s \in DOMAIN table
  PROVE  ~(table[s].start < end /\ start < table[s].end) /\ ~(table[s].start < end /\ table[s].end > start)
BY DEF Overlaps

\* create_sprint and create_sprint_batch: what the check finds.
LEMMA CreateCheckInv == BoardInv /\ CreateCheck => BoardInv'
<1> SUFFICES ASSUME BoardInv, CreateCheck PROVE BoardInv'
  OBVIOUS
<1>1. /\ Shaped /\ ScheduleInv /\ DatesInv
      /\ UNCHANGED <<sprint, nextId, issue, events, edits, torn>>
  BY DEF BoardInv, CreateCheck
<1>2. PICK n \in {1} \cup BatchCounts : \E dates, simulate :
        /\ \A k \in 1..n :
             /\ ~Overlaps(dates[k].start, dates[k].end, sprint)
             /\ ~Overlaps(dates[k].start, dates[k].end, [j \in 1..(k - 1) |-> dates[j]])
        /\ loop' = [pc |-> "create", n |-> n, dates |-> dates, simulate |-> simulate, stale |-> FALSE]
  BY DEF CreateCheck
<1>3. PICK dates, simulate :
        /\ \A k \in 1..n :
             /\ ~Overlaps(dates[k].start, dates[k].end, sprint)
             /\ ~Overlaps(dates[k].start, dates[k].end, [j \in 1..(k - 1) |-> dates[j]])
        /\ loop' = [pc |-> "create", n |-> n, dates |-> dates, simulate |-> simulate, stale |-> FALSE]
  BY <1>2
<1>4. n \in Nat \ {0}
  BY BoardAssumption
<1>5. /\ loop'.pc = "create" /\ loop'.n = n /\ loop'.dates = dates
      /\ DOMAIN loop' = {"pc", "n", "dates", "simulate", "stale"}
  BY <1>3
<1>6. ASSUME NEW k \in 1..n, NEW x \in Ids
      PROVE  ~Meets(sprint[x], dates[k])
  <2>1. ~Overlaps(dates[k].start, dates[k].end, sprint)
    BY <1>3
  <2> QED
    BY <2>1, NoOverlap DEF Meets, Ids
<1>7. ASSUME NEW k \in 1..n, NEW j \in 1..(k - 1)
      PROVE  ~Meets(dates[j], dates[k])
  <2> PICK before : before = [i \in 1..(k - 1) |-> dates[i]]
    OBVIOUS
  <2>1. ~Overlaps(dates[k].start, dates[k].end, before)
    BY <1>3
  <2>2. j \in DOMAIN before /\ before[j] = dates[j]
    OBVIOUS
  <2> QED
    BY <2>1, <2>2, NoOverlap DEF Meets
<1>8. CreationStands'
  BY <1>1, <1>5, <1>6, <1>7 DEF CreationStands, Ids
<1>9. DatesInv'
  BY <1>1, <1>8 DEF DatesInv, ChecksDisjoint, EditsStand, Ids, Asked
<1>10. Shaped'
  BY <1>1, <1>4, <1>5 DEF Shaped, SprintsShaped, EventsShaped, TableShaped, EditsShaped, LoopShaped, Ids
<1>11. ScheduleInv'
  BY <1>1, <1>5 DEF ScheduleInv, InScope, CompletedQuiet, Quiet, EditsOwn, PlanStands, Ids
<1> QED
  BY <1>9, <1>10, <1>11 DEF BoardInv

LEMMA CreateCommitInv == BoardInv /\ CreateCommit => BoardInv'
<1> SUFFICES ASSUME BoardInv, CreateCommit PROVE BoardInv'
  OBVIOUS
<1>1. /\ SprintsShaped /\ EventsShaped /\ TableShaped(issue) /\ EditsShaped /\ LoopShaped
      /\ InScope(issue, events, torn) /\ CompletedQuiet /\ EditsOwn /\ DatesInv
  BY DEF BoardInv, Shaped, ScheduleInv
<1>2. loop.pc = "create" /\ loop'.pc = "idle" /\ torn' = torn
  BY DEF CreateCommit, Idle
<1> PICK n, dates, checked : n = loop.n /\ dates = loop.dates /\ checked = ~loop.stale
  OBVIOUS
<1>3. n \in Nat \ {0}
  BY <1>1, <1>2 DEF LoopShaped
<1>4. checked => \A k \in 1..n :
        /\ \A s \in Ids : sprint[s].checked => ~Meets(sprint[s], dates[k])
        /\ \A j \in 1..(k - 1) : ~Meets(dates[j], dates[k])
  BY <1>1, <1>2 DEF DatesInv, CreationStands
<1>5. edits' = OutdatedEdits(edits) => EditsKept /\ \A q \in edits' : q.stale
  BY <1>1, EditsStay, Outdated DEF EditsShaped
<1> PICK start, end : start = dates[1].start /\ end = dates[1].end
  OBVIOUS
<1>6. CASE Compute(start, end, checked, issue, FALSE) /\ edits' = OutdatedEdits(edits)
  <2>1. checked => \A s \in Ids : sprint[s].checked => ~Meets(sprint[s], [start |-> start, end |-> end])
    <3>1. 1 \in 1..n
      BY <1>3
    <3> QED
      BY <1>4, <3>1 DEF Meets
  <2> PICK refill : refill = FALSE
    OBVIOUS
  <2>2. Compute(start, end, checked, issue, refill)
    BY <1>6
  <2> QED
    BY <1>1, <1>2, <1>5, <1>6, <2>1, <2>2, ComputeInv
<1>7. CASE /\ AddSprints("PLANNING", n, dates, checked) /\ edits' = OutdatedEdits(edits)
           /\ UNCHANGED <<issue, events>>
  <2> PICK phase : phase = "PLANNING"
    OBVIOUS
  <2>1. AddSprints(phase, n, dates, checked)
    BY <1>7
  <2>2. DatesInv'
    BY <1>1, <1>2, <1>3, <1>4, <1>5, <1>7, <2>1, DatesAdded
  <2> PICK new : new = nextId..(nextId + n - 1)
    OBVIOUS
  <2>3. SprintsShaped' /\ nextId \in Nat \ {0} /\ nextId' = nextId + n
    BY <1>1, <1>3, <2>1, SprintsAdded
  <2>4. Ids' = Ids \cup new /\ \A s \in Ids : sprint'[s] = sprint[s]
    BY <1>1, <1>3, <2>1, SprintsAdded
  <2>5. \A s \in new : sprint'[s].phase = phase
    BY <1>1, <1>3, <2>1, SprintsAdded
  <2>6. EventsShaped'
    <3>1. \A e \in events : e.s < nextId'
      BY <1>1, <1>3, <2>3 DEF EventsShaped
    <3> QED
      BY <1>1, <1>7, <3>1 DEF EventsShaped
  <2>7. CompletedQuiet'
    BY <1>1, <1>2, <1>7, <2>4, <2>5 DEF CompletedQuiet, Quiet
  <2>8. EditsShaped' /\ EditsOwn'
    BY <1>1, <1>2, <1>5, <1>7, <2>4 DEF EditsShaped, EditsOwn, EditsKept
  <2>9. LoopShaped' /\ PlanStands' /\ TableShaped(issue') /\ InScope(issue', events', torn')
    BY <1>1, <1>2, <1>7 DEF LoopShaped, PlanStands
  <2> QED
    BY <2>2, <2>3, <2>6, <2>7, <2>8, <2>9 DEF BoardInv, Shaped, ScheduleInv
<1>8. CASE UNCHANGED <<sprint, nextId, issue, events, edits>>
  BY <1>2, <1>8, RequestInv
<1> QED
  BY <1>6, <1>7, <1>8 DEF CreateCommit

\* edit_sprint: what its check finds, and what it deletes.
LEMMA EditCheckInv ==
  ASSUME BoardInv, NEW s \in Ids, EditCheck(s)
  PROVE  BoardInv'
<1>1. /\ Shaped /\ ScheduleInv /\ DatesInv
      /\ UNCHANGED <<sprint, nextId, issue, events, loop, torn>>
  BY DEF BoardInv, EditCheck
<1>2. PICK start \in Instants :
        /\ ~Overlaps(start, EndFrom[start], [x \in Ids \ {s} |-> sprint[x]])
        /\ edits' = edits \cup
             {[s |-> s, start |-> start, gone |-> Waiting(s), frees |-> ItemsOf(s), stale |-> FALSE]}
  BY DEF EditCheck
<1> PICK end, others : end = EndFrom[start] /\ others = [x \in Ids \ {s} |-> sprint[x]]
  OBVIOUS
<1>3. \A x \in Ids : x # s => ~Meets(sprint[x], Asked(start))
  <2>1. ~Overlaps(start, end, others) /\ DOMAIN others = Ids \ {s}
    BY <1>2
  <2>2. \A x \in Ids \ {s} : others[x] = sprint[x]
    OBVIOUS
  <2> QED
    BY <2>1, <2>2, NoOverlap DEF Meets, Asked
<1>4. \A q \in edits' :
        \/ q \in edits
        \/ DOMAIN q = EditFields /\ q.s = s /\ q.start = start /\ q.gone = Waiting(s)
  BY <1>2 DEF EditFields
<1>5. Shaped'
  BY <1>1, <1>4 DEF Shaped, SprintsShaped, EventsShaped, TableShaped, EditsShaped, LoopShaped, Ids
<1>6. \A e \in events : e.s = s /\ e.st = "PENDING" => e \in Waiting(s)
  BY DEF Waiting, EventsOf
<1>7. ScheduleInv'
  BY <1>1, <1>4, <1>6 DEF ScheduleInv, InScope, CompletedQuiet, Quiet, EditsOwn, PlanStands, Ids
<1>8. EditsStand'
  BY <1>1, <1>3, <1>4 DEF DatesInv, EditsStand, Ids, Asked
<1>9. DatesInv'
  BY <1>1, <1>8 DEF DatesInv, ChecksDisjoint, CreationStands, Ids
<1> QED
  BY <1>5, <1>7, <1>9 DEF BoardInv

LEMMA EditCommitInv ==
  ASSUME BoardInv, NEW r \in edits, EditCommit(r)
  PROVE  BoardInv'
<1>1. /\ SprintsShaped /\ EventsShaped /\ TableShaped(issue) /\ EditsShaped /\ LoopShaped
      /\ InScope(issue, events, torn) /\ CompletedQuiet /\ EditsOwn /\ PlanStands /\ DatesInv
  BY DEF BoardInv, Shaped, ScheduleInv
<1>2. /\ events' = events \ r.gone /\ edits' = OutdatedEdits(edits \ {r})
      /\ loop' = (IF loop.pc = "create" THEN [loop EXCEPT !.stale = TRUE] ELSE loop)
      /\ nextId' = nextId
  BY DEF EditCommit
<1>3. PICK frees :
        /\ issue' = Freed(r.s, frees)
        /\ torn' = torn \cup Robbed(r.s, frees) \cup (IF Recomputing(r.s) THEN {r.s} ELSE {})
  BY DEF EditCommit
<1>4. PICK phase \in {"PLANNING", sprint[r.s].phase} :
        sprint' = [sprint EXCEPT ![r.s].phase = phase, ![r.s].start = r.start,
                                 ![r.s].end = EndFrom[r.start], ![r.s].checked = ~r.stale]
  BY DEF EditCommit
<1>5. r.s \in Ids /\ r.s # 0
  BY <1>1 DEF EditsShaped, SprintsShaped
<1> PICK end, checked : end = EndFrom[r.start] /\ checked = ~r.stale
  OBVIOUS
<1>6. /\ Ids' = Ids /\ SprintsShaped'
      /\ \A x \in Ids : x # r.s => sprint'[x] = sprint[x]
      /\ sprint'[r.s].phase = phase /\ sprint'[r.s].start = r.start /\ sprint'[r.s].end = end
  BY <1>1, <1>2, <1>4, <1>5 DEF SprintsShaped, SprintFields, Ids
<1>7. sprint'[r.s].checked = checked
  BY <1>1, <1>4, <1>5 DEF SprintsShaped, SprintFields, Ids
<1>8. /\ TableShaped(issue') /\ DOMAIN issue' = DOMAIN issue
      /\ \A i \in DOMAIN issue : IF i \in frees THEN issue'[i].sprint = 0 ELSE issue'[i] = issue[i]
  BY <1>1, <1>3, FreedKeeps
<1>9. /\ torn \subseteq torn' /\ (Recomputing(r.s) => r.s \in torn')
      /\ \A i \in frees : issue[i].sprint \in {0, r.s} \/ issue[i].sprint \in torn'
  BY <1>3 DEF Robbed
<1>10. InScope(issue', events', torn')
  <2> SUFFICES ASSUME NEW e \in events', e.st = "PENDING", e.i # 0, e.s \notin torn'
               PROVE  issue'[e.i].sprint = e.s
    BY DEF InScope
  <2>1. /\ issue[e.i].sprint = e.s /\ e.i \in DOMAIN issue /\ e.s # 0
        /\ e.s \notin torn /\ e \notin r.gone /\ e \in events
    BY <1>1, <1>2, <1>9 DEF InScope, EventsShaped
  <2>2. e.s # r.s
    BY <1>1, <2>1 DEF EditsOwn
  <2>3. e.i \notin frees
    BY <1>9, <2>1, <2>2
  <2> QED
    BY <1>8, <2>1, <2>3
<1>11. EventsShaped'
  BY <1>1, <1>2, <1>8 DEF EventsShaped
<1>12. CompletedQuiet'
  <2> SUFFICES ASSUME NEW x \in Ids, sprint'[x].phase = "COMPLETED", x \notin torn'
               PROVE  Quiet(x)'
    BY <1>6 DEF CompletedQuiet
  <2>1. sprint[x].phase = "COMPLETED" /\ x \notin torn
    BY <1>6, <1>9
  <2> QED
    BY <1>1, <1>2, <2>1 DEF CompletedQuiet, Quiet
<1>13. \A q \in edits' :
         /\ DOMAIN q = EditFields /\ q.stale
         /\ \E x \in edits : q.s = x.s /\ q.gone = x.gone
  BY <1>1, <1>2, Outdated DEF EditsShaped
<1>14. EditsShaped'
  BY <1>1, <1>6, <1>13 DEF EditsShaped
<1>22. EditsOwn'
  <2> SUFFICES ASSUME NEW q \in edits', q.s \notin torn', NEW e \in events',
                      e.s = q.s, e.st = "PENDING"
               PROVE  e \in q.gone
    BY DEF EditsOwn
  <2>1. PICK x \in edits : q.s = x.s /\ q.gone = x.gone
    BY <1>13
  <2>2. x.s \notin torn /\ e \in events
    BY <1>2, <1>9, <2>1
  <2> QED
    BY <1>1, <2>1, <2>2 DEF EditsOwn
<1>15. \/ loop' = loop
       \/ /\ loop.pc = "create" /\ loop'.pc = "create" /\ loop'.stale
          /\ loop'.n = loop.n /\ DOMAIN loop' = DOMAIN loop
  <2>1. CASE loop.pc = "create"
    <3>1. loop' = [loop EXCEPT !.stale = TRUE]
      BY <1>2, <2>1
    <3> QED
      BY <1>1, <2>1, <3>1 DEF LoopShaped
  <2> QED
    BY <1>2, <2>1
<1>16. LoopShaped'
  BY <1>1, <1>2, <1>8, <1>15 DEF LoopShaped
<1>17. PlanStands'
  <2> SUFFICES ASSUME loop.pc = "write", loop' = loop PROVE PlanStands'
    BY <1>15 DEF PlanStands
  <2>1. \A i \in loop.joins \cap DOMAIN issue : issue'[i].sprint \in {0, loop.s}
    BY <1>1, <1>8 DEF PlanStands
  <2>2. ASSUME loop.s \in Ids \ torn', NEW e \in loop.new, e.i # 0
        PROVE  e.i \in loop.joins \/ issue'[e.i].sprint = loop.s
    <3>1. loop.s # r.s /\ loop.s \notin torn /\ loop.s # 0
      BY <1>1, <1>9, <2>2 DEF Recomputing, LoopShaped
    <3>2. e.i \in loop.joins \/ issue[e.i].sprint = loop.s
      BY <1>1, <2>2, <3>1 DEF PlanStands
    <3>3. e.i \in DOMAIN issue
      BY <1>1, <2>2 DEF LoopShaped
    <3> QED
      BY <1>8, <1>9, <2>2, <3>1, <3>2, <3>3
  <2> QED
    BY <1>6, <1>8, <2>1, <2>2 DEF PlanStands
<1>18. ASSUME NEW x \in Ids, x # r.s, sprint[x].checked, checked
       PROVE  ~Meets(sprint[x], sprint'[r.s]) /\ ~Meets(sprint'[r.s], sprint[x])
  <2>1. ~Meets(sprint[x], Asked(r.start))
    BY <1>1, <1>18 DEF DatesInv, EditsStand
  <2> QED
    BY <1>6, <2>1 DEF Meets, Asked
<1>19. ChecksDisjoint'
  <2> SUFFICES ASSUME NEW y \in Ids, NEW x \in Ids, y # x, sprint'[y].checked, sprint'[x].checked
               PROVE  ~Meets(sprint'[y], sprint'[x])
    BY <1>6 DEF ChecksDisjoint
  <2>1. CASE y = r.s
    BY <1>6, <1>7, <1>18, <2>1
  <2>2. CASE x = r.s
    BY <1>6, <1>7, <1>18, <2>2
  <2>3. CASE y # r.s /\ x # r.s
    BY <1>1, <1>6, <2>3 DEF DatesInv, ChecksDisjoint
  <2> QED
    BY <2>1, <2>2, <2>3
<1>20. EditsStand'
  BY <1>13 DEF EditsStand
<1>21. CreationStands'
  BY <1>2, <1>15 DEF CreationStands
<1> QED
  BY <1>6, <1>8, <1>10, <1>11, <1>12, <1>14, <1>16, <1>17, <1>19, <1>20, <1>21, <1>22
     DEF BoardInv, Shaped, ScheduleInv, DatesInv

LEMMA DeleteInv ==
  ASSUME BoardInv, NEW s \in Ids, Delete(s)
  PROVE  BoardInv'
<1>1. /\ SprintsShaped /\ EventsShaped /\ TableShaped(issue) /\ EditsShaped /\ LoopShaped
      /\ InScope(issue, events, torn) /\ CompletedQuiet /\ EditsOwn /\ PlanStands /\ DatesInv
  BY DEF BoardInv, Shaped, ScheduleInv
<1>2. /\ events' = events \ EventsOf(s) /\ ~Held(s)
      /\ UNCHANGED <<nextId, loop, edits>> /\ sprint' = [x \in Ids \ {s} |-> sprint[x]]
  BY DEF Delete
<1>12. PICK earlier : /\ issue' = Freed(s, ItemsOf(s) \cup earlier)
                      /\ torn' = torn \cup Robbed(s, earlier)
  BY DEF Delete
<1>13. /\ torn \subseteq torn'
       /\ \A i \in earlier : issue[i].sprint \in {0, s} \/ issue[i].sprint \in torn'
  BY <1>12 DEF Robbed
<1>3. Ids' = Ids \ {s} /\ \A x \in Ids' : sprint'[x] = sprint[x]
  BY <1>2 DEF Ids
<1>4. /\ TableShaped(issue') /\ DOMAIN issue' = DOMAIN issue
      /\ \A i \in DOMAIN issue :
           \/ issue'[i].sprint = 0 /\ (issue[i].sprint \in {0, s} \/ issue[i].sprint \in torn')
           \/ issue[i].sprint # s /\ issue'[i] = issue[i]
  <2>1. \A i \in DOMAIN issue : i \in ItemsOf(s) <=> issue[i].sprint = s
    BY DEF ItemsOf
  <2> QED
    BY <1>1, <1>12, <1>13, <2>1, FreedKeeps
<1>5. \A e \in events' : e \in events /\ e.s # s
  BY <1>2 DEF EventsOf
<1>6. EventsShaped'
  BY <1>1, <1>2, <1>4, <1>5 DEF EventsShaped
<1>14. InScope(issue', events', torn')
  <2> SUFFICES ASSUME NEW e \in events', e.st = "PENDING", e.i # 0, e.s \notin torn'
               PROVE  issue'[e.i].sprint = e.s
    BY DEF InScope
  <2>1. /\ issue[e.i].sprint = e.s /\ e.i \in DOMAIN issue /\ e.s # 0 /\ e.s # s
    BY <1>1, <1>5, <1>13 DEF InScope, EventsShaped
  <2> QED
    BY <1>4, <2>1
<1>7. SprintsShaped' /\ CompletedQuiet'
  BY <1>1, <1>2, <1>3, <1>5, <1>13 DEF SprintsShaped, CompletedQuiet, Quiet
<1>8. EditsShaped' /\ EditsOwn' /\ EditsKept
  BY <1>1, <1>2, <1>3, <1>5, <1>13 DEF EditsShaped, EditsOwn, EditsKept, Held
<1>9. LoopShaped'
  BY <1>1, <1>2, <1>4 DEF LoopShaped
<1>10. PlanStands'
  <2> SUFFICES ASSUME loop.pc = "write" PROVE PlanStands'
    BY <1>2 DEF PlanStands
  <2>1. \A i \in loop.joins \cap DOMAIN issue : issue'[i].sprint \in {0, loop.s}
    BY <1>1, <1>4 DEF PlanStands
  <2>2. ASSUME loop.s \in Ids' \ torn', NEW e \in loop.new, e.i # 0
        PROVE  e.i \in loop.joins \/ issue'[e.i].sprint = loop.s
    <3>1. loop.s # s /\ loop.s \in Ids \ torn /\ loop.s # 0
      BY <1>1, <1>3, <1>13, <2>2 DEF LoopShaped
    <3>2. e.i \in loop.joins \/ issue[e.i].sprint = loop.s
      BY <1>1, <2>2, <3>1 DEF PlanStands
    <3>3. e.i \in DOMAIN issue
      BY <1>1, <2>2 DEF LoopShaped
    <3> QED
      BY <1>4, <2>2, <3>1, <3>2, <3>3
  <2> QED
    BY <1>2, <1>4, <2>1, <2>2 DEF PlanStands
<1>11. DatesInv'
  BY <1>1, <1>2, <1>3, <1>8, DatesKept
<1> QED
  BY <1>4, <1>6, <1>7, <1>8, <1>9, <1>10, <1>11, <1>14 DEF BoardInv, Shaped, ScheduleInv

\* The phase of a sprint, or its Jira id, changes, and nothing else.
LEMMA RowInv ==
  ASSUME BoardInv, NEW s \in Ids, NEW v,
         \/ sprint' = [sprint EXCEPT ![s].phase = v] /\ v # "COMPLETED"
         \/ sprint' = [sprint EXCEPT ![s].jira = v],
         UNCHANGED <<nextId, issue, events, loop, edits, torn>>
  PROVE  BoardInv'
<1>1. SprintsShaped /\ EditsKept /\ TableShaped(issue) /\ InScope(issue, events, torn)
  BY EditsStay DEF BoardInv, Shaped, ScheduleInv
<1>2. /\ SprintsShaped' /\ Ids' = Ids
      /\ \A x \in Ids : /\ sprint'[x].start = sprint[x].start /\ sprint'[x].end = sprint[x].end
                        /\ sprint'[x].checked = sprint[x].checked
                        /\ x # s => sprint'[x] = sprint[x]
      /\ sprint' = [sprint EXCEPT ![s].phase = v] => sprint'[s].phase = v
      /\ sprint' = [sprint EXCEPT ![s].jira = v] => sprint'[s].phase = sprint[s].phase
  BY <1>1, RowKept
<1> QED
  BY <1>1, <1>2, Kept

\* Events that are dispatched, reopened or cancelled.
LEMMA EventsInv ==
  ASSUME BoardInv, UNCHANGED <<sprint, nextId, issue, loop, edits, torn>>,
         \A e \in events' :
           \/ e \in events
           \/ \E f \in events : \E st : e = [f EXCEPT !.st = st] /\ st # "PENDING"
  PROVE  BoardInv'
<1>1. /\ SprintsShaped /\ EventsShaped /\ EditsKept /\ TableShaped(issue)
      /\ InScope(issue, events, torn)
  BY EditsStay DEF BoardInv, Shaped, ScheduleInv
<1>2. ASSUME NEW f \in events, NEW st, st # "PENDING", NEW e, e = [f EXCEPT !.st = st]
      PROVE  e.st # "PENDING" /\ DOMAIN e = EventFields /\ e.s = f.s /\ e.i = f.i
  BY <1>1, <1>2 DEF EventsShaped, EventFields
<1>3. \A e \in events' :
        \/ e \in events
        \/ /\ e.st # "PENDING" /\ DOMAIN e = EventFields
           /\ \E f \in events : e.s = f.s /\ e.i = f.i
  BY <1>2
<1>4. SprintsShaped' /\ Ids' = Ids
  BY <1>1 DEF SprintsShaped, Ids
<1> QED
  BY <1>1, <1>3, <1>4, Kept

LEMMA NextInv == BoardInv /\ [Next]_vars => BoardInv'
<1> SUFFICES ASSUME BoardInv, [Next]_vars PROVE BoardInv'
  OBVIOUS
<1>1. CASE TickTeam
  BY <1>1, TickInv
<1>2. CASE CadenceCheck \/ Precompute
  <2>1. Loop /\ ComputeNow(issue, FALSE) /\ UNCHANGED <<loop, edits, torn>>
    BY <1>2 DEF CadenceCheck, Precompute
  <2> QED
    BY <2>1, ComputeNowInv DEF BoardInv, Shaped, ScheduleInv
<1>3. CASE CreateCheck \/ CreateCommit \/ RecomputePlan \/ RecomputeCommit
  BY <1>3, CreateCheckInv, CreateCommitInv, RecomputePlanInv, RecomputeCommitInv
<1>4. CASE RecomputeFails \/ Advance \/ UNCHANGED vars
  <2>1. /\ UNCHANGED <<sprint, nextId, issue, events, torn>> /\ edits' \subseteq edits
        /\ loop' = loop \/ loop'.pc = "idle"
    BY <1>4 DEF RecomputeFails, Advance, vars, Idle
  <2> QED
    BY <2>1, RequestInv
<1>5. ASSUME NEW s \in Ids, RecomputeRead(s)
      PROVE  BoardInv'
  <2>1. /\ UNCHANGED <<sprint, nextId, issue, events, torn>> /\ edits' \subseteq edits
        /\ loop'.pc = "read" /\ loop'.s \in Ids
    BY <1>5 DEF RecomputeRead
  <2> QED
    BY <2>1, RequestInv
<1>6. ASSUME NEW r \in edits, EditFails(r)
      PROVE  BoardInv'
  <2>1. UNCHANGED <<sprint, nextId, issue, events, torn, loop>> /\ edits' \subseteq edits
    BY <1>6 DEF EditFails
  <2> QED
    BY <2>1, RequestInv
<1>7. ASSUME NEW r \in edits, EditCommit(r)
      PROVE  BoardInv'
  BY <1>7, EditCommitInv
<1>8. ASSUME NEW s \in Ids, EditCheck(s) \/ Delete(s)
      PROVE  BoardInv'
  BY <1>8, EditCheckInv, DeleteInv
<1>9. ASSUME NEW s \in Ids, Activate(s) \/ ResetSprint(s) \/ MapSprintId(s)
      PROVE  BoardInv'
  <2>1. UNCHANGED <<nextId, issue, events, loop, edits, torn>>
    BY <1>9 DEF Activate, ResetSprint, MapSprintId
  <2>2. PICK v : \/ sprint' = [sprint EXCEPT ![s].phase = v] /\ v # "COMPLETED"
                 \/ sprint' = [sprint EXCEPT ![s].jira = v]
    BY <1>9 DEF Activate, ResetSprint, MapSprintId
  <2> QED
    BY <2>1, <2>2, RowInv
<1>10. CASE Dispatch
  BY <1>10, EventsInv DEF Dispatch
<1>11. ASSUME NEW e \in events, Reopen(e)
       PROVE  BoardInv'
  BY <1>11, EventsInv DEF Reopen
<1>12. ASSUME NEW s \in Ids, CancelAll(s)
       PROVE  BoardInv'
  BY <1>12, EventsInv DEF CancelAll
<1> QED
  BY <1>1, <1>2, <1>3, <1>4, <1>5, <1>6, <1>7, <1>8, <1>9, <1>10, <1>11, <1>12 DEF Next

LEMMA Invariant == Spec => []BoardInv
BY InitInv, NextInv, PTL DEF Spec

\* However sprints are created, edited, deleted and precomputed by requests that
\* interleave: those whose dates were checked never overlap, unless other dates were
\* committed inside the request that checked them (check_sprint_overlap).
THEOREM CheckedDisjoint == Spec => []CheckedSprintsDisjoint
<1>1. BoardInv => CheckedSprintsDisjoint
  <2> SUFFICES ASSUME BoardInv, NEW s \in Ids, NEW x \in Ids, s # x,
                      sprint[s].checked, sprint[x].checked
               PROVE  ~(sprint[s].start < sprint[x].end /\ sprint[s].end > sprint[x].start)
    BY DEF CheckedSprintsDisjoint
  <2>1. ~Meets(sprint[s], sprint[x])
    BY DEF BoardInv, DatesInv, ChecksDisjoint
  <2> QED
    BY <2>1 DEF Meets
<1> QED
  BY <1>1, Invariant, PTL

\* A waiting event is about an issue of its own sprint through planning, carryover,
\* deletion, dispatch and edits and recomputations that take several steps, but for
\* the three cases that EventsInScope names (compute_and_schedule_sprint,
\* recompute_sprint_schedule, edit_sprint).
THEOREM EventsStayInScope == Spec => []EventsInScope
<1>1. BoardInv => EventsInScope
  BY DEF BoardInv, ScheduleInv, InScope, EventsInScope
<1> QED
  BY <1>1, Invariant, PTL
=============================================================================
