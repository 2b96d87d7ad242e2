------------------------------ MODULE VisitLabor ------------------------------
(***************************************************************************)
(* What a Scrum tick does with the open visits of a sprint: the labor part *)
(* of v2/domain/scrum_tick.py, with the risks of v2/domain/risks.py that   *)
(* act on it (EXTERNAL_DEPENDENCY, MEMBER_UNAVAILABLE, LONG_STAY).         *)
(* ScrumTick lets any visit complete at any time; here the completions     *)
(* follow from sampled durations, owners, availability and daily capacity. *)
(*                                                                         *)
(* Time is counted in the smallest unit, a microsecond of a very short     *)
(* day.  A fraction of a member's time is a share of Whole.  Sprint        *)
(* boundaries, review rejections and cancellations are ScrumTick's; no     *)
(* status here pauses the service clock by itself.                         *)
(***************************************************************************)
EXTENDS Integers, FiniteSets, FiniteSetsExt

CONSTANTS
  Items,           \* work items of the sprint, 1..n by simulator rank
  Members,         \* member identities, 1..n by blueprint index
  LastStep,        \* the timed steps of the route are 1..LastStep
  Samples,         \* sampled [touch, dwell] of a visit
  Proficiency,     \* [Members -> [1..LastStep -> Nat]]; 0: not responsible
  Wip,             \* [Members -> Nat]: max_concurrent_wip
  DailyCapacity,   \* [Members -> Nat]
  Absence,         \* configured availability: set of [member, from, to, part, cap]
  Whole,           \* denominator of an availability fraction
  DayLength,       \* instants of a date
  WorkHours,       \* instants of a date that are worked
  Horizon,         \* bound on simulation time
  Wait,            \* wait of EXTERNAL_DEPENDENCY; 0: rule not configured
  Leave,           \* length of a MEMBER_UNAVAILABLE leave; 0: not configured
  LongStayFirst    \* LONG_STAY stands before EXTERNAL_DEPENDENCY in the rules

ASSUME LaborAssumption ==
  /\ IsFiniteSet(Items) /\ Items = 1..Cardinality(Items)
  /\ IsFiniteSet(Members) /\ Members = 1..Cardinality(Members)
  /\ LastStep \in Nat \ {0} /\ DayLength \in Nat \ {0} /\ Whole \in Nat \ {0}
  /\ Samples \subseteq [touch : Nat, dwell : Nat] /\ Samples # {}
  /\ Proficiency \in [Members -> [1..LastStep -> Nat]]
  /\ Wip \in [Members -> Nat \ {0}] /\ DailyCapacity \in [Members -> Nat]
  /\ WorkHours \subseteq 0..(DayLength - 1)
  /\ Horizon \in Nat /\ Wait \in Nat /\ Leave \in Nat /\ LongStayFirst \in BOOLEAN
  /\ \A a \in Absence : /\ a.member \in Members /\ a.part \in 0..Whole /\ a.cap \in Nat
                        /\ a.from \in Int /\ a.to \in Int /\ a.from < a.to

VARIABLES
  sim,     \* simulation_time of the runtime
  visit,   \* item -> its latest visit
  used,    \* member -> date -> consumed labor (MemberBusinessDateConsumption)
  leaves,  \* MemberAvailabilityOverlays, like Absence with part and cap 0
  slice    \* history of the last slice: [from, limit, closed, labor]

laborVars == <<sim, visit, used, leaves, slice>>

Days == 0..(Horizon \div DayLength)

EnteredVisit(s, at, sample) ==
  [step |-> s, entered |-> at, touch |-> sample.touch, dwell |-> sample.dwell,
   left |-> sample.touch, credited |-> 0, queue |-> 0, pause |-> 0, owner |-> 0,
   stays |-> 0, open |-> TRUE]

\* A sprint just started: every item is in its first timed step.
LaborInit ==
  /\ sim = 0
  /\ visit \in [Items -> {EnteredVisit(1, 0, s) : s \in Samples}]
  /\ used = [m \in Members |-> [d \in Days |-> 0]]
  /\ leaves = {}
  /\ slice = [from |-> 0, limit |-> 0, closed |-> {}, labor |-> 0]
-----------------------------------------------------------------------------
(* The business calendar.                                                  *)

DateOf(t) == t \div DayLength
Works(t) == t % DayLength \in WorkHours
Worked == [t \in 0..(Horizon + DayLength) |-> Cardinality({u \in 0..(t - 1) : Works(u)})]
Elapsed(a, b) == Worked[b] - Worked[a]
WorkdayStart(t) == Works(t) /\ (t = 0 \/ ~Works(t - 1) \/ DateOf(t) # DateOf(t - 1))

\* _business_segments and _availability_boundaries: the segment of a slice from..end
\* that starts at t, if one does.  A segment is working time cut at the edges of away.
Edge(t, away) == ~Works(t) \/ WorkdayStart(t) \/ \E i \in away : t \in {i.from, i.to}
StartsSegment(t, from, away) == Works(t) /\ (t = from \/ Edge(t, away))
Segment(t, end, away) ==
  [from |-> t, to |-> CHOOSE u \in (t + 1)..end :
                        /\ u = end \/ Edge(u, away)
                        /\ \A x \in (t + 1)..(u - 1) : ~Edge(x, away)]
-----------------------------------------------------------------------------
(* Availability and capacity of member m in segment g; away are the        *)
(* configured and the risk intervals.                                      *)

Floor0(n) == IF n < 0 THEN 0 ELSE n

\* round(): to the nearest, a half to the even one.
Rounded(n) ==
  LET q == n \div Whole
      r == 2 * (n % Whole)
  IN IF r > Whole \/ (r = Whole /\ q % 2 = 1) THEN q + 1 ELSE q

Active(g, m, away) == {i \in away : i.member = m /\ i.from <= g.from /\ g.from < i.to}
Fraction(g, m, away) == Min({Whole} \cup {i.part : i \in Active(g, m, away)})
Available(g, m, away) == Rounded((g.to - g.from) * Fraction(g, m, away))

\* _daily_ceiling
Ceiling(g, m, away) ==
  Rounded(Min({DailyCapacity[m]} \cup {i.cap : i \in Active(g, m, away)}) * Fraction(g, m, away))

RemainingCapacity(g, m, away, us) ==
  Floor0(Min({Available(g, m, away), Ceiling(g, m, away) - us[m][DateOf(g.from)]}))
-----------------------------------------------------------------------------
(* One segment: _advance_segment.                                          *)

Open(vs) == {i \in Items : vs[i].open}

\* The visits with New(v, i) for the visit v of each item i in S.
Updated(vs, S, New(_, _)) == [i \in Items |-> IF i \in S THEN New(vs[i], i) ELSE vs[i]]

\* _can_retain: in rank order owners keep their visits up to their limit of work in
\* progress.
Retained(vs, g, away, ranked) ==
  LET eligible == {i \in ranked : /\ vs[i].owner # 0
                                  /\ Proficiency[vs[i].owner][vs[i].step] > 0
                                  /\ Available(g, vs[i].owner, away) > 0}
      kept == {i \in eligible :
                 Cardinality({j \in eligible : j < i /\ vs[j].owner = vs[i].owner}) < Wip[vs[i].owner]}
  IN Updated(vs, ranked \ kept, LAMBDA v, i : [v EXCEPT !.owner = 0])

\* _assign_owner: a visit without owner takes the most proficient member with room.
AssignOwner(o, i, room, ranked) ==
  LET s == o[i].step
      candidates == {m \in room : /\ Proficiency[m][s] > 0
                                  /\ Cardinality({j \in ranked : o[j].owner = m}) < Wip[m]}
      best == Min({m \in candidates : \A n \in candidates : Proficiency[n][s] <= Proficiency[m][s]})
  IN IF i \notin ranked \/ o[i].owner # 0 \/ candidates = {} THEN o
     ELSE [o EXCEPT ![i].owner = best]

\* _assign_owners
AssignOwners(vs, us, g, away, ranked) ==
  LET room == {m \in Members : Fraction(g, m, away) > 0 /\ RemainingCapacity(g, m, away, us) > 0}
      assigned[k \in 0..Cardinality(Items)] ==
        IF k = 0 THEN Retained(vs, g, away, ranked) ELSE AssignOwner(assigned[k - 1], k, room, ranked)
  IN assigned[Cardinality(Items)]

\* Mutation: a member's labor for several visits of the segment is not added up.
CreditAlone(w, i, g, away, start) ==
  Min({w.vs[i].left, Available(g, w.vs[i].owner, away),
       Floor0(Ceiling(g, w.vs[i].owner, away) - start[w.vs[i].owner][DateOf(g.from)])})

\* Mutation: the daily ceiling holds for a segment, not for the day.
CreditPerSegment(w, i, g, away, start) ==
  LET m == w.vs[i].owner
      spent == w.us[m][DateOf(g.from)] - start[m][DateOf(g.from)]
  IN Min({w.vs[i].left, Floor0(Available(g, m, away) - spent), Floor0(Ceiling(g, m, away) - spent)})

\* _segment_capacity: what is left of the segment and of the day.
Credit(w, i, g, away, start) ==
  LET m == w.vs[i].owner
      d == DateOf(g.from)
  IN Min({w.vs[i].left,
          Floor0(Available(g, m, away) - (w.us[m][d] - start[m][d])),
          Floor0(Ceiling(g, m, away) - w.us[m][d])})

\* Mutation: only an owned visit queues.
QueuedOwned(v, c, long) == IF v.left = c \/ v.owner = 0 THEN 0 ELSE Floor0(long - c)

\* The queue time of a segment; a visit whose work ends in it has none.
Queued(v, c, long) == IF v.left = c THEN 0 ELSE Floor0(long - c)

\* A visit after a segment of the given length with labor c.
Labored(v, c, long) ==
  [v EXCEPT !.left = @ - c, !.credited = @ + c, !.queue = @ + Queued(v, c, long)]

Booked(us, m, d, c) == [us EXCEPT ![m][d] = @ + c]

\* _advance_visit
AdvanceVisit(w, i, g, away, start) ==
  LET v == w.vs[i]
      idle == v.owner = 0 \/ v.left = 0
      c == IF idle THEN 0 ELSE Credit(w, i, g, away, start)
  IN [vs |-> [w.vs EXCEPT ![i] = Labored(v, c, g.to - g.from)],
      us |-> IF idle THEN w.us ELSE Booked(w.us, v.owner, DateOf(g.from), c)]

AdvanceSegment(vs, us, g, away, blocked) ==
  LET ranked == Open(vs) \ blocked
      done[k \in 0..Cardinality(Items)] ==
        IF k = 0 THEN [vs |-> AssignOwners(vs, us, g, away, ranked), us |-> us]
        ELSE IF k \in ranked THEN AdvanceVisit(done[k - 1], k, g, away, us) ELSE done[k - 1]
  IN done[Cardinality(Items)]

\* _completion_boundary: the instants of the segment at which a visit has both its touch
\* (after the labor of its owner for visits of a higher rank) and its dwell.
Completions(vs, after, g, away) ==
  LET prior(i) ==
        SumFunction([j \in Items |-> IF j \in Open(vs) /\ j < i /\ after[j].owner = after[i].owner
                                     THEN after[j].credited - vs[j].credited ELSE 0])
      part(i) == Fraction(g, after[i].owner, away)
      touched(i) == IF vs[i].left = 0 THEN g.from
                    ELSE g.from + ((prior(i) + vs[i].left) * Whole + part(i) - 1) \div part(i)
      dwelt(i) == g.from + Floor0(vs[i].dwell - Floor0(Elapsed(vs[i].entered, g.from) - vs[i].pause))
  IN {t \in {Max({touched(i), dwelt(i)}) : i \in {j \in Open(vs) : after[j].left = 0}} : t <= g.to}
-----------------------------------------------------------------------------
(* The slice: _advance_visits, then _finish_visits.                        *)

\* Mutation: off by one.
CompletedAfter(v, end) == v.left = 0 /\ Floor0(Elapsed(v.entered, end) - v.pause) > v.dwell

\* _is_complete
Completed(v, end) == v.left = 0 /\ Floor0(Elapsed(v.entered, end) - v.pause) >= v.dwell

Stopped(w, end) == [vs |-> w.vs, us |-> w.us, end |-> end, cut |-> TRUE]

\* The probe of a segment stands, or the segment is run again up to the first of ends.
KeptOrCut(w, g, probe, ends, away, blocked) ==
  IF ends = {} THEN [vs |-> probe.vs, us |-> probe.us, end |-> w.end, cut |-> FALSE]
  ELSE Stopped(AdvanceSegment(w.vs, w.us, [from |-> g.from, to |-> Min(ends)], away, blocked),
               Min(ends))

\* The visits that are complete where the work w has come to.
Finished(w) ==
  [vs |-> w.vs, us |-> w.us, end |-> w.end,
   closed |-> {i \in Open(w.vs) : Completed(w.vs[i], w.end)}]

\* Work up to the end of the slice or to the first completion before it.
AdvanceVisits(vs, us, from, end, away, blocked) ==
  LET judged(w, g, probe) ==
        KeptOrCut(w, g, probe, Completions(w.vs, probe.vs, g, away), away, blocked)
      work(w, g) == judged(w, g, AdvanceSegment(w.vs, w.us, g, away, blocked))
      worked[t \in from..end] ==
        IF t = from THEN [vs |-> vs, us |-> us, end |-> end, cut |-> FALSE]
        ELSE IF ~worked[t - 1].cut /\ StartsSegment(t - 1, from, away)
             THEN work(worked[t - 1], Segment(t - 1, end, away)) ELSE worked[t - 1]
  IN Finished(worked[end])
-----------------------------------------------------------------------------
(* The risks of a slice that is to end at e: D are the visits whose draw   *)
(* meets an external dependency, L the members whose draw sends them away. *)

\* _dependency_records: a pause goes on; one is decided only at the entry.
Dependent(e, D) ==
  {i \in Open(visit) : /\ sim < e /\ visit[i].pause < Wait
                       /\ visit[i].pause > 0 \/ (visit[i].entered = sim /\ i \in D)}

\* _paused_visit
PausedVisit(v, e) ==
  LET delta == Min({Wait - v.pause, e - sim})
  IN [v EXCEPT !.owner = 0, !.queue = @ + delta, !.pause = @ + delta]

\* _unavailability_overlay of the owners at the start of a workday.
Overlays(e, L) ==
  IF Leave = 0 \/ ~WorkdayStart(sim) \/ e <= sim THEN {}
  ELSE {[member |-> m, from |-> sim, to |-> sim + Leave, part |-> 0, cap |-> 0] :
          m \in L}

\* Mutation: a threshold reached at the cursor counts again.
CrossedAgain(v, e) ==
  LET service(t) == Floor0(Elapsed(v.entered, t) - v.pause)
  IN service(sim) <= v.dwell /\ v.dwell <= service(e)

\* _threshold_crossed by visit v in a slice that ends at e.
Crossed(v, e) ==
  LET service(t) == Floor0(Elapsed(v.entered, t) - v.pause)
  IN service(sim) < v.dwell /\ v.dwell <= service(e)

\* The long stays of a slice r that stands, by the visits seen, with its leaves.
Watched(r, seen, over) ==
  [vs |-> Updated(r.vs, {i \in Open(visit) : Crossed(seen[i], r.end)},
                  LAMBDA v, i : [v EXCEPT !.stays = @ + 1]),
   us |-> r.us, end |-> r.end, closed |-> r.closed, leaves |-> over]

\* _advance_for_risks; the loop of _risk_aware_advance starts over from the original
\* state at the shorter end until the end stands.
RiskAwareAdvance(limit, D, L) ==
  LET advance[e \in sim..limit] ==
        LET over == leaves \cup Overlays(e, L)
            worked(paused) ==
              AdvanceVisits(paused, used, sim, e, Absence \cup over, Dependent(e, D))
            judged(r, paused) ==
              IF r.end < e THEN advance[r.end]
              ELSE Watched(r, IF LongStayFirst THEN visit ELSE paused, over)
            from(paused) == judged(worked(paused), paused)
        IN from(Updated(visit, Dependent(e, D), LAMBDA v, i : PausedVisit(v, e)))
  IN advance[limit]

\* _next_workday_risk_boundary
Limit(ends) ==
  IF Leave = 0 \/ Open(visit) = {} THEN ends
  ELSE Min({ends} \cup {t \in (sim + 1)..(ends - 1) : WorkdayStart(t)})

\* _transition: the visits that complete are closed, the next timed step is entered
\* with new samples, or the item is done.
Transition(r, drawn) ==
  Updated(r.vs, r.closed, LAMBDA v, i :
    IF v.step = LastStep THEN [v EXCEPT !.open = FALSE] ELSE EnteredVisit(v.step + 1, r.end, drawn[i]))

\* The labor credited to the visits of the items in S.
LaborOf(vs, S) == SumFunction([i \in Items |-> IF i \in S THEN vs[i].credited ELSE 0])

\* calculate_scrum_tick and its commit.
Tick ==
  \E ends \in (sim + 1)..Horizon,
     D \in SUBSET {i \in Open(visit) : Wait > 0 /\ visit[i].entered = sim},
     L \in SUBSET {m \in Members : Leave > 0 /\ WorkdayStart(sim) /\ m \in {visit[i].owner : i \in Open(visit)}} :
    \E r \in {RiskAwareAdvance(Limit(ends), D, L)} :
       \E drawn \in [{i \in r.closed : r.vs[i].step < LastStep} -> Samples] :
         /\ sim' = r.end
         /\ visit' = Transition(r, drawn)
         /\ used' = r.us
         /\ leaves' = r.leaves
         /\ slice' = [from |-> sim, limit |-> Limit(ends), closed |-> r.closed,
                      labor |-> slice.labor + LaborOf(r.vs, r.closed)]

LaborSpec == LaborInit /\ [][Tick]_laborVars
-----------------------------------------------------------------------------
(* Properties.                                                             *)

\* A visit's waits have not outrun its business time.
Settled(v, t) == v.pause <= Elapsed(v.entered, t)

\* Nobody works more on a date than the capacity of that date, nor more than its
\* business time so far, however the day is sliced and however many visits share the
\* member; and the labor booked on members is exactly the labor credited to visits
\* (_segment_capacity, _advance_visit, the second run of a shortened segment).
MemberLaborBounded ==
  /\ \A m \in Members, d \in Days :
       /\ used[m][d] <= DailyCapacity[m]
       /\ used[m][d] <= Floor0(Elapsed(d * DayLength, Min({sim, (d + 1) * DayLength})))
  /\ SumFunction([m \in Members |-> SumFunction(used[m])]) = LaborOf(visit, Open(visit)) + slice.labor

\* Every instant of business time of an unfinished visit is either labor or queue, and a
\* visit has as much labor as was sampled when its work is over (_advance_visit,
\* _advance_visits: no time is lost or counted twice where segments and slices meet).
VisitTimeAccounted ==
  \A i \in Open(visit) :
    LET v == visit[i] IN
    /\ v.touch = v.credited + v.left
    /\ v.pause = 0 /\ v.left > 0 => v.credited + v.queue = Elapsed(v.entered, sim)

\* A slice moves the cursor or closes a visit, so that the catch-up loop, which asks again
\* from the shorter end, always gets on; and a slice that ends before its limit ends because
\* a visit completes there: the estimate (_completion_boundary) and the final test
\* (_is_complete) agree, unless a visit has waited for longer than its business time or a
\* member gives half of the time or less, which a short segment rounds to nothing.
SlicesProgress ==
  /\ slice.from < sim \/ slice.closed # {} \/ slice.limit = 0
  /\ /\ sim < slice.limit
     /\ \A i \in Open(visit) : Settled(visit[i], slice.from)
     /\ \A a \in Absence : a.part = 0 \/ 2 * a.part > Whole \/ a.to <= slice.from \/ sim < a.from
     => slice.closed # {}

\* Whole-time work does not depend on how the scheduler slices time: working to an
\* instant between and on from there gives the labor, the owners and the completions of
\* one slice (_advance_visits called by catch-up, by polls and after a restart).
SliceIndependent ==
  \A mid, end \in sim..Horizon :
    LET away == Absence \cup leaves
        advance(vs, us, a, b) == AdvanceVisits(vs, us, a, b, away, {})
        same(one, two) ==
          /\ one.end = two.end /\ one.closed = two.closed /\ one.us = two.us
          /\ \A i \in Items : one.vs[i].left = two.vs[i].left /\ one.vs[i].owner = two.vs[i].owner
        agree(one, first) ==
          mid < one.end /\ first.closed = {} => same(one, advance(first.vs, first.us, mid, end))
        whole == \A a \in away : a.part \in {0, Whole} \/ a.to <= sim \/ end <= a.from
    IN whole /\ (\A i \in Open(visit) : Settled(visit[i], sim)) =>
         agree(advance(visit, used, sim, end), advance(visit, used, sim, mid))

\* LONG_STAY_DETECTED is recorded when the service time of a visit, without nights and
\* pauses, reaches the threshold: in no order of the rules is one missed, and it is recorded
\* once, and not before, unless LONG_STAY stands first and takes the wait of a slice for
\* service (risks._long_stay_record, _threshold_crossed, evaluate_due_risks).
LongStayDetected ==
  \A i \in Open(visit) :
    LET v == visit[i]
        due == v.dwell > 0 /\ Floor0(Elapsed(v.entered, sim) - v.pause) >= v.dwell
    IN IF LongStayFirst /\ v.pause > 0 THEN due => v.stays >= 1
       ELSE v.stays = IF due THEN 1 ELSE 0
=============================================================================
