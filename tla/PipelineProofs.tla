--------------------------- MODULE PipelineProofs ---------------------------
(***************************************************************************)
(* Proofs about EventPipeline for any number of events, issues, calls of   *)
(* process_batch, dispatchers and disturbances.                            *)
(*                                                                         *)
(* None of the properties is inductive alone.  An audit row is truthful    *)
(* because an entry is DONE only after its write landed; a write lands at  *)
(* most once because, as long as no two calls overlapped and nothing was   *)
(* retried by hand, the rest of a batch is still PENDING and an entry in   *)
(* flight has not landed before it was sent; and transitions arrive in     *)
(* order because the queue holds them in the order of the schedule and a   *)
(* call works through them in the order of the queue.                      *)
(***************************************************************************)
EXTENDS EventPipeline, SequenceTheorems, FiniteSetTheorems, TLAPS

\* The operations the queue ever holds.
Ops == {Plan[e].op : e \in Events} \cup {"CREATE_ISSUE"}

Entry == [op : Ops, issue : Issues, arg : Nat, event : Events \cup {0}, status : EntryStatuses]

Call == [pc : {"idle", "flight", "sleep"}, rest : Seq(Nat), entry : Nat, sent : BOOLEAN]

EventRow == [status : {"ABSENT", "PENDING", "MODIFIED", "DISPATCHED", "DELETED"}, at : Nat, arg : Nat]

Item == [id : Events, arg : Nat]

Batch == [pc : {"idle", "loaded"}, batch : Seq(Item), asof : Nat]

AuditEntry ==
  [event : Events, entry : Nat, at : Nat, status : {"PENDING", "VERIFIED", "FAILED", "TIMEOUT"}]

Shape ==
  /\ queue \in Seq(Entry)
  /\ landed \in Seq(Nat) /\ Len(landed) = Len(queue)
  /\ proc \in [Processors -> Call]
  /\ jira \in [Issues -> [count : Nat, status : Nat, last : Nat]]
  /\ excuse \in SUBSET {"overlap", "retry", "zero", "dispatch", "edit", "late", "reschedule"}
  /\ now \in Nat
  /\ event \in [Events -> EventRow]
  /\ disp \in [Dispatchers -> Batch]
  /\ audit \in Seq(AuditEntry)

Rows == 1..Len(queue)

Writing(p) == proc[p].pc = "flight"

\* Calls refer to rows of the table.
InRange ==
  \A p \in Processors :
    /\ \A j \in 1..Len(proc[p].rest) : proc[p].rest[j] \in Rows
    /\ Writing(p) => proc[p].entry \in Rows

\* What is DONE, and what a call has sent, has landed.
DoneHasLanded ==
  /\ \A k \in Rows : queue[k].status = "DONE" => landed[k] > 0
  /\ \A p \in Processors : Writing(p) /\ proc[p].sent => landed[proc[p].entry] > 0

\* Calls do not overlap unnoticed.
OneCall ==
  "overlap" \notin excuse => \A p, q \in Processors : Busy(p) /\ Busy(q) => p = q

\* Without an overlap and without a manual retry, what is waiting has not landed.
OnceEach ==
  excuse \cap {"overlap", "retry"} = {} =>
    /\ \A k \in Rows : landed[k] <= 1 /\ (queue[k].status = "PENDING" => landed[k] = 0)
    /\ \A p \in Processors : Writing(p) =>
         /\ queue[proc[p].entry].status = "IN_FLIGHT"
         /\ proc[p].sent = FALSE => landed[proc[p].entry] = 0
    /\ \A p \in Processors : Busy(p) =>
         \A j \in 1..Len(proc[p].rest) :
           /\ queue[proc[p].rest[j]].status = "PENDING"
           /\ \A i \in 1..Len(proc[p].rest) : proc[p].rest[i] = proc[p].rest[j] => i = j

QueueInv == InRange /\ DoneHasLanded /\ StrandedExplained /\ OneCall /\ OnceEach

AuditInv ==
  \A k \in 1..Len(audit) :
    /\ audit[k].entry \in Rows
    /\ audit[k].status = "VERIFIED" => landed[audit[k].entry] > 0

Loaded(d) == disp[d].pc = "loaded"

Ids(b) == {b.batch[k].id : k \in 1..Len(b.batch)}

\* Before and Waiting as functions of the table.
Sooner(rows, a, b) ==
  \/ rows[a].at < rows[b].at
  \/ rows[a].at = rows[b].at /\ Plan[a].seq < Plan[b].seq

Open(row) == row.status \in {"PENDING", "MODIFIED"}

\* An event in the queue is DISPATCHED, unless a modification came too late, and
\* what a dispatcher has read was a row, and is not DISPATCHED, unless another one
\* had read it too.
DispatchInv ==
  /\ \A d \in Dispatchers : Loaded(d) =>
       \A j \in 1..Len(disp[d].batch) : event[disp[d].batch[j].id].status # "ABSENT"
  /\ "late" \notin excuse =>
       \A k \in Rows : queue[k].event # 0 => event[queue[k].event].status = "DISPATCHED"
  /\ "dispatch" \notin excuse /\ "late" \notin excuse =>
       /\ \A c, d \in Dispatchers : Loaded(c) /\ Loaded(d) => c = d
       /\ \A d \in Dispatchers : Loaded(d) =>
            \A j \in 1..Len(disp[d].batch) :
              /\ event[disp[d].batch[j].id].status # "DISPATCHED"
              /\ \A i \in 1..Len(disp[d].batch) : disp[d].batch[i].id = disp[d].batch[j].id => i = j
       /\ \A a, b \in Rows : queue[a].event # 0 /\ queue[a].event = queue[b].event => a = b

Transition(e) == e.op = "TRANSITION_ISSUE"

\* The schedule's order, from Waiting through a batch to the queue.
ScheduleOrder ==
  /\ \A k \in Rows : Transition(queue[k]) => queue[k].event \in Events
  /\ \A a, b \in Rows :
       a < b /\ queue[a].event \in Events /\ queue[b].event \in Events =>
         ~Sooner(event, queue[b].event, queue[a].event)
  /\ \A a \in Rows, e \in Events :
       queue[a].event \in Events /\ Open(event[e]) => ~Sooner(event, e, queue[a].event)
  /\ \A d \in Dispatchers : Loaded(d) =>
       /\ \A i, j \in 1..Len(disp[d].batch) :
            i < j => ~Sooner(event, disp[d].batch[j].id, disp[d].batch[i].id)
       /\ \A j \in 1..Len(disp[d].batch), e \in Events :
            Open(event[e]) /\ e \notin Ids(disp[d]) => ~Sooner(event, e, disp[d].batch[j].id)

\* The queue's order, from PENDING through a batch to Jira.
WriteOrder ==
  /\ \A i \in Issues : jira[i].last # 0 =>
       jira[i].last \in Rows /\ Transition(queue[jira[i].last]) /\ queue[jira[i].last].issue = i
  /\ \A k \in Rows : Transition(queue[k]) /\ queue[k].status = "PENDING" => jira[queue[k].issue].last < k
  /\ \A p \in Processors : Writing(p) /\ Transition(queue[proc[p].entry]) =>
       /\ proc[p].sent = FALSE => jira[queue[proc[p].entry].issue].last < proc[p].entry
       /\ \A k \in Rows : Transition(queue[k]) /\ queue[k].status = "PENDING" => proc[p].entry < k
  /\ \A p \in Processors : Busy(p) =>
       \A j \in 1..Len(proc[p].rest) : Transition(queue[proc[p].rest[j]]) =>
         /\ \A i \in 1..Len(proc[p].rest) :
              i < j /\ Transition(queue[proc[p].rest[i]]) => proc[p].rest[i] < proc[p].rest[j]
         /\ \A k \in Rows :
              Transition(queue[k]) /\ queue[k].status = "PENDING" =>
                proc[p].rest[j] < k \/ \E i \in 1..Len(proc[p].rest) : proc[p].rest[i] = k

ScheduleInv == excuse = {} => ScheduleOrder

WriteInv == excuse = {} => WriteOrder

\* Modifications ask for values of their columns.
EditsShaped == \A r \in edits : r.id \in Events /\ r.at \in Nat /\ r.arg \in Nat

PInv == Shape /\ QueueInv /\ AuditInv /\ DispatchInv /\ ScheduleInv /\ WriteInv
-----------------------------------------------------------------------------
(* The queue.                                                              *)

\* A step keeps what the entries ask for.
SameRows ==
  /\ queue' \in Seq(Entry) /\ Len(queue') = Len(queue)
  /\ \A k \in Rows :
       queue'[k].op = queue[k].op /\ queue'[k].issue = queue[k].issue /\ queue'[k].event = queue[k].event

QueueShape ==
  /\ queue \in Seq(Entry)
  /\ landed \in Seq(Nat) /\ Len(landed) = Len(queue)
  /\ proc \in [Processors -> Call]
  /\ excuse \in SUBSET {"overlap", "retry", "zero", "dispatch", "edit", "late", "reschedule"}

LEMMA StatusUpdate ==
  ASSUME queue \in Seq(Entry), NEW k \in Rows, NEW s \in EntryStatuses,
         queue' = [queue EXCEPT ![k].status = s]
  PROVE  /\ SameRows
         /\ \A j \in Rows : queue'[j].status = IF j = k THEN s ELSE queue[j].status
<1>1. queue[k] \in Entry
  BY DEF Rows
<1>2. [queue[k] EXCEPT !.status = s] \in Entry
  BY <1>1 DEF Entry
<1>3. queue' = [queue EXCEPT ![k] = [queue[k] EXCEPT !.status = s]]
  OBVIOUS
<1>4. queue' \in Seq(Entry) /\ Len(queue') = Len(queue)
  BY <1>2, <1>3 DEF Rows
<1>5. \A j \in Rows : queue'[j] = IF j = k THEN [queue[k] EXCEPT !.status = s] ELSE queue[j]
  BY <1>3 DEF Rows
<1>6. \A j \in Rows : queue[j] \in Entry
  BY DEF Rows
<1> QED
  BY <1>1, <1>4, <1>5, <1>6 DEF SameRows, Entry

\* process_one claims an entry.
LEMMA ClaimKeeps ==
  ASSUME QueueShape, QueueInv, NEW p \in Processors, ~Writing(p), NEW k \in Rows,
         NEW rest \in Seq(Nat), \A j \in 1..Len(rest) : rest[j] \in Rows,
         excuse \cap {"overlap", "retry"} = {} =>
           /\ queue[k].status = "PENDING"
           /\ \A j \in 1..Len(rest) :
                /\ rest[j] # k /\ queue[rest[j]].status = "PENDING"
                /\ \A i \in 1..Len(rest) : rest[i] = rest[j] => i = j,
         Claim(p, k, rest), UNCHANGED <<landed, lost>>
  PROVE  QueueShape' /\ QueueInv' /\ SameRows
<1> DEFINE c == [pc |-> "flight", rest |-> rest, entry |-> k, sent |-> FALSE]
<1>1. /\ SameRows
      /\ \A j \in Rows : queue'[j].status = IF j = k THEN "IN_FLIGHT" ELSE queue[j].status
  BY StatusUpdate DEF QueueShape, Claim, EntryStatuses
<1>2. Rows' = Rows /\ k \in Nat
  BY <1>1 DEF Rows, SameRows
<1>3. c \in Call
  BY <1>2 DEF Call
<1>4. proc' \in [Processors -> Call] /\ proc'[p] = c /\ \A q \in Processors : q # p => proc'[q] = proc[q]
  BY <1>3 DEF QueueShape, Claim
<1>5. QueueShape'
  <2>1. excuse' \in SUBSET {"overlap", "retry", "zero", "dispatch", "edit", "late", "reschedule"}
    BY DEF QueueShape, Claim
  <2> QED
    BY <1>1, <1>4, <2>1 DEF QueueShape, SameRows
<1>6. InRange'
  <2>1. proc'[p].rest = rest /\ proc'[p].entry = k
    BY <1>4
  <2> SUFFICES ASSUME NEW q \in Processors
               PROVE  /\ \A j \in 1..Len(proc'[q].rest) : proc'[q].rest[j] \in Rows
                      /\ Writing(q)' => proc'[q].entry \in Rows
    BY <1>2 DEF InRange
  <2>2. CASE q = p
    BY <2>1, <2>2
  <2>3. CASE q # p
    BY <1>4, <2>3 DEF QueueInv, InRange, Writing
  <2> QED
    BY <2>2, <2>3
<1>7. DoneHasLanded'
  BY <1>1, <1>2, <1>4 DEF QueueInv, DoneHasLanded, Writing
<1>8. StrandedExplained'
  <2> SUFFICES ASSUME NEW j \in Rows, queue'[j].status = "IN_FLIGHT"
               PROVE  j \in lost \/ \E q \in Processors : proc'[q].pc = "flight" /\ proc'[q].entry = j
    BY <1>1 DEF StrandedExplained, Rows, SameRows
  <2>1. CASE j = k
    BY <1>4, <2>1
  <2>2. CASE j # k
    <3>1. queue[j].status = "IN_FLIGHT"
      BY <1>1, <2>2
    <3>2. j \in lost \/ \E q \in Processors : proc[q].pc = "flight" /\ proc[q].entry = j
      BY <3>1 DEF QueueInv, StrandedExplained, Rows, QueueShape
    <3> QED
      BY <1>4, <3>2 DEF Writing
  <2> QED
    BY <2>1, <2>2
<1>9. excuse \subseteq excuse' /\ ("overlap" \notin excuse' => \A q \in Processors : q # p => ~Busy(q))
  BY DEF Claim
<1>10. OneCall'
  BY <1>4, <1>9 DEF QueueInv, OneCall, Busy
<1>11. OnceEach'
  <2> SUFFICES ASSUME excuse' \cap {"overlap", "retry"} = {} PROVE OnceEach'
    BY DEF OnceEach
  <2>1. excuse \cap {"overlap", "retry"} = {} /\ \A q \in Processors : q # p => ~Busy(q)
    BY <1>9
  <2>2. \A j \in Rows : landed'[j] <= 1 /\ (queue'[j].status = "PENDING" => landed'[j] = 0)
    BY <1>1, <2>1 DEF QueueInv, OnceEach
  <2>3. \A q \in Processors : q # p => ~Busy(q)' /\ ~Writing(q)'
    BY <1>4, <2>1 DEF Busy, Writing
  <2>4. landed[k] = 0 /\ landed' = landed
    BY <2>1 DEF QueueInv, OnceEach
  <2>5. /\ queue'[k].status = "IN_FLIGHT"
        /\ \A j \in 1..Len(rest) : queue'[rest[j]].status = "PENDING"
    BY <1>1, <2>1
  <2>6. /\ \A q \in Processors : Writing(q)' \/ Busy(q)' => q = p
        /\ proc'[p].entry = k /\ proc'[p].rest = rest
    BY <1>4, <2>3
  <2>7. \A q \in Processors : Writing(q)' =>
         /\ queue'[proc'[q].entry].status = "IN_FLIGHT"
         /\ proc'[q].sent = FALSE => landed'[proc'[q].entry] = 0
    BY <2>4, <2>5, <2>6
  <2>8. \A q \in Processors : Busy(q)' =>
         \A j \in 1..Len(proc'[q].rest) :
           /\ queue'[proc'[q].rest[j]].status = "PENDING"
           /\ \A i \in 1..Len(proc'[q].rest) : proc'[q].rest[i] = proc'[q].rest[j] => i = j
    BY <2>1, <2>5, <2>6
  <2> QED
    BY <1>2, <2>2, <2>7, <2>8 DEF OnceEach
<1> QED
  BY <1>1, <1>5, <1>6, <1>7, <1>8, <1>10, <1>11 DEF QueueInv

\* process_one settles the entry it has in flight.
LEMMA SettleKeeps ==
  ASSUME QueueShape, QueueInv, NEW p \in Processors, Writing(p),
         NEW status \in {"DONE", "FAILED", "PENDING"}, NEW pc \in {"sleep", "idle"},
         status = "DONE" => proc[p].sent, status = "PENDING" => proc[p].sent = FALSE,
         Settle(p, status, pc), UNCHANGED <<landed, lost>>,
         excuse \subseteq excuse', excuse' \in SUBSET {"overlap", "retry", "zero", "dispatch", "edit", "late", "reschedule"}
  PROVE  QueueShape' /\ QueueInv' /\ SameRows
<1> DEFINE k == proc[p].entry
           c == IF pc = "idle" THEN Idle ELSE [proc[p] EXCEPT !.pc = pc, !.entry = 0, !.sent = FALSE]
<1>1. k \in Rows /\ proc[p] \in Call
  BY DEF QueueInv, InRange, QueueShape
<1>2. /\ SameRows
      /\ \A j \in Rows : queue'[j].status = IF j = k THEN status ELSE queue[j].status
  <2>1. status \in EntryStatuses /\ queue \in Seq(Entry) /\ queue' = [queue EXCEPT ![k].status = status]
    BY DEF QueueShape, Settle, EntryStatuses
  <2> HIDE DEF k
  <2> QED
    BY <1>1, <2>1, StatusUpdate
<1>3. Rows' = Rows
  BY <1>2 DEF Rows, SameRows
<1>4. /\ c \in Call /\ c.pc = pc /\ c.pc # "flight"
      /\ c.rest = proc[p].rest \/ (c.rest = <<>> /\ c.pc = "idle")
  <2>1. CASE pc = "idle"
    BY <2>1 DEF Call, Idle
  <2>2. CASE pc = "sleep"
    <3>1. c = [pc |-> "sleep", rest |-> proc[p].rest, entry |-> 0, sent |-> FALSE]
      BY <1>1, <2>2 DEF Call
    <3>2. proc[p].rest \in Seq(Nat)
      BY <1>1 DEF Call
    <3>3. [pc |-> "sleep", rest |-> proc[p].rest, entry |-> 0, sent |-> FALSE] \in Call
      BY <3>2 DEF Call
    <3> QED
      BY <2>2, <3>1, <3>3
  <2> QED
    BY <2>1, <2>2
<1>5. proc' = [proc EXCEPT ![p] = c]
  BY DEF Settle
<1> HIDE DEF c
<1>6. proc' \in [Processors -> Call] /\ proc'[p] = c /\ \A q \in Processors : q # p => proc'[q] = proc[q]
  BY <1>4, <1>5 DEF QueueShape
<1>7. QueueShape'
  <2>1. landed' \in Seq(Nat) /\ Len(landed') = Len(queue')
    BY <1>2 DEF QueueShape, SameRows
  <2> QED
    BY <1>2, <1>6, <2>1 DEF QueueShape, SameRows
<1>8. InRange'
  <2> SUFFICES ASSUME NEW q \in Processors
               PROVE  /\ \A j \in 1..Len(proc'[q].rest) : proc'[q].rest[j] \in Rows
                      /\ Writing(q)' => proc'[q].entry \in Rows
    BY <1>3 DEF InRange
  <2>1. CASE q = p
    BY <1>4, <1>6, <2>1 DEF QueueInv, InRange, Writing
  <2>2. CASE q # p
    BY <1>6, <2>2 DEF QueueInv, InRange, Writing
  <2> QED
    BY <2>1, <2>2
<1>9. DoneHasLanded'
  <2>1. status = "DONE" => landed[k] > 0
    BY DEF QueueInv, DoneHasLanded
  <2>2. \A j \in Rows : queue'[j].status = "DONE" => landed'[j] > 0
    BY <1>2, <2>1 DEF QueueInv, DoneHasLanded
  <2>3. \A q \in Processors : Writing(q)' /\ proc'[q].sent => landed'[proc'[q].entry] > 0
    BY <1>4, <1>6 DEF QueueInv, DoneHasLanded, Writing
  <2> QED
    BY <1>3, <2>2, <2>3 DEF DoneHasLanded
<1>10. StrandedExplained'
  <2> SUFFICES ASSUME NEW j \in Rows, queue'[j].status = "IN_FLIGHT"
               PROVE  j \in lost \/ \E q \in Processors : proc'[q].pc = "flight" /\ proc'[q].entry = j
    BY <1>2 DEF StrandedExplained, Rows, SameRows
  <2>1. j # k /\ queue[j].status = "IN_FLIGHT"
    BY <1>2
  <2>2. j \in lost \/ \E q \in Processors : proc[q].pc = "flight" /\ proc[q].entry = j
    BY <2>1 DEF QueueInv, StrandedExplained, Rows, QueueShape
  <2> QED
    BY <1>6, <2>1, <2>2
<1>11. \A q \in Processors : Busy(q)' => Busy(q)
  BY <1>6 DEF Busy, Writing
<1>12. OneCall'
  BY <1>11 DEF QueueInv, OneCall
<1>13. OnceEach'
  <2> SUFFICES ASSUME excuse' \cap {"overlap", "retry"} = {} PROVE OnceEach'
    BY DEF OnceEach
  <2>1. excuse \cap {"overlap", "retry"} = {} /\ "overlap" \notin excuse
    OBVIOUS
  <2>2. \A q \in Processors : q # p => ~Busy(q)
    BY <2>1 DEF QueueInv, OneCall, Busy, Writing
  <2>3. \A q \in Processors : ~Writing(q)'
    BY <1>4, <1>6, <2>2 DEF Busy, Writing
  <2>4. status = "PENDING" => landed[k] = 0
    BY <2>1 DEF QueueInv, OnceEach
  <2>5. \A j \in Rows : landed'[j] <= 1 /\ (queue'[j].status = "PENDING" => landed'[j] = 0)
    BY <1>2, <2>1, <2>4 DEF QueueInv, OnceEach
  <2>6. \A j \in 1..Len(proc[p].rest) :
          /\ queue[proc[p].rest[j]].status = "PENDING"
          /\ \A i \in 1..Len(proc[p].rest) : proc[p].rest[i] = proc[p].rest[j] => i = j
    BY <2>1 DEF QueueInv, OnceEach, Busy, Writing
  <2>7. queue[k].status = "IN_FLIGHT"
    BY <2>1 DEF QueueInv, OnceEach
  <2>8. \A j \in 1..Len(proc[p].rest) : queue'[proc[p].rest[j]].status = "PENDING"
    BY <1>2, <2>6, <2>7 DEF QueueInv, InRange
  <2>9. \A q \in Processors : Busy(q)' => q = p /\ c.rest = proc[p].rest
    BY <1>4, <1>6, <2>2 DEF Busy
  <2>10. \A q \in Processors : Busy(q)' =>
         \A j \in 1..Len(proc'[q].rest) :
           /\ queue'[proc'[q].rest[j]].status = "PENDING"
           /\ \A i \in 1..Len(proc'[q].rest) : proc'[q].rest[i] = proc'[q].rest[j] => i = j
    BY <1>6, <2>6, <2>8, <2>9
  <2> QED
    BY <1>3, <2>3, <2>5, <2>10 DEF OnceEach
<1> QED
  BY <1>2, <1>7, <1>8, <1>9, <1>10, <1>12, <1>13 DEF QueueInv

\* A write reaches Jira.
LEMMA LandKeeps ==
  ASSUME QueueShape, QueueInv, NEW p \in Processors, Writing(p), proc[p].sent = FALSE,
         proc' = [proc EXCEPT ![p].sent = TRUE],
         landed' = [landed EXCEPT ![proc[p].entry] = @ + 1],
         UNCHANGED <<queue, lost, excuse>>
  PROVE  /\ QueueShape' /\ QueueInv' /\ SameRows
         /\ \A k \in Rows : landed'[k] >= landed[k]
<1> DEFINE k == proc[p].entry
<1>1. k \in Rows /\ k \in 1..Len(landed) /\ proc[p] \in Call
  BY DEF QueueInv, InRange, QueueShape, Rows
<1>2. /\ landed' \in Seq(Nat) /\ Len(landed') = Len(landed)
      /\ \A j \in Rows : landed'[j] = IF j = k THEN landed[k] + 1 ELSE landed[j]
      /\ \A j \in Rows : landed[j] \in Nat
  BY <1>1 DEF QueueShape, Rows
<1>3. [proc[p] EXCEPT !.sent = TRUE] \in Call
  BY <1>1 DEF Call
<1>4. proc' \in [Processors -> Call] /\ proc'[p] = [proc[p] EXCEPT !.sent = TRUE]
  BY <1>3 DEF QueueShape
<1>5. /\ \A q \in Processors : q # p => proc'[q] = proc[q]
      /\ \A q \in Processors : /\ proc'[q].pc = proc[q].pc /\ proc'[q].rest = proc[q].rest
                                /\ proc'[q].entry = proc[q].entry
  BY <1>1, <1>4 DEF QueueShape, Call
<1>6. SameRows /\ Rows' = Rows /\ \A q \in Processors : Writing(q)' = Writing(q) /\ Busy(q)' = Busy(q)
  BY <1>5 DEF SameRows, QueueShape, Rows, Writing, Busy
<1>7. QueueShape'
  BY <1>2, <1>4 DEF QueueShape
<1>8. InRange'
  BY <1>5, <1>6 DEF QueueInv, InRange
<1>9. DoneHasLanded'
  <2>1. \A j \in Rows : queue'[j].status = "DONE" => landed'[j] > 0
    BY <1>2 DEF QueueInv, DoneHasLanded
  <2>2. \A q \in Processors : Writing(q)' /\ proc'[q].sent => landed'[proc'[q].entry] > 0
    <3> SUFFICES ASSUME NEW q \in Processors, Writing(q), proc'[q].sent
                 PROVE  landed'[proc[q].entry] > 0
      BY <1>5, <1>6
    <3>1. CASE q = p
      BY <1>1, <1>2, <3>1
    <3>2. CASE q # p
      BY <1>2, <1>5, <3>2 DEF QueueInv, DoneHasLanded, InRange
    <3> QED
      BY <3>1, <3>2
  <2> QED
    BY <1>6, <2>1, <2>2 DEF DoneHasLanded
<1>10. StrandedExplained'
  BY <1>5 DEF QueueInv, StrandedExplained
<1>11. OneCall'
  BY <1>6 DEF QueueInv, OneCall
<1>12. OnceEach'
  <2> SUFFICES ASSUME excuse \cap {"overlap", "retry"} = {} PROVE OnceEach'
    BY DEF OnceEach
  <2>1. \A q \in Processors : Writing(q) => q = p
    BY DEF QueueInv, OneCall, Busy, Writing
  <2>2. queue[k].status = "IN_FLIGHT" /\ landed[k] = 0
    BY DEF QueueInv, OnceEach
  <2>3. \A j \in Rows : landed'[j] <= 1 /\ (queue'[j].status = "PENDING" => landed'[j] = 0)
    BY <1>2, <2>2 DEF QueueInv, OnceEach
  <2>4. \A q \in Processors : Writing(q)' =>
         /\ queue'[proc'[q].entry].status = "IN_FLIGHT"
         /\ proc'[q].sent = FALSE => landed'[proc'[q].entry] = 0
    BY <1>1, <1>4, <1>5, <1>6, <2>1, <2>2 DEF Call
  <2>5. \A q \in Processors : Busy(q)' =>
         \A j \in 1..Len(proc'[q].rest) :
           /\ queue'[proc'[q].rest[j]].status = "PENDING"
           /\ \A i \in 1..Len(proc'[q].rest) : proc'[q].rest[i] = proc'[q].rest[j] => i = j
    BY <1>5, <1>6 DEF QueueInv, OnceEach
  <2> QED
    BY <1>6, <2>3, <2>4, <2>5 DEF OnceEach
<1>13. \A j \in Rows : landed'[j] >= landed[j]
  BY <1>2
<1> QED
  BY <1>6, <1>7, <1>8, <1>9, <1>10, <1>11, <1>12, <1>13 DEF QueueInv

\* New entries are added to the table.
LEMMA EnqueueKeeps ==
  ASSUME QueueShape, QueueInv, NEW new \in Seq(Entry),
         \A j \in 1..Len(new) : new[j].status = "PENDING",
         Enqueue(new), UNCHANGED <<proc, lost, excuse>>
  PROVE  /\ QueueShape' /\ QueueInv'
         /\ Len(queue') = Len(queue) + Len(new)
         /\ \A k \in Rows : queue'[k] = queue[k] /\ landed'[k] = landed[k]
         /\ \A k \in Rows' : k \notin Rows => k - Len(queue) \in 1..Len(new) /\ queue'[k] = new[k - Len(queue)]
<1> DEFINE zeros == [k \in 1..Len(new) |-> 0]
<1>1. zeros \in Seq(Nat) /\ Len(zeros) = Len(new) /\ \A k \in 1..Len(new) : zeros[k] = 0
  OBVIOUS
<1>2. queue' = queue \o new /\ landed' = landed \o zeros
  BY DEF Enqueue
<1> HIDE DEF zeros
<1>3. /\ queue' \in Seq(Entry) /\ landed' \in Seq(Nat)
      /\ Len(queue') = Len(queue) + Len(new) /\ Len(landed') = Len(queue')
  <2>1. queue \in Seq(Entry) /\ landed \in Seq(Nat) /\ Len(landed) = Len(queue)
    BY DEF QueueShape
  <2>2. queue' \in Seq(Entry) /\ Len(queue') = Len(queue) + Len(new)
    BY <1>2, <2>1, ConcatProperties
  <2>3. landed' \in Seq(Nat) /\ Len(landed') = Len(landed) + Len(zeros)
    BY <1>1, <1>2, <2>1, ConcatProperties
  <2> QED
    BY <1>1, <2>1, <2>2, <2>3
<1>4. /\ \A k \in Rows : k \in Rows' /\ queue'[k] = queue[k] /\ landed'[k] = landed[k]
      /\ \A k \in Rows' : k \notin Rows =>
           /\ k - Len(queue) \in 1..Len(new) /\ queue'[k] = new[k - Len(queue)]
           /\ landed'[k] = 0
  <2> DEFINE n == Len(queue)
             m == Len(new)
  <2>1. /\ queue \in Seq(Entry) /\ landed \in Seq(Nat) /\ Len(landed) = n /\ n \in Nat /\ m \in Nat
        /\ Len(zeros) = m /\ zeros \in Seq(Nat) /\ Len(queue') = n + m
    BY <1>1, <1>3 DEF QueueShape
  <2>2. \A k \in 1..n : (queue \o new)[k] = queue[k] /\ (landed \o zeros)[k] = landed[k]
    BY <2>1, ConcatProperties
  <2>3. \A k \in 1..(n + m) : k \notin 1..n =>
          /\ k - n \in 1..m /\ (queue \o new)[k] = new[k - n] /\ (landed \o zeros)[k] = zeros[k - n]
    BY <2>1, ConcatProperties
  <2>4. Rows = 1..n /\ Rows' = 1..(n + m) /\ \A k \in 1..n : k \in 1..(n + m)
    BY <2>1 DEF Rows
  <2> HIDE DEF n
  <2> HIDE DEF m
  <2>5. \A k \in Rows : k \in Rows' /\ queue'[k] = queue[k] /\ landed'[k] = landed[k]
    BY <1>2, <2>2, <2>4
  <2>6. ASSUME NEW k \in 1..(n + m), k \notin 1..n
        PROVE  k - n \in 1..m /\ queue'[k] = new[k - n] /\ landed'[k] = 0
    <3>1. k - n \in 1..m /\ (queue \o new)[k] = new[k - n] /\ (landed \o zeros)[k] = zeros[k - n]
      BY <2>3, <2>6
    <3>2. zeros[k - n] = 0
      BY <1>1, <3>1 DEF m
    <3> QED
      BY <1>2, <3>1, <3>2
  <2> QED
    BY <2>4, <2>5, <2>6 DEF n, m
<1>5. \A k \in Rows' : k \notin Rows => queue'[k].status = "PENDING" /\ landed'[k] = 0
  BY <1>4
<1>6. QueueShape'
  BY <1>3 DEF QueueShape
<1>7. InRange'
  BY <1>4 DEF QueueInv, InRange, Writing
<1>8. DoneHasLanded'
  <2>1. \A k \in Rows' : queue'[k].status = "DONE" => landed'[k] > 0
    BY <1>4, <1>5 DEF QueueInv, DoneHasLanded
  <2>2. \A p \in Processors : Writing(p)' /\ proc'[p].sent => landed'[proc'[p].entry] > 0
    BY <1>4 DEF QueueInv, DoneHasLanded, InRange, Writing
  <2> QED
    BY <2>1, <2>2 DEF DoneHasLanded
<1>9. StrandedExplained'
  <2> SUFFICES ASSUME NEW k \in Rows', queue'[k].status = "IN_FLIGHT"
               PROVE  k \in lost \/ \E q \in Processors : proc[q].pc = "flight" /\ proc[q].entry = k
    BY <1>3 DEF StrandedExplained, Rows
  <2>1. k \in Rows /\ queue[k].status = "IN_FLIGHT"
    BY <1>4, <1>5
  <2> QED
    BY <2>1 DEF QueueInv, StrandedExplained, Rows, QueueShape
<1>10. OneCall'
  BY DEF QueueInv, OneCall, Busy
<1>11. OnceEach'
  <2> SUFFICES ASSUME excuse \cap {"overlap", "retry"} = {} PROVE OnceEach'
    BY DEF OnceEach
  <2>1. \A k \in Rows' : landed'[k] <= 1 /\ (queue'[k].status = "PENDING" => landed'[k] = 0)
    BY <1>4, <1>5 DEF QueueInv, OnceEach
  <2>2. \A p \in Processors : Writing(p)' =>
         /\ queue'[proc'[p].entry].status = "IN_FLIGHT"
         /\ proc'[p].sent = FALSE => landed'[proc'[p].entry] = 0
    BY <1>4 DEF QueueInv, OnceEach, InRange, Writing
  <2>3. \A p \in Processors : Busy(p)' =>
         \A j \in 1..Len(proc'[p].rest) :
           /\ queue'[proc'[p].rest[j]].status = "PENDING"
           /\ \A i \in 1..Len(proc'[p].rest) : proc'[p].rest[i] = proc'[p].rest[j] => i = j
    BY <1>4 DEF QueueInv, OnceEach, InRange, Busy
  <2> QED
    BY <2>1, <2>2, <2>3 DEF OnceEach
<1> QED
  BY <1>3, <1>4, <1>6, <1>7, <1>8, <1>9, <1>10, <1>11 DEF QueueInv

\* A step that leaves the table and the calls alone.
LEMMA StillKeeps ==
  ASSUME QueueShape, QueueInv, UNCHANGED <<queue, proc, landed, lost>>,
         excuse \subseteq excuse', excuse' \in SUBSET {"overlap", "retry", "zero", "dispatch", "edit", "late", "reschedule"}
  PROVE  QueueShape' /\ QueueInv' /\ SameRows
<1>1. QueueShape' /\ Rows' = Rows /\ SameRows
  BY DEF QueueShape, Rows, SameRows
<1>2. InRange' /\ DoneHasLanded' /\ StrandedExplained' /\ OneCall'
  <2>1. InRange' /\ DoneHasLanded'
    BY <1>1 DEF QueueInv, InRange, DoneHasLanded, Writing
  <2>2. StrandedExplained'
    BY DEF QueueInv, StrandedExplained
  <2>3. OneCall'
    BY DEF QueueInv, OneCall, Busy
  <2> QED
    BY <2>1, <2>2, <2>3
<1>3. OnceEach'
  <2>1. excuse' \cap {"overlap", "retry"} = {} => excuse \cap {"overlap", "retry"} = {}
    OBVIOUS
  <2> QED
    BY <1>1, <2>1 DEF QueueInv, OnceEach, Busy, Writing
<1> QED
  BY <1>1, <1>2, <1>3 DEF QueueInv

\* A call ends, done or broken.
LEMMA EndKeeps ==
  ASSUME QueueShape, QueueInv, NEW p \in Processors, proc' = [proc EXCEPT ![p] = Idle],
         UNCHANGED <<queue, landed, excuse>>, lost \subseteq lost', Writing(p) => proc[p].entry \in lost'
  PROVE  QueueShape' /\ QueueInv' /\ SameRows
<1>1. Idle \in Call /\ Idle.pc = "idle" /\ Len(Idle.rest) = 0
  BY DEF Idle, Call
<1>2. /\ proc' \in [Processors -> Call] /\ proc'[p] = Idle
      /\ \A q \in Processors : q # p => proc'[q] = proc[q]
  BY <1>1 DEF QueueShape
<1>3. QueueShape' /\ SameRows /\ Rows' = Rows
  BY <1>2 DEF QueueShape, SameRows, Rows
<1>4. \A q \in Processors :
        /\ Writing(q)' => Writing(q) /\ proc'[q] = proc[q]
        /\ Busy(q)' => Busy(q) /\ proc'[q] = proc[q]
  BY <1>1, <1>2 DEF Writing, Busy
<1>5. InRange'
  BY <1>1, <1>2, <1>3 DEF QueueInv, InRange, Writing
<1>6. DoneHasLanded' /\ OneCall'
  <2>1. DoneHasLanded'
    BY <1>3, <1>4 DEF QueueInv, DoneHasLanded
  <2>2. OneCall'
    BY <1>4 DEF QueueInv, OneCall
  <2> QED
    BY <2>1, <2>2
<1>7. StrandedExplained'
  BY <1>2 DEF QueueInv, StrandedExplained, Writing
<1>8. OnceEach'
  <2>1. UNCHANGED <<queue, landed, excuse>>
    OBVIOUS
  <2> QED
    BY <1>3, <1>4, <2>1 DEF QueueInv, OnceEach
<1> QED
  BY <1>3, <1>5, <1>6, <1>7, <1>8 DEF QueueInv

\* Failed entries are put back by hand.
LEMMA RetryKeeps ==
  ASSUME QueueShape, QueueInv, RetryFailed
  PROVE  QueueShape' /\ QueueInv' /\ SameRows
<1>1. \A k \in Rows : queue[k] \in Entry
  BY DEF QueueShape, Rows
<1>2. queue' = [k \in Rows |->
        IF queue[k].status = "FAILED" THEN [queue[k] EXCEPT !.status = "PENDING"] ELSE queue[k]]
  BY DEF RetryFailed, QueueShape, Rows
<1>3. SameRows
  <2>1. \A k \in Rows : queue'[k] \in Entry
    BY <1>1, <1>2 DEF Entry, EntryStatuses
  <2>2. queue' \in Seq(Entry) /\ Len(queue') = Len(queue)
    BY <1>2, <2>1 DEF Rows, QueueShape
  <2>3. \A k \in Rows : /\ queue'[k].op = queue[k].op /\ queue'[k].issue = queue[k].issue
                         /\ queue'[k].event = queue[k].event
    BY <1>1, <1>2 DEF Entry
  <2> QED
    BY <2>2, <2>3 DEF SameRows
<1>4. \A k \in Rows : queue'[k].status \in {"IN_FLIGHT", "DONE"} => queue'[k].status = queue[k].status
  BY <1>1, <1>2 DEF Entry
<1>5. Rows' = Rows /\ "retry" \in excuse' /\ excuse \subseteq excuse' /\ proc' = proc /\ landed' = landed
      /\ lost' = lost
  BY <1>3 DEF Rows, SameRows, RetryFailed
<1>6. QueueShape'
  <2>1. excuse' \in SUBSET {"overlap", "retry", "zero", "dispatch", "edit", "late", "reschedule"}
    BY DEF QueueShape, RetryFailed
  <2> QED
    BY <1>3, <1>5, <2>1 DEF QueueShape, SameRows
<1>7. InRange' /\ OneCall' /\ OnceEach'
  BY <1>5 DEF QueueInv, InRange, OneCall, OnceEach, Writing, Busy
<1>8. DoneHasLanded'
  BY <1>4, <1>5 DEF QueueInv, DoneHasLanded, Writing
<1>9. StrandedExplained'
  BY <1>3, <1>4, <1>5 DEF QueueInv, StrandedExplained, Rows, SameRows, QueueShape
<1> QED
  BY <1>3, <1>6, <1>7, <1>8, <1>9 DEF QueueInv

\* The process dies: what was in flight is lost.
LEMMA CrashKeeps ==
  ASSUME QueueShape, QueueInv, QueueCrash
  PROVE  QueueShape' /\ QueueInv' /\ SameRows
<1>1. Idle \in Call /\ Idle.pc = "idle" /\ Len(Idle.rest) = 0
  BY DEF Idle, Call
<1>2. /\ proc' \in [Processors -> Call] /\ \A q \in Processors : proc'[q] = Idle
      /\ UNCHANGED <<queue, landed, excuse>>
  BY <1>1 DEF QueueCrash
<1>3. QueueShape' /\ SameRows /\ Rows' = Rows
  BY <1>2 DEF QueueShape, SameRows, Rows
<1>4. \A q \in Processors : ~Writing(q)' /\ ~Busy(q)' /\ Len(proc'[q].rest) = 0
  BY <1>1, <1>2 DEF Writing, Busy
<1>5. InRange' /\ DoneHasLanded' /\ OneCall' /\ OnceEach'
  BY <1>2, <1>3, <1>4 DEF QueueInv, InRange, DoneHasLanded, OneCall, OnceEach
<1>6. StrandedExplained'
  <2>1. \A k \in DOMAIN queue : queue[k].status = "IN_FLIGHT" => k \in lost'
    BY DEF QueueInv, StrandedExplained, QueueCrash
  <2> QED
    BY <1>2, <2>1 DEF StrandedExplained
<1> QED
  BY <1>3, <1>5, <1>6 DEF QueueInv
-----------------------------------------------------------------------------
(* The order of the writes.                                                *)

Lists(s, S) == s \in [1..Cardinality(S) -> S] /\ IsInjective(s)

\* A listing of a finite set is a sequence that holds each member once.
LEMMA ListingOnto ==
  ASSUME NEW S, IsFiniteSet(S), NEW s, Lists(s, S)
  PROVE  /\ Cardinality(S) \in Nat /\ s \in Seq(S) /\ Len(s) = Cardinality(S)
         /\ \A x \in S : \E i \in 1..Len(s) : s[i] = x
         /\ \A i, j \in 1..Len(s) : s[i] = s[j] => i = j
<1> DEFINE n == Cardinality(S)
<1>1. n \in Nat /\ IsFiniteSet(1..n) /\ Cardinality(1..n) = n
  BY FS_CardinalityType, FS_Interval
<1> HIDE DEF n
<1>2. s \in [1..n -> S] /\ \A i, j \in 1..n : s[i] = s[j] => i = j
  BY DEF n, Lists, IsInjective
<1>3. s \in Injection(1..n, S)
  BY <1>2 DEF Injection, IsInjective
<1>4. s \in Surjection(1..n, S)
  BY <1>1, <1>3, FS_Injection DEF n
<1>5. \A x \in S : \E i \in 1..n : s[i] = x
  BY <1>4 DEF Surjection
<1>6. s \in Seq(S) /\ Len(s) = n
  BY <1>1, <1>2
<1> QED
  BY <1>1, <1>2, <1>5, <1>6 DEF n

\* What a call may claim, and with which rest of its batch.
Claimable(k, rest) ==
  /\ k \in Rows /\ rest \in Seq(Nat) /\ \A j \in 1..Len(rest) : rest[j] \in Rows
  /\ excuse \cap {"overlap", "retry"} = {} =>
       /\ queue[k].status = "PENDING"
       /\ \A j \in 1..Len(rest) :
            /\ rest[j] # k /\ queue[rest[j]].status = "PENDING"
            /\ \A i \in 1..Len(rest) : rest[i] = rest[j] => i = j

\* The rest of a batch is ahead of every other waiting transition.
Ahead(k, rest) ==
  /\ Transition(queue[k]) => \A x \in Rows : Transition(queue[x]) /\ queue[x].status = "PENDING" /\ x # k => k < x
  /\ \A j \in 1..Len(rest) : Transition(queue[rest[j]]) =>
       /\ \A i \in 1..Len(rest) : i < j /\ Transition(queue[rest[i]]) => rest[i] < rest[j]
       /\ \A x \in Rows : Transition(queue[x]) /\ queue[x].status = "PENDING" /\ x # k =>
            rest[j] < x \/ \E i \in 1..Len(rest) : rest[i] = x

\* get_pending_batch yields such a batch.
LEMMA BatchClaimable ==
  ASSUME QueueShape, PendingEntries # {}, NEW batch \in PendingBatches
  PROVE  Claimable(Head(batch), Tail(batch)) /\ Ahead(Head(batch), Tail(batch))
<1>1. IsFiniteSet(PendingEntries) /\ PendingEntries \subseteq Rows
  <2>1. IsFiniteSet(Rows) /\ PendingEntries \subseteq Rows
    BY FS_Interval DEF Rows, PendingEntries, QueueShape
  <2> QED
    BY <2>1, FS_Subset
<1>2. /\ batch \in [1..Cardinality(PendingEntries) -> PendingEntries] /\ IsInjective(batch)
      /\ \A i, j \in DOMAIN batch : i < j =>
           ~(\/ Priority(queue[batch[j]].op) < Priority(queue[batch[i]].op)
             \/ Priority(queue[batch[j]].op) = Priority(queue[batch[i]].op) /\ batch[j] < batch[i])
  BY DEF PendingBatches, Listings
<1>3. /\ Cardinality(PendingEntries) \in Nat /\ batch \in Seq(PendingEntries)
      /\ \A x \in PendingEntries : \E i \in 1..Len(batch) : batch[i] = x
      /\ \A i, j \in 1..Len(batch) : batch[i] = batch[j] => i = j
  <2>1. Lists(batch, PendingEntries)
    BY <1>2 DEF Lists
  <2> QED
    BY <1>1, <2>1, ListingOnto
<1>4. /\ Len(batch) \in Nat /\ Len(batch) > 0 /\ batch # <<>>
      /\ \A i \in 1..Len(batch) : batch[i] \in PendingEntries
  BY <1>3
<1> DEFINE k == Head(batch)
           rest == Tail(batch)
<1>5. /\ k = batch[1] /\ rest \in Seq(PendingEntries) /\ Len(rest) = Len(batch) - 1
      /\ \A j \in 1..Len(rest) : rest[j] = batch[j + 1] /\ j + 1 \in 1..Len(batch)
      /\ \A j \in 1..Len(batch) : j # 1 => j - 1 \in 1..Len(rest) /\ batch[j] = rest[j - 1]
  BY SMTT(30), <1>3, <1>4
<1> HIDE DEF k, rest
<1>6. \A x \in PendingEntries : x \in Rows /\ x \in Nat /\ queue[x].status = "PENDING"
  BY <1>1 DEF PendingEntries, Rows
<1>7. \A x \in Rows : queue[x].status = "PENDING" => x \in PendingEntries
  BY DEF PendingEntries, Rows, QueueShape
<1>8. Claimable(k, rest)
  <2>1. k \in Rows /\ queue[k].status = "PENDING" /\ 1 \in 1..Len(batch)
    BY <1>4, <1>5, <1>6
  <2>2. \A j \in 1..Len(rest) : rest[j] \in Rows /\ queue[rest[j]].status = "PENDING"
    BY <1>4, <1>5, <1>6
  <2>3. rest \in Seq(Nat)
    BY <1>5, <1>6
  <2>4. \A j \in 1..Len(rest) : rest[j] # k /\ \A i \in 1..Len(rest) : rest[i] = rest[j] => i = j
    <3> SUFFICES ASSUME NEW j \in 1..Len(rest)
                 PROVE  rest[j] # k /\ \A i \in 1..Len(rest) : rest[i] = rest[j] => i = j
      OBVIOUS
    <3>1. rest[j] = batch[j + 1] /\ j + 1 \in 1..Len(batch) /\ j + 1 # 1 /\ k = batch[1]
      BY <1>5
    <3>2. \A i \in 1..Len(rest) : batch[i + 1] = batch[j + 1] => i + 1 = j + 1
      BY <1>3, <1>5, <3>1
    <3> QED
      BY <1>3, <1>5, <2>1, <3>1, <3>2
  <2> QED
    BY <2>1, <2>2, <2>3, <2>4 DEF Claimable
<1>9. \A i, j \in 1..Len(batch) : i < j /\ Transition(queue[batch[i]]) /\ Transition(queue[batch[j]]) => batch[i] < batch[j]
  <2> SUFFICES ASSUME NEW i \in 1..Len(batch), NEW j \in 1..Len(batch), i < j,
                      Transition(queue[batch[i]]), Transition(queue[batch[j]])
               PROVE  batch[i] < batch[j]
    OBVIOUS
  <2>1. ~(batch[j] < batch[i])
    BY <1>2, <1>3 DEF Transition
  <2>2. batch[i] # batch[j] /\ batch[i] \in Nat /\ batch[j] \in Nat
    <3>1. i # j
      OBVIOUS
    <3> QED
      BY <1>3, <1>4, <1>6, <3>1
  <2> QED
    BY <2>1, <2>2
<1>10. Ahead(k, rest)
  <2>1. ASSUME NEW x \in Rows, Transition(queue[x]), queue[x].status = "PENDING", x # k
        PROVE  \E i \in 1..Len(rest) : rest[i] = x /\ batch[i + 1] = x /\ i + 1 \in 1..Len(batch)
    BY <1>3, <1>5, <1>7, <2>1
  <2>2. ASSUME Transition(queue[k]), NEW x \in Rows, Transition(queue[x]), queue[x].status = "PENDING", x # k
        PROVE  k < x
    BY <1>4, <1>5, <1>9, <2>1, <2>2
  <2>3. \A i, j \in 1..Len(rest) : i < j /\ Transition(queue[rest[i]]) /\ Transition(queue[rest[j]]) => rest[i] < rest[j]
    BY SMTT(30), <1>5, <1>9
  <2> QED
    BY <2>1, <2>2, <2>3 DEF Ahead
<1> QED
  BY <1>8, <1>10 DEF k, rest

\* So does the loop of process_batch, with what is left of the batch.
LEMMA RestClaimable ==
  ASSUME QueueShape, QueueInv, WriteInv, NEW p \in Processors, Busy(p), ~Writing(p), proc[p].rest # <<>>
  PROVE  /\ Claimable(Head(proc[p].rest), Tail(proc[p].rest))
         /\ excuse = {} => Ahead(Head(proc[p].rest), Tail(proc[p].rest))
<1> DEFINE all == proc[p].rest
           k == Head(all)
           rest == Tail(all)
<1>1. all \in Seq(Nat) /\ Len(all) \in Nat /\ Len(all) > 0
  BY DEF QueueShape, Call
<1>2. /\ k = all[1] /\ 1 \in 1..Len(all) /\ rest \in Seq(Nat) /\ Len(rest) = Len(all) - 1
      /\ \A j \in 1..Len(rest) : rest[j] = all[j + 1] /\ j + 1 \in 1..Len(all)
      /\ \A j \in 1..Len(all) : j # 1 => j - 1 \in 1..Len(rest) /\ all[j] = rest[j - 1]
  BY <1>1
<1> HIDE DEF k, rest
<1>3. \A j \in 1..Len(all) : all[j] \in Rows
  BY DEF QueueInv, InRange
<1>4. Claimable(k, rest)
  <2>1. k \in Rows /\ \A j \in 1..Len(rest) : rest[j] \in Rows
    BY <1>2, <1>3
  <2>2. ASSUME excuse \cap {"overlap", "retry"} = {}
        PROVE  /\ queue[k].status = "PENDING"
               /\ \A j \in 1..Len(rest) :
                    /\ rest[j] # k /\ queue[rest[j]].status = "PENDING"
                    /\ \A i \in 1..Len(rest) : rest[i] = rest[j] => i = j
    <3>1. \A j \in 1..Len(all) : /\ queue[all[j]].status = "PENDING"
                                 /\ \A i \in 1..Len(all) : all[i] = all[j] => i = j
      BY <2>2 DEF QueueInv, OnceEach
    <3>2. queue[k].status = "PENDING" /\ \A j \in 1..Len(rest) : queue[rest[j]].status = "PENDING"
      <4>1. queue[k].status = "PENDING"
        BY <1>2, <3>1
      <4>2. \A j \in 1..Len(rest) : queue[rest[j]].status = "PENDING"
        <5> TAKE j \in 1..Len(rest)
        <5>1. rest[j] = all[j + 1] /\ j + 1 \in 1..Len(all)
          BY <1>2
        <5> QED
          BY <3>1, <5>1
      <4> QED
        BY <4>1, <4>2
    <3>3. ASSUME NEW j \in 1..Len(rest)
          PROVE  rest[j] # k /\ \A i \in 1..Len(rest) : rest[i] = rest[j] => i = j
      <4>1. rest[j] = all[j + 1] /\ j + 1 \in 1..Len(all) /\ j + 1 # 1
        BY <1>2
      <4>2. rest[j] # k
        <5>1. all[1] = all[j + 1] => 1 = j + 1
          BY <1>2, <3>1, <4>1
        <5> QED
          BY <1>2, <4>1, <5>1
      <4>3. ASSUME NEW i \in 1..Len(rest), rest[i] = rest[j] PROVE i = j
        <5>1. rest[i] = all[i + 1] /\ i + 1 \in 1..Len(all)
          BY <1>2
        <5>2. all[i + 1] = all[j + 1] => i + 1 = j + 1
          BY <3>1, <4>1, <5>1
        <5>3. i + 1 = j + 1
          BY <4>1, <4>3, <5>1, <5>2
        <5>4. i \in Nat /\ j \in Nat
          OBVIOUS
        <5> QED
          BY <5>3, <5>4
      <4> QED
        BY <4>2, <4>3
    <3> QED
      BY <3>2, <3>3
  <2> QED
    BY <1>2, <2>1, <2>2 DEF Claimable
<1>5. ASSUME excuse = {} PROVE Ahead(k, rest)
  <2>1. \A j \in 1..Len(all) : Transition(queue[all[j]]) =>
         /\ \A i \in 1..Len(all) : i < j /\ Transition(queue[all[i]]) => all[i] < all[j]
         /\ \A x \in Rows : Transition(queue[x]) /\ queue[x].status = "PENDING" =>
              all[j] < x \/ \E i \in 1..Len(all) : all[i] = x
    BY <1>5 DEF WriteInv, WriteOrder
  <2>2. ASSUME Transition(queue[k]), NEW x \in Rows, Transition(queue[x]), queue[x].status = "PENDING", x # k
        PROVE  k < x
    <3>1. all[1] < x \/ \E i \in 1..Len(all) : all[i] = x
      BY <1>2, <2>1, <2>2
    <3>2. ASSUME NEW i \in 1..Len(all), all[i] = x PROVE k < x
      <4>1. 1 < i /\ Transition(queue[all[i]]) /\ Transition(queue[all[1]])
        BY <1>2, <2>2, <3>2
      <4> QED
        BY <1>2, <2>1, <3>2, <4>1
    <3> QED
      BY <1>2, <3>1, <3>2
  <2>3. ASSUME NEW j \in 1..Len(rest), Transition(queue[rest[j]])
        PROVE  /\ \A i \in 1..Len(rest) : i < j /\ Transition(queue[rest[i]]) => rest[i] < rest[j]
               /\ \A x \in Rows : Transition(queue[x]) /\ queue[x].status = "PENDING" /\ x # k =>
                    rest[j] < x \/ \E i \in 1..Len(rest) : rest[i] = x
    <3>1. ASSUME NEW i \in 1..Len(rest), i < j, Transition(queue[rest[i]])
          PROVE  rest[i] < rest[j]
      <4>0. rest[i] = all[i + 1] /\ i + 1 \in 1..Len(all) /\ rest[j] = all[j + 1] /\ j + 1 \in 1..Len(all)
        BY <1>2, <2>3
      <4>1. /\ rest[i] = all[i + 1] /\ i + 1 \in 1..Len(all)
            /\ rest[j] = all[j + 1] /\ j + 1 \in 1..Len(all) /\ i + 1 < j + 1
        <5>1. i \in Nat /\ j \in Nat
          OBVIOUS
        <5> QED
          BY <3>1, <4>0, <5>1
      <4> QED
        BY <2>1, <2>3, <3>1, <4>1
    <3>2. ASSUME NEW x \in Rows, Transition(queue[x]), queue[x].status = "PENDING", x # k
          PROVE  rest[j] < x \/ \E i \in 1..Len(rest) : rest[i] = x
      <4>0. rest[j] = all[j + 1] /\ j + 1 \in 1..Len(all)
        BY <1>2, <2>3
      <4>1. all[j + 1] < x \/ \E i \in 1..Len(all) : all[i] = x
        BY <2>1, <2>3, <3>2, <4>0
      <4>2. ASSUME NEW i \in 1..Len(all), all[i] = x PROVE \E a \in 1..Len(rest) : rest[a] = x
        BY <1>2, <3>2, <4>2
      <4> QED
        BY <4>0, <4>1, <4>2
    <3> QED
      BY <3>1, <3>2
  <2> QED
    BY <2>2, <2>3 DEF Ahead
<1> QED
  BY <1>4, <1>5 DEF k, rest

\* Claiming in that order keeps the writes in order.
LEMMA ClaimOrder ==
  ASSUME QueueShape, QueueInv, WriteInv, NEW p \in Processors, ~Writing(p),
         NEW k, NEW rest, Claimable(k, rest), excuse = {} => Ahead(k, rest),
         Claim(p, k, rest), UNCHANGED jira
  PROVE  WriteInv'
<1> SUFFICES ASSUME excuse' = {} PROVE WriteOrder'
  BY DEF WriteInv
<1>1. excuse = {} /\ \A q \in Processors : q # p => ~Busy(q)
  BY DEF Claim
<1>2. /\ SameRows /\ k \in Rows
      /\ \A j \in Rows : queue'[j].status = IF j = k THEN "IN_FLIGHT" ELSE queue[j].status
  BY StatusUpdate DEF QueueShape, Claim, EntryStatuses, Claimable
<1>3. /\ Rows' = Rows /\ \A j \in Rows : Transition(queue'[j]) = Transition(queue[j]) /\ queue'[j].issue = queue[j].issue
      /\ \A j \in Rows : queue'[j].status = "PENDING" => queue[j].status = "PENDING" /\ j # k
  BY <1>2 DEF SameRows, Rows, Transition
<1>4. /\ proc'[p].pc = "flight" /\ proc'[p].rest = rest /\ proc'[p].entry = k /\ proc'[p].sent = FALSE
      /\ \A q \in Processors : q # p => proc'[q] = proc[q]
  BY DEF Claim, QueueShape
<1>5. \A q \in Processors : Writing(q)' \/ Busy(q)' => q = p
  BY <1>1, <1>4 DEF Writing, Busy
<1>6. WriteOrder
  BY <1>1 DEF WriteInv
<1>7. queue[k].status = "PENDING" /\ \A j \in 1..Len(rest) : rest[j] \in Rows
  BY <1>1 DEF Claimable
<1>8. \A i \in Issues : jira'[i].last # 0 =>
        jira'[i].last \in Rows' /\ Transition(queue'[jira'[i].last]) /\ queue'[jira'[i].last].issue = i
  BY <1>3, <1>6 DEF WriteOrder, Transition
<1>9. \A j \in Rows' : Transition(queue'[j]) /\ queue'[j].status = "PENDING" => jira'[queue'[j].issue].last < j
  BY <1>3, <1>6 DEF WriteOrder
<1>10. Transition(queue[k]) =>
         /\ jira[queue[k].issue].last < k
         /\ \A j \in Rows : Transition(queue[j]) /\ queue'[j].status = "PENDING" => k < j
  BY <1>1, <1>2, <1>3, <1>6, <1>7 DEF WriteOrder, Ahead
<1>11. \A j \in 1..Len(rest) : Transition(queue[rest[j]]) =>
         /\ \A i \in 1..Len(rest) : i < j /\ Transition(queue[rest[i]]) => rest[i] < rest[j]
         /\ \A x \in Rows : Transition(queue[x]) /\ queue'[x].status = "PENDING" =>
              rest[j] < x \/ \E i \in 1..Len(rest) : rest[i] = x
  BY <1>1, <1>3 DEF Ahead
<1>12. \A q \in Processors : Writing(q)' /\ Transition(queue'[proc'[q].entry]) =>
       /\ proc'[q].sent = FALSE => jira'[queue'[proc'[q].entry].issue].last < proc'[q].entry
       /\ \A j \in Rows' : Transition(queue'[j]) /\ queue'[j].status = "PENDING" => proc'[q].entry < j
  BY <1>2, <1>3, <1>4, <1>5, <1>10
<1>13. \A q \in Processors : Busy(q)' =>
       \A j \in 1..Len(proc'[q].rest) : Transition(queue'[proc'[q].rest[j]]) =>
         /\ \A i \in 1..Len(proc'[q].rest) :
              i < j /\ Transition(queue'[proc'[q].rest[i]]) => proc'[q].rest[i] < proc'[q].rest[j]
         /\ \A x \in Rows' :
              Transition(queue'[x]) /\ queue'[x].status = "PENDING" =>
                proc'[q].rest[j] < x \/ \E i \in 1..Len(proc'[q].rest) : proc'[q].rest[i] = x
  <2>1. \A j \in 1..Len(rest) : Transition(queue'[rest[j]]) = Transition(queue[rest[j]])
    BY <1>3, <1>7
  <2> QED
    BY <1>3, <1>4, <1>5, <1>11, <2>1
<1> QED
  BY <1>8, <1>9, <1>12, <1>13 DEF WriteOrder, Transition, Writing, Busy

\* A step that puts nothing back and lets calls only go on or end.
LEMMA CalmOrder ==
  ASSUME QueueShape, QueueInv, WriteInv, excuse \subseteq excuse', SameRows,
         \A i \in Issues : jira'[i].last = jira[i].last,
         \A k \in Rows : queue'[k].status = "PENDING" => queue[k].status = "PENDING",
         \A q \in Processors : proc'[q].pc = "flight" =>
           /\ proc[q].pc = "flight" /\ proc'[q].entry = proc[q].entry
           /\ proc'[q].sent = FALSE => proc[q].sent = FALSE,
         \A q \in Processors : proc'[q].pc # "idle" => proc[q].pc # "idle" /\ proc'[q].rest = proc[q].rest
  PROVE  WriteInv'
<1> SUFFICES ASSUME excuse' = {} PROVE WriteOrder'
  BY DEF WriteInv
<1>1. WriteOrder
  BY DEF WriteInv
<1>2. /\ Rows' = Rows
      /\ \A j \in Rows : queue[j].issue \in Issues /\ queue'[j].issue = queue[j].issue
      /\ \A j \in Rows : Transition(queue'[j]) <=> Transition(queue[j])
  <2>1. \A j \in Rows : queue[j] \in Entry
    BY DEF QueueShape, Rows
  <2> QED
    BY <2>1 DEF SameRows, Rows, Transition, Entry
<1>3. \A q \in Processors :
        /\ proc[q].pc = "flight" => proc[q].entry \in Rows
        /\ \A j \in 1..Len(proc[q].rest) : proc[q].rest[j] \in Rows
  BY DEF QueueInv, InRange, Writing
<1>4. \A i \in Issues : jira'[i].last # 0 =>
        jira'[i].last \in Rows' /\ Transition(queue'[jira'[i].last]) /\ queue'[jira'[i].last].issue = i
  BY <1>1, <1>2 DEF WriteOrder
<1>5. \A j \in Rows' : Transition(queue'[j]) /\ queue'[j].status = "PENDING" => jira'[queue'[j].issue].last < j
  BY <1>1, <1>2 DEF WriteOrder
<1>6. \A q \in Processors : proc'[q].pc = "flight" /\ Transition(queue'[proc'[q].entry]) =>
       /\ proc'[q].sent = FALSE => jira'[queue'[proc'[q].entry].issue].last < proc'[q].entry
       /\ \A j \in Rows' : Transition(queue'[j]) /\ queue'[j].status = "PENDING" => proc'[q].entry < j
  BY <1>1, <1>2, <1>3 DEF WriteOrder, Writing
<1>7. \A q \in Processors : proc'[q].pc # "idle" =>
       \A j \in 1..Len(proc'[q].rest) : Transition(queue'[proc'[q].rest[j]]) =>
         /\ \A i \in 1..Len(proc'[q].rest) :
              i < j /\ Transition(queue'[proc'[q].rest[i]]) => proc'[q].rest[i] < proc'[q].rest[j]
         /\ \A x \in Rows' :
              Transition(queue'[x]) /\ queue'[x].status = "PENDING" =>
                proc'[q].rest[j] < x \/ \E i \in 1..Len(proc'[q].rest) : proc'[q].rest[i] = x
  BY SMTT(30), <1>1, <1>2, <1>3 DEF WriteOrder, Busy
<1> QED
  BY <1>4, <1>5, <1>6, <1>7 DEF WriteOrder, Writing, Busy

\* A rate-limited entry goes back to PENDING and its call ends.
LEMMA PutBackOrder ==
  ASSUME QueueShape, QueueInv, WriteInv, NEW p \in Processors, Writing(p), proc[p].sent = FALSE,
         Settle(p, "PENDING", "idle"), UNCHANGED <<jira, excuse>>
  PROVE  WriteInv'
<1> SUFFICES ASSUME excuse = {} PROVE WriteOrder'
  BY DEF WriteInv
<1> DEFINE k == proc[p].entry
<1>1. WriteOrder /\ k \in Rows
  BY DEF WriteInv, QueueInv, InRange
<1>2. /\ SameRows
      /\ \A j \in Rows : queue'[j].status = IF j = k THEN "PENDING" ELSE queue[j].status
  <2>1. "PENDING" \in EntryStatuses /\ queue \in Seq(Entry) /\ queue' = [queue EXCEPT ![k].status = "PENDING"]
    BY DEF QueueShape, Settle, EntryStatuses
  <2> HIDE DEF k
  <2> QED
    BY <1>1, <2>1, StatusUpdate
<1>3. /\ Rows' = Rows
      /\ \A j \in Rows : queue'[j].issue = queue[j].issue
      /\ \A j \in Rows : Transition(queue'[j]) <=> Transition(queue[j])
  BY <1>2 DEF SameRows, Rows, Transition
<1>4. \A q \in Processors : proc'[q].pc = "idle"
  <2>1. \A q \in Processors : q # p => proc[q].pc = "idle"
    BY DEF QueueInv, OneCall, Busy, Writing
  <2>2. proc' = [proc EXCEPT ![p] = Idle] /\ Idle.pc = "idle"
    BY DEF Settle, Idle
  <2> QED
    BY <2>1, <2>2 DEF QueueShape
<1>5. \A i \in Issues : jira'[i].last # 0 =>
        jira'[i].last \in Rows' /\ Transition(queue'[jira'[i].last]) /\ queue'[jira'[i].last].issue = i
  BY <1>1, <1>3 DEF WriteOrder
<1>6. Transition(queue[k]) => jira[queue[k].issue].last < k
  BY <1>1 DEF WriteOrder
<1>7. \A j \in Rows' : Transition(queue'[j]) /\ queue'[j].status = "PENDING" => jira'[queue'[j].issue].last < j
  BY <1>1, <1>2, <1>3, <1>6 DEF WriteOrder
<1> QED
  BY <1>4, <1>5, <1>7 DEF WriteOrder, Writing, Busy

\* A transition reaches Jira: it is ahead of all that still wait.
LEMMA LandOrder ==
  ASSUME QueueShape, QueueInv, WriteInv, NEW p \in Processors, Writing(p), proc[p].sent = FALSE,
         proc' = [proc EXCEPT ![p].sent = TRUE], UNCHANGED <<queue, excuse>>,
         \A i \in Issues : jira'[i].last =
           IF Transition(queue[proc[p].entry]) /\ queue[proc[p].entry].issue = i
             THEN proc[p].entry ELSE jira[i].last
  PROVE  WriteInv'
<1> SUFFICES ASSUME excuse = {} PROVE WriteOrder'
  BY DEF WriteInv
<1> DEFINE k == proc[p].entry
<1>1. WriteOrder /\ k \in Rows /\ Rows' = Rows /\ \A j \in Rows : queue[j].issue \in Issues
  <2>1. \A j \in Rows : queue[j] \in Entry
    BY DEF QueueShape, Rows
  <2> QED
    BY <2>1 DEF WriteInv, QueueInv, InRange, Rows, Entry
<1>2. /\ \A q \in Processors : proc'[q].pc = proc[q].pc /\ proc'[q].rest = proc[q].rest /\ proc'[q].entry = proc[q].entry
      /\ proc'[p].sent = TRUE
  <2>1. proc[p] \in Call
    BY DEF QueueShape
  <2> QED
    BY <2>1 DEF QueueShape, Call
<1>3. \A q \in Processors : proc[q].pc = "flight" => q = p
  BY DEF QueueInv, OneCall, Busy, Writing
<1>4. \A i \in Issues : jira'[i].last # 0 =>
        jira'[i].last \in Rows' /\ Transition(queue'[jira'[i].last]) /\ queue'[jira'[i].last].issue = i
  BY <1>1 DEF WriteOrder
<1>5. \A j \in Rows' : Transition(queue'[j]) /\ queue'[j].status = "PENDING" => jira'[queue'[j].issue].last < j
  BY <1>1 DEF WriteOrder
<1>6. \A q \in Processors : proc'[q].pc = "flight" /\ Transition(queue'[proc'[q].entry]) =>
       /\ proc'[q].sent = FALSE => jira'[queue'[proc'[q].entry].issue].last < proc'[q].entry
       /\ \A j \in Rows' : Transition(queue'[j]) /\ queue'[j].status = "PENDING" => proc'[q].entry < j
  BY <1>1, <1>2, <1>3 DEF WriteOrder
<1>7. \A q \in Processors : proc'[q].pc # "idle" =>
       \A j \in 1..Len(proc'[q].rest) : Transition(queue'[proc'[q].rest[j]]) =>
         /\ \A i \in 1..Len(proc'[q].rest) :
              i < j /\ Transition(queue'[proc'[q].rest[i]]) => proc'[q].rest[i] < proc'[q].rest[j]
         /\ \A x \in Rows' :
              Transition(queue'[x]) /\ queue'[x].status = "PENDING" =>
                proc'[q].rest[j] < x \/ \E i \in 1..Len(proc'[q].rest) : proc'[q].rest[i] = x
  BY SMTT(30), <1>1, <1>2 DEF WriteOrder, Busy
<1> QED
  BY <1>4, <1>5, <1>6, <1>7 DEF WriteOrder, Writing, Busy

\* New entries come after all that wait.
LEMMA EnqueueOrder ==
  ASSUME QueueShape, QueueInv, WriteInv, UNCHANGED <<proc, excuse, jira>>,
         Len(queue') \in Nat, Len(queue') >= Len(queue), \A k \in Rows : queue'[k] = queue[k],
         \A k \in Rows' : queue'[k].issue \in Issues
  PROVE  WriteInv'
<1> SUFFICES ASSUME excuse = {} PROVE WriteOrder'
  BY DEF WriteInv
<1>1. WriteOrder /\ Len(queue) \in Nat
  BY DEF WriteInv, QueueShape
<1>2. /\ Rows \subseteq Rows'
      /\ \A j \in Rows' : j \notin Rows => \A k \in Rows : k < j
      /\ \A j \in Rows' : j > 0
  BY <1>1 DEF Rows
<1>3. \A q \in Processors :
        /\ proc[q].pc = "flight" => proc[q].entry \in Rows
        /\ \A j \in 1..Len(proc[q].rest) : proc[q].rest[j] \in Rows
  BY DEF QueueInv, InRange, Writing
<1>4. \A i \in Issues : jira'[i].last # 0 =>
        jira'[i].last \in Rows' /\ Transition(queue'[jira'[i].last]) /\ queue'[jira'[i].last].issue = i
  BY <1>1, <1>2 DEF WriteOrder
<1>5. \A j \in Rows' : Transition(queue'[j]) /\ queue'[j].status = "PENDING" => jira'[queue'[j].issue].last < j
  <2> SUFFICES ASSUME NEW j \in Rows', Transition(queue'[j]), queue'[j].status = "PENDING"
               PROVE  jira[queue'[j].issue].last < j
    OBVIOUS
  <2>1. CASE j \in Rows
    BY <1>1, <2>1 DEF WriteOrder
  <2>2. CASE j \notin Rows
    BY <1>1, <1>2, <2>2 DEF WriteOrder
  <2> QED
    BY <2>1, <2>2
<1>6. \A q \in Processors : proc'[q].pc = "flight" /\ Transition(queue'[proc'[q].entry]) =>
       /\ proc'[q].sent = FALSE => jira'[queue'[proc'[q].entry].issue].last < proc'[q].entry
       /\ \A j \in Rows' : Transition(queue'[j]) /\ queue'[j].status = "PENDING" => proc'[q].entry < j
  BY <1>1, <1>2, <1>3 DEF WriteOrder, Writing
<1>7. \A q \in Processors : proc'[q].pc # "idle" =>
       \A j \in 1..Len(proc'[q].rest) : Transition(queue'[proc'[q].rest[j]]) =>
         /\ \A i \in 1..Len(proc'[q].rest) :
              i < j /\ Transition(queue'[proc'[q].rest[i]]) => proc'[q].rest[i] < proc'[q].rest[j]
         /\ \A x \in Rows' :
              Transition(queue'[x]) /\ queue'[x].status = "PENDING" =>
                proc'[q].rest[j] < x \/ \E i \in 1..Len(proc'[q].rest) : proc'[q].rest[i] = x
  <2> SUFFICES ASSUME NEW q \in Processors, proc[q].pc # "idle",
                      NEW j \in 1..Len(proc[q].rest), Transition(queue[proc[q].rest[j]])
               PROVE  /\ \A i \in 1..Len(proc[q].rest) :
                           i < j /\ Transition(queue[proc[q].rest[i]]) => proc[q].rest[i] < proc[q].rest[j]
                      /\ \A x \in Rows' :
                           Transition(queue'[x]) /\ queue'[x].status = "PENDING" =>
                             proc[q].rest[j] < x \/ \E i \in 1..Len(proc[q].rest) : proc[q].rest[i] = x
    BY SMTT(30), <1>3
  <2>1. /\ \A i \in 1..Len(proc[q].rest) :
             i < j /\ Transition(queue[proc[q].rest[i]]) => proc[q].rest[i] < proc[q].rest[j]
        /\ \A x \in Rows :
             Transition(queue[x]) /\ queue[x].status = "PENDING" =>
               proc[q].rest[j] < x \/ \E i \in 1..Len(proc[q].rest) : proc[q].rest[i] = x
    BY <1>1 DEF WriteOrder, Busy
  <2> QED
    BY <1>2, <1>3, <2>1
<1> QED
  BY <1>4, <1>5, <1>6, <1>7 DEF WriteOrder, Writing, Busy
-----------------------------------------------------------------------------
(* The dispatchers.                                                        *)

DispatchShape ==
  /\ queue \in Seq(Entry)
  /\ excuse \in SUBSET {"overlap", "retry", "zero", "dispatch", "edit", "late", "reschedule"}
  /\ now \in Nat
  /\ event \in [Events -> EventRow]
  /\ disp \in [Dispatchers -> Batch]

\* A step that dispatches nothing and lets dispatchers only go on or give up.
LEMMA CalmDispatch ==
  ASSUME DispatchShape, DispatchInv, ScheduleInv, SameRows, excuse \subseteq excuse',
         \A e \in Events : event'[e].status = "ABSENT" => event[e].status = "ABSENT",
         "late" \notin excuse' =>
           \A e \in Events : event'[e].status = "DISPATCHED" <=> event[e].status = "DISPATCHED",
         excuse' = {} =>
           \A e \in Events :
             /\ event'[e].at = event[e].at
             /\ Open(event'[e]) => Open(event[e]) \/ \A x \in Taken : ~Sooner(event, e, x),
         \A d \in Dispatchers : disp'[d].pc = "loaded" => disp'[d] = disp[d]
  PROVE  DispatchInv' /\ ScheduleInv'
<1>1. /\ Rows' = Rows /\ \A k \in Rows : queue'[k].event = queue[k].event /\ queue'[k].op = queue[k].op
      /\ \A k \in Rows : queue[k].event \in Events \cup {0}
  <2>1. \A j \in Rows : queue[j] \in Entry
    BY DEF DispatchShape, Rows
  <2> QED
    BY <2>1 DEF SameRows, Rows, Entry
<1>2. \A d \in Dispatchers : \A j \in 1..Len(disp[d].batch) : disp[d].batch[j].id \in Events
  <2> TAKE d \in Dispatchers
  <2> TAKE j \in 1..Len(disp[d].batch)
  <2>1. disp[d].batch \in Seq(Item)
    BY DEF DispatchShape, Batch
  <2>2. disp[d].batch[j] \in Item
    BY <2>1
  <2> QED
    BY <2>2 DEF Item
<1>3. DispatchInv'
  <2>1. ASSUME "late" \notin excuse'
        PROVE  \A k \in Rows' : queue'[k].event # 0 => event'[queue'[k].event].status = "DISPATCHED"
    BY <1>1, <2>1 DEF DispatchInv
  <2>2. ASSUME "dispatch" \notin excuse', "late" \notin excuse'
        PROVE  /\ \A c, d \in Dispatchers : disp'[c].pc = "loaded" /\ disp'[d].pc = "loaded" => c = d
               /\ \A d \in Dispatchers : disp'[d].pc = "loaded" =>
                    \A j \in 1..Len(disp'[d].batch) :
                      /\ event'[disp'[d].batch[j].id].status # "DISPATCHED"
                      /\ \A i \in 1..Len(disp'[d].batch) : disp'[d].batch[i].id = disp'[d].batch[j].id => i = j
               /\ \A a, b \in Rows' : queue'[a].event # 0 /\ queue'[a].event = queue'[b].event => a = b
    <3>1. "dispatch" \notin excuse /\ "late" \notin excuse
      BY <2>2
    <3> QED
      BY <1>1, <1>2, <2>2, <3>1 DEF DispatchInv, Loaded
  <2>3. \A d \in Dispatchers : disp'[d].pc = "loaded" =>
          \A j \in 1..Len(disp'[d].batch) : event'[disp'[d].batch[j].id].status # "ABSENT"
    BY <1>2 DEF DispatchInv, Loaded
  <2> QED
    BY <2>1, <2>2, <2>3 DEF DispatchInv, Loaded
<1>4. ScheduleInv'
  <2> SUFFICES ASSUME excuse' = {} PROVE ScheduleOrder'
    BY DEF ScheduleInv
  <2>1. ScheduleOrder
    BY DEF ScheduleInv
  <2>2. \A a, b \in Events : Sooner(event', a, b) <=> Sooner(event, a, b)
    BY DEF Sooner
  <2>3. \A k \in Rows' : Transition(queue'[k]) => queue'[k].event \in Events
    BY <1>1, <2>1 DEF ScheduleOrder, Transition
  <2>4. \A a, b \in Rows' :
          a < b /\ queue'[a].event \in Events /\ queue'[b].event \in Events =>
            ~Sooner(event', queue'[b].event, queue'[a].event)
    BY <1>1, <2>1, <2>2 DEF ScheduleOrder
  <2>5. \A a \in Rows', e \in Events :
          queue'[a].event \in Events /\ Open(event'[e]) => ~Sooner(event', e, queue'[a].event)
    <3> SUFFICES ASSUME NEW a \in Rows, NEW e \in Events, queue[a].event \in Events, Open(event'[e])
                 PROVE  ~Sooner(event, e, queue[a].event)
      BY <1>1, <2>2
    <3>1. queue[a].event \in Taken
      <4>1. queue[a].event # 0 /\ "late" \notin excuse
        BY PipelineAssumption
      <4>2. event[queue[a].event].status = "DISPATCHED"
        BY <4>1 DEF DispatchInv
      <4> QED
        BY <4>2 DEF Taken
    <3> QED
      BY <2>1, <3>1 DEF ScheduleOrder
  <2>6. \A d \in Dispatchers : disp'[d].pc = "loaded" =>
         /\ \A i, j \in 1..Len(disp'[d].batch) :
              i < j => ~Sooner(event', disp'[d].batch[j].id, disp'[d].batch[i].id)
         /\ \A j \in 1..Len(disp'[d].batch), e \in Events :
              Open(event'[e]) /\ e \notin Ids(disp'[d]) => ~Sooner(event', e, disp'[d].batch[j].id)
    <3> SUFFICES ASSUME NEW d \in Dispatchers, disp'[d].pc = "loaded", disp[d].pc = "loaded"
                 PROVE  /\ \A i, j \in 1..Len(disp[d].batch) :
                             i < j => ~Sooner(event', disp[d].batch[j].id, disp[d].batch[i].id)
                        /\ \A j \in 1..Len(disp[d].batch), e \in Events :
                             Open(event'[e]) /\ e \notin Ids(disp[d]) => ~Sooner(event', e, disp[d].batch[j].id)
      OBVIOUS
    <3>1. /\ \A i, j \in 1..Len(disp[d].batch) :
               i < j => ~Sooner(event, disp[d].batch[j].id, disp[d].batch[i].id)
          /\ \A j \in 1..Len(disp[d].batch), e \in Events :
               Open(event[e]) /\ e \notin Ids(disp[d]) => ~Sooner(event, e, disp[d].batch[j].id)
      BY <2>1 DEF ScheduleOrder, Loaded
    <3>2. \A j \in 1..Len(disp[d].batch) : disp[d].batch[j].id \in Taken
      BY DEF Taken
    <3> QED
      BY <1>2, <2>2, <3>1, <3>2
  <2> QED
    BY <2>3, <2>4, <2>5, <2>6 DEF ScheduleOrder, Loaded
<1> QED
  BY <1>3, <1>4

\* What the query of the dispatcher returns.
LEMMA DueBatch ==
  ASSUME DispatchShape, NEW ids \in DueBatches
  PROVE  /\ ids \in Seq(Events)
         /\ \A j \in 1..Len(ids) : Open(event[ids[j]])
         /\ \A i, j \in 1..Len(ids) : ids[i] = ids[j] => i = j
         /\ \A i, j \in 1..Len(ids) : i < j => ~Sooner(event, ids[j], ids[i])
         /\ \A j \in 1..Len(ids), e \in Events :
              Open(event[e]) /\ (\A i \in 1..Len(ids) : ids[i] # e) => ~Sooner(event, e, ids[j])
<1>1. IsFiniteSet(DueEvents) /\ \A e \in DueEvents : e \in Events /\ Open(event[e]) /\ event[e].at <= now
  <2>1. DueEvents \subseteq Events /\ IsFiniteSet(Events)
    BY PipelineAssumption DEF DueEvents
  <2>2. IsFiniteSet(DueEvents)
    BY <2>1, FS_Subset
  <2> QED
    BY <2>2 DEF DueEvents, Waiting, Open
<1>2. PICK s \in Listings(DueEvents, Before) :
        ids = SubSeq(s, 1, IF Len(s) < DispatchBatch THEN Len(s) ELSE DispatchBatch)
  BY DEF DueBatches
<1>3. /\ Lists(s, DueEvents)
      /\ \A i, j \in DOMAIN s : i < j => ~Sooner(event, s[j], s[i])
  BY <1>2 DEF Listings, Lists, Before, Sooner
<1>4. /\ s \in Seq(DueEvents) /\ Len(s) \in Nat
      /\ \A x \in DueEvents : \E i \in 1..Len(s) : s[i] = x
      /\ \A i, j \in 1..Len(s) : s[i] = s[j] => i = j
  BY <1>1, <1>3, ListingOnto
<1> DEFINE n == IF Len(s) < DispatchBatch THEN Len(s) ELSE DispatchBatch
<1>5. n \in 0..Len(s)
  BY <1>4, PipelineAssumption
<1>6. ids = SubSeq(s, 1, n)
  BY <1>2
<1> HIDE DEF n
<1>7. /\ ids \in Seq(DueEvents) /\ Len(ids) = n
      /\ \A j \in 1..n : ids[j] = s[j]
  BY <1>4, <1>5, <1>6
<1>8. \A i, j \in 1..Len(s) : i < j => ~Sooner(event, s[j], s[i])
  BY SMTT(30), <1>3, <1>4
<1>9. \A j \in 1..Len(s) : s[j] \in DueEvents
  BY <1>4
<1>10. ASSUME NEW j \in 1..Len(ids), NEW e \in Events, Open(event[e]), \A i \in 1..Len(ids) : ids[i] # e
       PROVE  ~Sooner(event, e, ids[j])
  <2>1. ids[j] \in Events /\ event[ids[j]].at <= now /\ event[ids[j]].at \in Nat /\ event[e].at \in Nat
    BY <1>1, <1>5, <1>7, <1>9, <1>10 DEF DispatchShape, EventRow
  <2>2. CASE event[e].at <= now
    <3>1. e \in DueEvents
      BY <1>10, <2>2 DEF DueEvents, Waiting, Open
    <3>2. PICK i \in 1..Len(s) : s[i] = e
      BY <1>4, <3>1
    <3>3. j < i /\ j \in 1..Len(s)
      BY <1>5, <1>7, <1>10, <3>2
    <3> QED
      BY <1>5, <1>7, <1>8, <1>10, <3>2, <3>3
  <2>3. CASE event[e].at > now
    BY <2>1, <2>3 DEF Sooner, DispatchShape
  <2> QED
    BY <2>1, <2>2, <2>3 DEF DispatchShape
<1>11. ASSUME NEW i \in 1..Len(ids), NEW j \in 1..Len(ids)
       PROVE  (ids[i] = ids[j] => i = j) /\ (i < j => ~Sooner(event, ids[j], ids[i]))
  <2>1. i \in 1..Len(s) /\ j \in 1..Len(s) /\ ids[i] = s[i] /\ ids[j] = s[j]
    BY <1>5, <1>7, <1>11
  <2> QED
    BY <1>4, <1>8, <2>1
<1>12. ids \in Seq(Events) /\ \A j \in 1..Len(ids) : Open(event[ids[j]])
  BY <1>1, <1>7
<1> QED
  BY <1>10, <1>11, <1>12

\* A dispatcher reads the due events.
LEMMA ReadKeeps ==
  ASSUME DispatchShape, DispatchInv, ScheduleInv, NEW d \in Dispatchers, ReadDue(d)
  PROVE  DispatchShape' /\ DispatchInv' /\ ScheduleInv'
<1>1. PICK ids \in DueBatches :
        disp' = [disp EXCEPT ![d] =
          [pc |-> "loaded", asof |-> now,
           batch |-> [k \in 1..Len(ids) |-> [id |-> ids[k], arg |-> event[ids[k]].arg]]]]
  BY DEF ReadDue
<1>2. /\ ids \in Seq(Events) /\ \A j \in 1..Len(ids) : Open(event[ids[j]])
      /\ \A i, j \in 1..Len(ids) : ids[i] = ids[j] => i = j
      /\ \A i, j \in 1..Len(ids) : i < j => ~Sooner(event, ids[j], ids[i])
      /\ \A j \in 1..Len(ids), e \in Events :
           Open(event[e]) /\ (\A i \in 1..Len(ids) : ids[i] # e) => ~Sooner(event, e, ids[j])
  BY DueBatch
<1> DEFINE items == [k \in 1..Len(ids) |-> [id |-> ids[k], arg |-> event[ids[k]].arg]]
           read == [pc |-> "loaded", asof |-> now, batch |-> items]
<1>3. items \in Seq(Item) /\ Len(items) = Len(ids) /\ \A j \in 1..Len(ids) : items[j].id = ids[j]
  <2>1. Len(ids) \in Nat /\ \A j \in 1..Len(ids) : ids[j] \in Events
    BY <1>2
  <2>2. \A j \in 1..Len(ids) : [id |-> ids[j], arg |-> event[ids[j]].arg] \in Item
    BY <2>1 DEF Item, DispatchShape, EventRow
  <2> QED
    BY <2>1, <2>2
<1> HIDE DEF items
<1>4. read \in Batch
  BY <1>3 DEF Batch, DispatchShape
<1>5. disp' = [disp EXCEPT ![d] = read]
  BY <1>1 DEF items
<1>6. /\ disp' \in [Dispatchers -> Batch] /\ disp'[d] = read
      /\ \A c \in Dispatchers : c # d => disp'[c] = disp[c]
  BY <1>4, <1>5 DEF DispatchShape
<1>7. /\ UNCHANGED <<queue, event, now>> /\ Rows' = Rows /\ excuse \subseteq excuse'
      /\ "dispatch" \notin excuse' => \A c \in Dispatchers : c # d => disp[c].pc # "loaded"
      /\ excuse' \in SUBSET {"overlap", "retry", "zero", "dispatch", "edit", "late", "reschedule"}
  BY DEF ReadDue, Rows, DispatchShape
<1>8. disp'[d].batch = items /\ disp'[d].pc = "loaded"
  BY <1>6
<1>9. DispatchShape'
  BY <1>6, <1>7 DEF DispatchShape
<1>10. DispatchInv'
  <2>1. ASSUME "late" \notin excuse'
        PROVE  \A k \in Rows' : queue'[k].event # 0 => event'[queue'[k].event].status = "DISPATCHED"
    BY <1>7, <2>1 DEF DispatchInv
  <2>2. ASSUME "dispatch" \notin excuse', "late" \notin excuse'
        PROVE  /\ \A c \in Dispatchers : disp'[c].pc = "loaded" => c = d
               /\ \A j \in 1..Len(items) :
                      /\ event'[items[j].id].status # "DISPATCHED"
                      /\ \A i \in 1..Len(items) : items[i].id = items[j].id => i = j
               /\ \A a, b \in Rows' : queue'[a].event # 0 /\ queue'[a].event = queue'[b].event => a = b
    <3>1. \A c \in Dispatchers : disp'[c].pc = "loaded" => c = d
      BY <1>6, <1>7, <2>2
    <3>2. \A j \in 1..Len(items) :
            /\ event'[items[j].id].status # "DISPATCHED"
            /\ \A i \in 1..Len(items) : items[i].id = items[j].id => i = j
      BY <1>2, <1>3, <1>7 DEF Open
    <3>3. \A a, b \in Rows' : queue'[a].event # 0 /\ queue'[a].event = queue'[b].event => a = b
      BY <1>7, <2>2 DEF DispatchInv
    <3> QED
      BY <3>1, <3>2, <3>3
  <2>3. \A c \in Dispatchers : disp'[c].pc = "loaded" =>
          \A j \in 1..Len(disp'[c].batch) : event'[disp'[c].batch[j].id].status # "ABSENT"
    <3> TAKE c \in Dispatchers
    <3>1. CASE c = d
      BY <1>2, <1>3, <1>7, <1>8, <3>1 DEF Open
    <3>2. CASE c # d
      BY <1>6, <1>7, <3>2 DEF DispatchInv, Loaded
    <3> QED
      BY <3>1, <3>2
  <2> QED
    BY <1>8, <2>1, <2>2, <2>3 DEF DispatchInv, Loaded
<1>11. ScheduleInv'
  <2> SUFFICES ASSUME excuse' = {} PROVE ScheduleOrder'
    BY DEF ScheduleInv
  <2>1. ScheduleOrder
    BY <1>7 DEF ScheduleInv
  <2>2. \A c \in Dispatchers : disp'[c].pc = "loaded" => c = d
    BY <1>6, <1>7
  <2>3. \A e \in Events : e \notin Ids(disp'[d]) => \A i \in 1..Len(ids) : ids[i] # e
    BY <1>3, <1>8 DEF Ids
  <2>4. /\ \A i, j \in 1..Len(items) : i < j => ~Sooner(event, items[j].id, items[i].id)
        /\ \A j \in 1..Len(items), e \in Events :
              Open(event[e]) /\ e \notin Ids(disp'[d]) => ~Sooner(event, e, items[j].id)
    BY <1>2, <1>3, <2>3
  <2>5. \A c \in Dispatchers : disp'[c].pc = "loaded" =>
         /\ \A i, j \in 1..Len(disp'[c].batch) :
              i < j => ~Sooner(event', disp'[c].batch[j].id, disp'[c].batch[i].id)
         /\ \A j \in 1..Len(disp'[c].batch), e \in Events :
              Open(event'[e]) /\ e \notin Ids(disp'[c]) => ~Sooner(event', e, disp'[c].batch[j].id)
    BY <1>7, <1>8, <2>2, <2>4
  <2> QED
    BY <1>7, <2>1, <2>5 DEF ScheduleOrder, Loaded
<1> QED
  BY <1>9, <1>10, <1>11

\* A dispatcher commits what it has read.
LEMMA CommitKeeps ==
  ASSUME DispatchShape, DispatchInv, ScheduleInv, NEW d \in Dispatchers, CommitDispatch(d),
         Len(queue') = Len(queue) + Len(disp[d].batch),
         \A k \in Rows : queue'[k] = queue[k],
         \A k \in Rows' : k \notin Rows =>
           /\ k - Len(queue) \in 1..Len(disp[d].batch)
           /\ queue'[k].event = disp[d].batch[k - Len(queue)].id
  PROVE  /\ event' \in [Events -> EventRow] /\ disp' \in [Dispatchers -> Batch]
         /\ DispatchInv' /\ ScheduleInv'
<1> DEFINE batch == disp[d].batch
<1>1. Loaded(d) /\ batch \in Seq(Item) /\ Len(batch) \in Nat /\ Len(queue) \in Nat
  BY DEF CommitDispatch, Loaded, DispatchShape, Batch
<1>2. \A j \in 1..Len(batch) : batch[j].id \in Events /\ batch[j].id # 0 /\ event[batch[j].id].status # "DELETED"
  <2> TAKE j \in 1..Len(batch)
  <2>1. batch[j] \in Item
    BY <1>1
  <2> QED
    BY <2>1, PipelineAssumption DEF Item, CommitDispatch, Intact
<1> DEFINE written == Ids(disp[d])
<1>3. \A e \in Events : event'[e] = IF e \in written THEN [event[e] EXCEPT !.status = "DISPATCHED"] ELSE event[e]
  BY DEF CommitDispatch, AfterDispatch, Ids
<1>4. event' \in [Events -> EventRow]
  <2>1. \A e \in Events : event[e] \in EventRow
    BY DEF DispatchShape
  <2>2. \A e \in Events : [event[e] EXCEPT !.status = "DISPATCHED"] \in EventRow
    BY <2>1 DEF EventRow
  <2> QED
    BY <2>1, <2>2 DEF CommitDispatch, AfterDispatch
<1>5. /\ disp' \in [Dispatchers -> Batch] /\ disp'[d].pc = "idle"
      /\ \A c \in Dispatchers : c # d => disp'[c] = disp[c]
  <2>1. NoBatch \in Batch /\ NoBatch.pc = "idle"
    BY DEF NoBatch, Batch
  <2> QED
    BY <2>1 DEF CommitDispatch, DispatchShape
<1>6. \A e \in Events :
        /\ event'[e].at = event[e].at
        /\ e \in written => event'[e].status = "DISPATCHED"
        /\ e \notin written => event'[e] = event[e]
        /\ event[e].status = "DISPATCHED" => event'[e].status = "DISPATCHED"
  <2>1. \A e \in Events : event[e] \in EventRow
    BY DEF DispatchShape
  <2> QED
    BY <1>3, <2>1 DEF EventRow
<1>7. \A k \in Rows' : k \notin Rows =>
        \E j \in 1..Len(batch) : k = Len(queue) + j /\ queue'[k].event = batch[j].id
  <2> SUFFICES ASSUME NEW k \in Rows', k \notin Rows
               PROVE  \E j \in 1..Len(batch) : k = Len(queue) + j /\ queue'[k].event = batch[j].id
    OBVIOUS
  <2>1. k - Len(queue) \in 1..Len(batch) /\ k \in Nat /\ k = Len(queue) + (k - Len(queue))
    BY <1>1 DEF Rows
  <2> QED
    BY <2>1
<1>8. \A j \in 1..Len(batch) : batch[j].id \in written
  BY DEF Ids
<1>9. \A k \in Rows : queue[k].event \in Events \cup {0}
  <2>1. \A k \in Rows : queue[k] \in Entry
    BY DEF DispatchShape, Rows
  <2> QED
    BY <2>1 DEF Entry
<1> HIDE DEF batch, written
<1>10. UNCHANGED excuse
  BY DEF CommitDispatch
<1>11. DispatchInv'
  <2>1. ASSUME "late" \notin excuse
        PROVE  \A k \in Rows' : queue'[k].event # 0 => event'[queue'[k].event].status = "DISPATCHED"
    BY <1>2, <1>6, <1>7, <1>8, <1>9, <2>1 DEF DispatchInv
  <2>2. ASSUME "dispatch" \notin excuse, "late" \notin excuse
        PROVE  /\ \A c \in Dispatchers : disp'[c].pc # "loaded"
               /\ \A a, b \in Rows' : queue'[a].event # 0 /\ queue'[a].event = queue'[b].event => a = b
    <3>1. /\ \A c \in Dispatchers : disp[c].pc = "loaded" => c = d
          /\ \A j \in 1..Len(batch) :
                /\ event[batch[j].id].status # "DISPATCHED"
                /\ \A i \in 1..Len(batch) : batch[i].id = batch[j].id => i = j
          /\ \A a, b \in Rows : queue[a].event # 0 /\ queue[a].event = queue[b].event => a = b
          /\ \A k \in Rows : queue[k].event # 0 => event[queue[k].event].status = "DISPATCHED"
      BY <1>1, <2>2 DEF DispatchInv, Loaded, batch
    <3>2. \A c \in Dispatchers : disp'[c].pc # "loaded"
      BY <1>5, <3>1
    <3>3. ASSUME NEW a \in Rows', NEW b \in Rows', queue'[a].event # 0, queue'[a].event = queue'[b].event
          PROVE  a = b
      <4>1. CASE a \in Rows /\ b \in Rows
        BY <3>1, <3>3, <4>1
      <4>2. CASE a \in Rows /\ b \notin Rows
        <5>1. PICK j \in 1..Len(batch) : queue'[b].event = batch[j].id
          BY <1>7, <4>2
        <5>2. event[queue[a].event].status = "DISPATCHED" /\ queue[a].event = batch[j].id
          BY <3>1, <3>3, <4>2, <5>1
        <5> QED
          BY <3>1, <5>2
      <4>3. CASE a \notin Rows /\ b \in Rows
        <5>1. PICK j \in 1..Len(batch) : queue'[a].event = batch[j].id
          BY <1>7, <4>3
        <5>2. event[queue[b].event].status = "DISPATCHED" /\ queue[b].event = batch[j].id
          BY <3>1, <3>3, <4>3, <5>1
        <5> QED
          BY <3>1, <5>2
      <4>4. CASE a \notin Rows /\ b \notin Rows
        BY SMTT(30), <1>7, <3>1, <3>3, <4>4
      <4> QED
        BY <4>1, <4>2, <4>3, <4>4
    <3> QED
      BY <3>2, <3>3
  <2>3. \A c \in Dispatchers : disp'[c].pc = "loaded" =>
          \A j \in 1..Len(disp'[c].batch) : event'[disp'[c].batch[j].id].status # "ABSENT"
    <3> SUFFICES ASSUME NEW c \in Dispatchers, disp[c].pc = "loaded", NEW j \in 1..Len(disp[c].batch)
                 PROVE  event'[disp[c].batch[j].id].status # "ABSENT"
      BY <1>5
    <3>1. disp[c].batch[j].id \in Events
      <4>1. disp[c].batch \in Seq(Item)
        BY DEF DispatchShape, Batch
      <4>2. disp[c].batch[j] \in Item
        BY <4>1
      <4> QED
        BY <4>2 DEF Item
    <3>2. event[disp[c].batch[j].id].status # "ABSENT"
      BY DEF DispatchInv, Loaded
    <3> QED
      BY <1>6, <3>1, <3>2
  <2> QED
    BY <1>10, <2>1, <2>2, <2>3 DEF DispatchInv, Loaded
<1>12. ScheduleInv'
  <2> SUFFICES ASSUME excuse = {} PROVE ScheduleOrder'
    BY <1>10 DEF ScheduleInv
  <2>1. ScheduleOrder
    BY DEF ScheduleInv
  <2>2. /\ \A c \in Dispatchers : disp'[c].pc # "loaded"
        /\ \A j \in 1..Len(batch) : event[batch[j].id].status \notin {"DISPATCHED", "ABSENT"}
    BY <1>1, <1>5 DEF DispatchInv, Loaded, batch
  <2>3. \A j \in 1..Len(batch) : Open(event[batch[j].id])
    <3> TAKE j \in 1..Len(batch)
    <3>1. event[batch[j].id].status \in {"ABSENT", "PENDING", "MODIFIED", "DISPATCHED", "DELETED"}
      BY <1>2 DEF DispatchShape, EventRow
    <3> QED
      BY <1>2, <2>2, <3>1 DEF Open
  <2>4. \A a, b \in Events : Sooner(event', a, b) <=> Sooner(event, a, b)
    BY <1>6 DEF Sooner
  <2>5. \A e \in Events : Open(event'[e]) => Open(event[e]) /\ e \notin written
    BY <1>6 DEF Open
  <2>6. \A k \in Rows' : Transition(queue'[k]) => queue'[k].event \in Events
    BY <1>2, <1>7, <2>1 DEF ScheduleOrder
  <2>7. ASSUME NEW a \in Rows', NEW b \in Rows', a < b, queue'[a].event \in Events, queue'[b].event \in Events
        PROVE  ~Sooner(event', queue'[b].event, queue'[a].event)
    <3>1. CASE a \in Rows /\ b \in Rows
      BY <2>1, <2>4, <2>7, <3>1 DEF ScheduleOrder
    <3>2. CASE a \in Rows /\ b \notin Rows
      BY ZenonT(30), <1>7, <2>1, <2>3, <2>4, <2>7, <3>2 DEF ScheduleOrder
    <3>3. CASE a \notin Rows
      <4>1. PICK i \in 1..Len(batch) : a = Len(queue) + i /\ queue'[a].event = batch[i].id
        BY <1>7, <3>3
      <4>2. b \notin Rows
        BY <1>1, <2>7, <4>1 DEF Rows
      <4>3. PICK j \in 1..Len(batch) : b = Len(queue) + j /\ queue'[b].event = batch[j].id
        BY <1>7, <4>2
      <4>4. i < j
        BY <1>1, <2>7, <4>1, <4>3
      <4>5. ~Sooner(event, batch[j].id, batch[i].id)
        BY <1>1, <2>1, <4>4 DEF ScheduleOrder, batch
      <4> QED
        BY <2>4, <2>7, <4>1, <4>3, <4>5
    <3> QED
      BY <3>1, <3>2, <3>3
  <2>8. ASSUME NEW a \in Rows', NEW e \in Events, queue'[a].event \in Events, Open(event'[e])
        PROVE  ~Sooner(event', e, queue'[a].event)
    <3>1. CASE a \in Rows
      BY <2>1, <2>4, <2>5, <2>8, <3>1 DEF ScheduleOrder
    <3>2. CASE a \notin Rows
      <4>1. PICK j \in 1..Len(batch) : a = Len(queue) + j /\ queue'[a].event = batch[j].id
        BY <1>7, <3>2
      <4>2. ~Sooner(event, e, batch[j].id)
        BY <1>1, <2>1, <2>5, <2>8 DEF ScheduleOrder, batch, written
      <4> QED
        BY <2>4, <2>8, <4>1, <4>2
    <3> QED
      BY <3>1, <3>2
  <2> QED
    BY <2>2, <2>6, <2>7, <2>8 DEF ScheduleOrder, Loaded
<1> QED
  BY <1>4, <1>5, <1>11, <1>12

\* An entry that no event caused changes nothing for the dispatchers.
LEMMA CreateKeeps ==
  ASSUME DispatchShape, DispatchInv, ScheduleInv, UNCHANGED <<event, disp, excuse>>,
         \A k \in Rows : k \in Rows' /\ queue'[k] = queue[k],
         \A k \in Rows' : k \notin Rows => queue'[k].event = 0 /\ ~Transition(queue'[k])
  PROVE  DispatchInv' /\ ScheduleInv'
<1>1. DispatchInv'
  BY DEF DispatchInv, Loaded
<1>2. ScheduleInv'
  BY PipelineAssumption DEF ScheduleInv, ScheduleOrder, Loaded
<1> QED
  BY <1>1, <1>2
-----------------------------------------------------------------------------
(* The auditor.                                                            *)

\* Verdicts stay true: rows are never removed and what has landed has landed.
LEMMA CalmAudit ==
  ASSUME QueueShape, AuditInv, UNCHANGED audit, \A k \in Rows : k \in Rows' /\ landed'[k] >= landed[k],
         landed' \in Seq(Nat), Len(landed') = Len(queue')
  PROVE  AuditInv'
<1>1. \A k \in Rows : landed[k] \in Nat /\ landed'[k] \in Nat
  BY DEF QueueShape, Rows
<1> QED
  BY <1>1 DEF AuditInv

\* The auditor believes a DONE entry only.
LEMMA RunAuditKeeps ==
  ASSUME QueueShape, QueueInv, AuditInv, audit \in Seq(AuditEntry), RunAudit
  PROVE  audit' \in Seq(AuditEntry) /\ AuditInv'
<1> USE DEF queueVars
<1>1. PICK S \in SUBSET Auditable :
        audit' = [k \in DOMAIN audit |->
          IF k \in S THEN [audit[k] EXCEPT !.status = Verdict(audit[k])] ELSE audit[k]]
  BY DEF RunAudit
<1>2. \A k \in 1..Len(audit) : audit[k] \in AuditEntry
  OBVIOUS
<1>3. ASSUME NEW k \in 1..Len(audit)
      PROVE  /\ audit'[k] \in AuditEntry /\ audit'[k].entry = audit[k].entry
             /\ audit'[k].status = "VERIFIED" => audit[k].status = "VERIFIED" \/ queue[audit[k].entry].status = "DONE"
  <2>1. CASE k \in S
    <3>1. audit'[k] = [audit[k] EXCEPT !.status = Verdict(audit[k])]
      BY <1>1, <2>1
    <3>2. /\ Verdict(audit[k]) \in {"PENDING", "VERIFIED", "FAILED", "TIMEOUT"}
          /\ Verdict(audit[k]) = "VERIFIED" => queue[audit[k].entry].status = "DONE"
      BY DEF Verdict
    <3> QED
      BY <1>2, <3>1, <3>2 DEF AuditEntry
  <2>2. CASE k \notin S
    BY <1>1, <1>2, <2>2
  <2> QED
    BY <2>1, <2>2
<1>4. audit' \in Seq(AuditEntry) /\ Len(audit') = Len(audit)
  <2>1. Len(audit) \in Nat /\ DOMAIN audit = 1..Len(audit)
    OBVIOUS
  <2>2. audit' = [k \in 1..Len(audit) |-> audit'[k]]
    BY <1>1, <2>1
  <2> QED
    BY <1>3, <2>1, <2>2
<1>5. Rows' = Rows /\ UNCHANGED <<queue, landed>>
  BY DEF RunAudit, Rows
<1>6. \A k \in Rows : queue[k].status = "DONE" => landed[k] > 0
  BY DEF QueueInv, DoneHasLanded
<1> QED
  BY <1>3, <1>4, <1>5, <1>6 DEF AuditInv
-----------------------------------------------------------------------------
(* The steps of the system.                                                *)

LEMMA ShapeParts ==
  Shape <=> /\ QueueShape /\ DispatchShape /\ audit \in Seq(AuditEntry)
            /\ jira \in [Issues -> [count : Nat, status : Nat, last : Nat]]
BY DEF Shape, QueueShape, DispatchShape

\* The queue's own steps: nothing happens to the events.
LEMMA QueueStep ==
  ASSUME PInv, UNCHANGED pipeVars, QueueShape', QueueInv', WriteInv', SameRows, excuse \subseteq excuse',
         jira' \in [Issues -> [count : Nat, status : Nat, last : Nat]],
         \A k \in Rows : landed'[k] >= landed[k]
  PROVE  PInv'
<1> USE DEF pipeVars
<1>1. /\ QueueShape /\ DispatchShape /\ audit \in Seq(AuditEntry)
      /\ DispatchInv /\ ScheduleInv /\ AuditInv
  BY ShapeParts DEF PInv
<1>2. DispatchShape'
  BY <1>1 DEF DispatchShape, QueueShape
<1>3. Shape'
  BY <1>1, <1>2 DEF Shape, QueueShape, DispatchShape
<1>4. DispatchInv' /\ ScheduleInv'
  <2>1. event' = event /\ disp' = disp
    OBVIOUS
  <2> QED
    BY <1>1, <2>1, CalmDispatch
<1>5. AuditInv'
  <2>1. Rows' = Rows /\ landed' \in Seq(Nat) /\ Len(landed') = Len(queue')
    BY DEF QueueShape, SameRows, Rows
  <2> QED
    BY <1>1, <2>1, CalmAudit
<1> QED
  BY <1>3, <1>4, <1>5 DEF PInv

\* Steps that leave the queue and Jira alone and only disturb the pipeline.
LEMMA PipeStep ==
  ASSUME PInv, UNCHANGED <<queue, proc, landed, lost, jira>>, excuse \subseteq excuse', DispatchShape',
         audit' \in Seq(AuditEntry), DispatchInv', ScheduleInv', AuditInv'
  PROVE  PInv'
<1>1. QueueShape /\ QueueInv /\ WriteInv /\ Shape
  BY ShapeParts DEF PInv
<1>2. excuse' \in SUBSET {"overlap", "retry", "zero", "dispatch", "edit", "late", "reschedule"}
  BY DEF DispatchShape
<1>3. QueueShape' /\ QueueInv' /\ SameRows
  BY <1>1, <1>2, StillKeeps
<1>4. WriteInv'
  BY <1>1, <1>3, CalmOrder
<1>5. Shape'
  BY <1>1, <1>3 DEF Shape, QueueShape, DispatchShape
<1> QED
  BY <1>3, <1>4, <1>5 DEF PInv

\* A call starts or goes on: it claims an entry.
LEMMA ClaimStep ==
  ASSUME PInv, NEW p \in Processors, ~Writing(p), NEW k, NEW rest, Claimable(k, rest),
         excuse = {} => Ahead(k, rest), Claim(p, k, rest), UNCHANGED <<landed, lost, jira, pipeVars>>
  PROVE  PInv'
<1>1. QueueShape /\ QueueInv /\ WriteInv /\ Shape
  BY ShapeParts DEF PInv
<1>2. QueueShape' /\ QueueInv' /\ SameRows
  <2>1. /\ k \in Rows /\ rest \in Seq(Nat) /\ \A j \in 1..Len(rest) : rest[j] \in Rows
        /\ excuse \cap {"overlap", "retry"} = {} =>
             /\ queue[k].status = "PENDING"
             /\ \A j \in 1..Len(rest) :
                  /\ rest[j] # k /\ queue[rest[j]].status = "PENDING"
                  /\ \A i \in 1..Len(rest) : rest[i] = rest[j] => i = j
    BY DEF Claimable
  <2> QED
    BY <1>1, <2>1, ClaimKeeps
<1>3. WriteInv'
  BY <1>1, ClaimOrder
<1>4. excuse \subseteq excuse' /\ jira' \in [Issues -> [count : Nat, status : Nat, last : Nat]]
  BY <1>1 DEF Claim, Shape
<1>5. \A j \in Rows : landed'[j] >= landed[j]
  BY <1>1 DEF Rows, QueueShape
<1> QED
  BY <1>2, <1>3, <1>4, <1>5, QueueStep

LEMMA ProcessStep ==
  ASSUME PInv, NEW p \in Processors, Process(p)
  PROVE  PInv'
<1>1. PICK batch \in PendingBatches : Claim(p, Head(batch), Tail(batch))
  BY DEF Process, ProcessBatch
<1>2. Claimable(Head(batch), Tail(batch)) /\ Ahead(Head(batch), Tail(batch))
  BY ShapeParts, BatchClaimable DEF PInv, Process, ProcessBatch
<1>3. ~Writing(p) /\ UNCHANGED <<landed, lost, jira, pipeVars>>
  BY DEF Process, ProcessBatch, Busy, Writing
<1> QED
  BY <1>1, <1>2, <1>3, ClaimStep

\* A call of process_batch ends, done or broken.
LEMMA EndStep ==
  ASSUME PInv, NEW p \in Processors, proc' = [proc EXCEPT ![p] = Idle],
         UNCHANGED <<queue, landed, jira, excuse, pipeVars>>, lost \subseteq lost',
         Writing(p) => proc[p].entry \in lost'
  PROVE  PInv'
<1>1. QueueShape /\ QueueInv /\ WriteInv /\ Shape
  BY ShapeParts DEF PInv
<1>2. QueueShape' /\ QueueInv' /\ SameRows
  BY <1>1, EndKeeps
<1>3. WriteInv'
  <2>1. \A q \in Processors : proc'[q] = proc[q] \/ proc'[q].pc = "idle"
    BY <1>1 DEF QueueShape, Idle
  <2>2. /\ \A q \in Processors : proc'[q].pc = "flight" =>
             /\ proc[q].pc = "flight" /\ proc'[q].entry = proc[q].entry
             /\ proc'[q].sent = FALSE => proc[q].sent = FALSE
        /\ \A q \in Processors : proc'[q].pc # "idle" => proc[q].pc # "idle" /\ proc'[q].rest = proc[q].rest
    BY <2>1
  <2> QED
    BY <1>1, <1>2, <2>2, CalmOrder
<1>4. \A k \in Rows : landed'[k] >= landed[k]
  BY <1>1 DEF Rows, QueueShape
<1>5. jira' \in [Issues -> [count : Nat, status : Nat, last : Nat]] /\ UNCHANGED pipeVars
  BY <1>1 DEF Shape
<1> QED
  BY <1>2, <1>3, <1>4, <1>5, QueueStep

LEMMA NextEntryStep ==
  ASSUME PInv, NEW p \in Processors, NextEntry(p), UNCHANGED pipeVars
  PROVE  PInv'
<1>1. QueueShape /\ QueueInv /\ WriteInv /\ Shape
  BY ShapeParts DEF PInv
<1>2. Busy(p) /\ ~Writing(p) /\ UNCHANGED <<landed, lost, jira>>
  BY DEF NextEntry, Busy, Writing
<1>3. CASE proc[p].rest = <<>>
  <2>1. proc' = [proc EXCEPT ![p] = Idle] /\ UNCHANGED <<queue, excuse>>
    BY <1>3 DEF NextEntry
  <2> QED
    BY <1>2, <2>1, EndStep
<1>4. CASE proc[p].rest # <<>>
  <2>1. Claim(p, Head(proc[p].rest), Tail(proc[p].rest))
    BY <1>4 DEF NextEntry
  <2>2. /\ Claimable(Head(proc[p].rest), Tail(proc[p].rest))
        /\ excuse = {} => Ahead(Head(proc[p].rest), Tail(proc[p].rest))
    BY <1>1, <1>2, <1>4, RestClaimable
  <2> QED
    BY <1>2, <2>1, <2>2, ClaimStep
<1> QED
  BY <1>3, <1>4

LEMMA LandStep ==
  ASSUME PInv, NEW p \in Processors, Land(p), UNCHANGED pipeVars
  PROVE  PInv'
<1> DEFINE k == proc[p].entry
<1>1. QueueShape /\ QueueInv /\ WriteInv /\ Shape
  BY ShapeParts DEF PInv
<1>2. /\ Writing(p) /\ UNCHANGED <<queue, lost, excuse>>
      /\ proc' = [proc EXCEPT ![p].sent = TRUE] /\ landed' = [landed EXCEPT ![k] = @ + 1]
  BY DEF Land, Writing
<1>3. proc[p].sent = FALSE
  BY <1>1 DEF Land, QueueShape, Call
<1>4. QueueShape' /\ QueueInv' /\ SameRows /\ \A j \in Rows : landed'[j] >= landed[j]
  BY <1>1, <1>2, <1>3, LandKeeps
<1>5. k \in Rows /\ queue[k] \in Entry /\ k \in Nat
  BY <1>1, <1>2 DEF QueueInv, InRange, QueueShape, Rows
<1>6. /\ jira' \in [Issues -> [count : Nat, status : Nat, last : Nat]]
      /\ \A i \in Issues : jira'[i].last =
           IF Transition(queue[k]) /\ queue[k].issue = i THEN k ELSE jira[i].last
  <2> DEFINE e == queue[k]
             old == jira[e.issue]
             new == Written(old, e, k)
  <2>1. jira' = [jira EXCEPT ![e.issue] = new]
    BY DEF Land, InFlight
  <2>2. e.issue \in Issues /\ e.arg \in Nat
    BY <1>5 DEF Entry
  <2>3. old \in [count : Nat, status : Nat, last : Nat]
    BY <1>1, <2>2 DEF Shape
  <2>4. /\ new \in [count : Nat, status : Nat, last : Nat]
        /\ new.last = IF Transition(e) THEN k ELSE old.last
    <3>1. CASE e.op = "CREATE_ISSUE"
      BY SMTT(30), <2>3, <3>1 DEF Transition, Written
    <3>2. CASE e.op = "TRANSITION_ISSUE"
      BY <1>5, <2>2, <2>3, <3>2 DEF Transition, Written
    <3>3. CASE e.op # "CREATE_ISSUE" /\ e.op # "TRANSITION_ISSUE"
      BY <2>3, <3>3 DEF Transition, Written
    <3> QED
      BY <3>1, <3>2, <3>3
  <2> HIDE DEF new
  <2> QED
    BY <1>1, <2>1, <2>2, <2>4 DEF Shape
<1>7. WriteInv'
  BY <1>1, <1>2, <1>3, <1>6, LandOrder
<1> QED
  BY <1>2, <1>4, <1>6, <1>7, QueueStep

\* Succeed, RateLimited and Fail.
LEMMA SettleStep ==
  ASSUME PInv, NEW p \in Processors, Writing(p),
         NEW status \in {"DONE", "FAILED", "PENDING"}, NEW pc \in {"sleep", "idle"},
         status = "DONE" => proc[p].sent, status = "PENDING" => proc[p].sent = FALSE,
         status = "PENDING" => (pc = "idle" /\ UNCHANGED excuse) \/ excuse' # {},
         Settle(p, status, pc), UNCHANGED <<landed, lost, jira, pipeVars>>,
         excuse \subseteq excuse', excuse' \in SUBSET {"overlap", "retry", "zero", "dispatch", "edit", "late", "reschedule"}
  PROVE  PInv'
<1>1. QueueShape /\ QueueInv /\ WriteInv /\ Shape
  BY ShapeParts DEF PInv
<1>2. QueueShape' /\ QueueInv' /\ SameRows
  BY <1>1, SettleKeeps
<1>3. \A j \in Rows : landed'[j] >= landed[j]
  BY <1>1 DEF Rows, QueueShape
<1>4. jira' \in [Issues -> [count : Nat, status : Nat, last : Nat]]
  BY <1>1 DEF Shape
<1>5. WriteInv'
  <2>1. CASE excuse' # {}
    BY <2>1 DEF WriteInv
  <2>2. CASE status = "PENDING" /\ pc = "idle" /\ UNCHANGED excuse
    BY <1>1, <2>2, PutBackOrder
  <2>3. CASE status # "PENDING"
    <3> DEFINE c == IF pc = "idle" THEN Idle ELSE [proc[p] EXCEPT !.pc = pc, !.entry = 0, !.sent = FALSE]
    <3>1. proc[p] \in Call /\ proc' = [proc EXCEPT ![p] = c]
      BY <1>1 DEF QueueShape, Settle
    <3>2. c.pc = pc /\ (pc = "idle" \/ c.rest = proc[p].rest)
      BY <3>1 DEF Call, Idle
    <3> HIDE DEF c
    <3>3. /\ proc'[p].pc # "flight" /\ (proc'[p].pc = "idle" \/ proc'[p].rest = proc[p].rest)
          /\ proc[p].pc # "idle" /\ \A q \in Processors : q # p => proc'[q] = proc[q]
      BY <1>1, <3>1, <3>2 DEF QueueShape, Writing
    <3>4. /\ \A q \in Processors : proc'[q].pc = "flight" =>
               /\ proc[q].pc = "flight" /\ proc'[q].entry = proc[q].entry
               /\ proc'[q].sent = FALSE => proc[q].sent = FALSE
          /\ \A q \in Processors : proc'[q].pc # "idle" => proc[q].pc # "idle" /\ proc'[q].rest = proc[q].rest
      BY <3>3
    <3>5. \A k \in Rows : queue'[k].status = "PENDING" => queue[k].status = "PENDING"
      <4> DEFINE x == proc[p].entry
      <4>1. /\ x \in Rows /\ status \in EntryStatuses
            /\ queue \in Seq(Entry) /\ queue' = [queue EXCEPT ![x].status = status]
        BY <1>1 DEF QueueInv, InRange, QueueShape, Settle, EntryStatuses
      <4> HIDE DEF x
      <4>2. \A j \in Rows : queue'[j].status = IF j = x THEN status ELSE queue[j].status
        BY <4>1, StatusUpdate
      <4> QED
        BY <2>3, <4>2
    <3> QED
      BY <1>1, <1>2, <3>4, <3>5, CalmOrder
  <2> QED
    BY <2>1, <2>2, <2>3
<1> QED
  BY <1>2, <1>3, <1>4, <1>5, QueueStep

LEMMA ProceedStep ==
  ASSUME PInv, NEW p \in Processors, Proceed(p)
  PROVE  PInv'
<1>1. UNCHANGED pipeVars /\ Shape /\ proc[p].sent \in BOOLEAN /\ excuse \in SUBSET {"overlap", "retry", "zero", "dispatch", "edit", "late", "reschedule"}
  BY DEF Proceed, PInv, Shape, Call
<1>2. CASE NextEntry(p)
  BY <1>1, <1>2, NextEntryStep
<1>3. CASE Land(p)
  BY <1>1, <1>3, LandStep
<1>4. CASE Succeed(p)
  <2>1. /\ Writing(p) /\ proc[p].sent /\ Settle(p, "DONE", "sleep") /\ UNCHANGED <<landed, lost, jira, excuse>>
    BY <1>4 DEF Succeed, Writing
  <2> QED
    BY <1>1, <2>1, SettleStep
<1>5. CASE Fail(p)
  <2>1. /\ Writing(p) /\ Settle(p, "FAILED", "sleep") /\ UNCHANGED <<landed, lost, jira, excuse>>
    BY <1>5 DEF Fail, Writing
  <2> QED
    BY <1>1, <2>1, SettleStep
<1>6. ASSUME NEW after \in RetryAfters, RateLimited(p, after)
      PROVE  PInv'
  <2>1. /\ Writing(p) /\ proc[p].sent = FALSE /\ UNCHANGED <<landed, lost, jira>>
    BY <1>1, <1>6 DEF RateLimited, Writing
  <2>2. CASE after = 0
    <3>1. Settle(p, "PENDING", "sleep") /\ excuse' = excuse \cup {"zero"}
      BY <1>6, <2>2 DEF RateLimited
    <3> QED
      BY <1>1, <2>1, <3>1, SettleStep
  <2>3. CASE after # 0
    <3>1. Settle(p, "PENDING", "idle") /\ excuse' = excuse
      BY <1>6, <2>3 DEF RateLimited
    <3> QED
      BY <1>1, <2>1, <3>1, SettleStep
  <2> QED
    BY <2>2, <2>3
<1> QED
  BY <1>2, <1>3, <1>4, <1>5, <1>6 DEF Proceed

\* The database refuses a commit of process_batch.
LEMMA BreakStep ==
  ASSUME PInv, NEW p \in Processors, CallBreaks(p) \/ ClaimBreaks(p), UNCHANGED pipeVars
  PROVE  PInv'
<1>1. /\ proc' = [proc EXCEPT ![p] = Idle] /\ UNCHANGED <<queue, landed, jira, excuse, pipeVars>>
      /\ lost \subseteq lost' /\ (Writing(p) => proc[p].entry \in lost')
  BY DEF CallBreaks, ClaimBreaks, Writing
<1> QED
  BY <1>1, EndStep

\* Steps that change neither the queue nor the events' dispatch.
LEMMA CalmStep ==
  ASSUME PInv, UNCHANGED <<queue, proc, landed, lost, jira, audit>>, excuse \subseteq excuse',
         excuse' \in SUBSET {"overlap", "retry", "zero", "dispatch", "edit", "late", "reschedule"},
         now' \in Nat, event' \in [Events -> EventRow], disp' \in [Dispatchers -> Batch],
         \A e \in Events : event'[e].status = "ABSENT" => event[e].status = "ABSENT",
         "late" \notin excuse' =>
           \A e \in Events : event'[e].status = "DISPATCHED" <=> event[e].status = "DISPATCHED",
         excuse' = {} =>
           \A e \in Events :
             /\ event'[e].at = event[e].at
             /\ Open(event'[e]) => Open(event[e]) \/ \A x \in Taken : ~Sooner(event, e, x),
         \A d \in Dispatchers : disp'[d].pc = "loaded" => disp'[d] = disp[d]
  PROVE  PInv'
<1>1. /\ QueueShape /\ DispatchShape /\ audit \in Seq(AuditEntry)
      /\ DispatchInv /\ ScheduleInv /\ AuditInv
  BY ShapeParts DEF PInv
<1>2. SameRows
  BY <1>1 DEF SameRows, QueueShape
<1>3. DispatchInv' /\ ScheduleInv'
  BY <1>1, <1>2, CalmDispatch
<1>4. DispatchShape'
  BY <1>1 DEF DispatchShape
<1>5. AuditInv'
  BY <1>1 DEF AuditInv, Rows
<1> QED
  BY <1>1, <1>3, <1>4, <1>5, PipeStep

LEMMA CommitStep ==
  ASSUME PInv, NEW d \in Dispatchers, CommitDispatch(d)
  PROVE  PInv'
<1> DEFINE n == Len(disp[d].batch)
           new == [k \in 1..n |-> EntryFor(d, k)]
           rows == [k \in 1..n |-> AuditRow(d, k)]
<1>1. /\ QueueShape /\ DispatchShape /\ audit \in Seq(AuditEntry) /\ Shape
      /\ QueueInv /\ WriteInv /\ DispatchInv /\ ScheduleInv /\ AuditInv
  BY ShapeParts DEF PInv
<1>2. /\ Enqueue(new) /\ audit' = audit \o rows
      /\ UNCHANGED <<proc, lost, excuse, jira, now>>
  BY DEF CommitDispatch
<1>3. n \in Nat /\ \A k \in 1..n : disp[d].batch[k] \in Item
  BY <1>1 DEF DispatchShape, Batch
<1>4. \A k \in 1..n :
        /\ EntryFor(d, k) \in Entry /\ EntryFor(d, k).status = "PENDING"
        /\ EntryFor(d, k).event = disp[d].batch[k].id
  <2> TAKE k \in 1..n
  <2>1. disp[d].batch[k].id \in Events /\ disp[d].batch[k].arg \in Nat
    BY <1>3 DEF Item
  <2>2. Plan[disp[d].batch[k].id].op \in Ops /\ Plan[disp[d].batch[k].id].issue \in Issues
    BY <2>1, PipelineAssumption DEF Ops
  <2> QED
    BY <2>1, <2>2 DEF EntryFor, NewEntry, Entry, EntryStatuses
<1>5. new \in Seq(Entry) /\ Len(new) = n /\ \A k \in 1..n : new[k] = EntryFor(d, k)
  BY <1>3, <1>4
<1> HIDE DEF new
<1>6. /\ QueueShape' /\ QueueInv' /\ Len(queue') = Len(queue) + n
      /\ \A k \in Rows : queue'[k] = queue[k] /\ landed'[k] = landed[k]
      /\ \A k \in Rows' : k \notin Rows => k - Len(queue) \in 1..n /\ queue'[k] = new[k - Len(queue)]
  <2>1. \A j \in 1..Len(new) : new[j].status = "PENDING"
    BY <1>4, <1>5
  <2>2. UNCHANGED <<proc, lost, excuse>> /\ Enqueue(new) /\ new \in Seq(Entry)
    BY <1>2, <1>5
  <2>3. /\ QueueShape' /\ QueueInv' /\ Len(queue') = Len(queue) + Len(new)
        /\ \A k \in Rows : queue'[k] = queue[k] /\ landed'[k] = landed[k]
        /\ \A k \in Rows' : k \notin Rows => k - Len(queue) \in 1..Len(new) /\ queue'[k] = new[k - Len(queue)]
    BY <1>1, <2>1, <2>2, EnqueueKeeps
  <2> QED
    BY <1>5, <2>3
<1>7. \A k \in Rows' : k \notin Rows => queue'[k].event = disp[d].batch[k - Len(queue)].id
  BY <1>4, <1>5, <1>6
<1>8. /\ event' \in [Events -> EventRow] /\ disp' \in [Dispatchers -> Batch]
      /\ DispatchInv' /\ ScheduleInv'
  BY <1>1, <1>6, <1>7, CommitKeeps
<1>9. WriteInv'
  <2>1. Len(queue) \in Nat /\ Len(queue') \in Nat /\ Len(queue') >= Len(queue)
    BY <1>1, <1>3, <1>6 DEF QueueShape
  <2>2. \A k \in Rows' : queue'[k] \in Entry
    BY <1>6 DEF QueueShape, Rows
  <2>3. \A k \in Rows' : queue'[k].issue \in Issues
    BY <2>2 DEF Entry
  <2> QED
    BY <1>1, <1>2, <1>6, <2>1, <2>3, EnqueueOrder
<1>10. \A k \in 1..n : AuditRow(d, k) \in AuditEntry /\ AuditRow(d, k).entry = Len(queue) + k
                       /\ AuditRow(d, k).status = "PENDING"
  <2> TAKE k \in 1..n
  <2>1. disp[d].batch[k].id \in Events /\ disp[d].asof \in Nat /\ Len(queue) + k \in Nat
    BY <1>1, <1>3 DEF Item, DispatchShape, Batch
  <2> QED
    BY <2>1 DEF AuditRow, AuditEntry
<1>11. rows \in Seq(AuditEntry) /\ Len(rows) = n /\ \A k \in 1..n : rows[k] = AuditRow(d, k)
  BY <1>3, <1>10
<1> HIDE DEF rows
<1>12. /\ audit' \in Seq(AuditEntry) /\ Len(audit') = Len(audit) + n
       /\ \A k \in 1..(Len(audit) + n) :
            audit'[k] = IF k <= Len(audit) THEN audit[k] ELSE rows[k - Len(audit)]
  <2>1. /\ audit' \in Seq(AuditEntry) /\ Len(audit') = Len(audit) + Len(rows)
        /\ \A k \in 1..(Len(audit) + Len(rows)) :
             audit'[k] = IF k <= Len(audit) THEN audit[k] ELSE rows[k - Len(audit)]
    BY ZenonT(30), <1>1, <1>2, <1>11, ConcatProperties
  <2> QED
    BY <1>11, <2>1
<1>13. AuditInv'
  <2> SUFFICES ASSUME NEW k \in 1..Len(audit')
               PROVE  /\ audit'[k].entry \in Rows'
                      /\ audit'[k].status = "VERIFIED" => landed'[audit'[k].entry] > 0
    BY DEF AuditInv
  <2>1. Len(audit) \in Nat /\ Len(queue) \in Nat
    BY <1>1 DEF QueueShape
  <2>2. CASE k <= Len(audit)
    <3>1. k \in 1..Len(audit) /\ audit'[k] = audit[k]
      BY <1>12, <2>1, <2>2
    <3>2. audit[k].entry \in Rows /\ (audit[k].status = "VERIFIED" => landed[audit[k].entry] > 0)
      BY <1>1, <3>1 DEF AuditInv
    <3>3. audit[k].entry \in Rows'
      BY <1>3, <1>6, <2>1, <3>2 DEF Rows
    <3> QED
      BY <1>6, <3>1, <3>2, <3>3
  <2>3. CASE k > Len(audit)
    <3>1. k - Len(audit) \in 1..n /\ audit'[k] = rows[k - Len(audit)]
      BY <1>3, <1>12, <2>1, <2>3
    <3>2. audit'[k].entry = Len(queue) + (k - Len(audit)) /\ audit'[k].status = "PENDING"
      BY <1>10, <1>11, <3>1
    <3> QED
      BY <1>3, <1>6, <2>1, <3>1, <3>2 DEF Rows
  <2> QED
    BY <2>1, <2>2, <2>3
<1>14. Shape'
  BY <1>1, <1>2, <1>6, <1>8, <1>12 DEF Shape, QueueShape
<1> QED
  BY <1>6, <1>8, <1>9, <1>13, <1>14 DEF PInv

LEMMA CreateStep ==
  ASSUME PInv, NEW i \in Issues, EnqueueCreate(i)
  PROVE  PInv'
<1> DEFINE new == <<NewEntry("CREATE_ISSUE", i, 0, 0)>>
<1>1. /\ QueueShape /\ DispatchShape /\ audit \in Seq(AuditEntry) /\ Shape
      /\ QueueInv /\ WriteInv /\ DispatchInv /\ ScheduleInv /\ AuditInv
  BY ShapeParts DEF PInv
<1>2. Enqueue(new) /\ UNCHANGED <<proc, lost, excuse, jira, now, event, disp, audit>>
  BY DEF EnqueueCreate, pipeVars
<1>3. /\ new \in Seq(Entry) /\ Len(new) = 1 /\ new[1].status = "PENDING" /\ new[1].event = 0
      /\ ~Transition(new[1])
  <2>1. NewEntry("CREATE_ISSUE", i, 0, 0) \in Entry
    BY DEF NewEntry, Entry, EntryStatuses, Ops
  <2> QED
    BY <2>1 DEF NewEntry, Transition
<1> HIDE DEF new
<1>4. /\ QueueShape' /\ QueueInv' /\ Len(queue') = Len(queue) + 1
      /\ \A k \in Rows : queue'[k] = queue[k] /\ landed'[k] = landed[k]
      /\ \A k \in Rows' : k \notin Rows => k - Len(queue) \in 1..1 /\ queue'[k] = new[k - Len(queue)]
  <2>1. \A j \in 1..Len(new) : new[j].status = "PENDING"
    BY <1>3
  <2> QED
    BY <1>1, <1>2, <1>3, <2>1, EnqueueKeeps
<1>5. Len(queue) \in Nat /\ Len(queue') \in Nat /\ Len(queue') >= Len(queue) /\ Rows \subseteq Rows'
  BY <1>1, <1>4 DEF QueueShape, Rows
<1>6. \A k \in Rows' : k \notin Rows => queue'[k].event = 0 /\ ~Transition(queue'[k])
  BY <1>3, <1>4
<1>7. DispatchInv' /\ ScheduleInv'
  BY <1>1, <1>2, <1>4, <1>5, <1>6, CreateKeeps
<1>8. WriteInv'
  <2>1. \A k \in Rows' : queue'[k] \in Entry
    BY <1>4 DEF QueueShape, Rows
  <2>2. \A k \in Rows' : queue'[k].issue \in Issues
    BY <2>1 DEF Entry
  <2> QED
    BY <1>1, <1>2, <1>4, <1>5, <2>2, EnqueueOrder
<1>9. AuditInv'
  <2>1. landed' \in Seq(Nat) /\ Len(landed') = Len(queue') /\ \A k \in Rows : landed'[k] >= landed[k]
    BY <1>1, <1>4 DEF QueueShape, Rows
  <2> QED
    BY <1>1, <1>2, <1>5, <2>1, CalmAudit
<1>10. Shape'
  BY <1>1, <1>2, <1>4 DEF Shape, QueueShape
<1> QED
  BY <1>4, <1>7, <1>8, <1>9, <1>10 DEF PInv

LEMMA ReadStep ==
  ASSUME PInv, NEW d \in Dispatchers, ReadDue(d)
  PROVE  PInv'
<1>1. /\ QueueShape /\ DispatchShape /\ audit \in Seq(AuditEntry)
      /\ DispatchInv /\ ScheduleInv /\ AuditInv
  BY ShapeParts DEF PInv
<1>2. DispatchShape' /\ DispatchInv' /\ ScheduleInv'
  BY <1>1, ReadKeeps
<1>3. UNCHANGED <<queue, proc, landed, lost, jira, audit>> /\ excuse \subseteq excuse'
  BY DEF ReadDue
<1>4. AuditInv'
  BY <1>1, <1>3 DEF AuditInv, Rows
<1> QED
  BY <1>1, <1>2, <1>3, <1>4, PipeStep

LEMMA AuditStep ==
  ASSUME PInv, RunAudit
  PROVE  PInv'
<1>1. /\ QueueShape /\ DispatchShape /\ audit \in Seq(AuditEntry)
      /\ QueueInv /\ DispatchInv /\ ScheduleInv /\ AuditInv
  BY ShapeParts DEF PInv
<1>2. audit' \in Seq(AuditEntry) /\ AuditInv'
  BY <1>1, RunAuditKeeps
<1>3. UNCHANGED <<queue, proc, landed, lost, jira, excuse, now, event, disp>>
  BY DEF RunAudit, queueVars
<1>4. SameRows
  BY <1>1, <1>3 DEF SameRows, QueueShape
<1>5. DispatchShape'
  BY <1>1, <1>3 DEF DispatchShape
<1>6. DispatchInv' /\ ScheduleInv'
  BY <1>1, <1>3, <1>4, CalmDispatch
<1> QED
  BY <1>2, <1>3, <1>5, <1>6, PipeStep

\* RollbackDispatch, the clock, the switches and the health monitor.
LEMMA QuietStep ==
  ASSUME PInv, UNCHANGED <<queue, proc, landed, lost, jira, audit, excuse, event>>, now' \in Nat,
         disp' = disp \/ \E d \in Dispatchers : disp' = [disp EXCEPT ![d] = NoBatch]
  PROVE  PInv'
<1>1. /\ excuse \in SUBSET {"overlap", "retry", "zero", "dispatch", "edit", "late", "reschedule"}
      /\ event \in [Events -> EventRow] /\ disp \in [Dispatchers -> Batch]
  BY DEF PInv, Shape
<1>2. NoBatch \in Batch /\ NoBatch.pc = "idle"
  BY DEF NoBatch, Batch
<1>3. disp' \in [Dispatchers -> Batch] /\ \A d \in Dispatchers : disp'[d] = disp[d] \/ disp'[d] = NoBatch
  BY <1>1, <1>2
<1> QED
  BY <1>1, <1>2, <1>3, CalmStep

\* Waiting rows are deleted and new ones inserted.
LEMMA RowsStep ==
  ASSUME PInv, NEW S \in SUBSET Events, \A e \in S : Waiting(e),
         NEW new \in SUBSET Events, \A e \in new : event[e].status = "ABSENT",
         event' = [e \in Events |->
           IF e \in new THEN [event[e] EXCEPT !.status = "PENDING"] ELSE Deleted(S)[e]],
         excuse \subseteq excuse', excuse' \subseteq excuse \cup {"reschedule"},
         excuse' = {} => \A e \in new, x \in Taken : ~Before(e, x),
         UNCHANGED <<queue, proc, landed, lost, jira, audit, now, disp>>
  PROVE  PInv'
<1>1. /\ excuse' \in SUBSET {"overlap", "retry", "zero", "dispatch", "edit", "late", "reschedule"}
      /\ disp \in [Dispatchers -> Batch] /\ now \in Nat /\ event \in [Events -> EventRow]
  BY DEF PInv, Shape
<1>2. ASSUME NEW e \in Events
      PROVE  /\ event'[e] \in EventRow /\ event'[e].at = event[e].at
             /\ event'[e].status = IF e \in new THEN "PENDING"
                                   ELSE IF e \in S THEN "DELETED" ELSE event[e].status
  <2>1. event[e] \in EventRow
    BY <1>1
  <2>2. event'[e] = IF e \in new THEN [event[e] EXCEPT !.status = "PENDING"]
                    ELSE IF e \in S THEN [event[e] EXCEPT !.status = "DELETED"] ELSE event[e]
    BY DEF Deleted
  <2> QED
    BY <2>1, <2>2 DEF EventRow
<1>3. event' \in [Events -> EventRow]
  BY <1>2
<1>4. \A e \in Events :
        /\ event'[e].status = "ABSENT" => event[e].status = "ABSENT"
        /\ event'[e].status = "DISPATCHED" <=> event[e].status = "DISPATCHED"
  <2> TAKE e \in Events
  <2>1. e \in S => event[e].status \in {"PENDING", "MODIFIED"}
    BY DEF Waiting
  <2>2. e \in new => event[e].status = "ABSENT"
    OBVIOUS
  <2>3. event'[e].status = IF e \in new THEN "PENDING"
                           ELSE IF e \in S THEN "DELETED" ELSE event[e].status
    BY <1>2
  <2> QED
    BY <2>1, <2>2, <2>3
<1>5. ASSUME excuse' = {}, NEW e \in Events
      PROVE  /\ event'[e].at = event[e].at
             /\ Open(event'[e]) => Open(event[e]) \/ \A x \in Taken : ~Sooner(event, e, x)
  <2>1. e \in new => \A x \in Taken : ~Sooner(event, e, x)
    BY <1>5 DEF Before, Sooner
  <2> QED
    BY <1>2, <2>1 DEF Open
<1> QED
  BY <1>1, <1>3, <1>4, <1>5, CalmStep

LEMMA OperatorStep ==
  ASSUME PInv, \/ \E s \in Sprints : CancelAllPending(s)
               \/ \E e \in Events : CancelEvent(e)
               \/ \E s \in Sprints, new \in SUBSET Events : Reschedule(s, new)
  PROVE  PInv'
<1>1. ASSUME NEW S \in SUBSET Events, \A e \in S : Waiting(e), event' = Deleted(S),
             UNCHANGED <<queue, proc, landed, lost, jira, audit, now, disp, excuse>>
      PROVE  PInv'
  <2>1. event' = [e \in Events |->
           IF e \in {} THEN [event[e] EXCEPT !.status = "PENDING"] ELSE Deleted(S)[e]]
    BY <1>1 DEF Deleted
  <2>2. /\ {} \in SUBSET Events /\ \A e \in {} : event[e].status = "ABSENT"
        /\ excuse \subseteq excuse' /\ excuse' \subseteq excuse \cup {"reschedule"}
        /\ \A e \in {}, x \in Taken : ~Before(e, x)
    BY <1>1
  <2>3. UNCHANGED <<queue, proc, landed, lost, jira, audit, now, disp>>
    BY <1>1
  <2> QED
    BY <1>1, <2>1, <2>2, <2>3, RowsStep
<1>2. ASSUME NEW s \in Sprints, CancelAllPending(s) PROVE PInv'
  <2>1. WaitingIn(s) \in SUBSET Events /\ \A e \in WaitingIn(s) : Waiting(e)
    BY DEF WaitingIn
  <2> QED
    BY <1>1, <1>2, <2>1 DEF CancelAllPending
<1>3. ASSUME NEW e \in Events, CancelEvent(e) PROVE PInv'
  <2>1. {e} \in SUBSET Events /\ \A x \in {e} : Waiting(x)
    BY <1>3 DEF CancelEvent
  <2> QED
    BY <1>1, <1>3, <2>1 DEF CancelEvent
<1>4. ASSUME NEW s \in Sprints, NEW new \in SUBSET Events, Reschedule(s, new) PROVE PInv'
  <2>1. WaitingIn(s) \in SUBSET Events /\ \A e \in WaitingIn(s) : Waiting(e)
    BY DEF WaitingIn
  <2>2. /\ excuse \subseteq excuse' /\ excuse' \subseteq excuse \cup {"reschedule"}
        /\ excuse' = {} => \A e \in new, x \in Taken : ~Before(e, x)
    BY <1>4 DEF Reschedule
  <2>3. /\ \A e \in new : event[e].status = "ABSENT"
        /\ event' = [e \in Events |->
             IF e \in new THEN [event[e] EXCEPT !.status = "PENDING"] ELSE Deleted(WaitingIn(s))[e]]
        /\ UNCHANGED <<queue, proc, landed, lost, jira, audit, now, disp>>
    BY <1>4 DEF Reschedule
  <2> QED
    BY <2>1, <2>2, <2>3, RowsStep
<1> QED
  BY <1>2, <1>3, <1>4

\* A modification commits: from now on only a dispatched row counts as such.
LEMMA EditStep ==
  ASSUME PInv, EditsShaped, NEW r \in edits, EditCommit(r)
  PROVE  PInv'
<1>1. /\ r.id \in Events /\ r.at \in Nat /\ r.arg \in Nat
      /\ excuse \in SUBSET {"overlap", "retry", "zero", "dispatch", "edit", "late", "reschedule"}
      /\ disp \in [Dispatchers -> Batch] /\ now \in Nat /\ event \in [Events -> EventRow]
  BY DEF PInv, Shape, EditsShaped
<1>2. event[r.id] \in EventRow
  BY <1>1
<1>3. PICK row \in EventRow : row.status = "MODIFIED" /\ event' = [event EXCEPT ![r.id] = row]
  <2> DEFINE row == [status |-> "MODIFIED",
                     at |-> IF r.at = r.was.at THEN event[r.id].at ELSE r.at,
                     arg |-> IF r.arg = r.was.arg THEN event[r.id].arg ELSE r.arg]
  <2>1. row \in EventRow /\ row.status = "MODIFIED"
    BY <1>1, <1>2 DEF EventRow
  <2>2. event' = [event EXCEPT ![r.id] = row]
    BY DEF EditCommit
  <2> QED
    BY <2>1, <2>2
<1>4. /\ event' \in [Events -> EventRow] /\ event'[r.id] = row
      /\ \A e \in Events : e # r.id => event'[e] = event[e]
  BY <1>1, <1>3
<1>5. /\ excuse \subseteq excuse' /\ "edit" \in excuse'
      /\ excuse' \in SUBSET {"overlap", "retry", "zero", "dispatch", "edit", "late", "reschedule"}
      /\ "late" \notin excuse' => event[r.id].status # "DISPATCHED"
  BY <1>1 DEF EditCommit
<1>6. /\ \A e \in Events : event'[e].status = "ABSENT" => event[e].status = "ABSENT"
      /\ "late" \notin excuse' =>
           \A e \in Events : event'[e].status = "DISPATCHED" <=> event[e].status = "DISPATCHED"
  BY <1>3, <1>4, <1>5
<1>7. UNCHANGED <<queue, proc, landed, lost, jira, audit, now, disp>>
  BY DEF EditCommit
<1> QED
  BY <1>1, <1>4, <1>5, <1>6, <1>7, CalmStep

\* The values asked for are columns.
LEMMA EditsStep ==
  ASSUME EditsShaped, [Next]_vars
  PROVE  EditsShaped'
<1>1. ASSUME NEW e \in Events, NEW at \in Times, NEW arg \in Args, EditRead(e, at, arg) PROVE EditsShaped'
  <2>1. at \in Nat /\ arg \in Nat
    BY PipelineAssumption
  <2> QED
    BY <1>1, <2>1 DEF EditRead, EditsShaped
<1>2. ASSUME edits' \subseteq edits PROVE EditsShaped'
  BY <1>2 DEF EditsShaped
<1>3. ASSUME NEW r \in edits, EditCommit(r) \/ EditFails(r) PROVE edits' \subseteq edits
  BY <1>3 DEF EditCommit, EditFails
<1>4. CASE Crash
  BY <1>2, <1>4 DEF Crash
<1>5. ASSUME NEW p \in Processors, Process(p) \/ Proceed(p) PROVE edits' = edits
  BY <1>5 DEF Process, Proceed, pipeVars
<1>6. ASSUME NEW d \in Dispatchers, ReadDue(d) \/ CommitDispatch(d) \/ RollbackDispatch(d) PROVE edits' = edits
  BY <1>6 DEF ReadDue, CommitDispatch, RollbackDispatch
<1>7. RunAudit \/ Start \/ Pause \/ Tick => edits' = edits
  BY DEF RunAudit, Start, Pause, Tick
<1>8. ASSUME \/ \E e \in Events : CancelEvent(e)
             \/ \E s \in Sprints : CancelAllPending(s)
             \/ \E s \in Sprints, new \in SUBSET Events : Reschedule(s, new)
             \/ \E i \in Issues : EnqueueCreate(i)
      PROVE  edits' = edits
  BY <1>8 DEF CancelEvent, CancelAllPending, Reschedule, EnqueueCreate, pipeVars
<1>9. UNCHANGED pipeVars \/ UNCHANGED vars => edits' = edits
  BY DEF vars, pipeVars
<1> QED
  BY <1>1, <1>2, <1>3, <1>4, <1>5, <1>6, <1>7, <1>8, <1>9 DEF Next

LEMMA RetryStep ==
  ASSUME PInv, RetryFailed, UNCHANGED pipeVars
  PROVE  PInv'
<1>1. QueueShape /\ QueueInv /\ Shape
  BY ShapeParts DEF PInv
<1>2. QueueShape' /\ QueueInv' /\ SameRows
  BY <1>1, RetryKeeps
<1>3. excuse' = excuse \cup {"retry"} /\ UNCHANGED <<landed, jira>>
  BY DEF RetryFailed
<1>4. WriteInv'
  BY <1>3 DEF WriteInv
<1>5. \A k \in Rows : landed'[k] >= landed[k]
  BY <1>1, <1>3 DEF Rows, QueueShape
<1>6. jira' \in [Issues -> [count : Nat, status : Nat, last : Nat]]
  BY <1>1, <1>3 DEF Shape
<1> QED
  BY <1>2, <1>3, <1>4, <1>5, <1>6, QueueStep

\* The calls and the dispatchers in progress are gone; the tables are not.
LEMMA CrashStep ==
  ASSUME PInv, Crash
  PROVE  PInv'
<1>1. /\ QueueShape /\ DispatchShape /\ audit \in Seq(AuditEntry) /\ Shape
      /\ QueueInv /\ WriteInv /\ DispatchInv /\ ScheduleInv /\ AuditInv
  BY ShapeParts DEF PInv
<1>2. QueueCrash /\ disp' = [d \in Dispatchers |-> NoBatch] /\ UNCHANGED <<now, event, audit>>
  BY DEF Crash
<1>3. QueueShape' /\ QueueInv' /\ SameRows
  BY <1>1, <1>2, CrashKeeps
<1>4. UNCHANGED <<queue, jira, landed, excuse>> /\ \A q \in Processors : proc'[q].pc = "idle"
  BY <1>2 DEF QueueCrash, Idle
<1>5. WriteInv'
  BY <1>1, <1>3, <1>4, CalmOrder
<1>6. disp' \in [Dispatchers -> Batch] /\ \A d \in Dispatchers : disp'[d].pc = "idle"
  BY <1>2 DEF NoBatch, Batch
<1>7. DispatchInv' /\ ScheduleInv'
  BY <1>1, <1>2, <1>3, <1>4, <1>6, CalmDispatch
<1>8. AuditInv'
  BY <1>1, <1>2, <1>4 DEF AuditInv, Rows
<1>9. Shape'
  BY <1>1, <1>2, <1>3, <1>4, <1>6 DEF Shape, QueueShape
<1> QED
  BY <1>3, <1>5, <1>7, <1>8, <1>9 DEF PInv

\* Every step, and doing nothing, keeps the invariant.
LEMMA StepKeeps ==
  ASSUME PInv, EditsShaped, [Next]_vars
  PROVE  PInv'
<1>1. ASSUME NEW p \in Processors, Process(p) PROVE PInv'
  BY <1>1, ProcessStep
<1>2. ASSUME NEW p \in Processors, Proceed(p) PROVE PInv'
  BY <1>2, ProceedStep
<1>3. ASSUME NEW d \in Dispatchers, ReadDue(d) PROVE PInv'
  BY <1>3, ReadStep
<1>4. ASSUME NEW d \in Dispatchers, CommitDispatch(d) PROVE PInv'
  BY <1>4, CommitStep
<1>5. now \in Nat
  BY DEF PInv, Shape
<1>6. ASSUME NEW d \in Dispatchers, RollbackDispatch(d) PROVE PInv'
  <2>1. UNCHANGED <<queue, proc, landed, lost, jira, audit, excuse, event, now>>
        /\ disp' = [disp EXCEPT ![d] = NoBatch]
    BY <1>6 DEF RollbackDispatch, queueVars
  <2> QED
    BY <1>5, <2>1, QuietStep
<1>7. CASE RunAudit
  BY <1>7, AuditStep
<1>8. CASE Start \/ Pause
  <2>1. UNCHANGED <<queue, proc, landed, lost, jira, audit, excuse, event, now, disp>>
    BY <1>8 DEF Start, Pause, queueVars
  <2> QED
    BY <1>5, <2>1, QuietStep
<1>9. CASE \/ \E s \in Sprints : CancelAllPending(s)
           \/ \E e \in Events : CancelEvent(e)
           \/ \E s \in Sprints, new \in SUBSET Events : Reschedule(s, new)
  BY <1>9, OperatorStep
<1>10. ASSUME NEW i \in Issues, EnqueueCreate(i) PROVE PInv'
  BY <1>10, CreateStep
<1>11. CASE RetryFailed /\ UNCHANGED pipeVars
  BY <1>11, RetryStep
<1>12. CASE \/ HealthCheck /\ UNCHANGED pipeVars
            \/ \E to \in {"up", "down", "slow"} : LinkChanges(to) /\ UNCHANGED pipeVars
  <2>1. UNCHANGED <<queue, proc, landed, lost, jira, audit, excuse, event, now, disp>>
    BY <1>12 DEF HealthCheck, LinkChanges, pipeVars
  <2> QED
    BY <1>5, <2>1, QuietStep
<1>13. CASE Crash
  BY <1>13, CrashStep
<1>14. CASE Tick
  <2>1. UNCHANGED <<queue, proc, landed, lost, jira, audit, excuse, event, disp>> /\ now' = now + 1
    BY <1>14 DEF Tick, queueVars
  <2> QED
    BY <1>5, <2>1, QuietStep
<1>15. CASE UNCHANGED vars
  <2>1. UNCHANGED <<queue, proc, landed, lost, jira, audit, excuse, event, now, disp>>
    BY <1>15 DEF vars, queueVars, pipeVars
  <2> QED
    BY <1>5, <2>1, QuietStep
<1>16. ASSUME NEW p \in Processors, CallBreaks(p) \/ ClaimBreaks(p), UNCHANGED pipeVars
       PROVE  PInv'
  BY <1>16, BreakStep
<1>17. ASSUME \/ \E e \in Events, at \in Times, arg \in Args : EditRead(e, at, arg)
              \/ \E r \in edits : EditFails(r)
       PROVE  PInv'
  <2>1. UNCHANGED <<queue, proc, landed, lost, jira, audit, excuse, event, now, disp>>
    BY <1>17 DEF EditRead, EditFails, queueVars
  <2> QED
    BY <1>5, <2>1, QuietStep
<1>18. ASSUME NEW r \in edits, EditCommit(r) PROVE PInv'
  BY <1>18, EditStep
<1> QED
  BY <1>1, <1>2, <1>3, <1>4, <1>6, <1>7, <1>8, <1>9, <1>10, <1>11, <1>12, <1>13, <1>14, <1>15,
     <1>16, <1>17, <1>18 DEF Next

LEMMA InitHolds ==
  ASSUME Init
  PROVE  PInv
<1> USE DEF Init, QueueInit
<1>1. Rows = {} /\ Len(audit) = 0
  BY DEF Rows
<1>2. \A p \in Processors : proc[p] = Idle /\ ~Busy(p) /\ ~Writing(p) /\ Len(proc[p].rest) = 0
  BY DEF Idle, Busy, Writing
<1>3. \A d \in Dispatchers : disp[d] = NoBatch /\ ~Loaded(d)
  BY DEF NoBatch, Loaded
<1>4. Shape
  <2>1. proc \in [Processors -> Call]
    BY DEF Idle, Call
  <2>2. event \in [Events -> EventRow]
    BY PipelineAssumption DEF EventRow
  <2>3. disp \in [Dispatchers -> Batch]
    BY DEF NoBatch, Batch
  <2>4. jira \in [Issues -> [count : Nat, status : Nat, last : Nat]]
    OBVIOUS
  <2> QED
    BY <2>1, <2>2, <2>3, <2>4 DEF Shape
<1>5. QueueInv
  BY <1>1, <1>2 DEF QueueInv, InRange, DoneHasLanded, StrandedExplained, OneCall, OnceEach
<1>6. AuditInv
  BY <1>1 DEF AuditInv
<1>7. DispatchInv /\ ScheduleInv
  BY <1>1, <1>3 DEF DispatchInv, ScheduleInv, ScheduleOrder
<1>8. WriteInv
  BY <1>1, <1>2 DEF WriteInv, WriteOrder
<1> QED
  BY <1>4, <1>5, <1>6, <1>7, <1>8 DEF PInv

LEMMA Invariant == Spec => []PInv
<1>1. Init => PInv /\ EditsShaped
  BY InitHolds DEF Init, EditsShaped
<1>2. PInv /\ EditsShaped /\ [Next]_vars => PInv' /\ EditsShaped'
  BY StepKeeps, EditsStep
<1> QED
  BY <1>1, <1>2, PTL DEF Spec
-----------------------------------------------------------------------------
(* The theorems.                                                           *)

\* No path through process_one leaves an entry behind: an entry that is
\* IN_FLIGHT is being written by a call of process_batch, or was when the
\* process died or the database refused to settle it.
THEOREM EntriesStranded == Spec => []StrandedExplained
<1>1. PInv => StrandedExplained
  BY DEF PInv, QueueInv
<1> QED
  BY <1>1, Invariant, PTL

\* The auditor (_verify_one) never calls an event VERIFIED whose write Jira has
\* not received, whatever was retried, rate-limited, timed out or lost.
THEOREM AuditTruthful == Spec => []VerdictsTruthful
<1>1. ASSUME PInv PROVE VerdictsTruthful
  <2>1. DOMAIN audit = 1..Len(audit)
    BY <1>1 DEF PInv, Shape
  <2>2. \A k \in 1..Len(audit) : audit[k].status = "VERIFIED" => landed[audit[k].entry] > 0
    BY <1>1 DEF PInv, AuditInv
  <2> QED
    BY <2>1, <2>2 DEF VerdictsTruthful
<1> QED
  BY <1>1, Invariant, PTL

\* dispatch_due_events queues an event once unless two dispatchers had read due
\* events at the same time or a modification committed after the dispatch, and process_batch writes an entry once unless two calls
\* overlapped or a failed entry was retried by hand; a crash, a timeout or a
\* rate limit is no reason for a second write.
THEOREM WritesOnce == Spec => []DuplicatesExplained
<1>1. ASSUME PInv PROVE DuplicatesExplained
  <2>1. DOMAIN queue = Rows /\ \A k \in Rows : landed[k] \in Nat
    BY <1>1 DEF PInv, Shape, Rows
  <2>2. \A a, b \in Rows :
          a # b /\ queue[a].event # 0 /\ queue[a].event = queue[b].event
            => excuse \cap {"dispatch", "late"} # {}
    BY <1>1 DEF PInv, DispatchInv
  <2>3. \A k \in Rows : landed[k] > 1 => excuse \cap {"overlap", "retry"} # {}
    BY <1>1, <2>1 DEF PInv, QueueInv, OnceEach
  <2> QED
    BY <2>1, <2>2, <2>3 DEF DuplicatesExplained
<1> QED
  BY <1>1, Invariant, PTL

\* A step that moves an issue in Jira moves it along the schedule.
LEMMA LandsInOrder ==
  ASSUME PInv, [Next]_vars, NEW i \in Issues, jira'[i].last # jira[i].last, jira[i].last # 0, excuse' = {}
  PROVE  /\ queue[jira[i].last].event # queue[jira'[i].last].event
         /\ ~Before(queue[jira'[i].last].event, queue[jira[i].last].event)
<1>1. PICK p \in Processors : Land(p)
  <2>1. \A p \in Processors : Process(p) => jira' = jira
    BY DEF Process, ProcessBatch
  <2>2. \A p \in Processors : Proceed(p) => Land(p) \/ jira' = jira
    BY DEF Proceed, NextEntry, Succeed, Fail, RateLimited
  <2>3. \A d \in Dispatchers : ReadDue(d) \/ CommitDispatch(d) \/ RollbackDispatch(d) => jira' = jira
    BY DEF ReadDue, CommitDispatch, RollbackDispatch, queueVars
  <2>4. RunAudit \/ Start \/ Pause \/ RetryFailed \/ HealthCheck \/ Tick => jira' = jira
    BY DEF RunAudit, Start, Pause, RetryFailed, HealthCheck, Tick, queueVars
  <2>5. Crash => jira' = jira
    BY DEF Crash, QueueCrash
  <2>6. \A e \in Events : CancelEvent(e) => jira' = jira
    BY DEF CancelEvent
  <2>7. /\ \A e \in Events, at \in Times, arg \in Args : EditRead(e, at, arg) => jira' = jira
        /\ \A r \in edits : EditCommit(r) \/ EditFails(r) => jira' = jira
    BY DEF EditRead, EditCommit, EditFails, queueVars
  <2>11. /\ \A s \in Sprints : CancelAllPending(s) => jira' = jira
         /\ \A s \in Sprints, new \in SUBSET Events : Reschedule(s, new) => jira' = jira
         /\ \A p \in Processors : CallBreaks(p) \/ ClaimBreaks(p) => jira' = jira
    BY DEF CancelAllPending, Reschedule, CallBreaks, ClaimBreaks
  <2>8. \A x \in Issues : EnqueueCreate(x) => jira' = jira
    BY DEF EnqueueCreate
  <2>9. \A to \in {"up", "down", "slow"} : LinkChanges(to) => jira' = jira
    BY DEF LinkChanges
  <2>10. UNCHANGED vars => jira' = jira
    BY DEF vars, queueVars
  <2> QED
    BY <2>1, <2>2, <2>3, <2>4, <2>5, <2>6, <2>7, <2>8, <2>9, <2>10, <2>11 DEF Next
<1> DEFINE k == proc[p].entry
           old == jira[i].last
<1>2. excuse = {} /\ Writing(p) /\ proc[p].sent = FALSE
  BY <1>1 DEF Land, Writing, PInv, Shape, Call
<1>3. WriteOrder /\ ScheduleOrder /\ DispatchInv /\ queue \in Seq(Entry) /\ Len(queue) \in Nat
  BY <1>2 DEF PInv, WriteInv, ScheduleInv, Shape
<1>4. k \in Rows /\ old \in Rows
  BY <1>2, <1>3 DEF PInv, QueueInv, InRange, WriteOrder
<1>5. /\ queue[k].issue \in Issues
      /\ jira' = [jira EXCEPT ![queue[k].issue] = Written(jira[queue[k].issue], queue[k], k)]
  <2>1. queue[k] \in Entry
    BY <1>3, <1>4 DEF Rows
  <2> QED
    BY <1>1, <2>1 DEF Land, InFlight, Entry
<1>6. queue[k].issue = i /\ jira'[i] = Written(jira[i], queue[k], k)
  BY <1>5 DEF PInv, Shape
<1>7. Transition(queue[k]) /\ jira'[i].last = k
  <2>1. jira[i] \in [count : Nat, status : Nat, last : Nat]
    BY DEF PInv, Shape
  <2> QED
    BY <1>6, <2>1 DEF Written, Transition
<1>8. old < k /\ Transition(queue[old])
  BY <1>2, <1>3, <1>6, <1>7 DEF WriteOrder
<1>9. queue[old].event \in Events /\ queue[k].event \in Events
  BY <1>3, <1>4, <1>7, <1>8 DEF ScheduleOrder
<1>10. ~Sooner(event, queue[k].event, queue[old].event)
  BY <1>3, <1>4, <1>8, <1>9 DEF ScheduleOrder
<1>11. queue[old].event # queue[k].event
  <2>1. old # k /\ queue[old].event # 0
    BY <1>3, <1>4, <1>8, <1>9, PipelineAssumption DEF Rows
  <2> QED
    BY <1>2, <1>3, <1>4, <2>1 DEF DispatchInv
<1> QED
  BY <1>7, <1>10, <1>11 DEF Sooner, Before

\* Jira follows the schedule: process_batch never writes a transition of an
\* issue after that of an event scheduled later, nor one event's twice, as
\* long as nothing happened that the queue does not guard against.
THEOREM ScheduleFollowed == Spec => TransitionsInOrder
<1> DEFINE Step ==
      \A i \in Issues :
        jira'[i].last # jira[i].last /\ jira[i].last # 0 /\ excuse' = {} =>
          LET old == queue[jira[i].last].event
              new == queue[jira'[i].last].event
          IN old # new /\ ~Before(new, old)
<1>1. PInv /\ [Next]_vars => Step
  BY LandsInOrder
<1>2. PInv /\ [Next]_vars => [Step]_vars
  BY <1>1
<1>3. [][Step]_vars <=> TransitionsInOrder
  BY DEF TransitionsInOrder
<1> HIDE DEF Step
<1> QED
  BY <1>2, <1>3, Invariant, PTL DEF Spec
=============================================================================
