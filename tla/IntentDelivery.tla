--------------------------- MODULE IntentDelivery ---------------------------
(***************************************************************************)
(* What Jira delivery promises for the committed intents of each team:     *)
(* they take effect in ledger order, an intent is written to Jira at most  *)
(* once, and the next one is not written before the last is acknowledged.  *)
(* An intent whose effect is already in place is acknowledged without a    *)
(* write.                                                                  *)
(***************************************************************************)
EXTENDS Naturals

CONSTANT Teams

VARIABLES
  total,    \* intents committed by the simulator
  applied,  \* intents that have taken effect in Jira
  acked     \* intents with a DELIVERED receipt

vars == <<total, applied, acked>>

Init ==
  /\ total = [t \in Teams |-> 0]
  /\ applied = [t \in Teams |-> 0]
  /\ acked = [t \in Teams |-> 0]

Commit(t) ==
  /\ total'[t] \in Nat /\ total'[t] > total[t]
  /\ total' = [total EXCEPT ![t] = total'[t]]
  /\ UNCHANGED <<applied, acked>>

Apply(t) ==
  /\ applied[t] = acked[t] /\ applied[t] < total[t]
  /\ applied' = [applied EXCEPT ![t] = @ + 1]
  /\ UNCHANGED <<total, acked>>

Acknowledge(t) ==
  /\ acked[t] < applied[t]
  /\ acked' = [acked EXCEPT ![t] = @ + 1]
  /\ UNCHANGED <<total, applied>>

AcknowledgeInPlace(t) ==
  /\ acked[t] = applied[t] /\ applied[t] < total[t]
  /\ acked' = [acked EXCEPT ![t] = @ + 1]
  /\ applied' = [applied EXCEPT ![t] = @ + 1]
  /\ UNCHANGED total

Next == \E t \in Teams : Commit(t) \/ Apply(t) \/ Acknowledge(t) \/ AcknowledgeInPlace(t)

Spec == Init /\ [][Next]_vars

\* Nothing is acknowledged that did not happen, and at most one effect waits
\* for its acknowledgement.
InOrder == \A t \in Teams : acked[t] <= applied[t] /\ applied[t] <= acked[t] + 1 /\ applied[t] <= total[t]
=============================================================================
