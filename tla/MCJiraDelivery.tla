--------------------------- MODULE MCJiraDelivery ---------------------------
(* Small instance of JiraDelivery: bootstrap, one transition, one rollover. *)
EXTENDS JiraDelivery

MCBatches == <<Provisioning(<<1>>, 0), Transition(1, 1) \o Rollover(0)>>
MCScript == FlattenSeq(MCBatches)
MCSizeAfter == [b \in 0..Slices |-> Len(FlattenSeq(SubSeq(MCBatches, 1, b)))]
MCRetryDelay == [a \in 0..AttemptCap |-> a + 1]
=============================================================================
