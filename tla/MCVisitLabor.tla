----------------------------- MODULE MCVisitLabor -----------------------------
(* Three items for two members, the better one with less capacity; days of *)
(* four instants, three of them worked.                                    *)
EXTENDS VisitLabor

MCSamples == {[touch |-> 0, dwell |-> 0], [touch |-> 2, dwell |-> 2]}
MCProficiency == <<<<1, 2>>, <<2, 0>>>>
MCWip == <<2, 1>>
MCDailyCapacity == <<2, 3>>
MCAbsence == {[member |-> 1, from |-> 5, to |-> 7, part |-> 1, cap |-> 2]}
=============================================================================
