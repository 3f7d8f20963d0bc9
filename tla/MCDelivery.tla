----------------------------- MODULE MCDelivery -----------------------------
(* Instances of Delivery for TLC: the topics below "external".             *)
EXTENDS Delivery

CONSTANTS k1, k2

Fill == <<"external", "fill">>
Ack  == <<"external", "ack">>
Plus == <<"external", "+">>
Hash == <<"external", "#">>
Deep == <<"external", "+", "#">>

\* Beside the two events, the parent of the wildcard and a deeper level.
AllTopics   == {Fill, Ack, <<"external">>, <<"external", "ack", "late">>}
TwoTopics   == {Fill, Ack}
AllPatterns == {Plus, Hash, Deep, Fill}
TwoPatterns == {Plus, Fill}
Events      == [k \in Listeners |-> IF k = k1 THEN Fill ELSE Ack]
=============================================================================
