------------------------------ MODULE MCArqSteps ------------------------------
(* ArqSteps for TLC: who sends to whom, and how much. *)
EXTENDS ArqSteps

CONSTANTS a, b

OneWay == {<<a, b>>}
BothWays == {<<a, b>>, <<b, a>>}
HearsBroadcast == {<<a, b>>, <<a, Broadcast>>, <<b, Broadcast>>}

Once == [n \in Nodes |-> 1]
Twice == [n \in Nodes |-> 2]
TwiceAndOnce == [n \in Nodes |-> IF n = a THEN 2 ELSE 1]

(* Once an event is lost, a second request of a is not followed further. *)
FewAfterLoss == (\E n \in Nodes : lost[n] # {}) => given[a] <= 1
=============================================================================
