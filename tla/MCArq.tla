--------------------------------- MODULE MCArq ---------------------------------
(***************************************************************************)
(* Arq with a record of the acknowledgements that were ahead, the link     *)
(* from a to b, and for TLC: who sends to whom.                            *)
(***************************************************************************)
EXTENDS Arq

CONSTANTS a, b, c

OneWay == {<<a, b>>}
BothWays == {<<a, b>>, <<b, a>>}
TwoPeers == {<<a, b>>, <<a, c>>}
WithBroadcast == {<<a, b>>, <<b, Broadcast>>}
BoothToUser == {<<b, a>>, <<b, Broadcast>>}
SharedByThree == {<<a, b>>, <<a, c>>, <<b, a>>, <<b, Broadcast>>}

Once == [n \in Nodes |-> 1]
Twice == [n \in Nodes |-> 2]
FourTimes == [n \in Nodes |-> 4]
OfTheUserTwice == [n \in Nodes |-> IF n = a THEN 2 ELSE 1]

-----------------------------------------------------------------------------

VARIABLE ahead    \* boards that have acknowledged a number they had not reached

(* n acknowledges a frame that it discards because it expects an older one.*)
AcksAhead(n) ==
    air[n] # NoFrame /\ air[n].type = "ACK" /\ air[n].seq >= seqNum[n]

WatchedInit == Init /\ ahead = {}

Watch == ahead' = ahead \cup {n \in Nodes : AcksAhead(n)'}

WatchedNext == Next /\ Watch

WatchedSpec == WatchedInit /\ [][WatchedNext]_<<vars, ahead>>

(* The acknowledgement of an acknowledgement may take the place of data    *)
(* and pass for data itself.  A board that never broadcasts is safe from   *)
(* it as long as it has not acknowledged what it did not expect yet.       *)
IntactUnlessAhead ==
    \A n \in Nodes : OnlyUnicasts(n) /\ n \notin ahead => NoMessage \notin ToSet(delivered[n])

-----------------------------------------------------------------------------

LinkAB == INSTANCE Link WITH
    given     <- given[a],
    arrived   <- [i \in DOMAIN delivered[b] |-> delivered[b][i].id],
    confirmed <- {msg.id : msg \in confirmed[a]},
    failed    <- {msg.id : msg \in failed[a]}

(* A link that is used in one direction keeps the promise of module Link,  *)
(* whatever frames and acknowledgements are lost and however early the     *)
(* timer fires, across the wrap of the sequence numbers.                   *)
KeepsLink == LinkAB!Spec
=============================================================================
