-------------------------------- MODULE Visit --------------------------------
(***************************************************************************)
(* What a booth promises, without queue, calls and messages: at most       *)
(* Capacity users are inside, nobody enters a second time (README.md, "1   *)
(* person 1 visit"), and every visit ends.                                 *)
(***************************************************************************)
EXTENDS Naturals, FiniteSets

CONSTANTS Booths, Users, Capacity

VARIABLES
    inside,    \* inside[b]: the users who are in booth b
    visited    \* visited[b]: the users who have ever entered it

vars == <<inside, visited>>

Init ==
    /\ inside = [b \in Booths |-> {}]
    /\ visited = [b \in Booths |-> {}]

Enter(b, u) ==
    /\ u \notin visited[b]
    /\ Cardinality(inside[b]) < Capacity
    /\ inside' = [inside EXCEPT ![b] = @ \cup {u}]
    /\ visited' = [visited EXCEPT ![b] = @ \cup {u}]

Leave(b, u) ==
    /\ u \in inside[b]
    /\ inside' = [inside EXCEPT ![b] = @ \ {u}]
    /\ UNCHANGED visited

Next == \E b \in Booths, u \in Users : Enter(b, u) \/ Leave(b, u)

Spec == Init /\ [][Next]_vars

FairSpec == Spec /\ \A b \in Booths, u \in Users : WF_vars(Leave(b, u))
=============================================================================
