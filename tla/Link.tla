---------------------------------- MODULE Link ---------------------------------
(***************************************************************************)
(* What layer 2 promises layer 3 on a link from one board to another: the  *)
(* messages that arrive are among those requested, in their order, none    *)
(* twice; and until the first message is given up, a confirmed message has *)
(* arrived.  After that the two sequence numbers may be out of step, and a *)
(* confirmation means nothing.                                             *)
(***************************************************************************)
EXTENDS Naturals, Sequences, SequencesExt

VARIABLES
    given,       \* number of requests
    arrived,     \* numbers of the requests that have arrived
    confirmed,   \* numbers of those that are confirmed
    failed       \* numbers of those that were given up

vars == <<given, arrived, confirmed, failed>>

Init == given = 0 /\ arrived = <<>> /\ confirmed = {} /\ failed = {}

Request ==
    /\ given' = given + 1
    /\ UNCHANGED <<arrived, confirmed, failed>>

Arrive(k) ==
    /\ \A j \in ToSet(arrived) : j < k
    /\ arrived' = Append(arrived, k)
    /\ UNCHANGED <<given, confirmed, failed>>

Confirm(k) ==
    /\ k \in ToSet(arrived) \/ failed # {}
    /\ confirmed' = confirmed \cup {k}
    /\ UNCHANGED <<given, arrived, failed>>

Fail(k) ==
    /\ failed' = failed \cup {k}
    /\ UNCHANGED <<given, arrived, confirmed>>

Next == Request \/ \E k \in 1 .. given : Arrive(k) \/ Confirm(k) \/ Fail(k)

Spec == Init /\ [][Next]_vars
=============================================================================
