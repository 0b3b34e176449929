-------------------------------- MODULE Segments -------------------------------
(***************************************************************************)
(* Layer 2, L2_FSMmain.cpp: how a message that does not fit into one frame *)
(* is cut (sduBuffer, L2_pullSduBuffer) and put together again             *)
(* (L2_aggregateData, pduBuffer).                                          *)
(*                                                                         *)
(* Several boards send to one.  The ARQ (module Arq) is idealised: a frame *)
(* that is sent is received once, before its sender turns to the next.     *)
(* The bytes of message k of board s are <<s, k, 1>>, <<s, k, 2>>, ...     *)
(* Nothing keeps a board from requesting a message while the last one is   *)
(* still being cut, nor two boards from sending at once; which messages    *)
(* have met such a disturbance is recorded in a history variable.          *)
(***************************************************************************)
EXTENDS Naturals, Sequences, SequencesExt

CONSTANTS
    Senders,             \* boards that send to the receiver
    Lengths,             \* lengths of the messages
    L2_MSG_MAXDATASIZE,  \* bytes of data in a frame
    MAX_REQUESTS         \* bound on the data requests of a board

ASSUME LengthsAssumption == Lengths \subseteq Nat \ {0}
ASSUME SizeAssumption == L2_MSG_MAXDATASIZE \in Nat \ {0} /\ MAX_REQUESTS \in Nat

VARIABLES
    requested,     \* requested[s]: the messages of layer 3, in order
    sduIn,         \* sduIn[s]: the bytes for the next frame
    toSend,        \* toSend[s]: the event dataToSend
    sduBuffer,     \* sduBuffer[s]: the bytes for later frames
    toSendBuffer,  \* toSendBuffer[s]: the event dataToSendBuffer
    air,           \* air[s]: the frames of s that are under way, at most one
    pduBuffer,     \* the bytes the receiver has collected
    indicated,     \* the messages the receiver has passed to layer 3
    disturbed      \* the messages that were overtaken or mixed, as <<s, k>>

vars == <<requested, sduIn, toSend, sduBuffer, toSendBuffer, air, pduBuffer, indicated,
          disturbed>>

-----------------------------------------------------------------------------

Bytes(s, k, len) == [i \in 1 .. len |-> <<s, k, i>>]

(* L2_pullSduBuffer: the bytes it takes for the next frame, and those it   *)
(* leaves.                                                                 *)
PullSize(buffer) == Min({Len(buffer), L2_MSG_MAXDATASIZE})

Pulled(buffer) == SubSeq(buffer, 1, PullSize(buffer))

(* Wrong: one byte is lost at each cut.                                    *)
CutTooMuch(buffer) == SubSeq(buffer, PullSize(buffer) + 2, Len(buffer))

Cut(buffer) == SubSeq(buffer, PullSize(buffer) + 1, Len(buffer))

(* The messages some bytes belong to. *)
Owners(bytes) == {<<byte[1], byte[2]>> : byte \in ToSet(bytes)}

Init ==
    /\ requested = [s \in Senders |-> <<>>]
    /\ sduIn = [s \in Senders |-> <<>>]
    /\ toSend = [s \in Senders |-> FALSE]
    /\ sduBuffer = [s \in Senders |-> <<>>]
    /\ toSendBuffer = [s \in Senders |-> FALSE]
    /\ air = [s \in Senders |-> <<>>]
    /\ pduBuffer = <<>>
    /\ indicated = <<>>
    /\ disturbed = {}

(* Message k of s is requested before the last frame of k - 1 was sent.    *)
Overtaken(s, k) == IF toSend[s] \/ toSendBuffer[s] THEN {<<s, k - 1>>} ELSE {}

(* L2_LLI_handleDataReq *)
DataReq(s, len) ==
    LET k   == Len(requested[s]) + 1
        sdu == Bytes(s, k, len)
    IN  /\ k <= MAX_REQUESTS
        /\ requested' = [requested EXCEPT ![s] = Append(@, sdu)]
        /\ \/ /\ len < L2_MSG_MAXDATASIZE
              /\ sduIn' = [sduIn EXCEPT ![s] = sdu]
              /\ UNCHANGED <<sduBuffer, toSendBuffer>>
           \/ /\ len >= L2_MSG_MAXDATASIZE
              /\ sduIn' = [sduIn EXCEPT ![s] = Pulled(sdu)]
              /\ sduBuffer' = [sduBuffer EXCEPT ![s] = Cut(sdu)]
              /\ toSendBuffer' = [toSendBuffer EXCEPT ![s] = TRUE]
        /\ toSend' = [toSend EXCEPT ![s] = TRUE]
        /\ disturbed' = disturbed \cup Overtaken(s, k)
        /\ UNCHANGED <<air, pduBuffer, indicated>>

(* Wrong: the event is not cleared, and the frame goes out again.          *)
SendFrameAgain(s) ==
    /\ air[s] = <<>>
    /\ toSend[s]
    /\ air' = [air EXCEPT ![s] = <<[data |-> sduIn[s], end |-> ~toSendBuffer[s]]>>]
    /\ UNCHANGED <<requested, sduIn, toSend, sduBuffer, toSendBuffer, pduBuffer, indicated, disturbed>>

(* L2STATE_IDLE, dataToSend: L2_MSG_TYPE_DATA_CONT while the buffer is in  *)
(* use, L2_MSG_TYPE_DATA for the last frame.                               *)
SendFrame(s) ==
    /\ air[s] = <<>>
    /\ toSend[s]
    /\ air' = [air EXCEPT ![s] = <<[data |-> sduIn[s], end |-> ~toSendBuffer[s]]>>]
    /\ toSend' = [toSend EXCEPT ![s] = FALSE]
    /\ UNCHANGED <<requested, sduIn, sduBuffer, toSendBuffer, pduBuffer, indicated, disturbed>>

(* Wrong: nothing is sent any more when there are no bytes left to pull.   *)
PullBufferDropsEmpty(s) ==
    /\ air[s] = <<>>
    /\ ~toSend[s]
    /\ toSendBuffer[s]
    /\ toSend' = [toSend EXCEPT ![s] = sduBuffer[s] # <<>>]
    /\ sduIn' = [sduIn EXCEPT ![s] = Pulled(sduBuffer[s])]
    /\ sduBuffer' = [sduBuffer EXCEPT ![s] = Cut(@)]
    /\ toSendBuffer' = [toSendBuffer EXCEPT ![s] = Cut(sduBuffer[s]) # <<>>]
    /\ UNCHANGED <<requested, air, pduBuffer, indicated, disturbed>>

(* L2STATE_IDLE, dataToSendBuffer *)
PullBuffer(s) ==
    /\ air[s] = <<>>
    /\ ~toSend[s]
    /\ toSendBuffer[s]
    /\ toSend' = [toSend EXCEPT ![s] = TRUE]
    /\ sduIn' = [sduIn EXCEPT ![s] = Pulled(sduBuffer[s])]
    /\ sduBuffer' = [sduBuffer EXCEPT ![s] = Cut(@)]
    /\ toSendBuffer' = [toSendBuffer EXCEPT ![s] = Cut(sduBuffer[s]) # <<>>]
    /\ UNCHANGED <<requested, air, pduBuffer, indicated, disturbed>>

(* A frame of s meets bytes of another message in the buffer. *)
Mixed(s) ==
    LET owners == Owners(pduBuffer \o Head(air[s]).data)
    IN  IF \E m, n \in owners : m # n \/ m[1] # s THEN owners ELSE {}

(* L2_aggregateData *)
ReceiveFrame(s) ==
    /\ air[s] # <<>>
    /\ LET collected == pduBuffer \o Head(air[s]).data
       IN  \/ /\ Head(air[s]).end
              /\ indicated' = Append(indicated, collected)
              /\ pduBuffer' = <<>>
           \/ /\ ~Head(air[s]).end
              /\ pduBuffer' = collected
              /\ UNCHANGED indicated
    /\ air' = [air EXCEPT ![s] = <<>>]
    /\ disturbed' = disturbed \cup Mixed(s)
    /\ UNCHANGED <<requested, sduIn, toSend, sduBuffer, toSendBuffer>>

Step(s) == SendFrame(s) \/ PullBuffer(s) \/ ReceiveFrame(s)

Next ==
    \E s \in Senders : Step(s) \/ \E len \in Lengths : DataReq(s, len)

Spec == Init /\ [][Next]_vars

FairSpec == Spec /\ \A s \in Senders : WF_vars(Step(s))

-----------------------------------------------------------------------------

IsWhole(message) == \E s \in Senders : message \in ToSet(requested[s])

(* "Division and assembly of data" (README.md:65): what layer 3 gets are   *)
(* whole messages, each one as it was requested.                           *)
Whole == \A i \in DOMAIN indicated : IsWhole(indicated[i])

(* It is true of every message that was not disturbed itself, at every     *)
(* length around the multiples of a frame: it arrives whole, once, and in  *)
(* its place among those of its board; what others suffer does not spread  *)
(* to it.  A disturbed message may also end in an empty one.               *)
WholeUnlessDisturbed ==
    \A i \in DOMAIN indicated :
        LET message == indicated[i]
        IN  \/ IsWhole(message)
            \/ Owners(message) \cap disturbed # {}
            \/ message = <<>> /\ disturbed # {}

InTurnUnlessDisturbed ==
    \A i, j \in DOMAIN indicated :
        i < j => \A m \in Owners(indicated[i]) \ disturbed, n \in Owners(indicated[j]) \ disturbed :
                     m[1] = n[1] => m[2] < n[2]

(* A message that is requested and not disturbed is indicated, the last    *)
(* frame included when it ends exactly with a frame.                       *)
ArrivesUnlessDisturbed ==
    \A s \in Senders : \A k \in 1 .. MAX_REQUESTS :
        Len(requested[s]) >= k
        ~> \/ <<s, k>> \in disturbed
           \/ Len(requested[s]) >= k /\ requested[s][k] \in ToSet(indicated)
=============================================================================
