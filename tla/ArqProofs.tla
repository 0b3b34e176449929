-------------------------------- MODULE ArqProofs --------------------------------
(***************************************************************************)
(* Proofs about Arq, for any boards, any links between them, any numbers   *)
(* of retransmissions and requests and any size of the sequence numbers:   *)
(* the machine and the radio keep pace (OneAtATime), no wait for an        *)
(* acknowledgement is without a timer (WaitIsTimed), a board that only     *)
(* unicasts is heard in order and undamaged (InOrderOnce,                  *)
(* IntactUnlessAhead), and a link used in one direction implements Link.   *)
(*                                                                         *)
(* The first two are not inductive alone.  A retransmission sends arqPdu   *)
(* and a reception reads rcvdData, so that what a frame is depends on      *)
(* those buffers being filled when the flags say so (Filled); and the two  *)
(* ends of a transmission must exclude each other, or the pass that        *)
(* handles one would leave TX with the other still set (OneEnd).           *)
(***************************************************************************)
EXTENDS MCArq, SequenceTheorems, TLAPS

(* The frame that is repeated is a data frame of layer 3.                  *)
HasPdu(n) == arqPdu[n] \in Frame /\ arqPdu[n].msg \in Message

HasDest(n) == dest[n] \in Nodes \cup {Broadcast}

Filled ==
    \A n \in Nodes :
        /\ arqPdu[n] # NoFrame => HasPdu(n) /\ HasDest(n)
        /\ sduIn[n] # NoMessage => HasDest(n)
        /\ "dataRcvd" \in events[n] => rcvdData[n] \in Frame
        /\ timer[n] \/ {"arqTimeout", "dataTxDone"} \cap events[n] # {} => arqPdu[n] # NoFrame
        /\ air[n] # NoFrame /\ air[n].type = "DATA" => arqPdu[n] # NoFrame

OneEnd == \A n \in Nodes : ~({"dataTxDone", "ackTxDone"} \subseteq events[n])

(* The inductive invariant. *)
IInv == TypeOK /\ OneAtATime /\ WaitIsTimed /\ Filled /\ OneEnd

-----------------------------------------------------------------------------
(* What is sent is a frame *)

(* The next sequence number is a sequence number. *)
LEMMA NextIsNumber == ASSUME NEW s \in SeqNums PROVE Next_(s) \in SeqNums
BY BoundsAssumption DEF SeqNums, Next_

(* An acknowledgement is a frame, and not the empty air. *)
LEMMA AckIsFrame ==
    ASSUME NEW n \in Nodes, NEW to \in Nodes, NEW seq \in SeqNums
    PROVE  /\ AckFrame(n, to, seq) \in Frame
           /\ AckFrame(n, to, seq) # NoFrame
           /\ AckFrame(n, to, seq).type = "ACK"
BY NoFrameAssumption DEF AckFrame, Frame

(* A data frame with a message is a frame, and not the empty air. *)
LEMMA DataIsFrame ==
    ASSUME NEW n \in Nodes, NEW to \in Nodes \cup {Broadcast}, NEW seq \in SeqNums,
           NEW msg \in Message
    PROVE  /\ DataFrame(n, to, seq, msg) \in Frame
           /\ DataFrame(n, to, seq, msg) # NoFrame
           /\ DataFrame(n, to, seq, msg).msg \in Message
BY NoFrameAssumption DEF DataFrame, Frame

(* A frame that is redirected is a frame. *)
LEMMA RedirectedIsFrame ==
    ASSUME NEW f \in Frame, NEW to \in Nodes \cup {Broadcast}
    PROVE  [f EXCEPT !.to = to] \in Frame /\ [f EXCEPT !.to = to] # NoFrame
BY NoFrameAssumption DEF Frame

-----------------------------------------------------------------------------

(* A board that starts satisfies the invariant. *)
LEMMA InitIInv == Init => IInv
<1> SUFFICES ASSUME Init PROVE IInv
  OBVIOUS
<1>1. TypeOK
  BY BoundsAssumption DEF Init, TypeOK, SeqNums, Events
<1>2. OneAtATime /\ WaitIsTimed
  BY DEF Init, OneAtATime, WaitIsTimed, TxEvents
<1>3. Filled /\ OneEnd
  BY DEF Init, Filled, OneEnd
<1> QED BY <1>1, <1>2, <1>3 DEF IInv

(* A request of layer 3 changes neither the machine nor the radio. *)
LEMMA DataReqKeeps ==
    ASSUME IInv, NEW n \in Nodes, NEW d \in Nodes \cup {Broadcast}, DataReq(n, d)
    PROVE  IInv'
<1> USE DEF IInv
<1>1. [from |-> n, to |-> d, id |-> given[n] + 1] \in Message
  BY BoundsAssumption DEF DataReq, TypeOK, Message
<1>2. TypeOK'
  BY <1>1, BoundsAssumption DEF DataReq, TypeOK
<1>3. OneAtATime' /\ WaitIsTimed' /\ OneEnd'
  BY DEF DataReq, OneAtATime, WaitIsTimed, OneEnd, TxEvents
<1>4. Filled'
  BY DEF DataReq, Filled, HasPdu, HasDest, TypeOK
<1> QED BY <1>2, <1>3, <1>4

(* The end of a frame turns the busy radio into one event, and a reception *)
(* fills the buffer.                                                       *)
LEMMA FrameEndsKeeps ==
    ASSUME IInv, NEW n \in Nodes, NEW R \in SUBSET Nodes, FrameEnds(n, R)
    PROVE  IInv'
<1> USE DEF IInv
<1>1. air[n] \in Frame
  BY DEF FrameEnds, TypeOK
<1> DEFINE data == air[n].type = "DATA"
           ended(m) == IF m = n THEN {IF data THEN "dataTxDone" ELSE "ackTxDone"} ELSE {}
           got(m) == IF m \in R THEN {IF data THEN "dataRcvd" ELSE "ackRcvd"} ELSE {}
<1>2. events' = [m \in Nodes |-> events[m] \cup ended(m) \cup got(m)]
  BY DEF FrameEnds
<1>3. \A m \in Nodes : ended(m) \subseteq Events /\ got(m) \subseteq Events
  BY DEF Events
<1>4. TypeOK'
  <2>1. events' \in [Nodes -> SUBSET Events]
    <3> HIDE DEF ended, got
    <3> QED BY <1>2, <1>3 DEF TypeOK
  <2>2. rcvdData' \in [Nodes -> Frame \cup {NoFrame}] /\ air' \in [Nodes -> Frame \cup {NoFrame}]
    BY <1>1 DEF FrameEnds, Transmit, TypeOK
  <2> QED BY <2>1, <2>2 DEF FrameEnds, history, TypeOK
<1>5. \A m \in Nodes : "arqTimeout" \in events'[m] <=> "arqTimeout" \in events[m]
  BY <1>2
<1>6. \A m \in Nodes \ {n} : TxEvents(m)' = TxEvents(m)
  BY <1>2 DEF TxEvents
<1>7. TxEvents(n) = {}
  BY DEF FrameEnds, OneAtATime
<1>8. TxEvents(n)' = ended(n)
  BY <1>2, <1>7 DEF TxEvents
<1>9. OneAtATime'
  BY <1>6, <1>8 DEF FrameEnds, Transmit, OneAtATime, TypeOK
<1>10. WaitIsTimed'
  BY <1>5 DEF FrameEnds, WaitIsTimed
<1>11. OneEnd'
  BY <1>6, <1>8 DEF OneEnd, TxEvents
<1>12. Filled'
  <2> SUFFICES ASSUME NEW m \in Nodes
      PROVE  /\ "dataRcvd" \in events'[m] => rcvdData'[m] \in Frame
             /\ "dataTxDone" \in events'[m] => arqPdu[m] # NoFrame
             /\ air'[m] # NoFrame => air'[m] = air[m]
    BY <1>5 DEF FrameEnds, Filled, HasPdu, HasDest
  <2>1. "dataRcvd" \in events'[m] => rcvdData'[m] \in Frame
    BY <1>1, <1>2 DEF FrameEnds, Filled, TypeOK
  <2>2. "dataTxDone" \in events'[m] => arqPdu[m] # NoFrame
    BY <1>2 DEF FrameEnds, Filled
  <2>3. air'[m] # NoFrame => air'[m] = air[m]
    BY DEF FrameEnds, Transmit, TypeOK
  <2> QED BY <2>1, <2>2, <2>3
<1> QED BY <1>4, <1>9, <1>10, <1>11, <1>12

(* The timer that fires leaves an event in its place. *)
LEMMA TimerFiresKeeps ==
    ASSUME IInv, NEW n \in Nodes, TimerFires(n)
    PROVE  IInv'
<1> USE DEF IInv
<1>1. TypeOK'
  BY DEF TimerFires, history, TypeOK, Events
<1>2. \A m \in Nodes : TxEvents(m)' = TxEvents(m)
  BY DEF TimerFires, TxEvents, TypeOK
<1>3. OneAtATime' /\ OneEnd'
  BY <1>2 DEF TimerFires, OneAtATime, OneEnd, TxEvents
<1>4. WaitIsTimed'
  BY DEF TimerFires, WaitIsTimed, TypeOK
<1>5. Filled'
  BY DEF TimerFires, Filled, HasPdu, HasDest, TypeOK
<1> QED BY <1>1, <1>3, <1>4, <1>5

-----------------------------------------------------------------------------
(* The branches of L2_FSMrun *)

(* Outside TX the radio is idle and no end of a frame is pending, so that  *)
(* a frame handed to it there is the only one.                             *)
LEMMA QuietOutsideTx ==
    ASSUME OneAtATime, NEW n \in Nodes, mode[n] # "TX"
    PROVE  air[n] = NoFrame /\ TxEvents(n) = {}
BY DEF OneAtATime

(* A broadcast that is taken leaves the board in IDLE, its radio as it is. *)
LEMMA TakeBroadcastKeeps ==
    ASSUME IInv, NEW n \in Nodes, mode[n] # "TX", "dataRcvd" \in events[n], TakeBroadcast(n)
    PROVE  IInv'
<1> USE DEF IInv
<1>1. rcvdData[n] \in Frame
  BY DEF Filled
<1>2. rcvdData[n].msg \in Message \cup {NoMessage}
  BY <1>1 DEF Frame
<1>3. TypeOK'
  BY <1>2 DEF TakeBroadcast, Indicate, Goto, Clear, TypeOK
<1>4. \A m \in Nodes : TxEvents(m)' = TxEvents(m)
  BY DEF TakeBroadcast, Clear, TxEvents, TypeOK
<1>5. OneAtATime' /\ OneEnd'
  BY <1>4, QuietOutsideTx DEF TakeBroadcast, Goto, OneAtATime, OneEnd, TxEvents, TypeOK
<1>6. WaitIsTimed'
  BY DEF TakeBroadcast, Goto, Clear, WaitIsTimed, TypeOK
<1>7. Filled'
  BY DEF TakeBroadcast, Clear, Filled, HasPdu, HasDest, TypeOK
<1> QED BY <1>3, <1>5, <1>6, <1>7

(* A unicast that is taken puts one acknowledgement on the idle radio.     *)
LEMMA TakeUnicastKeeps ==
    ASSUME IInv, NEW n \in Nodes, mode[n] # "TX", "dataRcvd" \in events[n], TakeUnicast(n)
    PROVE  IInv'
<1> USE DEF IInv
<1> DEFINE ack == AckFrame(n, rcvdData[n].src, rcvdData[n].seq)
<1>1. rcvdData[n] \in Frame
  BY DEF Filled
<1>2. /\ rcvdData[n].src \in Nodes
      /\ rcvdData[n].seq \in SeqNums
      /\ rcvdData[n].msg \in Message \cup {NoMessage}
  BY <1>1 DEF Frame
<1>3. ack \in Frame /\ ack # NoFrame /\ ack.type = "ACK"
  BY <1>2, AckIsFrame
<1>4. air' = [air EXCEPT ![n] = ack]
  BY DEF TakeUnicast, Transmit
<1>5. /\ mode' = [mode EXCEPT ![n] = "TX"]
      /\ events' = [events EXCEPT ![n] = @ \ {"dataRcvd"}]
      /\ UNCHANGED <<dest, sduIn, arqPdu, retxCnt, rcvdData, timer, given, confirmed, failed>>
  BY DEF TakeUnicast, Goto, Clear
<1> HIDE DEF ack
<1>6. TypeOK'
  <2>1. seqNum' \in [Nodes -> SeqNums]
    <3>1. seqNum' = seqNum \/ seqNum' = [seqNum EXCEPT ![n] = Next_(@)]
      BY DEF TakeUnicast
    <3>2. seqNum \in [Nodes -> SeqNums] /\ Next_(seqNum[n]) \in SeqNums
      BY NextIsNumber DEF TypeOK
    <3> QED BY <3>1, <3>2
  <2>2. pduBuffer' \in [Nodes -> BOOLEAN]
        /\ delivered' \in [Nodes -> Seq(Message \cup {NoMessage})]
    <3>1. pduBuffer' = pduBuffer \/ \E x \in BOOLEAN : pduBuffer' = [pduBuffer EXCEPT ![n] = x]
      BY DEF TakeUnicast, Indicate
    <3>2. \/ delivered' = delivered
          \/ \E msg \in Message \cup {NoMessage} :
               delivered' = [delivered EXCEPT ![n] = Append(@, msg)]
      BY <1>2 DEF TakeUnicast, Indicate
    <3>3. pduBuffer \in [Nodes -> BOOLEAN]
          /\ delivered \in [Nodes -> Seq(Message \cup {NoMessage})]
      BY DEF TypeOK
    <3>4. pduBuffer' \in [Nodes -> BOOLEAN]
      BY <3>1, <3>3
    <3>5. delivered' \in [Nodes -> Seq(Message \cup {NoMessage})]
      <4>1. \A msg \in Message \cup {NoMessage} :
              Append(delivered[n], msg) \in Seq(Message \cup {NoMessage})
        BY <3>3
      <4> QED BY <3>2, <3>3, <4>1
    <3> QED BY <3>4, <3>5
  <2> QED BY <1>3, <1>4, <1>5, <2>1, <2>2 DEF TypeOK
<1>7. \A m \in Nodes : TxEvents(m)' = TxEvents(m)
  BY <1>5 DEF TxEvents, TypeOK
<1>8. OneAtATime' /\ OneEnd'
  BY <1>3, <1>4, <1>5, <1>7, QuietOutsideTx DEF OneAtATime, OneEnd, TxEvents, TypeOK
<1>9. WaitIsTimed'
  BY <1>5 DEF WaitIsTimed, TypeOK
<1>10. Filled'
  BY <1>3, <1>4, <1>5 DEF Filled, HasPdu, HasDest, TypeOK
<1> QED BY <1>6, <1>8, <1>9, <1>10

(* IDLE hands a new data frame to the idle radio. *)
LEMMA IdleSendKeeps ==
    ASSUME IInv, NEW n \in Nodes, IdleSend(n)
    PROVE  IInv'
<1> USE DEF IInv
<1> DEFINE frame == DataFrame(n, dest[n], seqNum[n], sduIn[n])
<1>1. dest[n] \in Nodes \cup {Broadcast} /\ sduIn[n] \in Message /\ seqNum[n] \in SeqNums
  BY DEF IdleSend, Filled, HasDest, TypeOK
<1>2. frame \in Frame /\ frame # NoFrame /\ frame.msg \in Message
  BY <1>1, DataIsFrame
<1>3. /\ arqPdu' = [arqPdu EXCEPT ![n] = frame]
      /\ air' = [air EXCEPT ![n] = frame]
      /\ mode' = [mode EXCEPT ![n] = "TX"]
      /\ UNCHANGED <<pduBuffer, dest, events, rcvdData, timer, history>>
  BY DEF IdleSend, Transmit, Goto
<1> HIDE DEF frame
<1>4. TypeOK'
  <2>1. seqNum' \in [Nodes -> SeqNums]
    BY NextIsNumber DEF IdleSend, TypeOK
  <2>2. retxCnt' \in [Nodes -> 0 .. MAX_RETX]
    BY BoundsAssumption DEF IdleSend, TypeOK
  <2>3. sduIn' \in [Nodes -> Message \cup {NoMessage}]
    BY DEF IdleSend, TypeOK
  <2> QED BY <1>2, <1>3, <2>1, <2>2, <2>3 DEF history, TypeOK
<1>5. OneAtATime' /\ OneEnd'
  <2>1. mode[n] # "TX"
    BY DEF IdleSend
  <2>2. \A m \in Nodes : TxEvents(m)' = TxEvents(m)
    BY <1>3 DEF TxEvents
  <2> QED BY <1>2, <1>3, <2>1, <2>2, QuietOutsideTx DEF OneAtATime, OneEnd, TxEvents, TypeOK
<1>6. WaitIsTimed'
  BY <1>3 DEF WaitIsTimed, TypeOK
<1>7. Filled'
  <2> SUFFICES ASSUME NEW m \in Nodes
      PROVE  /\ arqPdu'[m] # NoFrame
                => arqPdu'[m] \in Frame /\ arqPdu'[m].msg \in Message /\ HasDest(m)
             /\ sduIn'[m] # NoMessage => HasDest(m)
             /\ arqPdu[m] # NoFrame \/ m = n => arqPdu'[m] # NoFrame
             /\ m # n => air'[m] = air[m]
    BY <1>2, <1>3 DEF Filled, HasPdu, HasDest, TypeOK
  <2>1. CASE m = n
    BY <1>1, <1>2, <1>3, <2>1 DEF HasDest, TypeOK
  <2>2. CASE m # n
    BY <1>3, <2>2 DEF IdleSend, Filled, HasPdu, TypeOK
  <2> QED BY <2>1, <2>2
<1> QED BY <1>4, <1>5, <1>6, <1>7

(* TX ends with the one event that the radio has left. *)
LEMMA TxDoneKeeps ==
    ASSUME IInv, NEW n \in Nodes, TxAckDone(n) \/ TxDataDone(n)
    PROVE  IInv'
<1> USE DEF IInv
<1>1. TypeOK'
  <2>1. CASE TxAckDone(n)
    BY <2>1 DEF TxAckDone, Goto, Clear, history, TypeOK
  <2>2. CASE TxDataDone(n)
    <3>1. arqPdu[n].msg \in Message
      BY <2>2 DEF TxDataDone, Filled, HasPdu
    <3>2. confirmed' \in [Nodes -> SUBSET Message]
      <4>1. confirmed' = confirmed
            \/ confirmed' = [confirmed EXCEPT ![n] = @ \cup {arqPdu[n].msg}]
        BY <2>2 DEF TxDataDone
      <4>2. confirmed \in [Nodes -> SUBSET Message]
        BY DEF TypeOK
      <4> QED BY <3>1, <4>1, <4>2
    <3>3. /\ mode' \in [Nodes -> {"IDLE", "TX", "ACK"}]
          /\ timer' \in [Nodes -> BOOLEAN]
          /\ events' \in [Nodes -> SUBSET Events]
      BY <2>2 DEF TxDataDone, Goto, Clear, TypeOK
    <3> QED BY <2>2, <3>2, <3>3 DEF TxDataDone, TypeOK
  <2> QED BY <2>1, <2>2
<1>2. mode[n] = "TX" /\ TxEvents(n) # {} /\ air' = air
  BY DEF TxAckDone, TxDataDone, TxEvents
<1>3. TxEvents(n)' = {} /\ \A m \in Nodes \ {n} : events'[m] = events[m]
  BY DEF TxAckDone, TxDataDone, Clear, TxEvents, OneEnd, TypeOK
<1>4. mode'[n] # "TX" /\ \A m \in Nodes \ {n} : mode'[m] = mode[m]
  BY DEF TxAckDone, TxDataDone, Goto, TypeOK
<1>5. OneAtATime'
  BY <1>2, <1>3, <1>4 DEF OneAtATime, TxEvents
<1>6. OneEnd'
  BY <1>3 DEF OneEnd, TxEvents
<1>7. WaitIsTimed'
  <2>1. CASE TxAckDone(n)
    <3>1. mode'[n] = "ACK" => timer[n] \/ "arqTimeout" \in events[n]
      BY <2>1 DEF TxAckDone, Goto, TypeOK
    <3>2. timer' = timer
          /\ \A m \in Nodes : "arqTimeout" \in events[m] => "arqTimeout" \in events'[m]
      BY <2>1 DEF TxAckDone, Clear, TypeOK
    <3> QED BY <1>4, <3>1, <3>2 DEF WaitIsTimed
  <2>2. CASE TxDataDone(n)
    <3>1. mode'[n] = "ACK" => timer'[n]
      BY <2>2 DEF TxDataDone, Goto, TypeOK
    <3>2. \A m \in Nodes \ {n} : timer'[m] = timer[m] /\ events'[m] = events[m]
      BY <1>3, <2>2 DEF TxDataDone, TypeOK
    <3> QED BY <1>4, <3>1, <3>2 DEF WaitIsTimed
  <2> QED BY <2>1, <2>2
<1>8. Filled'
  <2>1. UNCHANGED <<arqPdu, dest, sduIn, rcvdData, air>>
    BY DEF TxAckDone, TxDataDone
  <2>2. \A m \in Nodes : events'[m] \subseteq events[m]
    <3>1. \E e \in Events : events' = [events EXCEPT ![n] = @ \ {e}]
      BY DEF TxAckDone, TxDataDone, Clear, Events
    <3> QED BY <3>1 DEF TypeOK
  <2>3. \A m \in Nodes :
          timer'[m] => timer[m] \/ "dataTxDone" \in events[m]
    BY DEF TxAckDone, TxDataDone, TypeOK
  <2> QED BY <2>1, <2>2, <2>3 DEF Filled, HasPdu, HasDest
<1> QED BY <1>1, <1>5, <1>6, <1>7, <1>8

(* An acknowledgement ends the wait and its timer, or neither. *)
LEMMA AckReceivedKeeps ==
    ASSUME IInv, NEW n \in Nodes, AckReceived(n)
    PROVE  IInv'
<1> USE DEF IInv
<1>1. arqPdu[n].msg \in Message
  BY DEF AckReceived, WaitIsTimed, Filled, HasPdu
<1>2. TypeOK'
  <2>1. confirmed' \in [Nodes -> SUBSET Message]
    <3>1. confirmed' = confirmed
          \/ confirmed' = [confirmed EXCEPT ![n] = @ \cup {arqPdu[n].msg}]
      BY DEF AckReceived
    <3>2. confirmed \in [Nodes -> SUBSET Message]
      BY DEF TypeOK
    <3> QED BY <1>1, <3>1, <3>2
  <2>2. /\ mode' \in [Nodes -> {"IDLE", "TX", "ACK"}]
        /\ timer' \in [Nodes -> BOOLEAN]
        /\ events' \in [Nodes -> SUBSET Events]
    BY DEF AckReceived, Goto, Clear, TypeOK
  <2> QED BY <2>1, <2>2 DEF AckReceived, TypeOK
<1>3. \A m \in Nodes : TxEvents(m)' = TxEvents(m)
  BY DEF AckReceived, Clear, TxEvents, TypeOK
<1>4. OneAtATime' /\ OneEnd'
  <2>1. mode[n] # "TX" /\ mode'[n] # "TX" /\ \A m \in Nodes \ {n} : mode'[m] = mode[m]
    BY DEF AckReceived, Goto, TypeOK
  <2>2. air' = air /\ air[n] = NoFrame /\ TxEvents(n) = {}
    BY <2>1, QuietOutsideTx DEF AckReceived
  <2> QED BY <1>3, <2>1, <2>2 DEF OneAtATime, OneEnd, TxEvents
<1>5. WaitIsTimed'
  BY DEF AckReceived, Goto, Clear, WaitIsTimed, TypeOK
<1>6. Filled'
  BY DEF AckReceived, Clear, Filled, HasPdu, HasDest, TypeOK
<1> QED BY <1>2, <1>4, <1>5, <1>6

(* A retransmission hands the data frame to the idle radio once more. *)
LEMMA RetransmitKeeps ==
    ASSUME IInv, NEW n \in Nodes, Retransmit(n)
    PROVE  IInv'
<1> USE DEF IInv
<1> DEFINE frame == [arqPdu[n] EXCEPT !.to = dest[n]]
<1>1. arqPdu[n] # NoFrame /\ arqPdu[n] \in Frame /\ HasDest(n)
  BY DEF Retransmit, TimedOut, Filled, HasPdu
<1>2. frame \in Frame /\ frame # NoFrame
  BY <1>1, RedirectedIsFrame DEF HasDest
<1>3. /\ air' = [air EXCEPT ![n] = frame]
      /\ mode' = [mode EXCEPT ![n] = "TX"]
      /\ events' = [events EXCEPT ![n] = @ \ {"arqTimeout"}]
      /\ UNCHANGED <<pduBuffer, seqNum, dest, sduIn, arqPdu, rcvdData, timer, history>>
  BY DEF Retransmit, TimedOut, Transmit, Goto, Clear
<1> HIDE DEF frame
<1>4. retxCnt' \in [Nodes -> 0 .. MAX_RETX]
  BY BoundsAssumption DEF Retransmit, TypeOK
<1>5. TypeOK'
  BY <1>2, <1>3, <1>4 DEF history, TypeOK
<1>6. mode[n] = "ACK"
  BY DEF Retransmit, TimedOut
<1>7. \A m \in Nodes : TxEvents(m)' = TxEvents(m)
  BY <1>3 DEF TxEvents, TypeOK
<1>8. OneAtATime' /\ OneEnd'
  BY <1>2, <1>3, <1>6, <1>7, QuietOutsideTx DEF OneAtATime, OneEnd, TxEvents, TypeOK
<1>9. WaitIsTimed'
  BY <1>3 DEF WaitIsTimed, TypeOK
<1>10. Filled'
  BY <1>1, <1>3 DEF Filled, HasPdu, HasDest, TypeOK
<1> QED BY <1>5, <1>8, <1>9, <1>10

(* Giving up ends the wait with the event of the timer. *)
LEMMA GiveUpKeeps ==
    ASSUME IInv, NEW n \in Nodes, GiveUp(n)
    PROVE  IInv'
<1> USE DEF IInv
<1>1. arqPdu[n].msg \in Message
  BY DEF GiveUp, TimedOut, Filled, HasPdu
<1>2. TypeOK'
  BY <1>1 DEF GiveUp, TimedOut, Goto, Clear, TypeOK
<1>3. \A m \in Nodes : TxEvents(m)' = TxEvents(m)
  BY DEF GiveUp, TimedOut, Clear, TxEvents, TypeOK
<1>4. OneAtATime' /\ OneEnd'
  <2>1. mode[n] = "ACK" /\ mode' = [mode EXCEPT ![n] = "IDLE"] /\ air' = air
    BY DEF GiveUp, TimedOut, Goto
  <2>2. OneAtATime'
    BY <1>3, <2>1 DEF OneAtATime, TypeOK
  <2>3. \A m \in Nodes : events'[m] \subseteq events[m]
    BY DEF GiveUp, TimedOut, Clear, TypeOK
  <2> QED BY <2>2, <2>3 DEF OneEnd
<1>5. WaitIsTimed'
  BY DEF GiveUp, TimedOut, Goto, Clear, WaitIsTimed, TypeOK
<1>6. Filled'
  BY DEF GiveUp, TimedOut, Clear, Filled, HasPdu, HasDest, TypeOK
<1> QED BY <1>2, <1>4, <1>5, <1>6

(* Clearing a stale event takes no timeout from a board that waits. *)
LEMMA IgnoreKeeps ==
    ASSUME IInv, NEW n \in Nodes, Ignore(n)
    PROVE  IInv'
<1> USE DEF IInv
<1>1. PICK e \in {"dataTxDone", "ackTxDone", "arqTimeout"} \cap events[n] : Clear(n, e)
  BY DEF Ignore
<1>2. e = "arqTimeout" /\ mode[n] # "ACK"
  BY QuietOutsideTx DEF Ignore, TxEvents, TypeOK
<1>3. TypeOK'
  BY <1>1 DEF Ignore, Clear, history, TypeOK
<1>4. \A m \in Nodes : TxEvents(m)' = TxEvents(m)
  BY <1>1, <1>2 DEF Clear, TxEvents, TypeOK
<1>5. OneAtATime' /\ OneEnd'
  BY <1>4 DEF Ignore, OneAtATime, OneEnd, TxEvents
<1>6. WaitIsTimed'
  BY <1>1, <1>2 DEF Ignore, Clear, WaitIsTimed, TypeOK
<1>7. Filled'
  BY <1>1 DEF Ignore, Clear, Filled, HasPdu, HasDest, TypeOK
<1> QED BY <1>3, <1>5, <1>6, <1>7

-----------------------------------------------------------------------------

(* Every step of any board keeps the invariant. *)
LEMMA NextIInv == IInv /\ [Next]_vars => IInv'
<1> SUFFICES ASSUME IInv, [Next]_vars PROVE IInv'
  OBVIOUS
<1>1. CASE UNCHANGED vars
  BY <1>1 DEF vars, history, IInv, TypeOK, OneAtATime, WaitIsTimed, Filled, OneEnd,
              HasPdu, HasDest, TxEvents
<1>2. ASSUME NEW link \in Links, DataReq(link[1], link[2])
      PROVE  IInv'
  BY <1>2, DataReqKeeps, LinksAssumption
<1>3. ASSUME NEW n \in Nodes, FSMrun(n)
      PROVE  IInv'
  <2>1. CASE IdleReceive(n) \/ AckReceive(n)
    <3>1. mode[n] # "TX" /\ "dataRcvd" \in events[n] /\ Take(n)
      BY <2>1 DEF IdleReceive, AckReceive
    <3> QED BY <3>1, TakeBroadcastKeeps, TakeUnicastKeeps DEF Take
  <2> QED
    BY <1>3, <2>1, IdleSendKeeps, IgnoreKeeps, TxDoneKeeps, AckReceivedKeeps,
       RetransmitKeeps, GiveUpKeeps DEF FSMrun
<1>4. ASSUME NEW n \in Nodes, NEW R \in SUBSET Nodes, FrameEnds(n, R)
      PROVE  IInv'
  BY <1>4, FrameEndsKeeps
<1>5. ASSUME NEW n \in Nodes, TimerFires(n)
      PROVE  IInv'
  BY <1>5, TimerFiresKeeps
<1> QED BY <1>1, <1>2, <1>3, <1>4, <1>5 DEF Next

(* The invariant holds of every execution of any boards and links. *)
THEOREM InductiveInvariant == Spec => []IInv
BY InitIInv, NextIInv, PTL DEF Spec

(* Every variable keeps the range of its C object: the retransmissions     *)
(* never pass their maximum, and what is sent or repeated is a frame.      *)
THEOREM TypeCorrect == Spec => []TypeOK
<1>1. IInv => TypeOK
  BY DEF IInv
<1> QED BY <1>1, InductiveInvariant, PTL

(* No frame is handed to a busy radio, and no end of a frame comes to IDLE *)
(* or ACK: the warnings of L2_FSMrun are never printed.                    *)
THEOREM RadioInStep == Spec => []OneAtATime
<1>1. IInv => OneAtATime
  BY DEF IInv
<1> QED BY <1>1, InductiveInvariant, PTL

(* A board that waits for an acknowledgement has a timer running or its    *)
(* event pending, whatever it has sent and received since.                 *)
THEOREM EveryWaitTimed == Spec => []WaitIsTimed
<1>1. IInv => WaitIsTimed
  BY DEF IInv
<1> QED BY <1>1, InductiveInvariant, PTL
-----------------------------------------------------------------------------
(* What arrives from a board that never broadcasts arrives in order and    *)
(* once, until a sequence number wraps.  Frames are around for as long as  *)
(* they are repeated, sent, or left in a buffer; what must be shown is     *)
(* that none of them can still be taken for a later one.                   *)

Around ==
    ({arqPdu[n] : n \in Nodes} \cup {air[n] : n \in Nodes} \cup {rcvdData[n] : n \in Nodes})
    \ {NoFrame}

Shaped(f) ==
    /\ f \in Frame
    /\ f.type = "DATA" => f.msg \in Message /\ f.msg.from = f.src
    /\ f.type = "ACK" => f.to \in Nodes
    /\ OnlyUnicasts(f.src) => f.to \in Nodes

(* What is around looks like what its sender has requested.                *)
Shape ==
    /\ \A f \in Around : Shaped(f)
    /\ \A n \in Nodes :
         /\ arqPdu[n] # NoFrame => arqPdu[n].type = "DATA" /\ arqPdu[n].src = n
         /\ rcvdData[n] # NoFrame => rcvdData[n].to \in {n, Broadcast}
         /\ sduIn[n] # NoMessage => sduIn[n].from = n /\ sduIn[n].id <= given[n]
         /\ OnlyUnicasts(n) /\ (arqPdu[n] # NoFrame \/ sduIn[n] # NoMessage) => dest[n] \in Nodes

DataOf(s) == {f \in Around : f.type = "DATA" /\ f.src = s}

(* Messages of s that have arrived at n.                                   *)
From(s, n) == {msg \in ToSet(delivered[n]) : msg # NoMessage /\ msg.from = s}

(* msg is not the request that waits, nor one to come.                     *)
Taken(s, msg) == msg.id <= given[s] /\ (sduIn[s] # NoMessage => msg.id < sduIn[s].id)

(* Of one board, what is later has the larger number; and where it, or     *)
(* something later, has arrived, its number is no longer expected.         *)
NumbersInOrder(s) ==
    /\ \A f \in DataOf(s) :
         /\ f.seq < seqNum[s]
         /\ Taken(s, f.msg)
         /\ \A g \in DataOf(s) : g.msg.id <= f.msg.id => g.seq <= f.seq
         /\ \A n \in Nodes : \A msg \in From(s, n) : f.msg.id <= msg.id => f.seq < seqNum[n]
    /\ \A n \in Nodes : InOrder(n, s) /\ \A msg \in From(s, n) : Taken(s, msg)

Order == \A s \in Nodes : OnlyUnicasts(s) => NumbersInOrder(s)

(* No number has come to its end, after which it starts again.             *)
NoWrap == \A n \in Nodes : seqNum[n] < SEQ_MOD - 1

(* A frame is around if a board repeats it, sends it or has it received.   *)
LEMMA AroundFact ==
    /\ \A f : f \in Around <=> /\ f # NoFrame
                               /\ \E n \in Nodes : f = arqPdu[n] \/ f = air[n] \/ f = rcvdData[n]
    /\ \A f : f \in Around' <=> /\ f # NoFrame
                                /\ \E n \in Nodes :
                                     f = arqPdu'[n] \/ f = air'[n] \/ f = rcvdData'[n]
BY DEF Around

(* Frames that are replaced at one board are all that a step adds.         *)
LEMMA AroundAfter ==
    ASSUME TypeOK, NEW n \in Nodes, NEW f, NEW g,
           arqPdu' = arqPdu \/ arqPdu' = [arqPdu EXCEPT ![n] = g],
           air' = air \/ air' = [air EXCEPT ![n] = g],
           rcvdData' = rcvdData,
           f \in Around'
    PROVE  f \in Around \/ f = g
<1>1. PICK m \in Nodes : f # NoFrame /\ (f = arqPdu'[m] \/ f = air'[m] \/ f = rcvdData'[m])
  BY AroundFact
<1>2. arqPdu'[m] \in {arqPdu[m], g} /\ air'[m] \in {air[m], g} /\ rcvdData'[m] = rcvdData[m]
  BY DEF TypeOK
<1> QED BY <1>1, <1>2, AroundFact

(* What is sent anew, if a step sends anything anew, is a data frame of    *)
(* IDLE, a repetition or an acknowledgement.                               *)
LEMMA NewFrames ==
    ASSUME TypeOK, NEW n \in Nodes, NEW f \in Around'
    PROVE  /\ UNCHANGED <<arqPdu, air, rcvdData>> => f \in Around
           /\ IdleSend(n) => f \in Around \/ f = DataFrame(n, dest[n], seqNum[n], sduIn[n])
           /\ Retransmit(n) => f \in Around \/ f = [arqPdu[n] EXCEPT !.to = dest[n]]
           /\ TakeUnicast(n) =>
                f \in Around \/ f = AckFrame(n, rcvdData[n].src, rcvdData[n].seq)
<1>1. UNCHANGED <<arqPdu, air, rcvdData>> => f \in Around
  BY AroundFact
<1>2. IdleSend(n) => f \in Around \/ f = DataFrame(n, dest[n], seqNum[n], sduIn[n])
  BY AroundAfter DEF IdleSend, Transmit
<1>3. Retransmit(n) => f \in Around \/ f = [arqPdu[n] EXCEPT !.to = dest[n]]
  BY AroundAfter DEF Retransmit, Transmit
<1>4. TakeUnicast(n) => f \in Around \/ f = AckFrame(n, rcvdData[n].src, rcvdData[n].seq)
  BY AroundAfter DEF TakeUnicast, Transmit
<1> QED BY <1>1, <1>2, <1>3, <1>4

(* The end of a frame moves it to the buffers of those who heard it.       *)
LEMMA MovedFrames ==
    ASSUME TypeOK, NEW n \in Nodes, NEW R \in SUBSET Nodes, FrameEnds(n, R)
    PROVE  /\ Around' \subseteq Around
           /\ \A m \in Nodes : rcvdData'[m] = IF m \in R THEN air[n] ELSE rcvdData[m]
           /\ \A m \in R : air[n].to \in {m, Broadcast}
<1>1. \A m \in Nodes : rcvdData'[m] = IF m \in R THEN air[n] ELSE rcvdData[m]
  BY DEF FrameEnds
<1>2. \A m \in R : air[n].to \in {m, Broadcast}
  BY DEF FrameEnds
<1>3. \A m \in Nodes : arqPdu'[m] = arqPdu[m] /\ air'[m] \in {air[m], NoFrame}
  BY DEF FrameEnds, Transmit, TypeOK
<1>4. ASSUME NEW f \in Around'
      PROVE  f \in Around
  <2>1. PICK m \in Nodes : f # NoFrame /\ (f = arqPdu'[m] \/ f = air'[m] \/ f = rcvdData'[m])
    BY AroundFact
  <2> QED BY <1>1, <1>3, <2>1, AroundFact
<1> QED BY <1>1, <1>2, <1>4

(* The actions that send nothing, receive nothing and deliver nothing.     *)
Silent(n) ==
    \/ TxAckDone(n) \/ TxDataDone(n) \/ AckReceived(n) \/ GiveUp(n) \/ Ignore(n)
    \/ TimerFires(n)

LEMMA SilentKeeps ==
    ASSUME NEW n \in Nodes, Silent(n)
    PROVE  UNCHANGED <<seqNum, dest, sduIn, arqPdu, pduBuffer, rcvdData, air, given, delivered>>
<1>1. CASE TxAckDone(n) \/ TxDataDone(n)
  BY <1>1 DEF TxAckDone, TxDataDone, history
<1>2. CASE AckReceived(n)
  BY <1>2 DEF AckReceived
<1>3. CASE GiveUp(n)
  BY <1>3 DEF GiveUp
<1>4. CASE Ignore(n) \/ TimerFires(n)
  BY <1>4 DEF Ignore, TimerFires, history
<1> QED BY <1>1, <1>2, <1>3, <1>4 DEF Silent

(* Until a number wraps, no step makes one smaller.                        *)
LEMMA NextLarger ==
    ASSUME TypeOK, NoWrap, NEW n \in Nodes
    PROVE  Next_(seqNum[n]) = seqNum[n] + 1 /\ seqNum[n] \in Nat
<1>1. seqNum[n] \in 0 .. SEQ_MOD - 1 /\ SEQ_MOD \in Nat /\ seqNum[n] < SEQ_MOD - 1
  BY BoundsAssumption DEF TypeOK, SeqNums, NoWrap
<1>2. seqNum[n] + 1 \in 0 .. SEQ_MOD - 1
  BY <1>1
<1>3. (seqNum[n] + 1) % SEQ_MOD = seqNum[n] + 1
  BY <1>1, <1>2
<1> QED BY <1>1, <1>3 DEF Next_

LEMMA NumbersGrow ==
    ASSUME TypeOK, NoWrap, Next, NEW m \in Nodes
    PROVE  seqNum[m] \in Nat /\ seqNum'[m] \in Nat /\ seqNum[m] <= seqNum'[m]
<1>1. \A k \in Nodes : Next_(seqNum[k]) = seqNum[k] + 1 /\ seqNum[k] \in Nat
  BY NextLarger
<1> SUFFICES \/ seqNum' = seqNum
             \/ \E n \in Nodes : seqNum' = [seqNum EXCEPT ![n] = Next_(@)]
  <2>1. seqNum \in [Nodes -> Nat]
    BY <1>1 DEF TypeOK
  <2> QED BY <1>1, <2>1
<1>2. ASSUME NEW link \in Links, DataReq(link[1], link[2])
      PROVE  seqNum' = seqNum
  BY <1>2 DEF DataReq
<1>3. ASSUME NEW n \in Nodes, NEW R \in SUBSET Nodes, FrameEnds(n, R)
      PROVE  seqNum' = seqNum
  BY <1>3 DEF FrameEnds
<1>4. ASSUME NEW n \in Nodes, Silent(n) \/ Retransmit(n) \/ TakeBroadcast(n)
      PROVE  seqNum' = seqNum
  BY <1>4, SilentKeeps DEF Retransmit, TakeBroadcast
<1>5. ASSUME NEW n \in Nodes, IdleSend(n)
      PROVE  seqNum' = [seqNum EXCEPT ![n] = Next_(@)] \/ seqNum' = seqNum
  BY <1>5 DEF IdleSend, TypeOK
<1>6. ASSUME NEW n \in Nodes, TakeUnicast(n)
      PROVE  seqNum' = [seqNum EXCEPT ![n] = Next_(@)] \/ seqNum' = seqNum
  BY <1>6 DEF TakeUnicast
<1> QED
  BY <1>2, <1>3, <1>4, <1>5, <1>6
  DEF Next, FSMrun, IdleReceive, AckReceive, Take, Silent

(* What the order of the numbers speaks of are numbers.                    *)
LEMMA NumbersAre ==
    ASSUME TypeOK, Shape, NEW s \in Nodes
    PROVE  /\ seqNum[s] \in Nat /\ given[s] \in Nat
           /\ sduIn[s] # NoMessage => sduIn[s].id \in Nat
           /\ \A f \in DataOf(s) :
                f \in Around /\ f.seq \in Nat /\ f.msg \in Message /\ f.msg.id \in Nat /\ f.msg.from = s
           /\ \A n \in Nodes : \A msg \in From(s, n) : msg \in Message /\ msg.id \in Nat
<1>1. seqNum[s] \in Nat /\ given[s] \in Nat
  BY BoundsAssumption DEF TypeOK, SeqNums
<1>2. sduIn[s] # NoMessage => sduIn[s].id \in Nat
  BY DEF TypeOK, Message
<1>3. \A f \in DataOf(s) :
        f \in Around /\ f.seq \in Nat /\ f.msg \in Message /\ f.msg.id \in Nat /\ f.msg.from = s
  BY BoundsAssumption DEF DataOf, Shape, Shaped, Frame, Message, SeqNums
<1>4. ASSUME NEW n \in Nodes, NEW msg \in From(s, n)
      PROVE  msg \in Message /\ msg.id \in Nat
  <2>1. delivered[n] \in Seq(Message \cup {NoMessage})
    BY DEF TypeOK
  <2>2. ToSet(delivered[n]) \subseteq Message \cup {NoMessage}
    BY <2>1, ElementOfSeq, LenProperties DEF ToSet
  <2>3. msg \in Message
    BY <2>2 DEF From
  <2> QED BY <2>3 DEF Message
<1> QED BY <1>1, <1>2, <1>3, <1>4

(* A step that only sends again what is around already, and delivers       *)
(* nothing, keeps the order.                                               *)
LEMMA CopiesKeepOrder ==
    ASSUME TypeOK, Shape, TypeOK', Shape', NEW s \in Nodes, NumbersInOrder(s),
           \A n \in Nodes : seqNum[n] <= seqNum'[n],
           delivered' = delivered,
           given[s] <= given'[s],
           sduIn'[s] \in {sduIn[s], NoMessage} \/ given[s] < sduIn'[s].id,
           \A f \in DataOf(s)' : \E g \in DataOf(s) : g.msg = f.msg /\ g.seq = f.seq
    PROVE  NumbersInOrder(s)'
<1>1. \A n \in Nodes : seqNum[n] \in Nat /\ seqNum'[n] \in Nat
  BY BoundsAssumption DEF TypeOK, SeqNums
<1>2. \A n \in Nodes : From(s, n)' = From(s, n) /\ InOrder(n, s)' = InOrder(n, s)
  BY DEF From, InOrder
<1>3. \A msg \in Message : Taken(s, msg) => Taken(s, msg)'
  <2> SUFFICES ASSUME NEW msg \in Message, Taken(s, msg)
      PROVE  Taken(s, msg)'
    OBVIOUS
  <2>1. msg.id \in Nat /\ given[s] \in Nat /\ given'[s] \in Nat
    BY DEF TypeOK, Message
  <2>2. sduIn'[s] # NoMessage => sduIn'[s].id \in Nat
    BY DEF TypeOK, Message
  <2> QED BY <2>1, <2>2 DEF Taken
<1>4. ASSUME NEW f \in DataOf(s)'
      PROVE  /\ f.seq < seqNum'[s]
             /\ Taken(s, f.msg)'
             /\ \A g \in DataOf(s)' : g.msg.id <= f.msg.id => g.seq <= f.seq
             /\ \A n \in Nodes : \A msg \in From(s, n)' : f.msg.id <= msg.id => f.seq < seqNum'[n]
  <2>1. PICK h \in DataOf(s) : h.msg = f.msg /\ h.seq = f.seq
    OBVIOUS
  <2>2. h.seq \in Nat /\ h.msg \in Message
    BY NumbersAre
  <2>3. f.seq < seqNum'[s]
    BY <1>1, <2>1, <2>2 DEF NumbersInOrder
  <2>4. Taken(s, f.msg)'
    BY <1>3, <2>1, <2>2 DEF NumbersInOrder
  <2>5. ASSUME NEW g \in DataOf(s)', g.msg.id <= f.msg.id
        PROVE  g.seq <= f.seq
    <3>1. PICK k \in DataOf(s) : k.msg = g.msg /\ k.seq = g.seq
      OBVIOUS
    <3> QED BY <2>1, <2>5, <3>1 DEF NumbersInOrder
  <2>6. ASSUME NEW n \in Nodes, NEW msg \in From(s, n)', f.msg.id <= msg.id
        PROVE  f.seq < seqNum'[n]
    <3>1. h.seq < seqNum[n]
      BY <1>2, <2>1, <2>6 DEF NumbersInOrder
    <3> QED BY <1>1, <2>1, <2>2, <3>1
  <2> QED BY <2>3, <2>4, <2>5, <2>6
<1>5. ASSUME NEW n \in Nodes
      PROVE  InOrder(n, s)' /\ \A msg \in From(s, n)' : Taken(s, msg)'
  BY <1>2, <1>3, NumbersAre DEF NumbersInOrder
<1> QED BY <1>4, <1>5 DEF NumbersInOrder

(* IDLE gives a new message the next number, which is above all others.    *)
LEMMA SendKeepsOrder ==
    ASSUME TypeOK, Shape, TypeOK', Shape', NoWrap, NEW s \in Nodes, NumbersInOrder(s),
           OnlyUnicasts(s), IdleSend(s)
    PROVE  NumbersInOrder(s)'
<1> DEFINE new == DataFrame(s, dest[s], seqNum[s], sduIn[s])
<1>1. sduIn[s] \in Message /\ sduIn[s].id <= given[s]
  BY DEF IdleSend, Shape, TypeOK
<1>2. sduIn'[s] = NoMessage /\ delivered' = delivered /\ given' = given
  BY DEF IdleSend, history, TypeOK
<1>3. new.seq = seqNum[s] /\ new.msg = sduIn[s]
  BY DEF DataFrame
<1>4. dest[s] # Broadcast
  BY BroadcastAssumption DEF IdleSend, Shape
<1>5. seqNum'[s] = seqNum[s] + 1 /\ seqNum[s] \in Nat
      /\ \A n \in Nodes : seqNum[n] \in Nat /\ seqNum'[n] \in Nat /\ seqNum[n] <= seqNum'[n]
  <2>1. \A n \in Nodes : Next_(seqNum[n]) = seqNum[n] + 1 /\ seqNum[n] \in Nat
    BY NextLarger
  <2>2. seqNum' = [seqNum EXCEPT ![s] = seqNum[s] + 1]
    BY <1>4, <2>1 DEF IdleSend
  <2>3. seqNum \in [Nodes -> Nat]
    BY <2>1 DEF TypeOK
  <2> QED BY <2>2, <2>3
<1>6. \A f \in DataOf(s)' : f \in DataOf(s) \/ f = new
  BY NewFrames DEF DataOf
<1>7. \A n \in Nodes : From(s, n)' = From(s, n) /\ InOrder(n, s)' = InOrder(n, s)
  BY <1>2 DEF From, InOrder
<1>8. \A msg \in Message : msg.id <= given[s] => Taken(s, msg)'
  BY <1>2 DEF Taken
<1>9. /\ \A f \in DataOf(s) : /\ f.seq \in Nat /\ f.msg \in Message /\ f.msg.id \in Nat
                              /\ f.seq < seqNum[s] /\ f.msg.id < sduIn[s].id /\ f.msg.id <= given[s]
      /\ \A n \in Nodes : \A msg \in From(s, n) :
           msg.id \in Nat /\ msg.id < sduIn[s].id /\ msg \in Message /\ msg.id <= given[s]
  <2>1. sduIn[s] # NoMessage
    BY DEF IdleSend
  <2> QED BY <2>1, NumbersAre DEF NumbersInOrder, Taken
<1>10. sduIn[s].id \in Nat
  BY <1>1 DEF Message
<1> HIDE DEF new
<1>11. ASSUME NEW f \in DataOf(s)'
       PROVE  /\ f.seq < seqNum'[s]
              /\ Taken(s, f.msg)'
              /\ \A g \in DataOf(s)' : g.msg.id <= f.msg.id => g.seq <= f.seq
              /\ \A n \in Nodes : \A msg \in From(s, n)' : f.msg.id <= msg.id => f.seq < seqNum'[n]
  <2>1. CASE f = new
    <3>1. f.seq < seqNum'[s] /\ Taken(s, f.msg)'
      BY <1>1, <1>3, <1>5, <1>8, <2>1
    <3>2. \A g \in DataOf(s)' : g.seq <= f.seq
      BY <1>3, <1>5, <1>6, <1>9, <2>1
    <3>3. \A n \in Nodes : \A msg \in From(s, n)' : ~(f.msg.id <= msg.id)
      BY <1>3, <1>7, <1>9, <1>10, <2>1
    <3> QED BY <3>1, <3>2, <3>3
  <2>2. CASE f \in DataOf(s)
    <3>1. f.seq < seqNum'[s] /\ Taken(s, f.msg)'
      BY <1>5, <1>8, <1>9, <2>2
    <3>2. \A g \in DataOf(s)' : g.msg.id <= f.msg.id => g.seq <= f.seq
      BY <1>3, <1>6, <1>9, <1>10, <2>2 DEF NumbersInOrder
    <3>3. ASSUME NEW n \in Nodes, NEW msg \in From(s, n)', f.msg.id <= msg.id
          PROVE  f.seq < seqNum'[n]
      <4>1. f.seq < seqNum[n]
        BY <1>7, <2>2, <3>3 DEF NumbersInOrder
      <4> QED BY <1>5, <1>9, <2>2, <4>1
    <3> QED BY <3>1, <3>2, <3>3
  <2> QED BY <1>6, <2>1, <2>2
<1>12. ASSUME NEW n \in Nodes
       PROVE  InOrder(n, s)' /\ \A msg \in From(s, n)' : Taken(s, msg)'
  BY <1>7, <1>8, <1>9 DEF NumbersInOrder
<1> QED BY <1>11, <1>12 DEF NumbersInOrder

(* What a list holds when something is added at its end.                   *)
LEMMA Added ==
    ASSUME NEW S, NEW q \in Seq(S), NEW x \in S
    PROVE  /\ Append(q, x) \in Seq(S)
           /\ DOMAIN Append(q, x) = DOMAIN q \cup {Len(q) + 1}
           /\ DOMAIN q = 1 .. Len(q) /\ Len(q) \in Nat
           /\ \A i \in DOMAIN q : Append(q, x)[i] = q[i]
           /\ Append(q, x)[Len(q) + 1] = x
           /\ ToSet(Append(q, x)) = ToSet(q) \cup {x}
<1>1. /\ Append(q, x) \in Seq(S) /\ Len(q) \in Nat /\ DOMAIN q = 1 .. Len(q)
      /\ Len(Append(q, x)) = Len(q) + 1
      /\ \A i \in 1 .. Len(q) : Append(q, x)[i] = q[i]
      /\ Append(q, x)[Len(q) + 1] = x
  BY AppendProperties, LenProperties
<1>2. DOMAIN Append(q, x) = 1 .. Len(q) + 1
  BY <1>1, LenProperties
<1>3. DOMAIN Append(q, x) = DOMAIN q \cup {Len(q) + 1}
  BY <1>1, <1>2
<1>4. ToSet(Append(q, x)) = ToSet(q) \cup {x}
  BY <1>1, <1>3 DEF ToSet
<1> QED BY <1>1, <1>3, <1>4

(* What a data frame brings to layer 3 is either not from s, or a message  *)
(* of s with the number that the receiver expected and now has passed.     *)
LEMMA WhatIsTaken ==
    ASSUME TypeOK, Shape, NoWrap, NEW s \in Nodes, OnlyUnicasts(s),
           NEW n \in Nodes, rcvdData[n] \in Frame, Take(n)
    PROVE  /\ UNCHANGED <<given, sduIn>>
           /\ DataOf(s)' \subseteq DataOf(s)
           /\ \/ delivered' = delivered
              \/ \E x \in Message \cup {NoMessage} :
                   /\ delivered' = [delivered EXCEPT ![n] = Append(@, x)]
                   /\ \/ x = NoMessage \/ x.from # s
                      \/ \E f \in DataOf(s) :
                           x = f.msg /\ f.seq = seqNum[n] /\ seqNum'[n] = seqNum[n] + 1
<1> DEFINE frame == rcvdData[n]
<1>1. frame \in Around /\ Shaped(frame)
  <2>1. frame # NoFrame
    BY NoFrameAssumption
  <2>2. frame \in Around
    BY <2>1, AroundFact
  <2> QED BY <2>2 DEF Shape
<1>2. frame.type \in {"DATA", "ACK"}
  BY DEF Frame
<1>3. CASE TakeBroadcast(n)
  <2>1. frame.to = Broadcast /\ frame.type = "DATA"
    BY <1>1, <1>2, <1>3, BroadcastAssumption DEF TakeBroadcast, Shaped
  <2>2. frame.msg \in Message /\ frame.msg.from # s
    BY <1>1, <2>1, BroadcastAssumption DEF Shaped
  <2>3. UNCHANGED <<given, sduIn, arqPdu, air, rcvdData>>
    BY <1>3 DEF TakeBroadcast
  <2>4. DataOf(s)' \subseteq DataOf(s)
    BY <2>3, NewFrames DEF DataOf
  <2>5. \E x \in {NoMessage, frame.msg} : delivered' = [delivered EXCEPT ![n] = Append(@, x)]
    BY <1>3 DEF TakeBroadcast, Indicate
  <2> QED BY <2>2, <2>3, <2>4, <2>5
<1>4. CASE TakeUnicast(n)
  <2>1. UNCHANGED <<given, sduIn>>
    BY <1>4 DEF TakeUnicast
  <2>2. DataOf(s)' \subseteq DataOf(s)
    <3>1. ASSUME NEW f \in DataOf(s)'
          PROVE  f \in DataOf(s)
      <4>1. f.type = "DATA" /\ f.src = s /\ f \in Around'
        BY DEF DataOf
      <4>2. f \in Around \/ f = AckFrame(n, rcvdData[n].src, rcvdData[n].seq)
        BY <1>4, <4>1, NewFrames
      <4> QED BY <4>1, <4>2 DEF AckFrame, DataOf
    <3> QED BY <3>1
  <2>3. \/ delivered' = delivered
        \/ /\ frame.type = "DATA" /\ frame.seq = seqNum[n]
           /\ seqNum' = [seqNum EXCEPT ![n] = Next_(@)]
           /\ Indicate(n, frame.msg)
    BY <1>4 DEF TakeUnicast
  <2>4. ASSUME frame.type = "DATA", frame.seq = seqNum[n],
               seqNum' = [seqNum EXCEPT ![n] = Next_(@)], Indicate(n, frame.msg)
        PROVE  \E x \in Message \cup {NoMessage} :
                 /\ delivered' = [delivered EXCEPT ![n] = Append(@, x)]
                 /\ \/ x = NoMessage \/ x.from # s
                    \/ \E f \in DataOf(s) :
                         x = f.msg /\ f.seq = seqNum[n] /\ seqNum'[n] = seqNum[n] + 1
    <3>1. \E x \in {NoMessage, frame.msg} : delivered' = [delivered EXCEPT ![n] = Append(@, x)]
      BY <2>4 DEF Indicate
    <3>2. frame.msg \in Message /\ frame.msg.from = frame.src
      BY <1>1, <2>4 DEF Shaped
    <3>3. frame.src = s => frame \in DataOf(s)
      BY <1>1, <2>4 DEF DataOf
    <3>4. seqNum'[n] = seqNum[n] + 1
      BY <2>4, NextLarger DEF TypeOK
    <3> QED BY <2>4, <3>1, <3>2, <3>3, <3>4
  <2> QED BY <2>1, <2>2, <2>3, <2>4
<1> QED BY <1>3, <1>4 DEF Take

(* What is taken is later than what has arrived, and never taken again.    *)
LEMMA TakeKeepsOrder ==
    ASSUME TypeOK, Shape, TypeOK', Shape', NoWrap, NEW s \in Nodes, NumbersInOrder(s),
           OnlyUnicasts(s), NEW n \in Nodes, rcvdData[n] \in Frame, Take(n),
           \A m \in Nodes : seqNum[m] <= seqNum'[m]
    PROVE  NumbersInOrder(s)'
<1>1. UNCHANGED <<given, sduIn>> /\ DataOf(s)' \subseteq DataOf(s)
  BY WhatIsTaken
<1>2. CASE delivered' = delivered
  <2>1. given[s] <= given'[s]
    BY <1>1 DEF TypeOK
  <2> QED BY <1>1, <1>2, <2>1, CopiesKeepOrder
<1>3. ASSUME NEW x \in Message \cup {NoMessage},
             delivered' = [delivered EXCEPT ![n] = Append(@, x)],
             \/ x = NoMessage \/ x.from # s
             \/ \E f \in DataOf(s) :
                  x = f.msg /\ f.seq = seqNum[n] /\ seqNum'[n] = seqNum[n] + 1
      PROVE  NumbersInOrder(s)'
  <2> DEFINE q == delivered[n]
             mine == x # NoMessage /\ x.from = s
  <2>1. q \in Seq(Message \cup {NoMessage}) /\ delivered'[n] = Append(q, x)
        /\ \A m \in Nodes \ {n} : delivered'[m] = delivered[m]
    BY <1>3 DEF TypeOK
  <2>2. /\ DOMAIN delivered'[n] = DOMAIN q \cup {Len(q) + 1}
        /\ DOMAIN q = 1 .. Len(q) /\ Len(q) \in Nat
        /\ \A i \in DOMAIN q : delivered'[n][i] = q[i]
        /\ delivered'[n][Len(q) + 1] = x
        /\ ToSet(delivered'[n]) = ToSet(q) \cup {x}
    BY <2>1, Added
  <2>3. \A m \in Nodes : \A msg \in From(s, m)' : msg \in From(s, m) \/ (m = n /\ mine /\ msg = x)
    BY <2>1, <2>2 DEF From
  <2>4. \A m \in Nodes : seqNum[m] \in Nat /\ seqNum'[m] \in Nat
    BY BoundsAssumption DEF TypeOK, SeqNums
  <2>5. ASSUME mine
        PROVE  \E f \in DataOf(s) :
                 x = f.msg /\ f.seq = seqNum[n] /\ seqNum'[n] = seqNum[n] + 1
    BY <1>3, <2>5
  <2>6. ASSUME NEW f \in DataOf(s)'
        PROVE  /\ f.seq < seqNum'[s]
               /\ Taken(s, f.msg)'
               /\ \A g \in DataOf(s)' : g.msg.id <= f.msg.id => g.seq <= f.seq
               /\ \A m \in Nodes : \A msg \in From(s, m)' : f.msg.id <= msg.id => f.seq < seqNum'[m]
    <3>1. f \in DataOf(s) /\ f.seq \in Nat
      BY <1>1, NumbersAre
    <3>2. f.seq < seqNum'[s]
      BY <2>4, <3>1 DEF NumbersInOrder
    <3>3. Taken(s, f.msg)'
      BY <1>1, <3>1 DEF NumbersInOrder, Taken
    <3>4. \A g \in DataOf(s)' : g.msg.id <= f.msg.id => g.seq <= f.seq
      BY <1>1, <3>1 DEF NumbersInOrder
    <3>5. ASSUME NEW m \in Nodes, NEW msg \in From(s, m)', f.msg.id <= msg.id
          PROVE  f.seq < seqNum'[m]
      <4>1. CASE msg \in From(s, m)
        <5>1. f.seq < seqNum[m]
          BY <3>1, <3>5, <4>1 DEF NumbersInOrder
        <5> QED BY <2>4, <3>1, <5>1
      <4>2. CASE m = n /\ mine /\ msg = x
        <5>1. PICK h \in DataOf(s) :
                x = h.msg /\ h.seq = seqNum[n] /\ seqNum'[n] = seqNum[n] + 1
          BY <2>5, <4>2
        <5>2. f.seq <= h.seq
          BY <3>1, <3>5, <4>2, <5>1 DEF NumbersInOrder
        <5> QED BY <2>4, <3>1, <4>2, <5>1, <5>2
      <4> QED BY <2>3, <4>1, <4>2
    <3> QED BY <3>2, <3>3, <3>4, <3>5
  <2>7. ASSUME NEW m \in Nodes, NEW msg \in From(s, m)'
        PROVE  Taken(s, msg)'
    <3>1. CASE msg \in From(s, m)
      BY <1>1, <3>1 DEF NumbersInOrder, Taken
    <3>2. CASE mine /\ msg = x
      <4>1. PICK h \in DataOf(s) : x = h.msg
        BY <2>5, <3>2
      <4> QED BY <1>1, <3>2, <4>1 DEF NumbersInOrder, Taken
    <3> QED BY <2>3, <3>1, <3>2
  <2>8. ASSUME NEW m \in Nodes
        PROVE  InOrder(m, s)'
    <3>1. CASE m # n
      BY <2>1, <3>1 DEF NumbersInOrder, InOrder
    <3>2. CASE m = n
      <4> SUFFICES ASSUME NEW i \in DOMAIN delivered'[n], NEW j \in DOMAIN delivered'[n], i < j,
                          NoMessage \notin {delivered'[n][i], delivered'[n][j]},
                          delivered'[n][i].from = s, delivered'[n][j].from = s
          PROVE  delivered'[n][i].id < delivered'[n][j].id
        BY <3>2 DEF InOrder
      <4>1. i \in DOMAIN q
        BY <2>2
      <4>2. CASE j \in DOMAIN q
        BY <2>2, <4>1, <4>2 DEF NumbersInOrder, InOrder
      <4>3. CASE j = Len(q) + 1
        <5>1. mine
          BY <2>2, <4>3
        <5>2. PICK h \in DataOf(s) : x = h.msg /\ h.seq = seqNum[n]
          BY <2>5, <5>1
        <5>3. q[i] \in From(s, n)
          BY <2>2, <4>1 DEF From, ToSet
        <5>4. ~(h.msg.id <= q[i].id)
          BY <2>4, <5>2, <5>3 DEF NumbersInOrder
        <5>5. q[i].id \in Nat /\ h.msg.id \in Nat
          BY <5>2, <5>3, NumbersAre
        <5> QED BY <2>2, <4>1, <4>3, <5>2, <5>4, <5>5
      <4> QED BY <2>2, <4>2, <4>3
    <3> QED BY <3>1, <3>2
  <2> QED BY <2>6, <2>7, <2>8 DEF NumbersInOrder
<1> QED BY <1>2, <1>3, WhatIsTaken

(* Steps that send nothing new, and leave the requests alone, keep the     *)
(* shape of what is around.                                                *)
LEMMA QuietKeepsShape ==
    ASSUME Shape, Around' \subseteq Around, UNCHANGED <<arqPdu, sduIn, given, dest>>,
           \A n \in Nodes : rcvdData'[n] # NoFrame => rcvdData'[n].to \in {n, Broadcast}
    PROVE  Shape'
BY DEF Shape

(* Steps that send frames of the right shape keep it.                      *)
LEMMA ShapeKept ==
    ASSUME IInv, Shape, Next
    PROVE  Shape'
<1> USE DEF IInv
<1>1. ASSUME NEW n \in Nodes, NEW d \in Nodes \cup {Broadcast}, <<n, d>> \in Links, DataReq(n, d)
      PROVE  Shape'
  <2>1. UNCHANGED <<arqPdu, air, rcvdData>>
    BY <1>1 DEF DataReq
  <2>2. Around' \subseteq Around
    BY <2>1, NewFrames
  <2>3. ASSUME NEW m \in Nodes
        PROVE  /\ sduIn'[m] # NoMessage => sduIn'[m].from = m /\ sduIn'[m].id <= given'[m]
               /\ OnlyUnicasts(m) /\ (arqPdu'[m] # NoFrame \/ sduIn'[m] # NoMessage)
                  => dest'[m] \in Nodes
    <3>1. CASE m # n
      BY <1>1, <2>1, <3>1 DEF DataReq, Shape, TypeOK
    <3>2. CASE m = n
      <4>1. sduIn'[n] = [from |-> n, to |-> d, id |-> given[n] + 1] /\ dest'[n] = d
            /\ given'[n] = given[n] + 1 /\ given[n] \in Nat
        BY <1>1 DEF DataReq, TypeOK
      <4>2. OnlyUnicasts(n) => d \in Nodes
        BY <1>1 DEF OnlyUnicasts
      <4> QED BY <3>2, <4>1, <4>2
    <3> QED BY <3>1, <3>2
  <2> QED BY <2>1, <2>2, <2>3 DEF Shape
<1>2. ASSUME NEW n \in Nodes, NEW R \in SUBSET Nodes, FrameEnds(n, R)
      PROVE  Shape'
  <2>1. Around' \subseteq Around
        /\ \A m \in Nodes : rcvdData'[m] # NoFrame => rcvdData'[m].to \in {m, Broadcast}
    BY <1>2, MovedFrames DEF Shape
  <2> QED BY <1>2, <2>1, QuietKeepsShape DEF FrameEnds, history
<1>3. ASSUME NEW n \in Nodes, Silent(n) \/ TakeBroadcast(n)
      PROVE  Shape'
  <2>1. UNCHANGED <<arqPdu, air, rcvdData, sduIn, given, dest>>
    BY <1>3, SilentKeeps DEF TakeBroadcast
  <2>2. Around' \subseteq Around
    BY <2>1, NewFrames
  <2>3. \A m \in Nodes : rcvdData'[m] # NoFrame => rcvdData'[m].to \in {m, Broadcast}
    BY <2>1 DEF Shape
  <2> QED BY <2>1, <2>2, <2>3, QuietKeepsShape
<1>4. ASSUME NEW n \in Nodes, rcvdData[n] \in Frame, TakeUnicast(n)
      PROVE  Shape'
  <2> DEFINE ack == AckFrame(n, rcvdData[n].src, rcvdData[n].seq)
  <2>1. rcvdData[n].src \in Nodes /\ rcvdData[n].seq \in SeqNums
    BY <1>4 DEF Frame
  <2>2. ack \in Frame /\ ack.type = "ACK" /\ ack.to \in Nodes
    BY <2>1, AckIsFrame DEF AckFrame
  <2>3. \A f \in Around' : f \in Around \/ f = ack
    BY <1>4, NewFrames
  <2>4. \A f \in Around' : Shaped(f)
    BY <2>2, <2>3 DEF Shape, Shaped
  <2>5. UNCHANGED <<arqPdu, sduIn, given, dest, rcvdData>>
    BY <1>4 DEF TakeUnicast
  <2> QED BY <2>4, <2>5 DEF Shape
<1>5. ASSUME NEW n \in Nodes, IdleSend(n)
      PROVE  Shape'
  <2> DEFINE new == DataFrame(n, dest[n], seqNum[n], sduIn[n])
  <2>1. /\ dest[n] \in Nodes \cup {Broadcast} /\ sduIn[n] \in Message /\ seqNum[n] \in SeqNums
        /\ sduIn[n].from = n
        /\ OnlyUnicasts(n) => dest[n] \in Nodes
    BY <1>5 DEF IdleSend, Filled, HasDest, TypeOK, Shape
  <2>2. new \in Frame /\ new.type = "DATA" /\ new.src = n /\ new.msg = sduIn[n] /\ new.to = dest[n]
    BY <2>1, DataIsFrame DEF DataFrame
  <2>3. \A f \in Around' : f \in Around \/ f = new
    BY <1>5, NewFrames
  <2>4. \A f \in Around' : Shaped(f)
    BY <2>1, <2>2, <2>3 DEF Shape, Shaped
  <2>5. arqPdu' = [arqPdu EXCEPT ![n] = new] /\ sduIn' = [sduIn EXCEPT ![n] = NoMessage]
        /\ UNCHANGED <<given, dest, rcvdData>>
    BY <1>5 DEF IdleSend, history
  <2> HIDE DEF new
  <2>6. ASSUME NEW m \in Nodes
        PROVE  /\ arqPdu'[m] # NoFrame => arqPdu'[m].type = "DATA" /\ arqPdu'[m].src = m
               /\ sduIn'[m] # NoMessage => sduIn'[m].from = m /\ sduIn'[m].id <= given'[m]
               /\ OnlyUnicasts(m) /\ (arqPdu'[m] # NoFrame \/ sduIn'[m] # NoMessage)
                  => dest'[m] \in Nodes
    <3>1. CASE m = n
      BY <2>1, <2>2, <2>5, <3>1 DEF TypeOK
    <3>2. CASE m # n
      BY <2>5, <3>2 DEF TypeOK, Shape
    <3> QED BY <3>1, <3>2
  <2> QED BY <2>4, <2>5, <2>6 DEF Shape
<1>6. ASSUME NEW n \in Nodes, Retransmit(n)
      PROVE  Shape'
  <2> DEFINE new == [arqPdu[n] EXCEPT !.to = dest[n]]
  <2>1. arqPdu[n] \in Frame /\ arqPdu[n] # NoFrame /\ dest[n] \in Nodes \cup {Broadcast}
    BY <1>6 DEF Retransmit, TimedOut, Filled, HasPdu, HasDest
  <2>2. arqPdu[n] \in Around
    BY <2>1, AroundFact
  <2>3. /\ new \in Frame /\ new.type = "DATA" /\ new.src = n /\ new.to = dest[n]
        /\ new.msg = arqPdu[n].msg /\ arqPdu[n].src = n /\ arqPdu[n].type = "DATA"
    BY <2>1, RedirectedIsFrame DEF Frame, Shape
  <2>4. OnlyUnicasts(n) => dest[n] \in Nodes
    BY <2>1 DEF Shape
  <2>5. \A f \in Around' : f \in Around \/ f = new
    BY <1>6, NewFrames
  <2>6. \A f \in Around' : Shaped(f)
    <3>1. arqPdu[n].msg \in Message /\ arqPdu[n].msg.from = n
      BY <2>2, <2>3 DEF Shape, Shaped
    <3>2. Shaped(new)
      BY <2>3, <2>4, <3>1 DEF Shaped
    <3> QED BY <2>5, <3>2 DEF Shape
  <2>7. UNCHANGED <<arqPdu, sduIn, given, dest, rcvdData>>
    BY <1>6 DEF Retransmit, history
  <2> QED BY <2>6, <2>7 DEF Shape
<1>7. ASSUME NEW n \in Nodes, IdleReceive(n) \/ AckReceive(n)
      PROVE  Shape'
  <2>1. rcvdData[n] \in Frame /\ Take(n)
    BY <1>7 DEF IdleReceive, AckReceive, Filled
  <2> QED BY <1>3, <1>4, <2>1 DEF Take
<1>8. ASSUME NEW link \in Links, DataReq(link[1], link[2])
      PROVE  Shape'
  <2>1. link[1] \in Nodes /\ link[2] \in Nodes \cup {Broadcast} /\ <<link[1], link[2]>> = link
    BY LinksAssumption
  <2> QED BY <1>1, <1>8, <2>1
<1> QED BY <1>2, <1>3, <1>5, <1>6, <1>7, <1>8 DEF Next, FSMrun, Silent

(* A repetition of s is what s sends and repeats already.                  *)
LEMMA RepetitionIsCopy ==
    ASSUME IInv, Shape, NEW n \in Nodes, Retransmit(n), NEW s \in Nodes, NEW f \in DataOf(s)'
    PROVE  \E g \in DataOf(s) : g.msg = f.msg /\ g.seq = f.seq
<1> USE DEF IInv
<1>1. f.type = "DATA" /\ f.src = s
      /\ (f \in Around \/ f = [arqPdu[n] EXCEPT !.to = dest[n]])
  BY NewFrames DEF DataOf
<1>2. arqPdu[n] \in Frame /\ arqPdu[n] \in Around /\ arqPdu[n].type = "DATA"
  BY AroundFact DEF Retransmit, TimedOut, Filled, HasPdu, Shape
<1>3. CASE f = [arqPdu[n] EXCEPT !.to = dest[n]]
  <2>1. f.src = arqPdu[n].src /\ f.msg = arqPdu[n].msg /\ f.seq = arqPdu[n].seq
    BY <1>2, <1>3 DEF Frame
  <2> QED BY <1>1, <1>2, <2>1 DEF DataOf
<1> QED BY <1>1, <1>3 DEF DataOf

(* Until a number wraps, every step keeps the order.                       *)
LEMMA OrderKept ==
    ASSUME IInv, Shape, Order, NoWrap, Next
    PROVE  Order'
<1> USE DEF IInv
<1>1. IInv' /\ Shape' /\ \A n \in Nodes : seqNum[n] <= seqNum'[n]
  BY NextIInv, ShapeKept, NumbersGrow
<1> SUFFICES ASSUME NEW s \in Nodes, OnlyUnicasts(s)
    PROVE  NumbersInOrder(s)'
  BY DEF Order
<1>2. NumbersInOrder(s) /\ given[s] \in Nat /\ sduIn[s] \in Message \cup {NoMessage}
  BY DEF Order, TypeOK
<1>3. ASSUME \A f \in DataOf(s)' : \E g \in DataOf(s) : g.msg = f.msg /\ g.seq = f.seq,
             delivered' = delivered,
             given[s] <= given'[s],
             sduIn'[s] \in {sduIn[s], NoMessage} \/ given[s] < sduIn'[s].id
      PROVE  NumbersInOrder(s)'
  BY <1>1, <1>2, <1>3, CopiesKeepOrder
<1>4. ASSUME NEW n \in Nodes, NEW d, DataReq(n, d)
      PROVE  NumbersInOrder(s)'
  <2>1. UNCHANGED <<arqPdu, air, rcvdData, delivered>>
    BY <1>4 DEF DataReq
  <2>2. DataOf(s)' \subseteq DataOf(s)
    BY <2>1, NewFrames DEF DataOf
  <2>3. CASE n = s
    <3>1. given'[s] = given[s] + 1 /\ sduIn'[s].id = given[s] + 1
      BY <1>4, <2>3 DEF DataReq, TypeOK
    <3> QED BY <1>2, <1>3, <2>1, <2>2, <3>1
  <2>4. CASE n # s
    <3>1. given'[s] = given[s] /\ sduIn'[s] = sduIn[s]
      BY <1>4, <2>4 DEF DataReq, TypeOK
    <3> QED BY <1>2, <1>3, <2>1, <2>2, <3>1
  <2> QED BY <2>3, <2>4
<1>5. ASSUME NEW n \in Nodes, NEW R \in SUBSET Nodes, FrameEnds(n, R)
      PROVE  NumbersInOrder(s)'
  <2>1. DataOf(s)' \subseteq DataOf(s)
    BY <1>5, MovedFrames DEF DataOf
  <2> QED BY <1>2, <1>3, <1>5, <2>1 DEF FrameEnds, history
<1>6. ASSUME NEW n \in Nodes, Silent(n)
      PROVE  NumbersInOrder(s)'
  <2>1. UNCHANGED <<arqPdu, air, rcvdData, delivered, given, sduIn>>
    BY <1>6, SilentKeeps
  <2>2. DataOf(s)' \subseteq DataOf(s)
    BY <2>1, NewFrames DEF DataOf
  <2> QED BY <1>2, <1>3, <2>1, <2>2
<1>7. ASSUME NEW n \in Nodes, Retransmit(n)
      PROVE  NumbersInOrder(s)'
  <2>1. delivered' = delivered /\ given' = given /\ sduIn' = sduIn
    BY <1>7 DEF Retransmit, history
  <2>2. \A f \in DataOf(s)' : \E g \in DataOf(s) : g.msg = f.msg /\ g.seq = f.seq
    BY <1>7, RepetitionIsCopy
  <2> QED BY <1>2, <1>3, <2>1, <2>2
<1>8. ASSUME NEW n \in Nodes, IdleSend(n)
      PROVE  NumbersInOrder(s)'
  <2>1. CASE n = s
    BY <1>1, <1>2, <1>8, <2>1, SendKeepsOrder
  <2>2. CASE n # s
    <3>1. DataOf(s)' \subseteq DataOf(s)
      <4>1. ASSUME NEW f \in DataOf(s)'
            PROVE  f \in DataOf(s)
        <5>1. f \in Around' /\ f.type = "DATA" /\ f.src = s
          BY DEF DataOf
        <5>2. f \in Around \/ f = DataFrame(n, dest[n], seqNum[n], sduIn[n])
          BY <1>8, <5>1, NewFrames
        <5> QED BY <2>2, <5>1, <5>2 DEF DataFrame, DataOf
      <4> QED BY <4>1
    <3>2. delivered' = delivered /\ given' = given /\ sduIn'[s] = sduIn[s]
      BY <1>8, <2>2 DEF IdleSend, history, TypeOK
    <3> QED BY <1>2, <1>3, <3>1, <3>2
  <2> QED BY <2>1, <2>2
<1>9. ASSUME NEW n \in Nodes, IdleReceive(n) \/ AckReceive(n)
      PROVE  NumbersInOrder(s)'
  <2>1. rcvdData[n] \in Frame /\ Take(n)
    BY <1>9 DEF IdleReceive, AckReceive, Filled
  <2> QED BY <1>1, <1>2, <2>1, TakeKeepsOrder
<1>10. ASSUME NEW link \in Links, DataReq(link[1], link[2])
       PROVE  NumbersInOrder(s)'
  BY <1>4, <1>10, LinksAssumption
<1> QED BY <1>5, <1>6, <1>7, <1>8, <1>9, <1>10 DEF Next, FSMrun, Silent

(* A board that starts has sent nothing.                                   *)
LEMMA InitOrder == Init => Shape /\ Order
<1> SUFFICES ASSUME Init PROVE Shape /\ Order
  OBVIOUS
<1>1. Around = {} /\ \A s \in Nodes : DataOf(s) = {}
  BY AroundFact DEF Init, DataOf
<1>2. \A s, n \in Nodes : From(s, n) = {} /\ InOrder(n, s)
  BY DEF Init, From, InOrder, ToSet
<1> QED BY <1>1, <1>2 DEF Init, Shape, Order, NumbersInOrder

(* A step that changes none of this keeps it. *)
LEMMA StutterOrder ==
    ASSUME UNCHANGED <<arqPdu, air, rcvdData, seqNum, dest, sduIn, given, delivered>>
    PROVE  (Shape => Shape') /\ (Order => Order')
<1>1. Around' = Around
  BY DEF Around
<1>2. \A s \in Nodes : DataOf(s)' = DataOf(s)
  BY <1>1 DEF DataOf
<1>3. \A s, n \in Nodes : From(s, n)' = From(s, n) /\ InOrder(n, s)' = InOrder(n, s)
  BY DEF From, InOrder
<1>4. Shape => Shape'
  BY <1>1 DEF Shape
<1>5. Order => Order'
  BY <1>2, <1>3 DEF Order, NumbersInOrder, Taken
<1> QED BY <1>4, <1>5

(* Whatever is lost, repeated, redirected or delayed, and whoever else     *)
(* sends: until a sequence number wraps, what a board that only unicasts   *)
(* sends arrives in the order of the requests, and none of it twice.       *)
THEOREM OrderKeptUntilWrap == Spec /\ []NoWrap => []InOrderOnce
<1> DEFINE Inv == IInv /\ Shape /\ Order
<1>1. Init => Inv
  BY InitIInv, InitOrder
<1>2. Inv /\ NoWrap /\ [Next]_vars => Inv'
  <2> SUFFICES ASSUME Inv, NoWrap, [Next]_vars
      PROVE  Inv'
    OBVIOUS
  <2>1. CASE Next
    BY <2>1, NextIInv, ShapeKept, OrderKept
  <2>2. CASE UNCHANGED vars
    BY <2>2, NextIInv, StutterOrder DEF vars, history
  <2> QED BY <2>1, <2>2
<1>3. Inv => InOrderOnce
  BY DEF Order, NumbersInOrder, InOrderOnce
<1> QED BY <1>1, <1>2, <1>3, PTL DEF Spec

-----------------------------------------------------------------------------
(* What can garble a message is an acknowledgement that passes for data.   *)

(* An acknowledgement that is around is behind the number of the board it  *)
(* goes to, and of the board that has sent it.                             *)
AcksBehind ==
    \A f \in Around : f.type = "ACK" =>
        /\ f.src \notin ahead => f.seq < seqNum[f.src]
        /\ OnlyUnicasts(f.to) /\ f.to \notin ahead => f.seq < seqNum[f.to]

Clean ==
    \A n \in Nodes : OnlyUnicasts(n) /\ n \notin ahead =>
        ~pduBuffer[n] /\ NoMessage \notin ToSet(delivered[n])

(* A new acknowledgement is behind its sender unless the record says so,   *)
(* and behind its receiver, whose own frame it answers.                    *)
LEMMA AcksKept ==
    ASSUME IInv, Shape, Order, NoWrap, AcksBehind, Next, Watch
    PROVE  AcksBehind'
<1> USE DEF IInv
<1>1. \A m \in Nodes : seqNum[m] \in Nat /\ seqNum'[m] \in Nat /\ seqNum[m] <= seqNum'[m]
  BY NumbersGrow
<1>2. ahead \subseteq ahead'
  BY DEF Watch
<1>3. \A f \in Around : f.src \in Nodes /\ f.seq \in Nat /\ (f.type = "ACK" => f.to \in Nodes)
  BY BoundsAssumption DEF Shape, Shaped, Frame, SeqNums
<1> SUFFICES ASSUME NEW f \in Around', f.type = "ACK"
    PROVE  /\ f.src \notin ahead' => f.seq < seqNum'[f.src]
           /\ OnlyUnicasts(f.to) /\ f.to \notin ahead' => f.seq < seqNum'[f.to]
  BY DEF AcksBehind
<1>4. CASE f \in Around
  <2>1. f.src \notin ahead' => f.seq < seqNum[f.src]
    BY <1>2, <1>4 DEF AcksBehind
  <2>2. OnlyUnicasts(f.to) /\ f.to \notin ahead' => f.seq < seqNum[f.to]
    BY <1>2, <1>4 DEF AcksBehind
  <2> QED BY <1>1, <1>3, <1>4, <2>1, <2>2
<1>5. ASSUME NEW n \in Nodes, "dataRcvd" \in events[n], TakeUnicast(n), f \notin Around
      PROVE  /\ f.src \notin ahead' => f.seq < seqNum'[f.src]
             /\ OnlyUnicasts(f.to) /\ f.to \notin ahead' => f.seq < seqNum'[f.to]
  <2> DEFINE frame == rcvdData[n]
  <2>1. f = AckFrame(n, frame.src, frame.seq)
    BY <1>5, NewFrames
  <2>2. frame \in Frame /\ frame \in Around
    BY <1>5, AroundFact, NoFrameAssumption DEF Filled
  <2>3. f.src = n /\ f.to = frame.src /\ f.seq = frame.seq /\ f # NoFrame /\ frame.src \in Nodes
        /\ f.seq \in Nat
    BY <1>3, <2>1, <2>2, AckIsFrame DEF AckFrame, Frame
  <2>4. air'[n] = f
    BY <1>5, <2>1 DEF TakeUnicast, Transmit, TypeOK
  <2>5. n \notin ahead' => f.seq < seqNum'[n]
    <3>1. n \notin ahead' => ~AcksAhead(n)'
      BY DEF Watch
    <3> QED BY <1>1, <2>3, <2>4, <3>1 DEF AcksAhead
  <2>6. ASSUME OnlyUnicasts(frame.src), frame.src \notin ahead'
        PROVE  f.seq < seqNum'[frame.src]
    <3>1. frame.type \in {"DATA", "ACK"}
      BY <2>2 DEF Frame
    <3>2. CASE frame.type = "DATA"
      <4>1. frame \in DataOf(frame.src)
        BY <2>2, <3>2 DEF DataOf
      <4>2. frame.seq < seqNum[frame.src]
        BY <2>3, <2>6, <4>1 DEF Order, NumbersInOrder
      <4> QED BY <1>1, <2>3, <4>2
    <3>3. CASE frame.type = "ACK"
      <4>1. frame.seq < seqNum[frame.src]
        BY <1>2, <2>2, <2>6, <3>3 DEF AcksBehind
      <4> QED BY <1>1, <2>3, <4>1
    <3> QED BY <3>1, <3>2, <3>3
  <2> QED BY <2>3, <2>5, <2>6
<1>6. ASSUME NEW n \in Nodes, NEW R \in SUBSET Nodes, FrameEnds(n, R)
      PROVE  f \in Around
  BY <1>6, MovedFrames
<1>7. ASSUME NEW n \in Nodes, NEW d, DataReq(n, d) \/ Silent(n) \/ TakeBroadcast(n)
      PROVE  f \in Around
  <2>1. UNCHANGED <<arqPdu, air, rcvdData>>
    BY <1>7, SilentKeeps DEF DataReq, TakeBroadcast
  <2> QED BY <2>1, NewFrames
<1>8. ASSUME NEW n \in Nodes, IdleSend(n)
      PROVE  f \in Around
  <2>1. f \in Around \/ f = DataFrame(n, dest[n], seqNum[n], sduIn[n])
    BY <1>8, NewFrames
  <2> QED BY <2>1 DEF DataFrame
<1>9. ASSUME NEW n \in Nodes, Retransmit(n)
      PROVE  f \in Around
  <2>1. arqPdu[n] \in Frame /\ arqPdu[n].type = "DATA"
    BY <1>9 DEF Retransmit, TimedOut, Filled, HasPdu, Shape
  <2>2. f \in Around \/ f = [arqPdu[n] EXCEPT !.to = dest[n]]
    BY <1>9, NewFrames
  <2> QED BY <2>1, <2>2 DEF Frame
<1>10. ASSUME NEW link \in Links, DataReq(link[1], link[2])
       PROVE  f \in Around
  BY <1>7, <1>10, LinksAssumption
<1> QED
  BY <1>4, <1>5, <1>6, <1>7, <1>8, <1>9, <1>10
  DEF Next, FSMrun, IdleReceive, AckReceive, Take, Silent

(* Only a frame with the expected number leaves something in the buffer,   *)
(* and an acknowledgement does not have it.                                *)
LEMMA CleanKept ==
    ASSUME IInv, Shape, NoWrap, AcksBehind, Clean, Next, Watch
    PROVE  Clean'
<1> USE DEF IInv
<1>1. ahead \subseteq ahead'
  BY DEF Watch
<1>2. CASE UNCHANGED <<pduBuffer, delivered>>
  BY <1>1, <1>2 DEF Clean
<1>3. ASSUME NEW n \in Nodes, rcvdData[n] \in Frame, Take(n)
      PROVE  Clean'
  <2> DEFINE frame == rcvdData[n]
  <2>1. frame \in Around /\ Shaped(frame) /\ frame.to \in {n, Broadcast}
    BY <1>3, AroundFact, NoFrameAssumption DEF Shape
  <2>2. \A m \in Nodes \ {n} : pduBuffer'[m] = pduBuffer[m] /\ delivered'[m] = delivered[m]
    BY <1>3 DEF Take, TakeBroadcast, TakeUnicast, Indicate, TypeOK
  <2>3. ASSUME OnlyUnicasts(n), n \notin ahead
        PROVE  ~pduBuffer'[n] /\ NoMessage \notin ToSet(delivered'[n])
    <3>1. ~pduBuffer[n] /\ NoMessage \notin ToSet(delivered[n])
      BY <2>3 DEF Clean
    <3>2. CASE frame.type = "ACK"
      <4>1. frame.to = n
        BY <2>1, <3>2, BroadcastAssumption DEF Shaped
      <4>2. frame.seq < seqNum[n]
        BY <2>1, <2>3, <3>2, <4>1 DEF AcksBehind
      <4>3. frame.seq # seqNum[n]
        BY <4>2, BoundsAssumption DEF TypeOK, SeqNums
      <4>4. TakeUnicast(n) /\ UNCHANGED <<pduBuffer, delivered>>
        BY <1>3, <3>2, <4>1, <4>3, BroadcastAssumption DEF Take, TakeBroadcast, TakeUnicast
      <4> QED BY <3>1, <4>4
    <3>3. CASE frame.type = "DATA"
      <4>1. frame.msg \in Message /\ frame.msg # NoMessage
        BY <2>1, <3>3, NoMessageAssumption DEF Shaped
      <4>2. UNCHANGED <<pduBuffer, delivered>> \/ Indicate(n, frame.msg)
        BY <1>3, <3>3 DEF Take, TakeBroadcast, TakeUnicast
      <4>3. CASE Indicate(n, frame.msg)
        <5>1. delivered'[n] = Append(delivered[n], frame.msg) /\ ~pduBuffer'[n]
          BY <3>1, <4>3 DEF Indicate, TypeOK
        <5>2. ToSet(delivered'[n]) = ToSet(delivered[n]) \cup {frame.msg}
          <6>1. delivered[n] \in Seq(Message \cup {NoMessage}) /\ frame.msg \in Message \cup {NoMessage}
            BY <4>1 DEF TypeOK
          <6> HIDE DEF frame
          <6> QED BY <5>1, <6>1, Added
        <5> QED BY <3>1, <4>1, <5>1, <5>2
      <4> QED BY <3>1, <4>2, <4>3
    <3> QED BY <1>3, <3>2, <3>3 DEF Frame
  <2> QED BY <1>1, <2>2, <2>3 DEF Clean
<1>4. ASSUME NEW n \in Nodes, IdleReceive(n) \/ AckReceive(n)
      PROVE  Clean'
  <2>1. rcvdData[n] \in Frame /\ Take(n)
    BY <1>4 DEF IdleReceive, AckReceive, Filled
  <2> QED BY <1>3, <2>1
<1>5. ASSUME NEW n \in Nodes, Silent(n) \/ IdleSend(n) \/ Retransmit(n)
      PROVE  Clean'
  BY <1>2, <1>5, SilentKeeps DEF IdleSend, Retransmit, history
<1>6. ASSUME NEW n \in Nodes, NEW R \in SUBSET Nodes, FrameEnds(n, R)
      PROVE  Clean'
  BY <1>2, <1>6 DEF FrameEnds, history
<1>7. ASSUME NEW link \in Links, DataReq(link[1], link[2])
      PROVE  Clean'
  BY <1>2, <1>7 DEF DataReq
<1> QED BY <1>4, <1>5, <1>6, <1>7 DEF Next, FSMrun, Silent

(* Nothing arrives garbled at a board that only unicasts, unless it has    *)
(* acknowledged a frame whose number it had not reached: the one way in    *)
(* which an acknowledgement comes to pass for data.                        *)
THEOREM IntactUntilAhead == WatchedSpec /\ []NoWrap => []IntactUnlessAhead
<1> DEFINE Inv == IInv /\ Shape /\ Order /\ AcksBehind /\ Clean
<1>1. WatchedInit => Inv
  <2> SUFFICES ASSUME WatchedInit PROVE Inv
    OBVIOUS
  <2>1. IInv /\ Shape /\ Order
    BY InitIInv, InitOrder DEF WatchedInit
  <2>2. Around = {}
    BY AroundFact DEF WatchedInit, Init
  <2>3. Clean
    BY DEF WatchedInit, Init, Clean, ToSet
  <2> QED BY <2>1, <2>2, <2>3 DEF AcksBehind
<1>2. Inv /\ NoWrap /\ [WatchedNext]_<<vars, ahead>> => Inv'
  <2> SUFFICES ASSUME Inv, NoWrap, [WatchedNext]_<<vars, ahead>>
      PROVE  Inv'
    OBVIOUS
  <2>1. CASE WatchedNext
    BY <2>1, NextIInv, ShapeKept, OrderKept, AcksKept, CleanKept DEF WatchedNext
  <2>2. CASE UNCHANGED <<vars, ahead>>
    <3>1. UNCHANGED <<arqPdu, air, rcvdData, seqNum, dest, sduIn, given, delivered, pduBuffer,
                      ahead>>
      BY <2>2 DEF vars, history
    <3>2. Around' = Around
      BY <3>1 DEF Around
    <3>3. Shape' /\ Order'
      BY <3>1, StutterOrder
    <3>4. AcksBehind' /\ Clean'
      BY <3>1, <3>2 DEF AcksBehind, Clean
    <3> QED BY <2>2, <3>3, <3>4, NextIInv
  <2> QED BY <2>1, <2>2
<1>3. Inv => IntactUnlessAhead
  BY DEF Clean, IntactUnlessAhead
<1> QED BY <1>1, <1>2, <1>3, PTL DEF WatchedSpec

-----------------------------------------------------------------------------
(* A link that is used in one direction implements module Link.            *)

(* Only a sends, and only to b; 0 and 1 are different numbers.             *)
Alone == a \in Nodes /\ b \in Nodes /\ a # b /\ Links = OneWay /\ SEQ_MOD > 1

(* The numbers of the messages that have arrived.                          *)
Ids == {delivered[b][i].id : i \in DOMAIN delivered[b]}

(* a sends data to b, b answers with acknowledgements.                     *)
OneLink ==
    /\ \A n \in Nodes \ {a} : arqPdu[n] = NoFrame /\ sduIn[n] = NoMessage
    /\ \A n \in Nodes \ {a, b} : air[n] = NoFrame /\ rcvdData[n] = NoFrame
    /\ arqPdu[a] # NoFrame =>
         /\ arqPdu[a].type = "DATA" /\ arqPdu[a].src = a /\ arqPdu[a].to = b
         /\ seqNum[a] = Next_(arqPdu[a].seq)
    /\ arqPdu[a] # NoFrame \/ sduIn[a] # NoMessage => dest[a] = b
    /\ air[a] \in {NoFrame, arqPdu[a]}
    /\ rcvdData[b] # NoFrame =>
         /\ rcvdData[b].type = "DATA" /\ rcvdData[b].src = a /\ rcvdData[b].to = b
         /\ rcvdData[b].msg \in Message /\ arqPdu[a] # NoFrame
    /\ air[b] # NoFrame => air[b].type = "ACK" /\ air[b].to = a
    /\ {"dataRcvd", "ackTxDone"} \cap events[a] = {}
    /\ "ackRcvd" \in events[a] => rcvdData[a] # NoFrame
    /\ ~pduBuffer[b]

(* The latest that has arrived is the last thing b has received, or before *)
(* it; b does not expect the number of it.                                 *)
LatestArrived ==
    /\ Ids \subseteq Nat
    /\ sduIn[a] # NoMessage => sduIn[a].id <= given[a]
    /\ arqPdu[a] # NoFrame =>
         /\ arqPdu[a].msg.id <= given[a]
         /\ sduIn[a] # NoMessage => arqPdu[a].msg.id < sduIn[a].id
    /\ rcvdData[b] = NoFrame => Ids = {}
    /\ rcvdData[b] # NoFrame =>
         /\ rcvdData[b].msg.id <= arqPdu[a].msg.id
         /\ rcvdData[b].msg.id = arqPdu[a].msg.id => rcvdData[b] = arqPdu[a]
         /\ \A k \in Ids : k <= rcvdData[b].msg.id
         /\ rcvdData[b].msg.id \in Ids => seqNum[b] = Next_(rcvdData[b].seq)

(* f is the data frame before p, or the acknowledgement of it.             *)
Before(f, p) == f # NoFrame => Next_(f.seq) = p.seq

(* Until a message is given up, a and b are one number apart at most, and  *)
(* the acknowledgements on their way are of this number or the one before. *)
InStep(p) ==
    /\ p = NoFrame =>
         seqNum[a] = seqNum[b] /\ air[b] = NoFrame /\ rcvdData[a] = NoFrame
    /\ p # NoFrame /\ p.msg.id \notin Ids =>
         /\ seqNum[b] = p.seq
         /\ Before(air[b], p) /\ Before(rcvdData[a], p)
         /\ rcvdData[b] # p => Before(rcvdData[b], p)
    /\ p # NoFrame /\ p.msg.id \in Ids =>
         /\ air[b] # NoFrame => air[b].seq = p.seq
         /\ rcvdData[a] # NoFrame => rcvdData[a].seq = p.seq \/ Before(rcvdData[a], p)
    /\ p # NoFrame /\ mode[a] = "IDLE" =>
         p.msg.id \in Ids /\ rcvdData[a] # NoFrame /\ rcvdData[a].seq = p.seq

Stepped == failed[a] = {} => InStep(arqPdu[a])

LinkInv == IInv /\ OneLink /\ LatestArrived /\ Stepped

(* Two numbers that follow each other are different. *)
LEMMA NextDiffers == ASSUME SEQ_MOD > 1, NEW s \in SeqNums PROVE Next_(s) # s
<1>1. SEQ_MOD \in Nat /\ s \in Nat /\ s < SEQ_MOD
  BY BoundsAssumption DEF SeqNums
<1>2. CASE s = SEQ_MOD - 1
  BY <1>1, <1>2 DEF Next_
<1>3. CASE s < SEQ_MOD - 1
  <2>1. s + 1 \in 0 .. SEQ_MOD - 1
    BY <1>1, <1>3
  <2>2. (s + 1) % SEQ_MOD = s + 1
    BY <1>1, <2>1
  <2> QED BY <1>1, <2>2 DEF Next_
<1> QED BY <1>1, <1>2, <1>3

(* What the buffers hold is numbered.                                      *)
LEMMA LinkNumbers ==
    ASSUME Alone, LinkInv
    PROVE  /\ seqNum[a] \in SeqNums /\ seqNum[b] \in SeqNums /\ given[a] \in Nat
           /\ sduIn[a] # NoMessage => sduIn[a] \in Message /\ sduIn[a].id \in Nat \ {0}
           /\ arqPdu[a] # NoFrame =>
                /\ arqPdu[a] \in Frame /\ arqPdu[a].seq \in SeqNums
                /\ arqPdu[a].msg \in Message /\ arqPdu[a].msg.id \in Nat \ {0}
           /\ \A n \in {a, b} :
                /\ rcvdData[n] # NoFrame => rcvdData[n] \in Frame /\ rcvdData[n].seq \in SeqNums
                /\ air[n] # NoFrame => air[n] \in Frame /\ air[n].seq \in SeqNums
           /\ rcvdData[b] # NoFrame => rcvdData[b].msg.id \in Nat \ {0}
<1>1. TypeOK /\ Filled /\ OneLink
  BY DEF LinkInv, IInv
<1>2. seqNum[a] \in SeqNums /\ seqNum[b] \in SeqNums /\ given[a] \in Nat
  BY <1>1 DEF Alone, TypeOK
<1>3. \A msg \in Message : msg.id \in Nat \ {0}
  BY DEF Message
<1>4. \A f \in Frame : f.seq \in SeqNums
  BY DEF Frame
<1>5. sduIn[a] # NoMessage => sduIn[a] \in Message
  BY <1>1 DEF Alone, TypeOK
<1>6. arqPdu[a] # NoFrame => arqPdu[a] \in Frame /\ arqPdu[a].msg \in Message
  BY <1>1 DEF Alone, Filled, HasPdu
<1>7. \A n \in {a, b} : /\ rcvdData[n] # NoFrame => rcvdData[n] \in Frame
                        /\ air[n] # NoFrame => air[n] \in Frame
  BY <1>1 DEF Alone, TypeOK
<1>8. rcvdData[b] # NoFrame => rcvdData[b].msg \in Message
  BY <1>1 DEF OneLink
<1> QED BY <1>2, <1>3, <1>4, <1>5, <1>6, <1>7, <1>8

(* What b has received last is the message of now if that has arrived.     *)
LEMMA ArrivedIsLast ==
    ASSUME Alone, LinkInv, arqPdu[a] # NoFrame, arqPdu[a].msg.id \in Ids
    PROVE  rcvdData[b] = arqPdu[a] /\ seqNum[b] = Next_(arqPdu[a].seq)
<1>1. LatestArrived
  BY DEF LinkInv
<1>2. rcvdData[b] # NoFrame
  BY <1>1 DEF LatestArrived
<1>3. rcvdData[b].msg.id = arqPdu[a].msg.id
  BY <1>1, <1>2, LinkNumbers DEF LatestArrived
<1> QED BY <1>1, <1>2, <1>3 DEF LatestArrived

(* What b takes has not arrived yet: it is later than all that has, and    *)
(* the message of now if none was given up.                                *)
LEMMA TakenIsNew ==
    ASSUME Alone, LinkInv, rcvdData[b] # NoFrame, rcvdData[b].seq = seqNum[b]
    PROVE  /\ \A k \in Ids : k < rcvdData[b].msg.id
           /\ arqPdu[a].msg.id \notin Ids
           /\ failed[a] = {} => rcvdData[b] = arqPdu[a]
<1> DEFINE f == rcvdData[b]
           p == arqPdu[a]
<1>1. LatestArrived /\ OneLink /\ Stepped
  BY DEF LinkInv
<1>2. Next_(f.seq) # f.seq
  BY LinkNumbers, NextDiffers DEF Alone
<1>3. f.msg.id \notin Ids
  BY <1>1, <1>2 DEF LatestArrived
<1>4. \A k \in Ids : k < f.msg.id
  <2>1. \A k \in Ids : k \in Nat /\ k <= f.msg.id /\ k # f.msg.id
    BY <1>1, <1>3 DEF LatestArrived
  <2>2. f.msg.id \in Nat
    BY LinkNumbers
  <2> HIDE DEF f
  <2> QED BY <2>1, <2>2
<1>5. p # NoFrame
  BY <1>1 DEF OneLink
<1>6. p.msg.id \notin Ids
  BY <1>3, <1>5, ArrivedIsLast
<1>7. failed[a] = {} => f = p
  BY <1>1, <1>2, <1>5, <1>6 DEF Stepped, InStep, Before
<1> QED BY <1>4, <1>6, <1>7

(* Only a turns frames into requests, and only b hears data.               *)
LEMMA WhoActs ==
    ASSUME Alone, LinkInv, NEW n \in Nodes
    PROVE  /\ sduIn[n] # NoMessage => n = a
           /\ mode[n] = "ACK" \/ "dataTxDone" \in events[n] => n = a /\ arqPdu[a] # NoFrame
           /\ "dataRcvd" \in events[n] => n = b /\ rcvdData[b] # NoFrame
           /\ air[n] # NoFrame => n \in {a, b}
<1>1. OneLink /\ Filled /\ WaitIsTimed
  BY DEF LinkInv, IInv
<1>2. mode[n] = "ACK" => arqPdu[n] # NoFrame
  BY <1>1 DEF WaitIsTimed, Filled
<1>3. "dataTxDone" \in events[n] => arqPdu[n] # NoFrame
  BY <1>1 DEF Filled
<1>4. "dataRcvd" \in events[n] => rcvdData[n] # NoFrame /\ n # a
  BY <1>1, NoFrameAssumption DEF Filled, OneLink
<1> QED BY <1>1, <1>2, <1>3, <1>4 DEF OneLink

(* A step that neither sends, receives nor delivers keeps all this, if it  *)
(* leads a to IDLE only when its message is answered.                      *)
LEMMA LinkUndisturbed ==
    ASSUME LinkInv, IInv',
           UNCHANGED <<seqNum, dest, sduIn, arqPdu, pduBuffer, rcvdData, air, given, delivered>>,
           events'[a] \subseteq events[a] \cup {"dataTxDone", "arqTimeout"},
           failed'[a] = failed[a] \/ failed'[a] # {},
           (failed'[a] = {} /\ mode'[a] = "IDLE" /\ arqPdu[a] # NoFrame) =>
               \/ mode[a] = "IDLE"
               \/ /\ arqPdu[a].msg.id \in Ids
                  /\ rcvdData[a] # NoFrame /\ rcvdData[a].seq = arqPdu[a].seq
    PROVE  LinkInv'
<1>1. OneLink'
  BY DEF LinkInv, OneLink
<1>2. Ids' = Ids
  BY DEF Ids
<1>3. LatestArrived'
  BY <1>2 DEF LinkInv, LatestArrived
<1>4. Stepped'
  BY <1>2 DEF LinkInv, Stepped, InStep, Before
<1> QED BY <1>1, <1>3, <1>4 DEF LinkInv

(* The request is later than all that was taken. *)
LEMMA LinkDataReq ==
    ASSUME Alone, LinkInv, IInv', DataReq(a, b)
    PROVE  LinkInv'
<1>1. /\ given'[a] = given[a] + 1 /\ sduIn'[a].id = given[a] + 1 /\ dest'[a] = b
      /\ \A n \in Nodes \ {a} : sduIn'[n] = sduIn[n]
      /\ UNCHANGED <<pduBuffer, mode, seqNum, arqPdu, events, rcvdData, air, delivered, failed>>
  BY DEF Alone, LinkInv, IInv, TypeOK, DataReq
<1>2. OneLink'
  BY <1>1 DEF LinkInv, OneLink
<1>3. Ids' = Ids
  BY <1>1 DEF Ids
<1>4. LatestArrived'
  <2>1. arqPdu[a] # NoFrame => arqPdu[a].msg.id < given[a] + 1 /\ arqPdu[a].msg.id <= given[a] + 1
    BY LinkNumbers DEF LinkInv, LatestArrived
  <2>2. given[a] + 1 <= given[a] + 1
    BY LinkNumbers
  <2> QED BY <1>1, <1>3, <2>1, <2>2 DEF LinkInv, LatestArrived
<1>5. Stepped'
  BY <1>1, <1>3 DEF LinkInv, Stepped, InStep, Before
<1> QED BY <1>2, <1>4, <1>5 DEF LinkInv

(* The data frame arrives at b, or not at all. *)
LEMMA LinkDataEnds ==
    ASSUME Alone, LinkInv, IInv', NEW R \in SUBSET Nodes, FrameEnds(a, R)
    PROVE  LinkInv'
<1> DEFINE p == arqPdu[a]
<1>1. p # NoFrame /\ air[a] = p /\ p.type = "DATA" /\ p.to = b /\ p.src = a /\ p.msg \in Message
  BY LinkNumbers DEF FrameEnds, LinkInv, OneLink
<1>2. b # Broadcast /\ R \subseteq {b}
  BY <1>1, BroadcastAssumption DEF Alone, FrameEnds
<1>3. /\ UNCHANGED <<pduBuffer, mode, seqNum, dest, sduIn, arqPdu, given, delivered, failed>>
      /\ \A n \in Nodes : air'[n] = IF n = a THEN NoFrame ELSE air[n]
      /\ \A n \in Nodes : rcvdData'[n] = IF n \in R THEN p ELSE rcvdData[n]
      /\ events'[a] = events[a] \cup {"dataTxDone"}
  BY <1>1, <1>2 DEF Alone, FrameEnds, Transmit, LinkInv, IInv, TypeOK, history
<1>4. OneLink'
  BY <1>1, <1>2, <1>3 DEF Alone, LinkInv, OneLink
<1>5. Ids' = Ids
  BY <1>3 DEF Ids
<1>6. rcvdData'[b] \in {p, rcvdData[b]} /\ rcvdData'[a] = rcvdData[a] /\ air'[b] = air[b]
  BY <1>2, <1>3 DEF Alone
<1>7. LatestArrived'
  <2>1. CASE rcvdData'[b] = rcvdData[b]
    BY <1>3, <1>5, <2>1 DEF LinkInv, LatestArrived
  <2>2. CASE rcvdData'[b] = p
    <3>1. \A k \in Ids : k <= p.msg.id
      <4> SUFFICES ASSUME NEW k \in Ids
          PROVE  k <= p.msg.id
        OBVIOUS
      <4>1. rcvdData[b] # NoFrame /\ k \in Nat
        BY DEF LinkInv, LatestArrived
      <4>2. k <= rcvdData[b].msg.id /\ rcvdData[b].msg.id <= p.msg.id
        BY <4>1 DEF LinkInv, LatestArrived
      <4>3. p.msg.id \in Nat /\ rcvdData[b].msg.id \in Nat
        BY <1>1, <4>1, LinkNumbers
      <4> HIDE DEF p
      <4> QED BY <4>1, <4>2, <4>3
    <3>2. p.msg.id \in Ids => seqNum[b] = Next_(p.seq)
      BY <1>1, ArrivedIsLast
    <3>3. p.msg.id <= p.msg.id
      BY <1>1, LinkNumbers
    <3> QED BY <1>1, <1>3, <1>5, <2>2, <3>1, <3>2, <3>3 DEF LinkInv, LatestArrived
  <2> QED BY <1>6, <2>1, <2>2
<1>8. Stepped'
  BY <1>1, <1>3, <1>5, <1>6 DEF LinkInv, Stepped, InStep, Before
<1> QED BY <1>4, <1>7, <1>8 DEF LinkInv

(* The acknowledgement arrives at a, or not at all. *)
LEMMA LinkAckEnds ==
    ASSUME Alone, LinkInv, IInv', NEW R \in SUBSET Nodes, FrameEnds(b, R)
    PROVE  LinkInv'
<1>1. air[b] # NoFrame /\ air[b].type = "ACK" /\ air[b].to = a
  BY DEF FrameEnds, LinkInv, OneLink
<1>2. a # Broadcast /\ R \subseteq {a}
  BY <1>1, BroadcastAssumption DEF Alone, FrameEnds
<1>3. /\ UNCHANGED <<pduBuffer, mode, seqNum, dest, sduIn, arqPdu, given, delivered, failed>>
      /\ \A n \in Nodes : air'[n] = IF n = b THEN NoFrame ELSE air[n]
      /\ \A n \in Nodes : rcvdData'[n] = IF n \in R THEN air[b] ELSE rcvdData[n]
      /\ events'[a] = events[a] \cup IF a \in R THEN {"ackRcvd"} ELSE {}
  BY <1>1, <1>2 DEF Alone, FrameEnds, Transmit, LinkInv, IInv, TypeOK, history
<1>4. OneLink'
  BY <1>1, <1>2, <1>3 DEF Alone, LinkInv, OneLink
<1>5. Ids' = Ids
  BY <1>3 DEF Ids
<1>6. rcvdData'[a] \in {air[b], rcvdData[a]} /\ rcvdData'[b] = rcvdData[b] /\ air'[b] = NoFrame
  BY <1>2, <1>3 DEF Alone
<1>7. LatestArrived'
  BY <1>3, <1>5, <1>6 DEF LinkInv, LatestArrived
<1>8. Stepped'
  BY <1>1, <1>3, <1>5, <1>6 DEF LinkInv, Stepped, InStep, Before
<1> QED BY <1>4, <1>7, <1>8 DEF LinkInv

(* A new message gets the number b expects. *)
LEMMA LinkSend ==
    ASSUME Alone, LinkInv, IInv', IdleSend(a)
    PROVE  LinkInv'
<1> DEFINE p == arqPdu[a]
           new == DataFrame(a, b, seqNum[a], sduIn[a])
<1>1. dest[a] = b /\ sduIn[a] \in Message /\ sduIn[a] # NoMessage /\ mode[a] = "IDLE"
      /\ b # Broadcast
  BY LinkNumbers, BroadcastAssumption DEF Alone, IdleSend, LinkInv, OneLink
<1>2. new # NoFrame /\ new.type = "DATA" /\ new.src = a /\ new.to = b
      /\ new.seq = seqNum[a] /\ new.msg = sduIn[a]
  <2>1. new # NoFrame
    BY <1>1, DataIsFrame, LinkNumbers DEF Alone
  <2> QED BY <2>1 DEF DataFrame
<1>3. /\ UNCHANGED <<pduBuffer, dest, events, rcvdData, given, delivered, failed>>
      /\ \A n \in Nodes : /\ arqPdu'[n] = IF n = a THEN new ELSE arqPdu[n]
                          /\ air'[n] = IF n = a THEN new ELSE air[n]
                          /\ seqNum'[n] = IF n = a THEN Next_(seqNum[a]) ELSE seqNum[n]
                          /\ sduIn'[n] = IF n = a THEN NoMessage ELSE sduIn[n]
                          /\ mode'[n] = IF n = a THEN "TX" ELSE mode[n]
  BY <1>1 DEF Alone, IdleSend, Transmit, Goto, history, LinkInv, IInv, TypeOK
<1> HIDE DEF new
<1>4. OneLink'
  BY <1>1, <1>2, <1>3 DEF Alone, LinkInv, OneLink
<1>5. Ids' = Ids
  BY <1>3 DEF Ids
<1>6. ASSUME rcvdData[b] # NoFrame
      PROVE  p # NoFrame /\ rcvdData[b].msg.id < new.msg.id
  <2>1. p # NoFrame /\ rcvdData[b].msg.id <= p.msg.id /\ p.msg.id < sduIn[a].id
    BY <1>1, <1>6 DEF LinkInv, OneLink, LatestArrived
  <2>2. rcvdData[b].msg.id \in Nat /\ p.msg.id \in Nat /\ sduIn[a].id \in Nat
    BY <1>1, <1>6, <2>1, LinkNumbers
  <2> HIDE DEF p
  <2> QED BY <1>2, <2>1, <2>2
<1>7. new.msg.id \notin Ids
  <2> SUFFICES ASSUME new.msg.id \in Ids
      PROVE  FALSE
    OBVIOUS
  <2>1. rcvdData[b] # NoFrame /\ new.msg.id <= rcvdData[b].msg.id
    BY DEF LinkInv, LatestArrived
  <2>2. rcvdData[b].msg.id \in Nat /\ new.msg.id \in Nat /\ rcvdData[b].msg.id < new.msg.id
    BY <1>1, <1>2, <1>6, <2>1, LinkNumbers
  <2> QED BY <2>1, <2>2
<1>8. LatestArrived'
  <2>1. sduIn'[a] = NoMessage /\ arqPdu'[a] = new /\ new.msg.id <= given[a]
    BY <1>1, <1>2, <1>3 DEF Alone, LinkInv, LatestArrived
  <2>2. rcvdData[b] # NoFrame =>
          /\ rcvdData[b].msg.id <= new.msg.id
          /\ rcvdData[b].msg.id # new.msg.id
    BY <1>1, <1>2, <1>6, LinkNumbers
  <2>3. seqNum'[b] = seqNum[b]
    BY <1>3 DEF Alone
  <2> QED BY <1>3, <1>5, <2>1, <2>2, <2>3 DEF LinkInv, LatestArrived
<1>9. Stepped'
  <2> SUFFICES ASSUME failed[a] = {}
      PROVE  /\ seqNum[b] = new.seq
             /\ Before(air[b], new) /\ Before(rcvdData[a], new) /\ Before(rcvdData[b], new)
    BY <1>2, <1>3, <1>5, <1>7 DEF Alone, Stepped, InStep, Before
  <2>1. InStep(p)
    BY DEF LinkInv, Stepped
  <2>2. CASE p = NoFrame
    <3>1. rcvdData[b] = NoFrame
      BY <2>2 DEF LinkInv, OneLink
    <3> QED BY <1>2, <2>1, <2>2, <3>1 DEF InStep, Before
  <2>3. CASE p # NoFrame
    <3>1. p.msg.id \in Ids /\ rcvdData[a].seq = p.seq
      BY <1>1, <2>1, <2>3 DEF InStep
    <3>2. rcvdData[b] = p /\ seqNum[b] = Next_(p.seq) /\ seqNum[a] = Next_(p.seq)
      BY <2>3, <3>1, ArrivedIsLast DEF LinkInv, OneLink
    <3>3. air[b] # NoFrame => air[b].seq = p.seq
      BY <2>1, <2>3, <3>1 DEF InStep
    <3> QED BY <1>2, <3>1, <3>2, <3>3 DEF Before
  <2> QED BY <2>2, <2>3
<1> QED BY <1>4, <1>8, <1>9 DEF LinkInv

(* The same frame once more: it still goes to b. *)
LEMMA LinkRepeat ==
    ASSUME Alone, LinkInv, IInv', Retransmit(a)
    PROVE  LinkInv'
<1>1. arqPdu[a] # NoFrame /\ arqPdu[a].to = b /\ dest[a] = b /\ arqPdu[a] \in Frame
      /\ mode[a] = "ACK"
  BY WhoActs, LinkNumbers DEF Alone, Retransmit, TimedOut, LinkInv, OneLink
<1>2. [arqPdu[a] EXCEPT !.to = dest[a]] = arqPdu[a]
  BY <1>1 DEF Frame
<1>3. /\ UNCHANGED <<seqNum, dest, sduIn, arqPdu, pduBuffer, rcvdData, given, delivered, failed>>
      /\ \A n \in Nodes : /\ air'[n] = IF n = a THEN arqPdu[a] ELSE air[n]
                          /\ mode'[n] = IF n = a THEN "TX" ELSE mode[n]
      /\ events'[a] \subseteq events[a]
  BY <1>2 DEF Alone, Retransmit, TimedOut, Transmit, Goto, Clear, history, LinkInv, IInv, TypeOK
<1>4. Ids' = Ids
  BY <1>3 DEF Ids
<1>5. OneLink'
  BY <1>1, <1>3 DEF Alone, LinkInv, OneLink
<1>6. LatestArrived'
  BY <1>3, <1>4 DEF LinkInv, LatestArrived
<1>7. Stepped'
  BY <1>1, <1>3, <1>4 DEF Alone, LinkInv, Stepped, InStep, Before
<1> QED BY <1>5, <1>6, <1>7 DEF LinkInv

(* The numbers of what has arrived, in the order of their arrival. *)
InTurn == [i \in DOMAIN delivered[b] |-> delivered[b][i].id]

LEMMA NumbersOf ==
    ASSUME NEW S, NEW q \in Seq(S)
    PROVE  /\ [i \in DOMAIN q |-> q[i].id] \in Seq({q[i].id : i \in DOMAIN q})
           /\ ToSet([i \in DOMAIN q |-> q[i].id]) = {q[i].id : i \in DOMAIN q}
<1> DEFINE T == {q[i].id : i \in DOMAIN q}
           t == [i \in DOMAIN q |-> q[i].id]
<1>1. Len(q) \in Nat /\ DOMAIN q = 1 .. Len(q)
  BY LenProperties
<1>2. t \in [1 .. Len(q) -> T]
  BY <1>1
<1>3. t \in Seq(T)
  <2> HIDE DEF t, T
  <2> QED BY <1>1, <1>2, IsASeq
<1> QED BY <1>3 DEF ToSet

(* What arrives is put at their end. *)
LEMMA OneMoreArrived ==
    ASSUME Alone, IInv, IInv', NEW msg \in Message,
           delivered' = [delivered EXCEPT ![b] = Append(@, msg)]
    PROVE  Ids' = Ids \cup {msg.id} /\ InTurn' = Append(InTurn, msg.id)
<1> DEFINE q == delivered[b]
           r == delivered'[b]
<1>1. q \in Seq(Message \cup {NoMessage}) /\ r = Append(q, msg)
  BY DEF Alone, IInv, TypeOK
<1>2. /\ DOMAIN r = DOMAIN q \cup {Len(q) + 1}
      /\ DOMAIN q = 1 .. Len(q) /\ Len(q) \in Nat
      /\ \A i \in DOMAIN q : r[i] = q[i]
      /\ r[Len(q) + 1] = msg
      /\ r \in Seq(Message \cup {NoMessage})
  <2>1. msg \in Message \cup {NoMessage}
    OBVIOUS
  <2> HIDE DEF q, r
  <2> QED BY <1>1, <2>1, Added
<1>3. Ids' = Ids \cup {msg.id}
  <2>1. Ids = {q[i].id : i \in DOMAIN q} /\ Ids' = {r[i].id : i \in DOMAIN r}
    BY DEF Ids
  <2> HIDE DEF q, r
  <2> QED BY <1>2, <2>1
<1>4. InTurn = [i \in DOMAIN q |-> q[i].id] /\ InTurn' = [i \in DOMAIN r |-> r[i].id]
  BY DEF InTurn
<1> HIDE DEF q, r
<1>5. InTurn \in Seq(Ids') /\ msg.id \in Ids' /\ InTurn' \in Seq(Ids')
  <2>1. InTurn \in Seq(Ids) /\ InTurn' \in Seq(Ids')
    <3>1. Ids = {q[i].id : i \in DOMAIN q} /\ Ids' = {r[i].id : i \in DOMAIN r}
      BY DEF Ids, q, r
    <3>2. [i \in DOMAIN q |-> q[i].id] \in Seq({q[i].id : i \in DOMAIN q})
      BY <1>1, NumbersOf
    <3>3. [i \in DOMAIN r |-> r[i].id] \in Seq({r[i].id : i \in DOMAIN r})
      BY <1>2, NumbersOf
    <3> QED BY <1>4, <3>1, <3>2, <3>3
  <2>2. InTurn \in Seq(Ids')
    BY <1>3, <2>1, SeqMonotonic
  <2> QED BY <1>3, <2>1, <2>2
<1>6. /\ DOMAIN Append(InTurn, msg.id) = DOMAIN InTurn \cup {Len(InTurn) + 1}
      /\ \A i \in DOMAIN InTurn : Append(InTurn, msg.id)[i] = InTurn[i]
      /\ Append(InTurn, msg.id)[Len(InTurn) + 1] = msg.id
      /\ Append(InTurn, msg.id) \in Seq(Ids')
      /\ DOMAIN InTurn = 1 .. Len(InTurn) /\ Len(InTurn) \in Nat
  BY <1>5, Added
<1>7. Len(InTurn) = Len(q)
  BY <1>2, <1>4, <1>6
<1>8. Len(InTurn') = Len(InTurn) + 1 /\ Len(Append(InTurn, msg.id)) = Len(InTurn) + 1
  <2>1. DOMAIN InTurn' = 1 .. Len(InTurn) + 1 /\ DOMAIN InTurn' = 1 .. Len(InTurn')
        /\ Len(InTurn') \in Nat
    <3>1. DOMAIN r = 1 .. Len(q) + 1
      BY <1>2
    <3> QED BY <1>4, <1>5, <1>7, <3>1, LenProperties
  <2> QED BY <1>5, <1>6, <2>1, AppendProperties
<1>9. \A i \in 1 .. Len(InTurn) + 1 : InTurn'[i] = Append(InTurn, msg.id)[i]
  BY <1>2, <1>4, <1>6, <1>7
<1>10. InTurn' = Append(InTurn, msg.id)
  BY <1>5, <1>6, <1>8, <1>9, SeqEqual
<1> QED BY <1>3, <1>10

(* What b makes of a frame: it is new and delivered, or not what b expects *)
(* and discarded; it is acknowledged in any case.                          *)
LEMMA LinkTakes ==
    ASSUME Alone, LinkInv, "dataRcvd" \in events[b], Take(b)
    PROVE  /\ rcvdData[b] # NoFrame
           /\ air' = [air EXCEPT ![b] = AckFrame(b, a, rcvdData[b].seq)]
           /\ mode' = [mode EXCEPT ![b] = "TX"]
           /\ events' = [events EXCEPT ![b] = @ \ {"dataRcvd"}]
           /\ UNCHANGED <<dest, sduIn, arqPdu, rcvdData, given, confirmed, failed>>
           /\ \/ /\ rcvdData[b].seq = seqNum[b]
                 /\ delivered' = [delivered EXCEPT ![b] = Append(@, rcvdData[b].msg)]
                 /\ seqNum' = [seqNum EXCEPT ![b] = Next_(@)]
                 /\ pduBuffer' = [pduBuffer EXCEPT ![b] = FALSE]
              \/ rcvdData[b].seq # seqNum[b] /\ UNCHANGED <<delivered, seqNum, pduBuffer>>
<1>1. rcvdData[b] # NoFrame /\ rcvdData[b].type = "DATA" /\ rcvdData[b].src = a
      /\ rcvdData[b].to = b /\ b # Broadcast /\ ~pduBuffer[b]
  BY WhoActs, BroadcastAssumption DEF Alone, LinkInv, OneLink
<1>2. TakeUnicast(b)
  BY <1>1 DEF Take, TakeBroadcast
<1> QED BY <1>1, <1>2 DEF TakeUnicast, Indicate, Transmit, Goto, Clear

LEMMA LinkTake ==
    ASSUME Alone, LinkInv, IInv', "dataRcvd" \in events[b], Take(b)
    PROVE  LinkInv'
<1> DEFINE f == rcvdData[b]
           p == arqPdu[a]
           ack == AckFrame(b, a, rcvdData[b].seq)
<1>1. /\ f # NoFrame /\ p # NoFrame /\ f.msg \in Message
      /\ f.msg.id \in Nat /\ p.msg.id \in Nat /\ f.seq \in SeqNums /\ p.seq \in SeqNums
      /\ f.msg.id <= p.msg.id
  BY LinkTakes, LinkNumbers DEF LinkInv, OneLink, LatestArrived
<1>2. ack # NoFrame /\ ack.type = "ACK" /\ ack.to = a /\ ack.seq = f.seq
  <2>1. ack # NoFrame
    BY <1>1, AckIsFrame DEF Alone
  <2> QED BY <2>1 DEF AckFrame
<1>3. /\ UNCHANGED <<dest, sduIn, arqPdu, rcvdData, given, failed>>
      /\ \A n \in Nodes : air'[n] = IF n = b THEN ack ELSE air[n]
      /\ mode'[a] = mode[a] /\ events'[a] = events[a]
  BY LinkTakes DEF Alone, LinkInv, IInv, TypeOK
<1> HIDE DEF ack
<1>4. CASE f.seq = seqNum[b]
  <2>1. /\ delivered' = [delivered EXCEPT ![b] = Append(@, f.msg)]
        /\ seqNum'[b] = Next_(f.seq) /\ seqNum'[a] = seqNum[a] /\ ~pduBuffer'[b]
    <3>1. /\ delivered' = [delivered EXCEPT ![b] = Append(@, f.msg)]
          /\ seqNum' = [seqNum EXCEPT ![b] = Next_(@)]
          /\ pduBuffer' = [pduBuffer EXCEPT ![b] = FALSE]
      BY <1>4, LinkTakes
    <3>2. seqNum \in [Nodes -> SeqNums] /\ pduBuffer \in [Nodes -> BOOLEAN]
      BY DEF LinkInv, IInv, TypeOK
    <3> QED BY <1>4, <3>1, <3>2 DEF Alone
  <2>2. Ids' = Ids \cup {f.msg.id}
    BY <1>1, <2>1, OneMoreArrived DEF LinkInv
  <2>3. (\A k \in Ids : k < f.msg.id) /\ p.msg.id \notin Ids /\ (failed[a] = {} => f = p)
    BY <1>1, <1>4, TakenIsNew
  <2>4. OneLink'
    BY <1>2, <1>3, <2>1 DEF Alone, LinkInv, OneLink
  <2>5. LatestArrived'
    <3>1. \A k \in Ids' : k \in Nat /\ k <= f.msg.id
      <4>1. \A k \in Ids : k \in Nat /\ k < f.msg.id
        BY <2>3 DEF LinkInv, LatestArrived
      <4>2. \A k \in Ids : k <= f.msg.id
        <5> HIDE DEF f
        <5> QED BY <1>1, <4>1
      <4>3. f.msg.id <= f.msg.id
        <5> HIDE DEF f
        <5> QED BY <1>1
      <4> QED BY <1>1, <2>2, <4>1, <4>2, <4>3
    <3> QED BY <1>1, <1>3, <2>1, <3>1 DEF LinkInv, LatestArrived
  <2>6. Stepped'
    BY <1>1, <1>2, <1>3, <2>1, <2>2, <2>3 DEF Alone, LinkInv, Stepped, InStep, Before
  <2> QED BY <2>4, <2>5, <2>6 DEF LinkInv
<1>5. CASE f.seq # seqNum[b]
  <2>1. UNCHANGED <<delivered, seqNum, pduBuffer>>
    BY <1>5, LinkTakes
  <2>2. Ids' = Ids
    BY <2>1 DEF Ids
  <2>3. OneLink'
    BY <1>2, <1>3, <2>1 DEF Alone, LinkInv, OneLink
  <2>4. LatestArrived'
    BY <1>3, <2>1, <2>2 DEF LinkInv, LatestArrived
  <2>5. Stepped'
    <3> SUFFICES ASSUME failed[a] = {}
        PROVE  InStep(p)'
      BY <1>3 DEF Stepped
    <3>1. InStep(p)
      BY DEF LinkInv, Stepped
    <3>2. p.msg.id \in Ids => f = p
      BY <1>1, ArrivedIsLast
    <3>3. p.msg.id \notin Ids => f # p /\ Next_(f.seq) = p.seq
      BY <1>1, <1>5, <3>1 DEF InStep, Before
    <3>4. air'[b] = ack
      BY <1>3 DEF Alone
    <3> QED BY <1>1, <1>2, <1>3, <2>1, <2>2, <3>1, <3>2, <3>3, <3>4 DEF InStep, Before
  <2> QED BY <2>3, <2>4, <2>5 DEF LinkInv
<1> QED BY <1>4, <1>5

(* An acknowledgement with the number of the message in hand answers it.   *)
LEMMA AckAnswers ==
    ASSUME Alone, LinkInv, AckReceived(a), rcvdData[a].seq = arqPdu[a].seq, failed[a] = {}
    PROVE  arqPdu[a].msg.id \in Ids
<1>1. arqPdu[a] # NoFrame /\ rcvdData[a] # NoFrame
  BY WhoActs DEF Alone, AckReceived, LinkInv, OneLink
<1>2. Next_(rcvdData[a].seq) # arqPdu[a].seq
  BY <1>1, LinkNumbers, NextDiffers DEF Alone
<1> QED BY <1>1, <1>2 DEF LinkInv, Stepped, InStep, Before

(* The other steps send, receive and deliver nothing. *)
LEMMA LinkSilent ==
    ASSUME Alone, LinkInv, IInv', NEW n \in Nodes, Silent(n)
    PROVE  LinkInv'
<1>1. UNCHANGED <<seqNum, dest, sduIn, arqPdu, pduBuffer, rcvdData, air, given, delivered>>
  BY SilentKeeps
<1>2. events'[a] \subseteq events[a] \cup {"dataTxDone", "arqTimeout"}
  <2>1. events \in [Nodes -> SUBSET Events]
    BY DEF LinkInv, IInv, TypeOK
  <2>2. \/ \E e \in Events : Clear(n, e)
        \/ events' = [events EXCEPT ![n] = @ \cup {"arqTimeout"}]
    BY DEF Silent, TxAckDone, TxDataDone, AckReceived, GiveUp, TimedOut, Ignore, TimerFires,
           Clear, Events
  <2> QED BY <2>1, <2>2 DEF Alone, Clear
<1>3. failed'[a] = failed[a] \/ failed'[a] # {}
  <2>1. failed' = failed \/ failed' = [failed EXCEPT ![n] = @ \cup {arqPdu[n].msg}]
    BY DEF Silent, TxAckDone, TxDataDone, AckReceived, GiveUp, Ignore, TimerFires, history
  <2>2. failed \in [Nodes -> SUBSET Message]
    BY DEF LinkInv, IInv, TypeOK
  <2> QED BY <2>1, <2>2 DEF Alone
<1>4. ASSUME failed'[a] = {}, mode'[a] = "IDLE", arqPdu[a] # NoFrame, mode[a] # "IDLE"
      PROVE  /\ arqPdu[a].msg.id \in Ids
             /\ rcvdData[a] # NoFrame /\ rcvdData[a].seq = arqPdu[a].seq
  <2>1. n = a
    BY <1>4 DEF Alone, LinkInv, IInv, TypeOK, Silent, TxAckDone, TxDataDone, AckReceived,
                GiveUp, Ignore, TimerFires, Goto
  <2>2. ~TxAckDone(a) /\ ~Ignore(a) /\ ~TimerFires(a)
    BY <1>4 DEF TxAckDone, Ignore, TimerFires, LinkInv, OneLink
  <2>3. ~TxDataDone(a)
    <3>1. dest[a] = b /\ b # Broadcast
      BY <1>4, BroadcastAssumption DEF Alone, LinkInv, OneLink
    <3> QED BY <1>4, <3>1 DEF Alone, TxDataDone, Goto, LinkInv, IInv, TypeOK
  <2>4. ~GiveUp(a)
    <3>1. failed \in [Nodes -> SUBSET Message]
      BY DEF LinkInv, IInv, TypeOK
    <3> QED BY <1>4, <3>1 DEF Alone, GiveUp
  <2>5. AckReceived(a)
    BY <2>1, <2>2, <2>3, <2>4 DEF Silent
  <2>6. rcvdData[a].seq = arqPdu[a].seq /\ failed[a] = {} /\ rcvdData[a] # NoFrame
    BY <1>4, <2>5 DEF AckReceived, LinkInv, OneLink
  <2> QED BY <2>5, <2>6, AckAnswers
<1> QED BY <1>1, <1>2, <1>3, <1>4, LinkUndisturbed

(* Every step of the boards keeps this. *)
LEMMA LinkInvKept == ASSUME Alone, LinkInv, Next PROVE LinkInv'
<1>1. IInv'
  BY NextIInv DEF LinkInv
<1>2. ASSUME NEW link \in Links, DataReq(link[1], link[2])
      PROVE  LinkInv'
  BY <1>1, <1>2, LinkDataReq DEF Alone, OneWay
<1>3. ASSUME NEW n \in Nodes, NEW R \in SUBSET Nodes, FrameEnds(n, R)
      PROVE  LinkInv'
  BY <1>1, <1>3, WhoActs, LinkDataEnds, LinkAckEnds DEF FrameEnds
<1>4. ASSUME NEW n \in Nodes, Silent(n)
      PROVE  LinkInv'
  BY <1>1, <1>4, LinkSilent
<1>5. ASSUME NEW n \in Nodes, IdleSend(n)
      PROVE  LinkInv'
  BY <1>1, <1>5, WhoActs, LinkSend DEF IdleSend
<1>6. ASSUME NEW n \in Nodes, Retransmit(n)
      PROVE  LinkInv'
  BY <1>1, <1>6, WhoActs, LinkRepeat DEF Retransmit, TimedOut
<1>7. ASSUME NEW n \in Nodes, IdleReceive(n) \/ AckReceive(n)
      PROVE  LinkInv'
  BY <1>1, <1>7, WhoActs, LinkTake DEF IdleReceive, AckReceive
<1> QED BY <1>2, <1>3, <1>4, <1>5, <1>6, <1>7 DEF Next, FSMrun, Silent

LEMMA InitLinkInv == ASSUME Alone, Init PROVE LinkInv
<1>1. IInv
  BY InitIInv
<1>2. OneLink
  BY DEF Alone, Init, OneLink
<1>3. Ids = {} /\ LatestArrived
  BY DEF Alone, Init, Ids, LatestArrived
<1>4. Stepped
  BY DEF Alone, Init, Stepped, InStep, Before
<1> QED BY <1>1, <1>2, <1>3, <1>4 DEF LinkInv

(* What the link is asked for and what it answers, as module Link sees it. *)
Answered == <<given[a], InTurn, {msg.id : msg \in confirmed[a]}, {msg.id : msg \in failed[a]}>>

LEMMA InTurnFact == ASSUME Alone, IInv PROVE LinkAB!ToSet(InTurn) = Ids
<1>1. delivered[b] \in Seq(Message \cup {NoMessage})
  BY DEF Alone, IInv, TypeOK
<1>2. ToSet(InTurn) = Ids
  BY <1>1, NumbersOf DEF InTurn, Ids
<1> QED BY <1>2 DEF ToSet, LinkAB!ToSet

LEMMA LinkSame == ASSUME UNCHANGED Answered PROVE [LinkAB!Next]_LinkAB!vars
BY DEF Answered, InTurn, LinkAB!vars

(* Whatever a board does is a step of module Link, or none. *)
LEMMA LinkStep == ASSUME Alone, LinkInv, Next PROVE [LinkAB!Next]_LinkAB!vars
<1>1. /\ confirmed \in [Nodes -> SUBSET Message] /\ failed \in [Nodes -> SUBSET Message]
      /\ given \in [Nodes -> Nat] /\ IInv'
  BY NextIInv DEF LinkInv, IInv, TypeOK
<1>2. ASSUME UNCHANGED <<delivered, confirmed, failed>>, given'[a] = given[a]
      PROVE  [LinkAB!Next]_LinkAB!vars
  <2>1. UNCHANGED Answered
    BY <1>2 DEF Answered, InTurn
  <2> QED BY <2>1, LinkSame
<1>3. ASSUME NEW link \in Links, DataReq(link[1], link[2])
      PROVE  [LinkAB!Next]_LinkAB!vars
  <2>1. given'[a] = given[a] + 1 /\ UNCHANGED <<delivered, confirmed, failed>>
    BY <1>1, <1>3 DEF Alone, OneWay, DataReq
  <2>2. LinkAB!Request
    BY <2>1 DEF LinkAB!Request
  <2> QED BY <2>2 DEF LinkAB!Next
<1>4. ASSUME NEW n \in Nodes, NEW R \in SUBSET Nodes,
             FrameEnds(n, R) \/ IdleSend(n) \/ Retransmit(n) \/ TxAckDone(n) \/ Ignore(n)
             \/ TimerFires(n)
      PROVE  [LinkAB!Next]_LinkAB!vars
  BY <1>2, <1>4 DEF FrameEnds, IdleSend, Retransmit, TxAckDone, Ignore, TimerFires, history
<1>5. ASSUME NEW n \in Nodes, TxDataDone(n)
      PROVE  [LinkAB!Next]_LinkAB!vars
  <2>1. dest[n] = b /\ b # Broadcast
    BY <1>5, WhoActs, BroadcastAssumption DEF Alone, TxDataDone, LinkInv, OneLink
  <2> QED BY <1>2, <1>5, <2>1 DEF TxDataDone
<1>6. ASSUME arqPdu[a] # NoFrame
      PROVE  arqPdu[a].msg.id \in 1 .. given[a]
  BY <1>6, LinkNumbers DEF LinkInv, LatestArrived
<1>7. ASSUME NEW n \in Nodes, AckReceived(n)
      PROVE  [LinkAB!Next]_LinkAB!vars
  <2>1. n = a /\ arqPdu[a] # NoFrame /\ UNCHANGED <<given, delivered, failed>>
    BY <1>7, WhoActs DEF AckReceived
  <2>2. CASE UNCHANGED confirmed
    BY <1>2, <2>1, <2>2
  <2>3. CASE rcvdData[a].seq = arqPdu[a].seq
             /\ confirmed' = [confirmed EXCEPT ![a] = @ \cup {arqPdu[a].msg}]
    <3> PICK k \in 1 .. given[a] : k = arqPdu[a].msg.id
      BY <1>6, <2>1
    <3>1. {msg.id : msg \in confirmed'[a]} = {msg.id : msg \in confirmed[a]} \cup {k}
      BY <1>1, <2>3 DEF Alone
    <3>2. k \in Ids \/ {msg.id : msg \in failed[a]} # {}
      BY <1>7, <2>1, <2>3, AckAnswers
    <3>3. LinkAB!ToSet(InTurn) = Ids
      BY InTurnFact DEF LinkInv
    <3>4. LinkAB!Confirm(k)
      BY <2>1, <3>1, <3>2, <3>3 DEF LinkAB!Confirm, InTurn
    <3> QED BY <3>4 DEF LinkAB!Next
  <2> QED BY <1>7, <2>1, <2>2, <2>3 DEF AckReceived
<1>8. ASSUME NEW n \in Nodes, GiveUp(n)
      PROVE  [LinkAB!Next]_LinkAB!vars
  <2>1. n = a /\ arqPdu[a] # NoFrame /\ UNCHANGED <<given, delivered, confirmed>>
        /\ failed' = [failed EXCEPT ![a] = @ \cup {arqPdu[a].msg}]
    BY <1>8, WhoActs DEF GiveUp, TimedOut
  <2> PICK k \in 1 .. given[a] : k = arqPdu[a].msg.id
    BY <1>6, <2>1
  <2>2. {msg.id : msg \in failed'[a]} = {msg.id : msg \in failed[a]} \cup {k}
    BY <1>1, <2>1 DEF Alone
  <2>3. LinkAB!Fail(k)
    BY <2>1, <2>2 DEF LinkAB!Fail
  <2> QED BY <2>3 DEF LinkAB!Next
<1>9. ASSUME NEW n \in Nodes, IdleReceive(n) \/ AckReceive(n)
      PROVE  [LinkAB!Next]_LinkAB!vars
  <2>1. n = b /\ "dataRcvd" \in events[b] /\ Take(b)
    BY <1>9, WhoActs DEF IdleReceive, AckReceive
  <2>2. UNCHANGED <<given, confirmed, failed>> /\ rcvdData[b] # NoFrame
    BY <2>1, LinkTakes
  <2>3. CASE UNCHANGED delivered
    BY <1>2, <2>2, <2>3
  <2>4. CASE rcvdData[b].seq = seqNum[b]
             /\ delivered' = [delivered EXCEPT ![b] = Append(@, rcvdData[b].msg)]
    <3>1. rcvdData[b].msg \in Message /\ arqPdu[a] # NoFrame
      BY <2>2 DEF LinkInv, OneLink
    <3> DEFINE id == rcvdData[b].msg.id
    <3>2. id \in 1 .. given[a]
      <4>1. id \in Nat \ {0} /\ arqPdu[a].msg.id \in Nat /\ arqPdu[a].msg.id \in 1 .. given[a]
            /\ id <= arqPdu[a].msg.id /\ given[a] \in Nat
        BY <1>6, <2>2, <3>1, LinkNumbers DEF LinkInv, LatestArrived
      <4> HIDE DEF id
      <4> QED BY <4>1
    <3> PICK k \in 1 .. given[a] : k = id
      BY <3>2
    <3>3. InTurn' = Append(InTurn, k)
      BY <1>1, <2>4, <3>1, OneMoreArrived DEF LinkInv
    <3>4. \A j \in Ids : j < k
      BY <2>2, <2>4, TakenIsNew
    <3>5. LinkAB!ToSet(InTurn) = Ids
      BY InTurnFact DEF LinkInv
    <3>6. LinkAB!Arrive(k)
      BY <2>2, <3>3, <3>4, <3>5 DEF LinkAB!Arrive, InTurn
    <3> QED BY <3>6 DEF LinkAB!Next
  <2> QED BY <2>1, <2>3, <2>4, LinkTakes
<1> QED BY <1>3, <1>4, <1>5, <1>7, <1>8, <1>9 DEF Next, FSMrun

(* A link used in one direction delivers in order and once, and what it    *)
(* confirms has arrived unless a message was given up before: for any      *)
(* number of requests and repetitions, and across the wrap of the numbers. *)
THEOREM LinkKept == ASSUME Alone PROVE Spec => KeepsLink
<1>1. Init => LinkAB!Init
  BY DEF Alone, Init, LinkAB!Init
<1>2. Init => LinkInv
  BY InitLinkInv
<1>3. LinkInv /\ [Next]_vars => LinkInv' /\ [LinkAB!Next]_LinkAB!vars
  <2>1. ASSUME LinkInv, UNCHANGED vars
        PROVE  LinkInv' /\ [LinkAB!Next]_LinkAB!vars
    <3>1. IInv'
      BY <2>1, NextIInv DEF LinkInv
    <3>2. LinkInv'
      BY <2>1, <3>1, LinkUndisturbed DEF vars, history
    <3>3. UNCHANGED Answered
      BY <2>1 DEF vars, history, Answered, InTurn
    <3> QED BY <3>2, <3>3, LinkSame
  <2> QED BY <2>1, LinkInvKept, LinkStep
<1> QED BY <1>1, <1>2, <1>3, PTL DEF Spec, KeepsLink, LinkAB!Spec
=============================================================================
