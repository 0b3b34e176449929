---------------------------------- MODULE Arq ----------------------------------
(***************************************************************************)
(* Layer 2, L2_FSMmain.cpp: stop-and-wait ARQ over a radio channel.  Each  *)
(* board runs the machine IDLE -> TX -> ACK with ONE sequence number, used *)
(* for what it sends and for what it expects, whoever the peer is.         *)
(*                                                                         *)
(* One action is one pass of L2_FSMrun, that is one branch of its switch,  *)
(* or one interrupt: a frame has been sent (and received, by those who     *)
(* hear it), the timer has fired.  A message fits into one frame here, and *)
(* the timer may fire at any moment.  The radio has no memory: a frame     *)
(* arrives when it has been sent, or never.                                *)
(***************************************************************************)
EXTENDS Naturals, Sequences, SequencesExt

CONSTANTS
    Nodes,         \* boards
    Broadcast,     \* L2_BROADCAST_ID
    Links,         \* <<sender, destination>>: the requests layer 3 makes
    NoNode,        \* destL2ID = 0
    NoMessage,     \* no data request
    NoFrame,       \* nothing on the air, nothing received yet
    MAX_RETX,      \* L2_ARQ_MAXRETRANSMISSION
    SEQ_MOD,       \* sequence numbers: 256, since seqNum is a uint8_t
    MAX_REQUESTS   \* MAX_REQUESTS[n]: bound on the data requests of n

ASSUME LinksAssumption == Links \subseteq Nodes \X (Nodes \cup {Broadcast})
ASSUME BroadcastAssumption == Broadcast \notin Nodes
ASSUME BoundsAssumption ==
    MAX_RETX \in Nat /\ SEQ_MOD \in Nat \ {0} /\ MAX_REQUESTS \in [Nodes -> Nat]

VARIABLES
    mode,        \* mode[n]: main_state
    seqNum,      \* seqNum[n]
    dest,        \* dest[n]: destL2ID
    sduIn,       \* sduIn[n]: the request while the event dataToSend is set
    arqPdu,      \* arqPdu[n]: the data frame that is sent and repeated
    retxCnt,     \* retxCnt[n]
    pduBuffer,   \* pduBuffer[n]: bytes of an acknowledgement are left in it
    events,      \* events[n]: the other event flags that are set
    rcvdData,    \* rcvdData[n]: the one buffer for received frames
    timer,       \* timer[n]: timerStatus
    air,         \* air[n]: the frame the radio of n is sending
    given,       \* given[n]: number of data requests of layer 3
    delivered,   \* delivered[n]: the data indications to layer 3 (NoMessage: garbled)
    confirmed,   \* confirmed[n]: messages with DATA_CNF(1)
    failed       \* failed[n]: messages with DATA_CNF(0)

history == <<given, delivered, confirmed, failed>>
vars == <<mode, seqNum, dest, sduIn, arqPdu, retxCnt, pduBuffer, events, rcvdData,
          timer, air, history>>

-----------------------------------------------------------------------------

Message == [from : Nodes, to : Nodes \cup {Broadcast}, id : Nat \ {0}]

SeqNums == 0 .. SEQ_MOD - 1

(* What L2_msg_encodeData and L2_msg_encodeAck write, with what the radio  *)
(* adds: the source, the destination.                                      *)
DataFrame(n, to, seq, msg) == [type |-> "DATA", src |-> n, to |-> to, seq |-> seq, msg |-> msg]
AckFrame(n, to, seq) == [type |-> "ACK", src |-> n, to |-> to, seq |-> seq, msg |-> NoMessage]

Frame == [type : {"DATA", "ACK"}, src : Nodes, to : Nodes \cup {Broadcast},
          seq : SeqNums, msg : Message \cup {NoMessage}]

ASSUME NoFrameAssumption == NoFrame \notin Frame
ASSUME NoMessageAssumption == NoMessage \notin Message

Events == {"dataTxDone", "ackTxDone", "ackRcvd", "dataRcvd", "arqTimeout"}

Next_(seq) == (seq + 1) % SEQ_MOD

Clear(n, e) == events' = [events EXCEPT ![n] = @ \ {e}]

Transmit(n, frame) == air' = [air EXCEPT ![n] = frame]

Goto(n, m) == mode' = [mode EXCEPT ![n] = m]

-----------------------------------------------------------------------------
(* L2_initFSM *)
Init ==
    /\ mode = [n \in Nodes |-> "IDLE"]
    /\ seqNum = [n \in Nodes |-> 0]
    /\ dest = [n \in Nodes |-> NoNode]
    /\ sduIn = [n \in Nodes |-> NoMessage]
    /\ arqPdu = [n \in Nodes |-> NoFrame]
    /\ retxCnt = [n \in Nodes |-> 0]
    /\ pduBuffer = [n \in Nodes |-> FALSE]
    /\ events = [n \in Nodes |-> {}]
    /\ rcvdData = [n \in Nodes |-> NoFrame]
    /\ timer = [n \in Nodes |-> FALSE]
    /\ air = [n \in Nodes |-> NoFrame]
    /\ given = [n \in Nodes |-> 0]
    /\ delivered = [n \in Nodes |-> <<>>]
    /\ confirmed = [n \in Nodes |-> {}]
    /\ failed = [n \in Nodes |-> {}]

(* L2_LLI_handleDataReq: the request and its destination replace those of  *)
(* the request before, whatever layer 2 is doing.                          *)
DataReq(n, d) ==
    /\ given[n] < MAX_REQUESTS[n]
    /\ given' = [given EXCEPT ![n] = @ + 1]
    /\ sduIn' = [sduIn EXCEPT ![n] = [from |-> n, to |-> d, id |-> given[n] + 1]]
    /\ dest' = [dest EXCEPT ![n] = d]
    /\ UNCHANGED <<pduBuffer, mode, seqNum, arqPdu, retxCnt, events, rcvdData, timer, air,
                   delivered, confirmed, failed>>

-----------------------------------------------------------------------------
(* Interrupts of the radio and the timer. *)

(* The frame of n has been sent, and those of R have received it, into     *)
(* their one buffer.                                                       *)
FrameEnds(n, R) ==
    /\ air[n] # NoFrame
    /\ R \subseteq IF air[n].to = Broadcast THEN Nodes \ {n} ELSE {air[n].to}
    /\ Transmit(n, NoFrame)
    /\ rcvdData' = [m \in Nodes |-> IF m \in R THEN air[n] ELSE rcvdData[m]]
    /\ LET data == air[n].type = "DATA"
       IN  events' = [m \in Nodes |->
               events[m]
               \cup (IF m = n THEN {IF data THEN "dataTxDone" ELSE "ackTxDone"} ELSE {})
               \cup (IF m \in R THEN {IF data THEN "dataRcvd" ELSE "ackRcvd"} ELSE {})]
    /\ UNCHANGED <<pduBuffer, mode, seqNum, dest, sduIn, arqPdu, retxCnt, timer, history>>

TimerFires(n) ==
    /\ timer[n]
    /\ timer' = [timer EXCEPT ![n] = FALSE]
    /\ events' = [events EXCEPT ![n] = @ \cup {"arqTimeout"}]
    /\ UNCHANGED <<pduBuffer, mode, seqNum, dest, sduIn, arqPdu, retxCnt, rcvdData, air, history>>

-----------------------------------------------------------------------------
(* The branches of IDLE and ACK for a data frame in the buffer. *)

(* L2_aggregateData, and L3_LLI_dataInd at the end of a message.  Bytes    *)
(* that were left in pduBuffer go in front of the message.                 *)
Indicate(n, msg) ==
    /\ delivered' = [delivered EXCEPT ![n] = Append(@, IF pduBuffer[n] THEN NoMessage ELSE msg)]
    /\ pduBuffer' = [pduBuffer EXCEPT ![n] = FALSE]

(* A broadcast is taken without more.  In ACK this ends the wait for the   *)
(* acknowledgement: the state becomes IDLE, the timer goes on.             *)
TakeBroadcast(n) ==
    /\ rcvdData[n].to = Broadcast
    /\ Indicate(n, rcvdData[n].msg)
    /\ Goto(n, "IDLE")
    /\ Clear(n, "dataRcvd")
    /\ UNCHANGED <<seqNum, dest, sduIn, arqPdu, retxCnt, rcvdData, timer, air,
                   given, confirmed, failed>>

(* Wrong: passes on whatever the number is.                                *)
TakeUnicastUnchecked(n) ==
    LET frame == rcvdData[n]
    IN  /\ frame.to # Broadcast
        /\ Indicate(n, frame.msg)
        /\ seqNum' = [seqNum EXCEPT ![n] = Next_(frame.seq)]
        /\ Transmit(n, AckFrame(n, frame.src, frame.seq))
        /\ Goto(n, "TX")
        /\ Clear(n, "dataRcvd")
        /\ UNCHANGED <<dest, sduIn, arqPdu, retxCnt, rcvdData, timer,
                       given, confirmed, failed>>

(* The frame of a unicast: passed on if it has the expected number, and    *)
(* acknowledged whatever its number is.  When an acknowledgement has       *)
(* replaced the data frame in the buffer, it is taken for data that goes   *)
(* on in the next frame.                                                   *)
TakeUnicast(n) ==
    LET frame == rcvdData[n]
    IN  /\ frame.to # Broadcast
        /\ \/ /\ frame.seq = seqNum[n]
              /\ frame.type = "DATA"
              /\ Indicate(n, frame.msg)
              /\ seqNum' = [seqNum EXCEPT ![n] = Next_(@)]
           \/ /\ frame.seq = seqNum[n]
              /\ frame.type = "ACK"
              /\ pduBuffer' = [pduBuffer EXCEPT ![n] = TRUE]
              /\ seqNum' = [seqNum EXCEPT ![n] = Next_(@)]
              /\ UNCHANGED delivered
           \/ /\ frame.seq # seqNum[n]
              /\ UNCHANGED <<pduBuffer, delivered, seqNum>>
        /\ Transmit(n, AckFrame(n, frame.src, frame.seq))
        /\ Goto(n, "TX")
        /\ Clear(n, "dataRcvd")
        /\ UNCHANGED <<dest, sduIn, arqPdu, retxCnt, rcvdData, timer,
                       given, confirmed, failed>>

Take(n) == TakeBroadcast(n) \/ TakeUnicast(n)

-----------------------------------------------------------------------------
(* L2STATE_IDLE *)

IdleReceive(n) ==
    /\ mode[n] = "IDLE"
    /\ "dataRcvd" \in events[n]
    /\ Take(n)

(* Wrong: the number is advanced by the acknowledgement only.              *)
IdleSendSameNumber(n) ==
    /\ mode[n] = "IDLE"
    /\ "dataRcvd" \notin events[n]
    /\ sduIn[n] # NoMessage
    /\ LET frame == DataFrame(n, dest[n], seqNum[n], sduIn[n])
       IN  /\ arqPdu' = [arqPdu EXCEPT ![n] = frame]
           /\ Transmit(n, frame)
    /\ retxCnt' = [retxCnt EXCEPT ![n] = 0]
    /\ sduIn' = [sduIn EXCEPT ![n] = NoMessage]
    /\ Goto(n, "TX")
    /\ UNCHANGED <<seqNum, pduBuffer, dest, events, rcvdData, timer, history>>

IdleSend(n) ==
    /\ mode[n] = "IDLE"
    /\ "dataRcvd" \notin events[n]
    /\ sduIn[n] # NoMessage
    /\ LET frame == DataFrame(n, dest[n], seqNum[n], sduIn[n])
       IN  /\ arqPdu' = [arqPdu EXCEPT ![n] = frame]
           /\ Transmit(n, frame)
    /\ seqNum' = [seqNum EXCEPT ![n] = IF dest[n] # Broadcast THEN Next_(@) ELSE @]
    /\ retxCnt' = [retxCnt EXCEPT ![n] = 0]
    /\ sduIn' = [sduIn EXCEPT ![n] = NoMessage]
    /\ Goto(n, "TX")
    /\ UNCHANGED <<pduBuffer, dest, events, rcvdData, timer, history>>

-----------------------------------------------------------------------------
(* L2STATE_TX *)

(* An acknowledgement has been sent: back to the wait for one, if there    *)
(* was one, as the timer tells.                                            *)
TxAckDone(n) ==
    /\ mode[n] = "TX"
    /\ "ackTxDone" \in events[n]
    /\ Goto(n, IF timer[n] \/ "arqTimeout" \in events[n] THEN "ACK" ELSE "IDLE")
    /\ Clear(n, "ackTxDone")
    /\ UNCHANGED <<pduBuffer, seqNum, dest, sduIn, arqPdu, retxCnt, rcvdData, timer, air, history>>

(* Wrong: the event is not cleared.                                        *)
TxDataDoneKeepsEvent(n) ==
    /\ mode[n] = "TX"
    /\ "ackTxDone" \notin events[n]
    /\ "dataTxDone" \in events[n]
    /\ Goto(n, IF dest[n] = Broadcast THEN "IDLE" ELSE "ACK")
    /\ timer' = [timer EXCEPT ![n] = dest[n] # Broadcast \/ @]
    /\ UNCHANGED <<pduBuffer, seqNum, dest, sduIn, arqPdu, retxCnt, events, rcvdData, air, history>>

(* Whether it was a broadcast is asked of the destination of now.          *)
TxDataDone(n) ==
    /\ mode[n] = "TX"
    /\ "ackTxDone" \notin events[n]
    /\ "dataTxDone" \in events[n]
    /\ \/ /\ dest[n] = Broadcast
          /\ Goto(n, "IDLE")
          /\ confirmed' = [confirmed EXCEPT ![n] = @ \cup {arqPdu[n].msg}]
          /\ UNCHANGED timer
       \/ /\ dest[n] # Broadcast
          /\ Goto(n, "ACK")
          /\ timer' = [timer EXCEPT ![n] = TRUE]
          /\ UNCHANGED confirmed
    /\ Clear(n, "dataTxDone")
    /\ UNCHANGED <<pduBuffer, seqNum, dest, sduIn, arqPdu, retxCnt, rcvdData, air,
                   given, delivered, failed>>

-----------------------------------------------------------------------------
(* L2STATE_ACK *)

(* Wrong: any acknowledgement will do.                                     *)
AckReceivedUnchecked(n) ==
    /\ mode[n] = "ACK"
    /\ "ackRcvd" \in events[n]
    /\ timer' = [timer EXCEPT ![n] = FALSE]
    /\ Goto(n, "IDLE")
    /\ confirmed' = [confirmed EXCEPT ![n] = @ \cup {arqPdu[n].msg}]
    /\ Clear(n, "ackRcvd")
    /\ UNCHANGED <<pduBuffer, seqNum, dest, sduIn, arqPdu, retxCnt, rcvdData, air,
                   given, delivered, failed>>

(* Wrong: stops the timer before it compares the numbers.                  *)
AckReceivedStopsTimer(n) ==
    /\ mode[n] = "ACK"
    /\ "ackRcvd" \in events[n]
    /\ timer' = [timer EXCEPT ![n] = FALSE]
    /\ \/ /\ rcvdData[n].seq = arqPdu[n].seq
          /\ Goto(n, "IDLE")
          /\ confirmed' = [confirmed EXCEPT ![n] = @ \cup {arqPdu[n].msg}]
       \/ /\ rcvdData[n].seq # arqPdu[n].seq
          /\ UNCHANGED <<mode, confirmed>>
    /\ Clear(n, "ackRcvd")
    /\ UNCHANGED <<pduBuffer, seqNum, dest, sduIn, arqPdu, retxCnt, rcvdData, air,
                   given, delivered, failed>>

AckReceived(n) ==
    /\ mode[n] = "ACK"
    /\ "ackRcvd" \in events[n]
    /\ \/ /\ rcvdData[n].seq = arqPdu[n].seq
          /\ timer' = [timer EXCEPT ![n] = FALSE]
          /\ Goto(n, "IDLE")
          /\ confirmed' = [confirmed EXCEPT ![n] = @ \cup {arqPdu[n].msg}]
       \/ /\ rcvdData[n].seq # arqPdu[n].seq
          /\ UNCHANGED <<pduBuffer, timer, mode, confirmed>>
    /\ Clear(n, "ackRcvd")
    /\ UNCHANGED <<pduBuffer, seqNum, dest, sduIn, arqPdu, retxCnt, rcvdData, air,
                   given, delivered, failed>>

TimedOut(n) ==
    /\ mode[n] = "ACK"
    /\ "ackRcvd" \notin events[n]
    /\ "arqTimeout" \in events[n]
    /\ Clear(n, "arqTimeout")

(* Wrong: the retransmission is not counted.                               *)
RetransmitUncounted(n) ==
    /\ TimedOut(n)
    /\ retxCnt[n] < MAX_RETX
    /\ Transmit(n, [arqPdu[n] EXCEPT !.to = dest[n]])
    /\ Goto(n, "TX")
    /\ UNCHANGED <<pduBuffer, seqNum, dest, sduIn, arqPdu, retxCnt, rcvdData, timer, history>>

(* Wrong: one retransmission too many.                                     *)
RetransmitOnceMore(n) ==
    /\ TimedOut(n)
    /\ retxCnt[n] <= MAX_RETX
    /\ Transmit(n, [arqPdu[n] EXCEPT !.to = dest[n]])
    /\ retxCnt' = [retxCnt EXCEPT ![n] = @ + 1]
    /\ Goto(n, "TX")
    /\ UNCHANGED <<pduBuffer, seqNum, dest, sduIn, arqPdu, rcvdData, timer, history>>

(* The frame is repeated, to the destination of now. *)
Retransmit(n) ==
    /\ TimedOut(n)
    /\ retxCnt[n] < MAX_RETX
    /\ Transmit(n, [arqPdu[n] EXCEPT !.to = dest[n]])
    /\ retxCnt' = [retxCnt EXCEPT ![n] = @ + 1]
    /\ Goto(n, "TX")
    /\ UNCHANGED <<pduBuffer, seqNum, dest, sduIn, arqPdu, rcvdData, timer, history>>

GiveUp(n) ==
    /\ TimedOut(n)
    /\ retxCnt[n] >= MAX_RETX
    /\ failed' = [failed EXCEPT ![n] = @ \cup {arqPdu[n].msg}]
    /\ Goto(n, "IDLE")
    /\ UNCHANGED <<pduBuffer, seqNum, dest, sduIn, arqPdu, retxCnt, rcvdData, timer, air,
                   given, delivered, confirmed>>

AckReceive(n) ==
    /\ mode[n] = "ACK"
    /\ {"ackRcvd", "arqTimeout"} \cap events[n] = {}
    /\ "dataRcvd" \in events[n]
    /\ Take(n)

-----------------------------------------------------------------------------

(* The last branches of IDLE and ACK clear stale events, one in a pass.    *)
(* IDLE does not clear ackRcvd: its branch tests dataTxDone once more.     *)
Ignore(n) ==
    /\ mode[n] # "TX"
    /\ "dataRcvd" \notin events[n]
    /\ mode[n] = "IDLE" => sduIn[n] = NoMessage
    /\ mode[n] = "ACK" => {"ackRcvd", "arqTimeout"} \cap events[n] = {}
    /\ \E e \in {"dataTxDone", "ackTxDone", "arqTimeout"} \cap events[n] :
         /\ e = "ackTxDone" => "dataTxDone" \notin events[n]
         /\ e = "arqTimeout" => {"dataTxDone", "ackTxDone"} \cap events[n] = {}
         /\ Clear(n, e)
    /\ UNCHANGED <<mode, seqNum, dest, sduIn, arqPdu, retxCnt, pduBuffer, rcvdData, timer,
                   air, history>>

-----------------------------------------------------------------------------

FSMrun(n) ==
    \/ IdleReceive(n) \/ IdleSend(n) \/ Ignore(n)
    \/ TxAckDone(n) \/ TxDataDone(n)
    \/ AckReceived(n) \/ Retransmit(n) \/ GiveUp(n) \/ AckReceive(n)

Next ==
    \/ \E link \in Links : DataReq(link[1], link[2])
    \/ \E n \in Nodes : FSMrun(n) \/ TimerFires(n) \/ \E R \in SUBSET Nodes : FrameEnds(n, R)

Spec == Init /\ [][Next]_vars

-----------------------------------------------------------------------------

(* Every variable holds what its C object can hold; the counter of the     *)
(* retransmissions never passes its maximum.                               *)
TypeOK ==
    /\ mode \in [Nodes -> {"IDLE", "TX", "ACK"}]
    /\ seqNum \in [Nodes -> SeqNums]
    /\ dest \in [Nodes -> Nodes \cup {Broadcast, NoNode}]
    /\ sduIn \in [Nodes -> Message \cup {NoMessage}]
    /\ arqPdu \in [Nodes -> Frame \cup {NoFrame}]
    /\ retxCnt \in [Nodes -> 0 .. MAX_RETX]
    /\ pduBuffer \in [Nodes -> BOOLEAN]
    /\ events \in [Nodes -> SUBSET Events]
    /\ rcvdData \in [Nodes -> Frame \cup {NoFrame}]
    /\ timer \in [Nodes -> BOOLEAN]
    /\ air \in [Nodes -> Frame \cup {NoFrame}]
    /\ given \in [Nodes -> Nat]
    /\ delivered \in [Nodes -> Seq(Message \cup {NoMessage})]
    /\ confirmed \in [Nodes -> SUBSET Message]
    /\ failed \in [Nodes -> SUBSET Message]

(* A board sends one frame at a time, and its machine waits for the end of *)
(* it: no frame is handed to a radio that is busy, and the end of a frame  *)
(* "cannot happen" in IDLE and ACK, as the code's warnings say.            *)
TxEvents(n) == {"dataTxDone", "ackTxDone"} \cap events[n]

OneAtATime ==
    \A n \in Nodes :
        /\ (mode[n] = "TX") = (air[n] # NoFrame \/ TxEvents(n) # {})
        /\ ~(air[n] # NoFrame /\ TxEvents(n) # {})

(* A board that waits for an acknowledgement is under a timer, also after  *)
(* it has sent acknowledgements itself meanwhile: it cannot wait for ever. *)
WaitIsTimed ==
    \A n \in Nodes : mode[n] = "ACK" => timer[n] \/ "arqTimeout" \in events[n]

OnlyUnicasts(n) == <<n, Broadcast>> \notin Links

InOrder(n, from) ==
    \A i, j \in DOMAIN delivered[n] :
        (/\ i < j
         /\ NoMessage \notin {delivered[n][i], delivered[n][j]}
         /\ delivered[n][i].from = from
         /\ delivered[n][j].from = from)
        => delivered[n][i].id < delivered[n][j].id

(* "Stop-and-wait ARQ" (README.md): what arrives from one board arrives in *)
(* the order of the requests, and none of it twice.                        *)
InOrderFromAll == \A n, from \in Nodes : InOrder(n, from)

(* The same, of the boards that never broadcast, as the users: whoever     *)
(* else sends meanwhile, and whatever happens to the others.               *)
InOrderOnce == \A n, from \in Nodes : OnlyUnicasts(from) => InOrder(n, from)

Arrived(msg) == \E n \in Nodes : msg \in ToSet(delivered[n])

(* "Stop-and-wait ARQ ... waits for the ACK" (README.md): a message that   *)
(* is confirmed to layer 3 has arrived.                                    *)
ConfirmedHasArrived == \A n \in Nodes : \A msg \in confirmed[n] : Arrived(msg)

(* The same, of links on which nothing has failed. *)
ConfirmedUnlessFailed ==
    (\A n \in Nodes : failed[n] = {}) => ConfirmedHasArrived

(* A message arrives at the board it was requested for, or everywhere.     *)
ForItsReceiver ==
    \A n \in Nodes : \A msg \in ToSet(delivered[n]) :
        msg # NoMessage => msg.to \in {n, Broadcast}

(* "Flow control: the sender waits for the ACK" (README.md): a board does  *)
(* not turn to the next request before the one it has taken is answered.   *)
WaitsForAck ==
    \A n \in Nodes :
        mode[n] = "IDLE" /\ arqPdu[n] # NoFrame
        => arqPdu[n].msg \in confirmed[n] \cup failed[n]
=============================================================================
