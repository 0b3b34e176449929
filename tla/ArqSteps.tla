-------------------------------- MODULE ArqSteps --------------------------------
(***************************************************************************)
(* Layer 2 with its interrupts between the steps of a pass.                *)
(*                                                                         *)
(* In module Arq a pass of L2_FSMrun is atomic.  On the board the radio    *)
(* and the ARQ timer interrupt it anywhere, and two things are shared with *)
(* them without any protection:                                            *)
(*   - the word of the event flags.  Setting or clearing a flag reads the  *)
(*     word and writes it back (L2_FSMevent.cpp), so what an interrupt     *)
(*     sets in between is overwritten;                                     *)
(*   - the buffer rcvdData.  The handler of a data frame keeps a pointer   *)
(*     to it and looks up the sequence number three times; after the first *)
(*     comparison it may print a line (at 9600 baud).                      *)
(* A pass of Arq is here the same pass, except that the word it leaves is  *)
(* written by a step of its own, Store; the handler of a data frame is cut *)
(* between its looks at the buffer.                                        *)
(***************************************************************************)
EXTENDS Naturals, Sequences, SequencesExt

CONSTANTS
    Nodes, Broadcast, Links, NoNode, NoMessage, NoFrame, MAX_RETX, SEQ_MOD, MAX_REQUESTS,
    WordAtomic    \* the flags are changed at once: only the buffer is shared

ASSUME WordAtomicAssumption == WordAtomic \in BOOLEAN
ASSUME LinksAssumption == Links \subseteq Nodes \X (Nodes \cup {Broadcast})
ASSUME BroadcastAssumption == Broadcast \notin Nodes
ASSUME BoundsAssumption ==
    MAX_RETX \in Nat /\ SEQ_MOD \in Nat \ {0} /\ MAX_REQUESTS \in [Nodes -> Nat]

VARIABLES
    mode, seqNum, dest, sduIn, arqPdu, retxCnt, pduBuffer, events, rcvdData, timer, air,
    given, delivered, confirmed, failed,
    at,      \* at[n]: where the main loop of n stands
    word,    \* word[n]: the word it has read, and the one it is going to write
    frame,   \* frame[n]: the header of the frame whose handler is running
    lost     \* lost[n]: events that were overwritten

arqVars == <<mode, seqNum, dest, sduIn, arqPdu, retxCnt, pduBuffer, rcvdData, timer, air,
             given, delivered, confirmed, failed>>
vars == <<arqVars, events, at, word, frame, lost>>

(* The events as the main loop of each board is going to leave them.       *)
Left == [n \in Nodes |-> IF at[n] = "store" THEN word[n].new ELSE events[n]]

(* What a pass does to everything else, and what an interrupt does.        *)
Pass == INSTANCE Arq WITH events <- Left
Interrupt == INSTANCE Arq

ASSUME NoFrameAssumption == NoFrame \notin Interrupt!Frame

Header == [src : Nodes, broadcast : BOOLEAN, end : BOOLEAN]

Moves(n, from, to) == at[n] = from /\ at' = [at EXCEPT ![n] = to]

Unread == [old |-> {}, new |-> {}]

Init ==
    /\ Interrupt!Init
    /\ at = [n \in Nodes |-> "loop"]
    /\ word = [n \in Nodes |-> Unread]
    /\ frame = [n \in Nodes |-> [src |-> n, broadcast |-> FALSE, end |-> FALSE]]
    /\ lost = [n \in Nodes |-> {}]

-----------------------------------------------------------------------------
(* L2_event_setEventFlag, L2_event_clearEventFlag: the two halves.         *)

(* Reads the word, to take the events of E out of it.                      *)
Load(n, E) == word' = [word EXCEPT ![n] = [old |-> events[n], new |-> events[n] \ E]]

(* Writes it back: what was set meanwhile is gone.                         *)
Write(n) ==
    /\ events' = [events EXCEPT ![n] = word[n].new]
    /\ lost' = [lost EXCEPT ![n] = @ \cup (events[n] \ word[n].old)]
    /\ word' = [word EXCEPT ![n] = Unread]
    /\ UNCHANGED <<arqVars, frame>>

(* The end of a pass. *)
Store(n) == Moves(n, "store", "loop") /\ Write(n)

(* A pass up to its end, which is still to write the word.                 *)
UpToStore(n) ==
    /\ Moves(n, "loop", "store")
    /\ \E E \in {{}} \cup {{e} : e \in events[n]} : Load(n, E)
    /\ UNCHANGED <<events, frame, lost>>

(* The request of layer 3, which runs in the same loop.                    *)
DataReq(n, d) == UpToStore(n) /\ Pass!DataReq(n, d)

(* The branches that look at the buffer once or not at all.                *)
ShortPass(n) ==
    /\ UpToStore(n)
    /\ \/ Pass!IdleSend(n)
       \/ Pass!TxAckDone(n)
       \/ Pass!TxDataDone(n)
       \/ Pass!AckReceived(n)
       \/ Pass!Retransmit(n)
       \/ Pass!GiveUp(n)
       \/ Pass!Ignore(n)

-----------------------------------------------------------------------------
(* The handler of a data frame, in IDLE and in ACK. *)

(* The flag is found, and the header is read.                              *)
TakeHeader(n) ==
    /\ Moves(n, "loop", "compare")
    /\ mode[n] \in {"IDLE", "ACK"}
    /\ "dataRcvd" \in events[n]
    /\ mode[n] = "ACK" => {"ackRcvd", "arqTimeout"} \cap events[n] = {}
    /\ frame' = [frame EXCEPT ![n] =
                   [src       |-> rcvdData[n].src,
                    broadcast |-> rcvdData[n].to = Broadcast,
                    end       |-> rcvdData[n].type = "DATA"]]
    /\ UNCHANGED <<arqVars, events, word, lost>>

(* The first comparison; the data of the frame that is in the buffer now   *)
(* go with the header of the one that was.                                 *)
CollectData(n) ==
    IF ~frame[n].broadcast /\ rcvdData[n].seq # seqNum[n]
      THEN UNCHANGED <<pduBuffer, delivered>>
    ELSE IF frame[n].broadcast \/ frame[n].end
      THEN Interrupt!Indicate(n, rcvdData[n].msg)
    ELSE pduBuffer' = [pduBuffer EXCEPT ![n] = TRUE] /\ UNCHANGED delivered

(* IDLE clears the flag here for the first time.                           *)
TakeData(n) ==
    /\ \/ /\ mode[n] = "IDLE"
          /\ Moves(n, "compare", "clear")
          /\ Load(n, {"dataRcvd"})
       \/ /\ mode[n] = "ACK"
          /\ Moves(n, "compare", "advance")
          /\ UNCHANGED word
    /\ CollectData(n)
    /\ UNCHANGED <<mode, seqNum, dest, sduIn, arqPdu, retxCnt, rcvdData, timer, air, given,
                   confirmed, failed, events, frame, lost>>

ClearFirst(n) == Moves(n, "clear", "advance") /\ Write(n)

EndBroadcast(n) ==
    /\ Moves(n, "advance", "store")
    /\ frame[n].broadcast
    /\ Load(n, {"dataRcvd"})
    /\ mode' = [mode EXCEPT ![n] = "IDLE"]
    /\ UNCHANGED <<seqNum, dest, sduIn, arqPdu, retxCnt, pduBuffer, rcvdData, timer, air,
                   given, delivered, confirmed, failed, events, frame, lost>>

(* The second comparison.                                                  *)
Advance(n) ==
    /\ Moves(n, "advance", "answer")
    /\ ~frame[n].broadcast
    /\ seqNum' = [seqNum EXCEPT ![n] =
                     IF rcvdData[n].seq = @ THEN (@ + 1) % SEQ_MOD ELSE @]
    /\ UNCHANGED <<mode, dest, sduIn, arqPdu, retxCnt, pduBuffer, rcvdData, timer, air,
                   given, delivered, confirmed, failed, events, word, frame, lost>>

(* Wrong: the acknowledgement is on the air, the machine is not in TX.     *)
AnswerStays(n) ==
    /\ Moves(n, "answer", "store")
    /\ air' = [air EXCEPT ![n] =
                 Interrupt!AckFrame(n, frame[n].src, rcvdData[n].seq)]
    /\ Load(n, {"dataRcvd"})
    /\ UNCHANGED <<mode, seqNum, dest, sduIn, arqPdu, retxCnt, pduBuffer, rcvdData, timer,
                   given, delivered, confirmed, failed, events, frame, lost>>

(* The third look at the number: it goes into the acknowledgement.         *)
Answer(n) ==
    /\ Moves(n, "answer", "store")
    /\ air' = [air EXCEPT ![n] =
                 Interrupt!AckFrame(n, frame[n].src, rcvdData[n].seq)]
    /\ mode' = [mode EXCEPT ![n] = "TX"]
    /\ Load(n, {"dataRcvd"})
    /\ UNCHANGED <<seqNum, dest, sduIn, arqPdu, retxCnt, pduBuffer, rcvdData, timer, given,
                   delivered, confirmed, failed, events, frame, lost>>

MainLoop(n) ==
    \/ ShortPass(n) \/ Store(n)
    \/ TakeHeader(n) \/ TakeData(n) \/ ClearFirst(n)
    \/ EndBroadcast(n) \/ Advance(n) \/ Answer(n)

-----------------------------------------------------------------------------
(* Interrupts, between any two steps of the boards they concern. *)

Interruptible(n) == WordAtomic => at[n] \notin {"clear", "store"}

FrameEnds(n, R) ==
    /\ \A m \in R \cup {n} : Interruptible(m)
    /\ Interrupt!FrameEnds(n, R)
    /\ UNCHANGED <<at, word, frame, lost>>

TimerFires(n) ==
    /\ Interruptible(n)
    /\ Interrupt!TimerFires(n)
    /\ UNCHANGED <<at, word, frame, lost>>

Next ==
    \/ \E link \in Links : DataReq(link[1], link[2])
    \/ \E n \in Nodes :
        MainLoop(n) \/ TimerFires(n) \/ \E R \in SUBSET Nodes : FrameEnds(n, R)

Spec == Init /\ [][Next]_vars

FairSpec ==
    /\ Spec
    /\ \A n \in Nodes :
         /\ WF_vars(MainLoop(n))
         /\ WF_vars(TimerFires(n))
         /\ WF_vars(\E R \in SUBSET Nodes : FrameEnds(n, R))

-----------------------------------------------------------------------------

(* Every variable holds what its C object can hold, the places of the main *)
(* loop are those of L2_FSMrun, and a word is made of events.              *)
TypeOK ==
    /\ Interrupt!TypeOK
    /\ at \in [Nodes -> {"loop", "compare", "clear", "advance", "answer", "store"}]
    /\ word \in [Nodes -> [old : SUBSET Interrupt!Events, new : SUBSET Interrupt!Events]]
    /\ frame \in [Nodes -> Header]
    /\ lost \in [Nodes -> SUBSET Interrupt!Events]

TxEvents == {"dataTxDone", "ackTxDone"}

(* Whatever an interrupt overwrites or loses, no frame is handed to a      *)
(* radio that is busy: a board that is not in TX is not sending, and the   *)
(* end of what it has sent is behind it or about to be written away.       *)
RadioFree ==
    \A n \in Nodes :
        mode[n] # "TX" => air[n] = NoFrame /\ TxEvents \cap Left[n] = {}

(* A machine that waits for an event that will not come is one whose event *)
(* was overwritten: in TX the end of the frame, in ACK the timeout.        *)
StuckOnlyByLoss ==
    \A n \in Nodes :
        /\ mode[n] = "TX" /\ air[n] = NoFrame /\ TxEvents \cap Left[n] = {}
             => TxEvents \cap (lost[n] \cup (events[n] \ word[n].old)) # {}
        /\ mode[n] = "ACK" /\ ~timer[n] /\ "arqTimeout" \notin Left[n]
             => "arqTimeout" \in lost[n] \cup (events[n] \ word[n].old)

(* In ACK a broadcast is being taken, which sets IDLE without an answer    *)
(* for layer 3 (L2_FSMmain.cpp:383-386).                                   *)
BroadcastInWait(n) == mode[n] = "ACK" /\ at[n] = "advance" /\ frame[n].broadcast

OnAir(n, k) == air[n] # NoFrame /\ air[n].type = "DATA" /\ air[n].msg.id = k

(* Layer 3 is left without an answer in two ways only, an event of the     *)
(* board that was overwritten and a broadcast heard during the wait:       *)
(* whenever a message is on the air, for the first time or again, it will  *)
(* be confirmed or given up (L3_LLI_dataCnf), or one of the two happens,   *)
(* also when the events of the radio and the timer come between any two    *)
(* steps.                                                                  *)
AnsweredUnlessLost ==
    \A n \in Nodes : \A k \in 1 .. MAX_REQUESTS[n] :
        OnAir(n, k) ~> \/ \E msg \in confirmed[n] \cup failed[n] : msg.id = k
                      \/ lost[n] # {}
                      \/ BroadcastInWait(n)

(* What arrives from one board arrives in the order of the requests, and   *)
(* none of it twice: the handler counts on one frame in the buffer, and    *)
(* looks at whatever is in it.                                             *)
InOrderOnce == Interrupt!InOrderOnce

(* "Stop-and-wait ARQ ... waits for the ACK" (README.md): where nothing is *)
(* given up, a message that is confirmed has arrived.                      *)
ConfirmedUnlessFailed == Interrupt!ConfirmedUnlessFailed
=============================================================================
