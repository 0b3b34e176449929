------------------------------ MODULE ArqStepsProofs ------------------------------
(***************************************************************************)
(* Proofs about ArqSteps, for any boards, links and limits, with radio and *)
(* timer interrupting a pass between any two of its steps: no frame is     *)
(* handed to a busy radio (RadioFree), and a machine that waits for an     *)
(* event that will not come is one whose event was overwritten             *)
(* (StuckOnlyByLoss).                                                      *)
(*                                                                         *)
(* A pass acts on the events as it is going to leave them (Left), and the  *)
(* interrupts on the word in memory; the two meet in Store.  The inductive *)
(* invariant says, for each board, what is in the buffers the flags speak  *)
(* of (Filled), that radio and machine keep pace (Radio), what the word    *)
(* that has been read has to do with the one in memory (WordRead), and     *)
(* where in the handler of a data frame the machine may stand (InHandler). *)
(***************************************************************************)
EXTENDS ArqSteps, TLAPS

HasPdu(n) == arqPdu[n] \in Interrupt!Frame /\ arqPdu[n].msg \in Interrupt!Message

HasDest(n) == dest[n] \in Nodes \cup {Broadcast}

(* Loading and overwriting take events away, and what is left speaks of    *)
(* buffers that are filled.                                                *)
Filled(n) ==
    /\ arqPdu[n] # NoFrame => HasPdu(n) /\ HasDest(n)
    /\ sduIn[n] # NoMessage => HasDest(n)
    /\ "dataRcvd" \in Left[n] => rcvdData[n] \in Interrupt!Frame
    /\ timer[n] \/ {"arqTimeout", "dataTxDone"} \cap Left[n] # {} => arqPdu[n] # NoFrame
    /\ air[n] # NoFrame /\ air[n].type = "DATA" => arqPdu[n] # NoFrame
    /\ mode[n] = "ACK" => arqPdu[n] # NoFrame

(* The radio is busy in TX only, no end of a frame is pending while it is, *)
(* and the two ends of a frame exclude each other.                         *)
Radio(n) ==
    /\ mode[n] # "TX" => air[n] = NoFrame /\ TxEvents \cap Left[n] = {}
    /\ air[n] # NoFrame => TxEvents \cap Left[n] = {}
    /\ ~(TxEvents \subseteq Left[n])

(* Interrupts only add to the word that was read, and the pass only takes  *)
(* away from it; of the end of a frame and of a timeout that it waits for  *)
(* it takes nothing.                                                       *)
WordRead(n) ==
    /\ at[n] \notin {"clear", "store"} => word[n] = Unread
    /\ at[n] \in {"clear", "store"} =>
         word[n].old \subseteq events[n] /\ word[n].new \subseteq word[n].old
    /\ at[n] = "store" /\ air[n] # NoFrame => TxEvents \cap word[n].old = {}
    /\ at[n] = "store" /\ mode[n] = "ACK" /\ "arqTimeout" \in word[n].old
         => "arqTimeout" \in word[n].new

InHandler(n) ==
    /\ at[n] \in {"compare", "clear", "advance", "answer"} =>
         mode[n] # "TX" /\ rcvdData[n] \in Interrupt!Frame
    /\ at[n] = "clear" => mode[n] = "IDLE"

(* StuckOnlyByLoss of one board. *)
Stuck(n) ==
    /\ mode[n] = "TX" /\ air[n] = NoFrame /\ TxEvents \cap Left[n] = {}
         => TxEvents \cap (lost[n] \cup (events[n] \ word[n].old)) # {}
    /\ mode[n] = "ACK" /\ ~timer[n] /\ "arqTimeout" \notin Left[n]
         => "arqTimeout" \in lost[n] \cup (events[n] \ word[n].old)

(* The inductive invariant. *)
IInv ==
    /\ TypeOK
    /\ \A n \in Nodes : Filled(n) /\ Radio(n) /\ WordRead(n) /\ InHandler(n) /\ Stuck(n)

Local(n) == Filled(n) /\ Radio(n) /\ WordRead(n) /\ InHandler(n) /\ Stuck(n)

(* Nothing the invariant of board m speaks of changes. *)
Same(m) ==
    /\ mode'[m] = mode[m] /\ dest'[m] = dest[m] /\ sduIn'[m] = sduIn[m]
    /\ arqPdu'[m] = arqPdu[m] /\ rcvdData'[m] = rcvdData[m] /\ timer'[m] = timer[m]
    /\ air'[m] = air[m] /\ events'[m] = events[m] /\ at'[m] = at[m]
    /\ word'[m] = word[m] /\ lost'[m] = lost[m]

-----------------------------------------------------------------------------
(* Frames and words *)

(* The next sequence number is a sequence number. *)
LEMMA NextIsNumber ==
    ASSUME NEW s \in Interrupt!SeqNums
    PROVE  (s + 1) % SEQ_MOD \in Interrupt!SeqNums
BY BoundsAssumption DEF Interrupt!SeqNums

(* An acknowledgement is a frame, and not the empty air. *)
LEMMA AckIsFrame ==
    ASSUME NEW n \in Nodes, NEW to \in Nodes, NEW seq \in Interrupt!SeqNums
    PROVE  LET ack == Interrupt!AckFrame(n, to, seq)
           IN  ack \in Interrupt!Frame /\ ack # NoFrame /\ ack.type = "ACK"
BY NoFrameAssumption DEF Interrupt!AckFrame, Interrupt!Frame

(* A data frame with a message is a frame, and not the empty air. *)
LEMMA DataIsFrame ==
    ASSUME NEW n \in Nodes, NEW to \in Nodes \cup {Broadcast}, NEW seq \in Interrupt!SeqNums,
           NEW msg \in Interrupt!Message
    PROVE  LET data == Pass!DataFrame(n, to, seq, msg)
           IN  data \in Interrupt!Frame /\ data # NoFrame /\ data.msg \in Interrupt!Message
BY NoFrameAssumption DEF Pass!DataFrame, Interrupt!Frame

(* A frame that is redirected is a frame. *)
LEMMA RedirectedIsFrame ==
    ASSUME NEW f \in Interrupt!Frame, NEW to \in Nodes \cup {Broadcast}
    PROVE  [f EXCEPT !.to = to] \in Interrupt!Frame /\ [f EXCEPT !.to = to] # NoFrame
BY NoFrameAssumption DEF Interrupt!Frame

(* What a pass is going to leave, board by board. *)
LEMMA LeftOf ==
    ASSUME NEW n \in Nodes
    PROVE  /\ Left[n] = IF at[n] = "store" THEN word[n].new ELSE events[n]
           /\ Left'[n] = IF at'[n] = "store" THEN word'[n].new ELSE events'[n]
BY DEF Left

(* A board that is left alone keeps its part of the invariant. *)
LEMMA SameKeeps ==
    ASSUME NEW m \in Nodes, Local(m), Same(m)
    PROVE  Local(m)'
<1>1. Left'[m] = Left[m]
  BY LeftOf DEF Same
<1>2. Filled(m)'
  BY <1>1 DEF Same, Local, Filled, HasPdu, HasDest
<1>3. Radio(m)'
  BY <1>1 DEF Same, Local, Radio
<1>4. WordRead(m)'
  BY DEF Same, Local, WordRead
<1>5. InHandler(m)'
  BY DEF Same, Local, InHandler
<1>6. Stuck(m)'
  BY <1>1 DEF Same, Local, Stuck
<1> QED BY <1>2, <1>3, <1>4, <1>5, <1>6 DEF Local

(* So a step of board n is a matter of the types and of n. *)
LEMMA OneBoard ==
    ASSUME IInv, NEW n \in Nodes, TypeOK', Local(n)', \A m \in Nodes \ {n} : Same(m)
    PROVE  IInv'
<1>1. ASSUME NEW m \in Nodes PROVE Local(m)'
  <2>1. Local(m)
    BY DEF IInv, Local
  <2> QED BY <2>1, SameKeeps
<1> QED BY <1>1 DEF IInv, Local

-----------------------------------------------------------------------------
(* The beginning *)

LEMMA InitIInv == Init => IInv
<1> SUFFICES ASSUME Init PROVE IInv
  OBVIOUS
<1>1. TypeOK
  BY BoundsAssumption DEF Init, Interrupt!Init, TypeOK, Interrupt!TypeOK, Interrupt!SeqNums,
     Interrupt!Events, Unread, Header
<1>2. ASSUME NEW n \in Nodes PROVE Filled(n) /\ Radio(n)
  <2>1. Left[n] = {}
    BY LeftOf DEF Init, Interrupt!Init
  <2> QED BY <2>1 DEF Init, Interrupt!Init, Filled, Radio, TxEvents
<1>3. ASSUME NEW n \in Nodes PROVE WordRead(n) /\ InHandler(n) /\ Stuck(n)
  BY DEF Init, Interrupt!Init, WordRead, InHandler, Stuck, Unread
<1> QED BY <1>1, <1>2, <1>3 DEF IInv

-----------------------------------------------------------------------------
(* Interrupts *)

(* The timer that fires leaves an event in the word in memory; if the word *)
(* is just being changed, the event is about to be overwritten.            *)
LEMMA TimerFiresKeeps ==
    ASSUME IInv, NEW n \in Nodes, TimerFires(n)
    PROVE  IInv'
<1> USE DEF IInv
<1>1. /\ timer[n] /\ timer' = [timer EXCEPT ![n] = FALSE]
      /\ events' = [events EXCEPT ![n] = @ \cup {"arqTimeout"}]
      /\ UNCHANGED <<pduBuffer, mode, seqNum, dest, sduIn, arqPdu, retxCnt, rcvdData, air,
                     given, delivered, confirmed, failed, at, word, frame, lost>>
  BY DEF TimerFires, Interrupt!TimerFires, Interrupt!history
<1>2. TypeOK'
  BY <1>1 DEF TypeOK, Interrupt!TypeOK, Interrupt!Events
<1>3. \A m \in Nodes \ {n} : Same(m)
  BY <1>1 DEF Same, TypeOK, Interrupt!TypeOK
<1>4. /\ events'[n] = events[n] \cup {"arqTimeout"} /\ timer'[n] = FALSE
      /\ at'[n] = at[n] /\ word'[n] = word[n]
  BY <1>1 DEF TypeOK, Interrupt!TypeOK
<1>5. Left'[n] = IF at[n] = "store" THEN Left[n] ELSE Left[n] \cup {"arqTimeout"}
  BY <1>4, LeftOf
<1>6. Filled(n)'
  BY <1>1, <1>4, <1>5 DEF Filled, HasPdu, HasDest
<1>7. Radio(n)'
  BY <1>1, <1>5 DEF Radio, TxEvents
<1>8. WordRead(n)'
  BY <1>1, <1>4 DEF WordRead
<1>9. InHandler(n)'
  BY <1>1 DEF InHandler
<1>10. Stuck(n)'
  <2>1. CASE mode[n] = "TX"
    BY <1>1, <1>4, <1>5, <2>1 DEF Stuck, TxEvents
  <2>2. CASE mode[n] = "ACK"
    <3>1. CASE at[n] = "store" /\ "arqTimeout" \in word[n].old
      <4>1. "arqTimeout" \in Left[n]
        BY <2>2, <3>1, LeftOf DEF WordRead
      <4> QED BY <1>1, <1>5, <2>2, <4>1 DEF Stuck
    <3>2. CASE at[n] = "store" /\ "arqTimeout" \notin word[n].old
      BY <1>1, <1>4, <2>2, <3>2 DEF Stuck
    <3>3. CASE at[n] # "store"
      BY <1>1, <1>5, <2>2, <3>3 DEF Stuck
    <3> QED BY <3>1, <3>2, <3>3
  <2>3. CASE mode[n] = "IDLE"
    BY <1>1, <2>3 DEF Stuck
  <2> QED BY <2>1, <2>2, <2>3 DEF TypeOK, Interrupt!TypeOK
<1> QED BY <1>2, <1>3, <1>6, <1>7, <1>8, <1>9, <1>10, OneBoard DEF Local

(* The end of a frame: the busy radio turns into one event, in the word or *)
(* about to be overwritten, and whoever hears it has a frame in its buffer. *)
LEMMA FrameEndsKeeps ==
    ASSUME IInv, NEW n \in Nodes, NEW R \in SUBSET Nodes, FrameEnds(n, R)
    PROVE  IInv'
<1> USE DEF IInv
<1> DEFINE data == air[n].type = "DATA"
           ended(m) == IF m = n THEN {IF data THEN "dataTxDone" ELSE "ackTxDone"} ELSE {}
           got(m) == IF m \in R THEN {IF data THEN "dataRcvd" ELSE "ackRcvd"} ELSE {}
<1>1. air[n] \in Interrupt!Frame /\ air[n] # NoFrame
  BY DEF FrameEnds, Interrupt!FrameEnds, TypeOK, Interrupt!TypeOK
<1>2. /\ air' = [air EXCEPT ![n] = NoFrame]
      /\ rcvdData' = [m \in Nodes |-> IF m \in R THEN air[n] ELSE rcvdData[m]]
      /\ events' = [m \in Nodes |-> events[m] \cup ended(m) \cup got(m)]
      /\ UNCHANGED <<pduBuffer, mode, seqNum, dest, sduIn, arqPdu, retxCnt, timer,
                     given, delivered, confirmed, failed, at, word, frame, lost>>
  BY DEF FrameEnds, Interrupt!FrameEnds, Interrupt!Transmit, Interrupt!history
<1>3. \A m \in Nodes : ended(m) \subseteq Interrupt!Events /\ got(m) \subseteq Interrupt!Events
  BY DEF Interrupt!Events
<1>4. TypeOK'
  <2>1. events' \in [Nodes -> SUBSET Interrupt!Events]
    <3> HIDE DEF ended, got
    <3> QED BY <1>2, <1>3 DEF TypeOK, Interrupt!TypeOK
  <2>2. /\ rcvdData' \in [Nodes -> Interrupt!Frame \cup {NoFrame}]
        /\ air' \in [Nodes -> Interrupt!Frame \cup {NoFrame}]
    BY <1>1, <1>2 DEF TypeOK, Interrupt!TypeOK
  <2> QED BY <1>2, <2>1, <2>2 DEF TypeOK, Interrupt!TypeOK
<1>5. ASSUME NEW m \in Nodes PROVE Local(m)'
  <2>1. /\ air'[m] = IF m = n THEN NoFrame ELSE air[m]
        /\ rcvdData'[m] = IF m \in R THEN air[n] ELSE rcvdData[m]
        /\ events'[m] = events[m] \cup ended(m) \cup got(m)
    BY <1>2 DEF TypeOK, Interrupt!TypeOK
  <2>2. Left'[m] = IF at[m] = "store" THEN Left[m] ELSE Left[m] \cup ended(m) \cup got(m)
    BY <1>2, <2>1, LeftOf
  <2>3. TxEvents \cap got(m) = {} /\ "arqTimeout" \notin ended(m) \cup got(m)
    BY DEF TxEvents
  <2>4. m = n => mode[m] = "TX" /\ TxEvents \cap Left[m] = {}
    BY <1>1 DEF Radio
  <2>5. Filled(m)'
    <3>1. "dataRcvd" \in Left'[m] => rcvdData'[m] \in Interrupt!Frame
      BY <1>1, <2>1, <2>2 DEF Filled
    <3>2. "dataTxDone" \in Left'[m] => arqPdu[m] # NoFrame
      BY <1>1, <2>2 DEF Filled
    <3>3. "arqTimeout" \in Left'[m] => "arqTimeout" \in Left[m]
      BY <2>2, <2>3
    <3>4. air'[m] # NoFrame => air'[m] = air[m]
      BY <2>1
    <3> QED BY <1>2, <3>1, <3>2, <3>3, <3>4 DEF Filled, HasPdu, HasDest
  <2>6. Radio(m)'
    <3>1. CASE m = n
      <4>1. ~(TxEvents \subseteq Left'[m])
        BY <2>2, <2>3, <2>4, <3>1 DEF TxEvents
      <4> QED BY <1>2, <2>1, <2>4, <3>1, <4>1 DEF Radio
    <3>2. CASE m # n
      <4>1. TxEvents \cap Left'[m] = TxEvents \cap Left[m]
        BY <2>2, <2>3, <3>2
      <4> QED BY <1>2, <2>1, <3>2, <4>1 DEF Radio
    <3> QED BY <3>1, <3>2
  <2>7. WordRead(m)'
    <3>1. events[m] \subseteq events'[m]
      BY <2>1
    <3>2. air'[m] # NoFrame => air[m] # NoFrame
      BY <2>1
    <3> QED BY <1>2, <3>1, <3>2 DEF WordRead
  <2>8. InHandler(m)'
    BY <1>1, <1>2, <2>1 DEF InHandler
  <2>9. Stuck(m)'
    <3>1. events[m] \subseteq events'[m]
      BY <2>1
    <3>2. "arqTimeout" \in Left'[m] <=> "arqTimeout" \in Left[m]
      BY <2>2, <2>3
    <3>3. CASE m # n
      <4>1. TxEvents \cap Left'[m] = TxEvents \cap Left[m] /\ air'[m] = air[m]
        BY <2>1, <2>2, <2>3, <3>3
      <4> QED BY <1>2, <3>1, <3>2, <4>1 DEF Stuck
    <3>4. CASE m = n /\ at[m] = "store"
      <4>1. TxEvents \cap word[m].old = {}
        BY <1>1, <3>4 DEF WordRead
      <4>2. TxEvents \cap (events'[m] \ word[m].old) # {}
        BY <2>1, <3>4, <4>1 DEF TxEvents
      <4> QED BY <1>2, <2>4, <3>4, <4>2 DEF Stuck
    <3>5. CASE m = n /\ at[m] # "store"
      <4>1. TxEvents \cap Left'[m] # {}
        BY <2>2, <3>5 DEF TxEvents
      <4> QED BY <1>2, <2>4, <3>5, <4>1 DEF Stuck
    <3> QED BY <3>3, <3>4, <3>5
  <2> QED BY <2>5, <2>6, <2>7, <2>8, <2>9 DEF Local
<1> QED BY <1>4, <1>5 DEF Local

-----------------------------------------------------------------------------
(* The halves of a change of the word *)

(* Writing the word back keeps the types.                                  *)
LEMMA WriteTyped ==
    ASSUME IInv, NEW n \in Nodes, Write(n),
           at' \in [Nodes -> {"loop", "compare", "clear", "advance", "answer", "store"}]
    PROVE  TypeOK'
<1> USE DEF IInv
<1>1. /\ word[n].new \in SUBSET Interrupt!Events
      /\ Unread \in [old : SUBSET Interrupt!Events, new : SUBSET Interrupt!Events]
  BY DEF TypeOK, Unread
<1>2. /\ events' \in [Nodes -> SUBSET Interrupt!Events]
      /\ word' \in [Nodes -> [old : SUBSET Interrupt!Events, new : SUBSET Interrupt!Events]]
  BY <1>1 DEF Write, TypeOK, Interrupt!TypeOK
<1>3. lost' \in [Nodes -> SUBSET Interrupt!Events]
  BY DEF Write, TypeOK, Interrupt!TypeOK
<1> QED BY <1>2, <1>3 DEF Write, arqVars, TypeOK, Interrupt!TypeOK

(* At the end of a pass the word becomes what the pass has left, and what  *)
(* an interrupt has put there meanwhile is lost.                           *)
LEMMA StoreKeeps ==
    ASSUME IInv, NEW n \in Nodes, Store(n)
    PROVE  IInv'
<1> USE DEF IInv
<1>1. /\ at[n] = "store" /\ at' = [at EXCEPT ![n] = "loop"]
      /\ events' = [events EXCEPT ![n] = word[n].new]
      /\ lost' = [lost EXCEPT ![n] = @ \cup (events[n] \ word[n].old)]
      /\ word' = [word EXCEPT ![n] = Unread]
      /\ UNCHANGED <<arqVars, frame>>
  BY DEF Store, Moves, Write
<1>2. TypeOK'
  BY <1>1, WriteTyped DEF Store, TypeOK
<1>3. \A m \in Nodes \ {n} : Same(m)
  BY <1>1 DEF Same, arqVars, TypeOK, Interrupt!TypeOK
<1>4. /\ at'[n] = "loop" /\ events'[n] = word[n].new /\ word'[n] = Unread
      /\ lost'[n] = lost[n] \cup (events[n] \ word[n].old)
  BY <1>1 DEF TypeOK, Interrupt!TypeOK
<1>5. Left'[n] = Left[n]
  BY <1>1, <1>4, LeftOf
<1>6. Filled(n)'
  BY <1>1, <1>5 DEF Filled, HasPdu, HasDest, arqVars
<1>7. Radio(n)'
  BY <1>1, <1>5 DEF Radio, arqVars
<1>8. WordRead(n)' /\ InHandler(n)'
  BY <1>4 DEF WordRead, InHandler
<1>9. Stuck(n)'
  BY <1>1, <1>4, <1>5 DEF Stuck, arqVars
<1> QED BY <1>2, <1>3, <1>6, <1>7, <1>8, <1>9, OneBoard DEF Local

(* IDLE clears dataRcvd in the middle of the handler of a data frame.      *)
LEMMA ClearFirstKeeps ==
    ASSUME IInv, NEW n \in Nodes, ClearFirst(n)
    PROVE  IInv'
<1> USE DEF IInv
<1>1. /\ at[n] = "clear" /\ at' = [at EXCEPT ![n] = "advance"]
      /\ events' = [events EXCEPT ![n] = word[n].new]
      /\ lost' = [lost EXCEPT ![n] = @ \cup (events[n] \ word[n].old)]
      /\ word' = [word EXCEPT ![n] = Unread]
      /\ UNCHANGED <<arqVars, frame>>
  BY DEF ClearFirst, Moves, Write
<1>2. TypeOK'
  BY <1>1, WriteTyped DEF ClearFirst, TypeOK
<1>3. \A m \in Nodes \ {n} : Same(m)
  BY <1>1 DEF Same, arqVars, TypeOK, Interrupt!TypeOK
<1>4. at'[n] = "advance" /\ events'[n] = word[n].new /\ word'[n] = Unread
  BY <1>1 DEF TypeOK, Interrupt!TypeOK
<1>5. mode[n] = "IDLE" /\ rcvdData[n] \in Interrupt!Frame
  BY <1>1 DEF InHandler
<1>6. Left'[n] \subseteq Left[n]
  <2>1. word[n].new \subseteq events[n]
    BY <1>1 DEF WordRead
  <2> QED BY <1>1, <1>4, <2>1, LeftOf
<1>7. Filled(n)'
  BY <1>1, <1>6 DEF Filled, HasPdu, HasDest, arqVars
<1>8. Radio(n)'
  BY <1>1, <1>6 DEF Radio, arqVars
<1>9. WordRead(n)' /\ InHandler(n)' /\ Stuck(n)'
  BY <1>1, <1>4, <1>5 DEF WordRead, InHandler, Stuck, arqVars
<1> QED BY <1>2, <1>3, <1>7, <1>8, <1>9, OneBoard DEF Local

(* Reading the word does not change it.                                    *)
LEMMA LoadTyped ==
    ASSUME TypeOK, NEW n \in Nodes, NEW E, Load(n, E)
    PROVE  /\ word' \in [Nodes -> [old : SUBSET Interrupt!Events, new : SUBSET Interrupt!Events]]
           /\ word'[n] = [old |-> events[n], new |-> events[n] \ E]
           /\ \A m \in Nodes \ {n} : word'[m] = word[m]
<1>1. events[n] \in SUBSET Interrupt!Events
  BY DEF TypeOK, Interrupt!TypeOK
<1>2. [old |-> events[n], new |-> events[n] \ E]
        \in [old : SUBSET Interrupt!Events, new : SUBSET Interrupt!Events]
  BY <1>1
<1> QED BY <1>2 DEF Load, TypeOK

(* The last step of a pass: the word is read, and not yet written.         *)
LEMMA PassEnds ==
    ASSUME NEW n \in Nodes, Local(n), NEW N \in SUBSET events[n],
           at[n] # "store", at'[n] = "store", events'[n] = events[n],
           word'[n] = [old |-> events[n], new |-> N],
           air'[n] # NoFrame => air[n] # NoFrame \/ mode[n] # "TX",
           mode'[n] = "ACK" /\ "arqTimeout" \in events[n] => "arqTimeout" \in N
    PROVE  /\ Left[n] = events[n] /\ Left'[n] = N
           /\ WordRead(n)' /\ InHandler(n)'
<1>1. Left[n] = events[n] /\ Left'[n] = N
  BY LeftOf
<1>2. air'[n] # NoFrame => TxEvents \cap events[n] = {}
  BY <1>1 DEF Local, Radio
<1>3. WordRead(n)'
  BY <1>2 DEF WordRead
<1>4. InHandler(n)'
  BY DEF InHandler
<1> QED BY <1>1, <1>3, <1>4

-----------------------------------------------------------------------------
(* The handler of a data frame *)

LEMMA TakeHeaderKeeps ==
    ASSUME IInv, NEW n \in Nodes, TakeHeader(n)
    PROVE  IInv'
<1> USE DEF IInv
<1>1. /\ at[n] = "loop" /\ at' = [at EXCEPT ![n] = "compare"]
      /\ mode[n] # "TX" /\ "dataRcvd" \in events[n]
      /\ UNCHANGED <<arqVars, events, word, lost>>
  BY DEF TakeHeader, Moves
<1>2. Left[n] = events[n] /\ Left'[n] = Left[n] /\ at'[n] = "compare"
  BY <1>1, LeftOf DEF TypeOK
<1>3. rcvdData[n] \in Interrupt!Frame
  BY <1>1, <1>2 DEF Filled
<1>4. TypeOK'
  <2>1. [src       |-> rcvdData[n].src,
         broadcast |-> rcvdData[n].to = Broadcast,
         end       |-> rcvdData[n].type = "DATA"] \in Header
    BY <1>3 DEF Header, Interrupt!Frame
  <2>2. frame' \in [Nodes -> Header]
    BY <2>1 DEF TakeHeader, TypeOK
  <2> QED BY <1>1, <2>2 DEF arqVars, TypeOK, Interrupt!TypeOK
<1>5. \A m \in Nodes \ {n} : Same(m)
  BY <1>1 DEF Same, arqVars, TypeOK
<1>6. Filled(n)' /\ Radio(n)'
  BY <1>1, <1>2 DEF Filled, Radio, HasPdu, HasDest, arqVars
<1>7. WordRead(n)' /\ InHandler(n)' /\ Stuck(n)'
  BY <1>1, <1>2, <1>3 DEF WordRead, InHandler, Stuck, arqVars
<1> QED BY <1>4, <1>5, <1>6, <1>7, OneBoard DEF Local

(* Whatever frame is in the buffer now, its data are data.                 *)
LEMMA CollectTyped ==
    ASSUME IInv, NEW n \in Nodes, rcvdData[n] \in Interrupt!Frame, CollectData(n)
    PROVE  /\ pduBuffer' \in [Nodes -> BOOLEAN]
           /\ delivered' \in [Nodes -> Seq(Interrupt!Message \cup {NoMessage})]
<1> USE DEF IInv
<1> DEFINE msg == rcvdData[n].msg
           Messages == Interrupt!Message \cup {NoMessage}
<1>1. msg \in Messages
  BY DEF Interrupt!Frame
<1>2. pduBuffer \in [Nodes -> BOOLEAN] /\ delivered \in [Nodes -> Seq(Messages)]
  BY DEF TypeOK, Interrupt!TypeOK
<1>3. pduBuffer' = pduBuffer \/ \E x \in BOOLEAN : pduBuffer' = [pduBuffer EXCEPT ![n] = x]
  BY DEF CollectData, Interrupt!Indicate
<1>4. \/ delivered' = delivered
      \/ \E x \in Messages : delivered' = [delivered EXCEPT ![n] = Append(@, x)]
  BY <1>1 DEF CollectData, Interrupt!Indicate
<1>5. \A x \in Messages : Append(delivered[n], x) \in Seq(Messages)
  BY <1>2
<1> HIDE DEF Messages
<1>6. pduBuffer' \in [Nodes -> BOOLEAN]
  BY <1>2, <1>3
<1>7. delivered' \in [Nodes -> Seq(Messages)]
  BY <1>2, <1>4, <1>5
<1> QED BY <1>6, <1>7 DEF Messages

(* A data frame is taken, collected or indicated; the pass goes on.        *)
LEMMA TakeDataKeeps ==
    ASSUME IInv, NEW n \in Nodes, TakeData(n)
    PROVE  IInv'
<1> USE DEF IInv
<1>1. /\ at[n] = "compare"
      /\ CollectData(n)
      /\ UNCHANGED <<mode, seqNum, dest, sduIn, arqPdu, retxCnt, rcvdData, timer, air, given,
                     confirmed, failed, events, frame, lost>>
  BY DEF TakeData, Moves
<1>2. \/ mode[n] = "IDLE" /\ at' = [at EXCEPT ![n] = "clear"] /\ Load(n, {"dataRcvd"})
      \/ at' = [at EXCEPT ![n] = "advance"] /\ word' = word
  BY DEF TakeData, Moves
<1>3. mode[n] # "TX" /\ rcvdData[n] \in Interrupt!Frame /\ word[n] = Unread
  BY <1>1 DEF InHandler, WordRead
<1>4. /\ at' \in [Nodes -> {"loop", "compare", "clear", "advance", "answer", "store"}]
      /\ at'[n] \in {"clear", "advance"}
      /\ \A m \in Nodes \ {n} : at'[m] = at[m]
  BY <1>2 DEF TypeOK
<1>5. /\ word' \in [Nodes -> [old : SUBSET Interrupt!Events, new : SUBSET Interrupt!Events]]
      /\ \A m \in Nodes \ {n} : word'[m] = word[m]
  BY <1>2, LoadTyped DEF TypeOK
<1>6. TypeOK'
  BY <1>1, <1>3, <1>4, <1>5, CollectTyped DEF TypeOK, Interrupt!TypeOK
<1>7. \A m \in Nodes \ {n} : Same(m)
  BY <1>1, <1>4, <1>5 DEF Same
<1>8. Left'[n] = Left[n]
  BY <1>1, <1>4, LeftOf
<1>9. Filled(n)' /\ Radio(n)'
  BY <1>1, <1>8 DEF Filled, Radio, HasPdu, HasDest
<1>10. WordRead(n)' /\ InHandler(n)' /\ Stuck(n)'
  <2>1. CASE mode[n] = "IDLE" /\ at' = [at EXCEPT ![n] = "clear"] /\ Load(n, {"dataRcvd"})
    <3>1. at'[n] = "clear" /\ word'[n] = [old |-> events[n], new |-> events[n] \ {"dataRcvd"}]
      BY <2>1, LoadTyped DEF TypeOK
    <3> QED BY <1>1, <1>3, <2>1, <3>1 DEF WordRead, InHandler, Stuck
  <2>2. CASE at' = [at EXCEPT ![n] = "advance"] /\ word' = word
    <3>1. at'[n] = "advance"
      BY <2>2 DEF TypeOK
    <3> QED BY <1>1, <1>3, <1>8, <2>2, <3>1 DEF WordRead, InHandler, Stuck
  <2> QED BY <1>2, <2>1, <2>2
<1> QED BY <1>6, <1>7, <1>9, <1>10, OneBoard DEF Local

(* A broadcast ends the pass in IDLE and has the word of the flags loaded. *)
LEMMA EndBroadcastKeeps ==
    ASSUME IInv, NEW n \in Nodes, EndBroadcast(n)
    PROVE  IInv'
<1> USE DEF IInv
<1>1. /\ at[n] = "advance" /\ at' = [at EXCEPT ![n] = "store"]
      /\ Load(n, {"dataRcvd"})
      /\ mode' = [mode EXCEPT ![n] = "IDLE"]
      /\ UNCHANGED <<seqNum, dest, sduIn, arqPdu, retxCnt, pduBuffer, rcvdData, timer, air,
                     given, delivered, confirmed, failed, events, frame, lost>>
  BY DEF EndBroadcast, Moves
<1>2. TypeOK'
  BY <1>1, LoadTyped DEF TypeOK, Interrupt!TypeOK
<1>3. \A m \in Nodes \ {n} : Same(m)
  BY <1>1, LoadTyped DEF Same, TypeOK, Interrupt!TypeOK
<1>4. /\ at'[n] = "store" /\ mode'[n] = "IDLE" /\ mode[n] # "TX"
      /\ word'[n] = [old |-> events[n], new |-> events[n] \ {"dataRcvd"}]
  BY <1>1, LoadTyped DEF InHandler, TypeOK, Interrupt!TypeOK
<1>5. Left'[n] \subseteq Left[n] /\ WordRead(n)' /\ InHandler(n)'
  BY <1>1, <1>4, PassEnds DEF Local
<1>6. Filled(n)' /\ Radio(n)' /\ Stuck(n)'
  BY <1>1, <1>4, <1>5 DEF Filled, Radio, Stuck, HasPdu, HasDest
<1> QED BY <1>2, <1>3, <1>5, <1>6, OneBoard DEF Local

(* The expected number moves on.  The buffer is not looked at here.        *)
LEMMA AdvanceKeeps ==
    ASSUME IInv, NEW n \in Nodes, Advance(n)
    PROVE  IInv'
<1> USE DEF IInv
<1>1. /\ at[n] = "advance" /\ at' = [at EXCEPT ![n] = "answer"]
      /\ UNCHANGED <<mode, dest, sduIn, arqPdu, retxCnt, pduBuffer, rcvdData, timer, air,
                     given, delivered, confirmed, failed, events, word, frame, lost>>
  BY DEF Advance, Moves
<1>2. TypeOK'
  <2>1. seqNum[n] \in Interrupt!SeqNums
    BY DEF TypeOK, Interrupt!TypeOK
  <2>2. seqNum' \in [Nodes -> Interrupt!SeqNums]
    BY <2>1, NextIsNumber DEF Advance, TypeOK, Interrupt!TypeOK
  <2> QED BY <1>1, <2>2 DEF TypeOK, Interrupt!TypeOK
<1>3. \A m \in Nodes \ {n} : Same(m)
  BY <1>1 DEF Same, TypeOK
<1>4. at'[n] = "answer" /\ Left'[n] = Left[n]
  BY <1>1, LeftOf DEF TypeOK
<1>5. Filled(n)' /\ Radio(n)'
  BY <1>1, <1>4 DEF Filled, Radio, HasPdu, HasDest
<1>6. WordRead(n)' /\ InHandler(n)' /\ Stuck(n)'
  BY <1>1, <1>4 DEF WordRead, InHandler, Stuck
<1> QED BY <1>2, <1>3, <1>5, <1>6, OneBoard DEF Local

(* The acknowledgement finds the radio idle: the machine has not been in   *)
(* TX since the handler began.                                             *)
LEMMA AnswerKeeps ==
    ASSUME IInv, NEW n \in Nodes, Answer(n)
    PROVE  IInv'
<1> USE DEF IInv
<1> DEFINE ack == Interrupt!AckFrame(n, frame[n].src, rcvdData[n].seq)
<1>1. /\ at[n] = "answer" /\ at' = [at EXCEPT ![n] = "store"]
      /\ Load(n, {"dataRcvd"})
      /\ mode' = [mode EXCEPT ![n] = "TX"]
      /\ air' = [air EXCEPT ![n] = ack]
      /\ UNCHANGED <<seqNum, dest, sduIn, arqPdu, retxCnt, pduBuffer, rcvdData, timer, given,
                     delivered, confirmed, failed, events, frame, lost>>
  BY DEF Answer, Moves
<1>2. mode[n] # "TX" /\ rcvdData[n].seq \in Interrupt!SeqNums /\ frame[n].src \in Nodes
  BY <1>1 DEF InHandler, TypeOK, Header, Interrupt!Frame
<1>3. ack \in Interrupt!Frame /\ ack # NoFrame /\ ack.type = "ACK"
  BY <1>2, AckIsFrame
<1> HIDE DEF ack
<1>4. TypeOK'
  BY <1>1, <1>3, LoadTyped DEF TypeOK, Interrupt!TypeOK
<1>5. \A m \in Nodes \ {n} : Same(m)
  BY <1>1, LoadTyped DEF Same, TypeOK, Interrupt!TypeOK
<1>6. /\ at'[n] = "store" /\ mode'[n] = "TX" /\ air'[n] = ack
      /\ word'[n] = [old |-> events[n], new |-> events[n] \ {"dataRcvd"}]
  BY <1>1, LoadTyped DEF TypeOK, Interrupt!TypeOK
<1>7. Left'[n] \subseteq Left[n] /\ WordRead(n)' /\ InHandler(n)'
  BY <1>1, <1>2, <1>6, PassEnds DEF Local
<1>8. Filled(n)'
  BY <1>1, <1>3, <1>6, <1>7 DEF Filled, HasPdu, HasDest
<1>9. Radio(n)' /\ Stuck(n)'
  BY <1>1, <1>2, <1>3, <1>6, <1>7 DEF Radio, Stuck
<1> QED BY <1>4, <1>5, <1>7, <1>8, <1>9, OneBoard DEF Local

-----------------------------------------------------------------------------
(* The passes that look at the buffer once or not at all *)

(* Such a pass loads the word and leaves some of its events, N.            *)
Loaded(n, N) ==
    /\ at[n] = "loop" /\ at'[n] = "store"
    /\ word'[n] = [old |-> events[n], new |-> N]
    /\ \A m \in Nodes \ {n} : at'[m] = at[m] /\ word'[m] = word[m]
    /\ at' \in [Nodes -> {"loop", "compare", "clear", "advance", "answer", "store"}]
    /\ word' \in [Nodes -> [old : SUBSET Interrupt!Events, new : SUBSET Interrupt!Events]]
    /\ UNCHANGED <<events, frame, lost>>
    /\ Left[n] = events[n] /\ Left'[n] = N

(* Each pass that is one step up to its last write is of that kind.        *)
LEMMA PassLoads ==
    ASSUME TypeOK, NEW n \in Nodes, UpToStore(n)
    PROVE  \E N \in SUBSET events[n] : Loaded(n, N)
<1>1. PICK E : Load(n, E)
  BY DEF UpToStore
<1>2. /\ at[n] = "loop" /\ at' = [at EXCEPT ![n] = "store"]
      /\ UNCHANGED <<events, frame, lost>>
  BY DEF UpToStore, Moves
<1>3. /\ at' \in [Nodes -> {"loop", "compare", "clear", "advance", "answer", "store"}]
      /\ at'[n] = "store" /\ \A m \in Nodes \ {n} : at'[m] = at[m]
  BY <1>2 DEF TypeOK
<1>4. Left[n] = events[n] /\ Left'[n] = events[n] \ E
  <2>1. word'[n] = [old |-> events[n], new |-> events[n] \ E]
    BY <1>1, LoadTyped
  <2>2. word'[n].new = events[n] \ E
    BY <2>1
  <2> QED BY <1>2, <1>3, <2>2, LeftOf
<1>5. Loaded(n, events[n] \ E)
  BY <1>1, <1>2, <1>3, <1>4, LoadTyped DEF Loaded
<1> QED BY <1>5

(* What is left when one event is cleared, or none. *)
LEMMA LeftAfter ==
    ASSUME NEW n \in Nodes, NEW N, Loaded(n, N)
    PROVE  /\ \A e : Pass!Clear(n, e) => N = events[n] \ {e}
           /\ Left' = Left => N = events[n]
<1>1. ASSUME NEW e, Pass!Clear(n, e) PROVE N = events[n] \ {e}
  <2>1. Left' = [Left EXCEPT ![n] = @ \ {e}]
    BY <1>1 DEF Pass!Clear
  <2>2. Left \in [Nodes -> {Left[m] : m \in Nodes}]
    BY DEF Left
  <2>3. Left'[n] = Left[n] \ {e}
    BY <2>1, <2>2
  <2> QED BY <2>3 DEF Loaded
<1> QED BY <1>1 DEF Loaded

(* The part of the invariant that is the same for all these passes.        *)
LEMMA LoadedKeeps ==
    ASSUME IInv, NEW n \in Nodes, NEW N \in SUBSET events[n], Loaded(n, N),
           air'[n] # NoFrame => air[n] # NoFrame \/ mode[n] # "TX",
           mode'[n] = "ACK" /\ "arqTimeout" \in events[n] => "arqTimeout" \in N
    PROVE  WordRead(n)' /\ InHandler(n)'
<1>1. Local(n) /\ events'[n] = events[n]
  BY DEF IInv, Local, Loaded
<1> QED BY <1>1, PassEnds DEF Loaded

(* A request of layer 3 changes neither the machine nor the radio. *)
LEMMA DataReqKeeps ==
    ASSUME IInv, NEW n \in Nodes, NEW d \in Nodes \cup {Broadcast}, DataReq(n, d)
    PROVE  IInv'
<1> USE DEF IInv
<1>1. PICK N \in SUBSET events[n] : Loaded(n, N)
  BY PassLoads DEF DataReq
<1>2. /\ given[n] < MAX_REQUESTS[n]
      /\ given' = [given EXCEPT ![n] = @ + 1]
      /\ sduIn' = [sduIn EXCEPT ![n] = [from |-> n, to |-> d, id |-> given[n] + 1]]
      /\ dest' = [dest EXCEPT ![n] = d]
      /\ Left' = Left
      /\ UNCHANGED <<pduBuffer, mode, seqNum, arqPdu, retxCnt, rcvdData, timer, air,
                     delivered, confirmed, failed>>
  BY DEF DataReq, Pass!DataReq
<1>3. N = events[n]
  BY <1>1, <1>2, LeftAfter
<1>4. [from |-> n, to |-> d, id |-> given[n] + 1] \in Interrupt!Message
  BY <1>2, BoundsAssumption DEF TypeOK, Interrupt!TypeOK, Interrupt!Message
<1>5. TypeOK'
  <2>1. /\ given' \in [Nodes -> Nat]
        /\ sduIn' \in [Nodes -> Interrupt!Message \cup {NoMessage}]
        /\ dest' \in [Nodes -> Nodes \cup {Broadcast, NoNode}]
    BY <1>2, <1>4 DEF TypeOK, Interrupt!TypeOK
  <2>2. events' = events /\ frame' = frame /\ lost' = lost
    BY <1>1 DEF Loaded
  <2>3. Interrupt!TypeOK'
    BY <1>2, <2>1, <2>2 DEF TypeOK, Interrupt!TypeOK
  <2> QED BY <1>1, <2>2, <2>3 DEF Loaded, TypeOK
<1>6. \A m \in Nodes \ {n} : Same(m)
  BY <1>1, <1>2 DEF Loaded, Same, TypeOK, Interrupt!TypeOK
<1>7. WordRead(n)' /\ InHandler(n)'
  BY <1>1, <1>2, <1>3, LoadedKeeps
<1>8. Filled(n)'
  <2>1. dest'[n] = d
    BY <1>2 DEF TypeOK, Interrupt!TypeOK
  <2> QED BY <1>1, <1>2, <1>3, <2>1 DEF Loaded, Filled, HasPdu, HasDest
<1>9. Radio(n)' /\ Stuck(n)'
  BY <1>1, <1>2, <1>3 DEF Loaded, Radio, Stuck, WordRead, Unread
<1> QED BY <1>5, <1>6, <1>7, <1>8, <1>9, OneBoard DEF Local

(* IDLE hands a new data frame to the idle radio. *)
LEMMA IdleSendKeeps ==
    ASSUME IInv, NEW n \in Nodes, UpToStore(n), Pass!IdleSend(n)
    PROVE  IInv'
<1> USE DEF IInv
<1> DEFINE data == Pass!DataFrame(n, dest[n], seqNum[n], sduIn[n])
<1>1. PICK N \in SUBSET events[n] : Loaded(n, N)
  BY PassLoads
<1>2. /\ mode[n] = "IDLE" /\ sduIn[n] # NoMessage
      /\ arqPdu' = [arqPdu EXCEPT ![n] = data]
      /\ air' = [air EXCEPT ![n] = data]
      /\ sduIn' = [sduIn EXCEPT ![n] = NoMessage]
      /\ retxCnt' = [retxCnt EXCEPT ![n] = 0]
      /\ mode' = [mode EXCEPT ![n] = "TX"]
      /\ Left' = Left
      /\ UNCHANGED <<pduBuffer, dest, rcvdData, timer, given, delivered, confirmed, failed>>
  BY DEF Pass!IdleSend, Pass!Transmit, Pass!Goto, Pass!history
<1>3. /\ dest[n] \in Nodes \cup {Broadcast} /\ sduIn[n] \in Interrupt!Message
      /\ seqNum[n] \in Interrupt!SeqNums
  BY <1>2 DEF Filled, HasDest, TypeOK, Interrupt!TypeOK
<1>4. data \in Interrupt!Frame /\ data # NoFrame /\ data.msg \in Interrupt!Message
  BY <1>3, DataIsFrame
<1> HIDE DEF data
<1>5. N = events[n]
  BY <1>1, <1>2, LeftAfter
<1>6. TypeOK'
  <2>1. seqNum' \in [Nodes -> Interrupt!SeqNums]
    <3>1. seqNum' = [seqNum EXCEPT ![n] = IF dest[n] # Broadcast THEN (@ + 1) % SEQ_MOD ELSE @]
      BY DEF Pass!IdleSend, Pass!Next_
    <3>2. (seqNum[n] + 1) % SEQ_MOD \in Interrupt!SeqNums
      BY <1>3, NextIsNumber
    <3> QED BY <3>1, <3>2 DEF TypeOK, Interrupt!TypeOK
  <2>2. retxCnt' \in [Nodes -> 0 .. MAX_RETX]
    BY <1>2, BoundsAssumption DEF TypeOK, Interrupt!TypeOK
  <2> QED BY <1>1, <1>2, <1>4, <2>1, <2>2 DEF Loaded, TypeOK, Interrupt!TypeOK
<1>7. \A m \in Nodes \ {n} : Same(m)
  BY <1>1, <1>2 DEF Loaded, Same, TypeOK, Interrupt!TypeOK
<1>8. /\ mode'[n] = "TX" /\ air'[n] = data /\ arqPdu'[n] = data
      /\ sduIn'[n] = NoMessage
  BY <1>2 DEF TypeOK, Interrupt!TypeOK
<1>9. WordRead(n)' /\ InHandler(n)'
  BY <1>1, <1>2, <1>8, LoadedKeeps
<1>10. Filled(n)'
  BY <1>1, <1>2, <1>3, <1>4, <1>5, <1>8 DEF Loaded, Filled, HasPdu, HasDest
<1>11. Radio(n)' /\ Stuck(n)'
  BY <1>1, <1>2, <1>4, <1>5, <1>8 DEF Loaded, Radio, Stuck
<1> QED BY <1>6, <1>7, <1>9, <1>10, <1>11, OneBoard DEF Local

(* TX ends with the one event that the radio has left. *)
LEMMA TxDoneKeeps ==
    ASSUME IInv, NEW n \in Nodes, UpToStore(n), Pass!TxAckDone(n) \/ Pass!TxDataDone(n)
    PROVE  IInv'
<1> USE DEF IInv
<1>1. PICK N \in SUBSET events[n] : Loaded(n, N)
  BY PassLoads
<1>2. /\ mode[n] = "TX" /\ TxEvents \cap Left[n] # {}
      /\ UNCHANGED <<pduBuffer, seqNum, dest, sduIn, arqPdu, retxCnt, rcvdData, air, given,
                     delivered, failed>>
  BY DEF Pass!TxAckDone, Pass!TxDataDone, Pass!history, TxEvents
<1>3. air[n] = NoFrame
  BY <1>2 DEF Radio
<1>4. TxEvents \cap N = {} /\ ("arqTimeout" \in events[n] => "arqTimeout" \in N)
  <2>1. \/ N = events[n] \ {"ackTxDone"} /\ "ackTxDone" \in events[n]
        \/ N = events[n] \ {"dataTxDone"} /\ "dataTxDone" \in events[n]
    BY <1>1, LeftAfter DEF Pass!TxAckDone, Pass!TxDataDone, Loaded
  <2>2. ~(TxEvents \subseteq events[n])
    BY <1>1 DEF Loaded, Radio
  <2> QED BY <2>1, <2>2 DEF TxEvents
<1>5. /\ mode' \in [Nodes -> {"IDLE", "TX", "ACK"}]
      /\ timer' \in [Nodes -> BOOLEAN]
      /\ confirmed' \in [Nodes -> SUBSET Interrupt!Message]
  <2>1. CASE Pass!TxAckDone(n)
    BY <2>1 DEF Pass!TxAckDone, Pass!Goto, Pass!history, TypeOK, Interrupt!TypeOK
  <2>2. CASE Pass!TxDataDone(n)
    <3>1. arqPdu[n].msg \in Interrupt!Message
      BY <2>2 DEF Pass!TxDataDone, Filled, HasPdu
    <3>2. confirmed' = confirmed
          \/ confirmed' = [confirmed EXCEPT ![n] = @ \cup {arqPdu[n].msg}]
      BY <2>2 DEF Pass!TxDataDone
    <3>3. confirmed \in [Nodes -> SUBSET Interrupt!Message]
      BY DEF TypeOK, Interrupt!TypeOK
    <3>4. confirmed' \in [Nodes -> SUBSET Interrupt!Message]
      BY <3>1, <3>2, <3>3
    <3> QED BY <2>2, <3>4 DEF Pass!TxDataDone, Pass!Goto, TypeOK, Interrupt!TypeOK
  <2> QED BY <2>1, <2>2
<1>6. TypeOK'
  BY <1>1, <1>2, <1>5 DEF Loaded, TypeOK, Interrupt!TypeOK
<1>7. \A m \in Nodes \ {n} : mode'[m] = mode[m] /\ timer'[m] = timer[m]
  BY DEF Pass!TxAckDone, Pass!TxDataDone, Pass!Goto, TypeOK, Interrupt!TypeOK
<1>8. \A m \in Nodes \ {n} : Same(m)
  BY <1>1, <1>2, <1>7 DEF Loaded, Same
<1>9. /\ mode'[n] \in {"IDLE", "ACK"}
      /\ mode'[n] = "ACK" => timer'[n] \/ "arqTimeout" \in events[n]
      /\ timer'[n] => timer[n] \/ "dataTxDone" \in Left[n]
      /\ mode'[n] = "ACK" => timer[n] \/ {"arqTimeout", "dataTxDone"} \cap Left[n] # {}
  <2>1. CASE Pass!TxAckDone(n)
    BY <1>1, <2>1 DEF Pass!TxAckDone, Pass!Goto, Loaded, TypeOK, Interrupt!TypeOK
  <2>2. CASE Pass!TxDataDone(n)
    BY <2>2 DEF Pass!TxDataDone, Pass!Goto, TypeOK, Interrupt!TypeOK
  <2> QED BY <2>1, <2>2
<1>10. WordRead(n)' /\ InHandler(n)'
  BY <1>1, <1>2, <1>4, LoadedKeeps
<1>11. Filled(n)'
  BY <1>1, <1>2, <1>9 DEF Loaded, Filled, HasPdu, HasDest
<1>12. Radio(n)'
  BY <1>1, <1>2, <1>3, <1>4 DEF Loaded, Radio, TxEvents
<1>13. Stuck(n)'
  BY <1>1, <1>4, <1>9 DEF Loaded, Stuck
<1> QED BY <1>6, <1>8, <1>10, <1>11, <1>12, <1>13, OneBoard DEF Local

(* An acknowledgement ends the wait and its timer, or neither. *)
LEMMA AckReceivedKeeps ==
    ASSUME IInv, NEW n \in Nodes, UpToStore(n), Pass!AckReceived(n)
    PROVE  IInv'
<1> USE DEF IInv
<1>1. PICK N \in SUBSET events[n] : Loaded(n, N)
  BY PassLoads
<1>2. N = events[n] \ {"ackRcvd"}
  BY <1>1, LeftAfter DEF Pass!AckReceived
<1>3. /\ mode[n] = "ACK"
      /\ UNCHANGED <<pduBuffer, seqNum, dest, sduIn, arqPdu, retxCnt, rcvdData, air, given,
                     delivered, failed>>
      /\ \/ /\ timer' = [timer EXCEPT ![n] = FALSE]
            /\ mode' = [mode EXCEPT ![n] = "IDLE"]
            /\ confirmed' = [confirmed EXCEPT ![n] = @ \cup {arqPdu[n].msg}]
         \/ UNCHANGED <<timer, mode, confirmed>>
  BY DEF Pass!AckReceived, Pass!Goto
<1>4. TypeOK'
  <2>1. arqPdu[n].msg \in Interrupt!Message
    BY <1>3 DEF Filled, HasPdu
  <2>2. confirmed' \in [Nodes -> SUBSET Interrupt!Message]
    <3>1. confirmed' = confirmed
          \/ confirmed' = [confirmed EXCEPT ![n] = @ \cup {arqPdu[n].msg}]
      BY <1>3
    <3>2. confirmed \in [Nodes -> SUBSET Interrupt!Message]
      BY DEF TypeOK, Interrupt!TypeOK
    <3> QED BY <2>1, <3>1, <3>2
  <2>3. mode' \in [Nodes -> {"IDLE", "TX", "ACK"}] /\ timer' \in [Nodes -> BOOLEAN]
    BY <1>3 DEF TypeOK, Interrupt!TypeOK
  <2> QED BY <1>1, <1>3, <2>2, <2>3 DEF Loaded, TypeOK, Interrupt!TypeOK
<1>5. \A m \in Nodes \ {n} : mode'[m] = mode[m] /\ timer'[m] = timer[m]
  BY <1>3 DEF TypeOK, Interrupt!TypeOK
<1>6. \A m \in Nodes \ {n} : Same(m)
  BY <1>1, <1>3, <1>5 DEF Loaded, Same
<1>7. \/ mode'[n] = "IDLE" /\ ~timer'[n]
      \/ mode'[n] = mode[n] /\ timer'[n] = timer[n]
  BY <1>3 DEF TypeOK, Interrupt!TypeOK
<1>8. WordRead(n)' /\ InHandler(n)'
  BY <1>1, <1>2, <1>3, LoadedKeeps
<1>9. Filled(n)'
  BY <1>1, <1>2, <1>3, <1>7 DEF Loaded, Filled, HasPdu, HasDest
<1>10. Radio(n)'
  BY <1>1, <1>2, <1>3, <1>7 DEF Loaded, Radio, TxEvents
<1>11. Stuck(n)'
  BY <1>1, <1>2, <1>3, <1>7 DEF Loaded, Stuck, WordRead, Unread
<1> QED BY <1>4, <1>6, <1>8, <1>9, <1>10, <1>11, OneBoard DEF Local

(* A retransmission hands the data frame to the idle radio once more. *)
LEMMA RetransmitKeeps ==
    ASSUME IInv, NEW n \in Nodes, UpToStore(n), Pass!Retransmit(n)
    PROVE  IInv'
<1> USE DEF IInv
<1> DEFINE again == [arqPdu[n] EXCEPT !.to = dest[n]]
<1>1. PICK N \in SUBSET events[n] : Loaded(n, N)
  BY PassLoads
<1>2. N = events[n] \ {"arqTimeout"}
  BY <1>1, LeftAfter DEF Pass!Retransmit, Pass!TimedOut
<1>3. /\ mode[n] = "ACK" /\ retxCnt[n] < MAX_RETX
      /\ air' = [air EXCEPT ![n] = again]
      /\ mode' = [mode EXCEPT ![n] = "TX"]
      /\ retxCnt' = [retxCnt EXCEPT ![n] = @ + 1]
      /\ UNCHANGED <<pduBuffer, seqNum, dest, sduIn, arqPdu, rcvdData, timer, given, delivered,
                     confirmed, failed>>
  BY DEF Pass!Retransmit, Pass!TimedOut, Pass!Transmit, Pass!Goto, Pass!history
<1>4. arqPdu[n] # NoFrame /\ arqPdu[n] \in Interrupt!Frame /\ HasDest(n)
  BY <1>3 DEF Filled, HasPdu
<1>5. again \in Interrupt!Frame /\ again # NoFrame
  BY <1>4, RedirectedIsFrame DEF HasDest
<1> HIDE DEF again
<1>6. TypeOK'
  <2>1. retxCnt' \in [Nodes -> 0 .. MAX_RETX]
    BY <1>3, BoundsAssumption DEF TypeOK, Interrupt!TypeOK
  <2> QED BY <1>1, <1>3, <1>5, <2>1 DEF Loaded, TypeOK, Interrupt!TypeOK
<1>7. \A m \in Nodes \ {n} : Same(m)
  BY <1>1, <1>3 DEF Loaded, Same, TypeOK, Interrupt!TypeOK
<1>8. mode'[n] = "TX" /\ air'[n] = again
  BY <1>3 DEF TypeOK, Interrupt!TypeOK
<1>9. WordRead(n)' /\ InHandler(n)'
  BY <1>1, <1>3, <1>8, LoadedKeeps
<1>10. Filled(n)'
  BY <1>1, <1>2, <1>3, <1>4, <1>8 DEF Loaded, Filled, HasPdu, HasDest
<1>11. Radio(n)' /\ Stuck(n)'
  BY <1>1, <1>2, <1>3, <1>5, <1>8 DEF Loaded, Radio, Stuck
<1> QED BY <1>6, <1>7, <1>9, <1>10, <1>11, OneBoard DEF Local

(* Giving up ends the wait, with an answer to layer 3. *)
LEMMA GiveUpKeeps ==
    ASSUME IInv, NEW n \in Nodes, UpToStore(n), Pass!GiveUp(n)
    PROVE  IInv'
<1> USE DEF IInv
<1>1. PICK N \in SUBSET events[n] : Loaded(n, N)
  BY PassLoads
<1>2. N = events[n] \ {"arqTimeout"}
  BY <1>1, LeftAfter DEF Pass!GiveUp, Pass!TimedOut
<1>3. /\ mode[n] = "ACK"
      /\ failed' = [failed EXCEPT ![n] = @ \cup {arqPdu[n].msg}]
      /\ mode' = [mode EXCEPT ![n] = "IDLE"]
      /\ UNCHANGED <<pduBuffer, seqNum, dest, sduIn, arqPdu, retxCnt, rcvdData, timer, air,
                     given, delivered, confirmed>>
  BY DEF Pass!GiveUp, Pass!TimedOut, Pass!Goto
<1>4. TypeOK'
  <2>1. arqPdu[n].msg \in Interrupt!Message
    BY <1>3 DEF Filled, HasPdu
  <2>2. failed' \in [Nodes -> SUBSET Interrupt!Message]
    BY <1>3, <2>1 DEF TypeOK, Interrupt!TypeOK
  <2> QED BY <1>1, <1>3, <2>2 DEF Loaded, TypeOK, Interrupt!TypeOK
<1>5. \A m \in Nodes \ {n} : Same(m)
  BY <1>1, <1>3 DEF Loaded, Same, TypeOK, Interrupt!TypeOK
<1>6. mode'[n] = "IDLE"
  BY <1>3 DEF TypeOK, Interrupt!TypeOK
<1>7. WordRead(n)' /\ InHandler(n)'
  BY <1>1, <1>3, <1>6, LoadedKeeps
<1>8. Filled(n)' /\ Radio(n)' /\ Stuck(n)'
  BY <1>1, <1>2, <1>3, <1>6 DEF Loaded, Filled, Radio, Stuck, HasPdu, HasDest
<1> QED BY <1>4, <1>5, <1>7, <1>8, OneBoard DEF Local

(* A stale event is cleared outside TX; in ACK it is not the timeout. *)
LEMMA IgnoreKeeps ==
    ASSUME IInv, NEW n \in Nodes, UpToStore(n), Pass!Ignore(n)
    PROVE  IInv'
<1> USE DEF IInv
<1>1. PICK N \in SUBSET events[n] : Loaded(n, N)
  BY PassLoads
<1>2. /\ mode[n] # "TX"
      /\ mode[n] = "ACK" => "arqTimeout" \notin Left[n]
      /\ UNCHANGED <<mode, seqNum, dest, sduIn, arqPdu, retxCnt, pduBuffer, rcvdData, timer,
                     air, given, delivered, confirmed, failed>>
  BY DEF Pass!Ignore, Pass!history
<1>3. TypeOK'
  BY <1>1, <1>2 DEF Loaded, TypeOK, Interrupt!TypeOK
<1>4. \A m \in Nodes \ {n} : Same(m)
  BY <1>1, <1>2 DEF Loaded, Same
<1>5. WordRead(n)' /\ InHandler(n)'
  BY <1>1, <1>2, LoadedKeeps DEF Loaded
<1>6. Filled(n)' /\ Radio(n)'
  BY <1>1, <1>2 DEF Loaded, Filled, Radio, HasPdu, HasDest
<1>7. Stuck(n)'
  BY <1>1, <1>2 DEF Loaded, Stuck, WordRead, Unread
<1> QED BY <1>3, <1>4, <1>5, <1>6, <1>7, OneBoard DEF Local

-----------------------------------------------------------------------------

(* Every step of any board or interrupt keeps the invariant.               *)
LEMMA NextIInv == IInv /\ [Next]_vars => IInv'
<1> SUFFICES ASSUME IInv, [Next]_vars PROVE IInv'
  OBVIOUS
<1>1. CASE UNCHANGED vars
  <2>1. TypeOK'
    BY <1>1 DEF vars, arqVars, IInv, TypeOK, Interrupt!TypeOK
  <2>2. \A m \in Nodes : Same(m)
    BY <1>1 DEF vars, arqVars, Same
  <2>3. ASSUME NEW m \in Nodes PROVE Local(m)'
    <3>1. Local(m)
      BY DEF IInv, Local
    <3> QED BY <2>2, <3>1, SameKeeps
  <2> QED BY <2>1, <2>3 DEF IInv, Local
<1>2. ASSUME NEW link \in Links, DataReq(link[1], link[2])
      PROVE  IInv'
  <2>1. link[1] \in Nodes /\ link[2] \in Nodes \cup {Broadcast}
    BY LinksAssumption
  <2> QED BY <1>2, <2>1, DataReqKeeps
<1>3. ASSUME NEW n \in Nodes, ShortPass(n)
      PROVE  IInv'
  BY <1>3, IdleSendKeeps, TxDoneKeeps, AckReceivedKeeps, RetransmitKeeps, GiveUpKeeps,
     IgnoreKeeps DEF ShortPass
<1>4. ASSUME NEW n \in Nodes, MainLoop(n)
      PROVE  IInv'
  BY <1>3, <1>4, StoreKeeps, TakeHeaderKeeps, TakeDataKeeps, ClearFirstKeeps,
     EndBroadcastKeeps, AdvanceKeeps, AnswerKeeps DEF MainLoop
<1> QED BY <1>1, <1>2, <1>4, TimerFiresKeeps, FrameEndsKeeps DEF Next

(* The invariant holds of every execution, on any boards and links.        *)
THEOREM InductiveInvariant == Spec => []IInv
BY InitIInv, NextIInv, PTL DEF Spec

(* Every variable keeps its range, whatever is overwritten.                *)
THEOREM TypeCorrect == Spec => []TypeOK
<1>1. IInv => TypeOK
  BY DEF IInv
<1> QED BY <1>1, InductiveInvariant, PTL

(* Whatever an interrupt overwrites or replaces between the steps of a     *)
(* pass, no frame is handed to a radio that is busy (L2_FSMmain.cpp).      *)
THEOREM RadioAlwaysFree == Spec => []RadioFree
<1>1. IInv => RadioFree
  BY DEF IInv, Radio, RadioFree
<1> QED BY <1>1, InductiveInvariant, PTL

(* A board that waits for the end of a frame or for a timeout that will    *)
(* not come has had that event overwritten (L2_FSMevent.cpp:7-15).         *)
THEOREM OnlyLossStops == Spec => []StuckOnlyByLoss
<1>1. IInv => StuckOnlyByLoss
  BY DEF IInv, Stuck, StuckOnlyByLoss
<1> QED BY <1>1, InductiveInvariant, PTL

=============================================================================
