----------------------------- MODULE SegmentsProofs -----------------------------
(***************************************************************************)
(* Proofs about Segments, for any senders, any lengths of messages, any    *)
(* size of a frame and any number of requests: a message that nothing      *)
(* disturbed arrives whole and in its turn.                                *)
(*                                                                         *)
(* The argument follows the bytes of one message.  As long as it is not    *)
(* disturbed it is the latest of its board, what the receiver has of it is *)
(* its beginning and all that is in the receiver's buffer, and the frame   *)
(* under way and the bytes kept back continue it exactly, up to its full   *)
(* length.  A byte of another message on the way to the receiver is        *)
(* harmless: when it arrives, it disturbs both.                            *)
(***************************************************************************)
EXTENDS Segments, ListFacts

Byte == Senders \X Nat \X Nat

-----------------------------------------------------------------------------
(* Bytes *)

(* The bytes are those of message m that follow its first g ones. *)
Run(bytes, m, g) == \A p \in DOMAIN bytes : bytes[p] = <<m[1], m[2], g + p>>

(* There are bytes, and none of message m. *)
Other(bytes, m) == bytes # <<>> /\ m \notin Owners(bytes)

(* What has been collected of message m. *)
Got(bytes, m) == IF m \in Owners(bytes) THEN Len(bytes) ELSE 0

(* The bytes of the next frame and of the rest continue message m, of      *)
(* which g bytes have arrived, up to its size, or else another message     *)
(* comes in between.                                                       *)
Fits(m, g, size, frame, rest) ==
    \/ Other(frame, m)
    \/ /\ Run(frame, m, g)
       /\ \/ Other(rest, m)
          \/ Run(rest, m, g + Len(frame)) /\ g + Len(frame) + Len(rest) = size

(* Who owns some bytes, by the places of the bytes. *)
LEMMA OwnersFact ==
    ASSUME NEW bytes \in Seq(Byte)
    PROVE  /\ Owners(bytes) = {<<bytes[p][1], bytes[p][2]>> : p \in DOMAIN bytes}
           /\ Owners(bytes) \subseteq Senders \X Nat
<1>1. \A p \in DOMAIN bytes : bytes[p] \in Byte
  BY ElementOfSeq, LenProperties
<1>2. ToSet(bytes) = {bytes[p] : p \in DOMAIN bytes}
  BY DEF ToSet
<1>3. Owners(bytes) = {<<bytes[p][1], bytes[p][2]>> : p \in DOMAIN bytes}
  BY <1>2 DEF Owners
<1>4. ASSUME NEW p \in DOMAIN bytes
      PROVE  <<bytes[p][1], bytes[p][2]>> \in Senders \X Nat
  BY <1>1 DEF Byte
<1> QED BY <1>3, <1>4

(* No bytes have no owner, and some bytes have one. *)
LEMMA OwnersEmpty ==
    /\ Owners(<<>>) = {}
    /\ \A bytes \in Seq(Byte) : Owners(bytes) = {} => bytes = <<>>
<1>1. Owners(<<>>) = {}
  BY DEF Owners, ToSet
<1>2. ASSUME NEW bytes \in Seq(Byte), Owners(bytes) = {}
      PROVE  bytes = <<>>
  <2>1. ASSUME NEW p \in DOMAIN bytes PROVE FALSE
    <3>1. Owners(bytes) = {<<bytes[q][1], bytes[q][2]>> : q \in DOMAIN bytes}
      BY OwnersFact
    <3>2. <<bytes[p][1], bytes[p][2]>> \in Owners(bytes)
      BY <2>1, <3>1
    <3> QED BY <1>2, <3>2
  <2>2. DOMAIN bytes = 1 .. Len(bytes) /\ Len(bytes) \in Nat
    BY LenProperties
  <2>3. Len(bytes) = 0
    BY <2>1, <2>2
  <2> QED BY <2>3, EmptySeq
<1> QED BY <1>1, <1>2

(* The places of two sequences in a row. *)
LEMMA ConcatFact ==
    ASSUME NEW x \in Seq(Byte), NEW y \in Seq(Byte)
    PROVE  /\ x \o y \in Seq(Byte)
           /\ Len(x \o y) = Len(x) + Len(y)
           /\ Len(x) \in Nat /\ Len(y) \in Nat
           /\ DOMAIN x = 1 .. Len(x) /\ DOMAIN y = 1 .. Len(y)
           /\ DOMAIN (x \o y) = 1 .. (Len(x) + Len(y))
           /\ \A p \in 1 .. Len(x) : (x \o y)[p] = x[p]
           /\ \A p \in 1 .. Len(y) : (x \o y)[Len(x) + p] = y[p]
<1>1. Len(x) \in Nat /\ Len(y) \in Nat /\ DOMAIN x = 1 .. Len(x) /\ DOMAIN y = 1 .. Len(y)
  BY LenProperties
<1>2. /\ x \o y \in Seq(Byte)
      /\ Len(x \o y) = Len(x) + Len(y)
      /\ \A p \in 1 .. (Len(x) + Len(y)) :
           (x \o y)[p] = IF p <= Len(x) THEN x[p] ELSE y[p - Len(x)]
  BY ConcatProperties
<1>3. DOMAIN (x \o y) = 1 .. (Len(x) + Len(y))
  BY <1>2, LenProperties
<1>4. \A p \in 1 .. Len(x) : (x \o y)[p] = x[p]
  BY <1>1, <1>2
<1>5. ASSUME NEW p \in 1 .. Len(y)
      PROVE  (x \o y)[Len(x) + p] = y[p]
  <2>1. Len(x) + p \in 1 .. (Len(x) + Len(y)) /\ ~(Len(x) + p <= Len(x)) /\ Len(x) + p - Len(x) = p
    BY <1>1
  <2> QED BY <1>2, <2>1
<1> QED BY <1>1, <1>2, <1>3, <1>4, <1>5

(* The owners of two sequences in a row are those of both. *)
LEMMA OwnersConcat ==
    ASSUME NEW x \in Seq(Byte), NEW y \in Seq(Byte)
    PROVE  Owners(x \o y) = Owners(x) \cup Owners(y)
<1> DEFINE z == x \o y
<1>1. /\ z \in Seq(Byte)
      /\ Len(x) \in Nat /\ Len(y) \in Nat
      /\ DOMAIN x = 1 .. Len(x) /\ DOMAIN y = 1 .. Len(y)
      /\ DOMAIN z = 1 .. (Len(x) + Len(y))
      /\ \A p \in 1 .. Len(x) : z[p] = x[p]
      /\ \A p \in 1 .. Len(y) : z[Len(x) + p] = y[p]
  BY ConcatFact
<1>2. /\ Owners(x) = {<<x[p][1], x[p][2]>> : p \in DOMAIN x}
      /\ Owners(y) = {<<y[p][1], y[p][2]>> : p \in DOMAIN y}
      /\ Owners(z) = {<<z[p][1], z[p][2]>> : p \in DOMAIN z}
  BY <1>1, OwnersFact
<1> HIDE DEF z
<1>3. ASSUME NEW p \in DOMAIN z
      PROVE  \/ p \in DOMAIN x /\ z[p] = x[p]
             \/ \E q \in DOMAIN y : z[p] = y[q]
  <2>1. CASE p <= Len(x)
    BY <1>1, <1>3, <2>1
  <2>2. CASE ~(p <= Len(x))
    <3>1. p - Len(x) \in 1 .. Len(y) /\ Len(x) + (p - Len(x)) = p
      BY <1>1, <1>3, <2>2
    <3> QED BY <1>1, <3>1
  <2> QED BY <2>1, <2>2
<1>4. ASSUME NEW p \in DOMAIN x
      PROVE  p \in DOMAIN z /\ z[p] = x[p]
  BY <1>1, <1>4
<1>5. ASSUME NEW p \in DOMAIN y
      PROVE  Len(x) + p \in DOMAIN z /\ z[Len(x) + p] = y[p]
  BY <1>1, <1>5
<1>6. Owners(z) = Owners(x) \cup Owners(y)
  <2>1. ASSUME NEW m \in Owners(z) PROVE m \in Owners(x) \cup Owners(y)
    BY <1>2, <1>3, <2>1
  <2>2. ASSUME NEW m \in Owners(x) PROVE m \in Owners(z)
    BY <1>2, <1>4, <2>2
  <2>3. ASSUME NEW m \in Owners(y) PROVE m \in Owners(z)
    BY <1>2, <1>5, <2>3
  <2> QED BY <2>1, <2>2, <2>3
<1> QED BY <1>6 DEF z

(* Two sequences in a row are a run if the second continues the first. *)
LEMMA RunConcat ==
    ASSUME NEW x \in Seq(Byte), NEW y \in Seq(Byte), NEW m, NEW g \in Nat
    PROVE  Run(x \o y, m, g) <=> Run(x, m, g) /\ Run(y, m, g + Len(x))
<1> DEFINE z == x \o y
<1>1. /\ Len(x) \in Nat /\ Len(y) \in Nat
      /\ DOMAIN x = 1 .. Len(x) /\ DOMAIN y = 1 .. Len(y)
      /\ DOMAIN z = 1 .. (Len(x) + Len(y))
      /\ \A p \in 1 .. Len(x) : z[p] = x[p]
      /\ \A p \in 1 .. Len(y) : z[Len(x) + p] = y[p]
  BY ConcatFact
<1> HIDE DEF z
<1>2. ASSUME Run(z, m, g) PROVE Run(x, m, g)
  BY <1>1, <1>2 DEF Run
<1>3. ASSUME Run(z, m, g) PROVE Run(y, m, g + Len(x))
  <2>1. ASSUME NEW p \in DOMAIN y
        PROVE  y[p] = <<m[1], m[2], (g + Len(x)) + p>>
    <3>1. Len(x) + p \in DOMAIN z /\ z[Len(x) + p] = y[p] /\ g + (Len(x) + p) = (g + Len(x)) + p
      BY <1>1, <2>1
    <3> QED BY <1>3, <3>1 DEF Run
  <2> QED BY <2>1 DEF Run
<1>4. ASSUME Run(x, m, g), Run(y, m, g + Len(x)) PROVE Run(z, m, g)
  <2>1. ASSUME NEW p \in DOMAIN z
        PROVE  z[p] = <<m[1], m[2], g + p>>
    <3>1. CASE p <= Len(x)
      BY <1>1, <1>4, <2>1, <3>1 DEF Run
    <3>2. CASE ~(p <= Len(x))
      <4>1. /\ p - Len(x) \in DOMAIN y /\ Len(x) + (p - Len(x)) = p
            /\ (g + Len(x)) + (p - Len(x)) = g + p
        BY <1>1, <2>1, <3>2
      <4>2. z[p] = y[p - Len(x)]
        BY <1>1, <4>1
      <4>3. y[p - Len(x)] = <<m[1], m[2], (g + Len(x)) + (p - Len(x))>>
        BY <1>4, <4>1 DEF Run
      <4> QED BY <4>1, <4>2, <4>3
    <3> QED BY <3>1, <3>2
  <2> QED BY <2>1 DEF Run
<1> QED BY <1>2, <1>3, <1>4 DEF z

(* The bytes of a run all belong to its message. *)
LEMMA RunOwners ==
    ASSUME NEW bytes \in Seq(Byte), NEW m \in Senders \X Nat, NEW g \in Nat, Run(bytes, m, g)
    PROVE  /\ Owners(bytes) \subseteq {m}
           /\ bytes # <<>> => Owners(bytes) = {m}
<1>1. ASSUME NEW p \in DOMAIN bytes
      PROVE  <<bytes[p][1], bytes[p][2]>> = m
  <2>1. bytes[p] = <<m[1], m[2], g + p>>
    BY DEF Run
  <2> QED BY <2>1
<1>2. Owners(bytes) \subseteq {m}
  BY <1>1, OwnersFact
<1> QED BY <1>2, OwnersEmpty

(* No bytes are a run of any message. *)
LEMMA RunEmpty == \A m, g : Run(<<>>, m, g)
BY DEF Run

(* There is one run of a message from its first byte to a given length. *)
LEMMA RunUnique ==
    ASSUME NEW x \in Seq(Byte), NEW y \in Seq(Byte), NEW m,
           Run(x, m, 0), Run(y, m, 0), Len(x) = Len(y)
    PROVE  x = y
<1>1. Len(x) \in Nat /\ DOMAIN x = 1 .. Len(x) /\ DOMAIN y = 1 .. Len(y)
  BY LenProperties
<1>2. \A p \in 1 .. Len(x) : x[p] = y[p]
  BY <1>1 DEF Run
<1> QED BY <1>2, SeqEqual

(* The bytes of a message as layer 3 requests it. *)
LEMMA BytesFact ==
    ASSUME NEW s \in Senders, NEW k \in Nat, NEW len \in Nat \ {0}
    PROVE  /\ Bytes(s, k, len) \in Seq(Byte)
           /\ Bytes(s, k, len) # <<>>
           /\ Len(Bytes(s, k, len)) = len
           /\ Run(Bytes(s, k, len), <<s, k>>, 0)
<1>1. \A i \in 1 .. len : <<s, k, i>> \in Byte
  BY DEF Byte
<1>2. Bytes(s, k, len) \in Seq(Byte) /\ Len(Bytes(s, k, len)) = len
  BY <1>1 DEF Bytes
<1>3. Run(Bytes(s, k, len), <<s, k>>, 0)
  BY DEF Bytes, Run
<1> QED BY <1>2, <1>3

(* L2_pullSduBuffer loses no byte, and takes one if there is one. *)
LEMMA PullFact ==
    ASSUME NEW bytes \in Seq(Byte)
    PROVE  /\ Pulled(bytes) \in Seq(Byte) /\ Cut(bytes) \in Seq(Byte)
           /\ Pulled(bytes) \o Cut(bytes) = bytes
           /\ bytes # <<>> => Pulled(bytes) # <<>>
<1> DEFINE size == PullSize(bytes)
<1>1. Len(bytes) \in Nat /\ L2_MSG_MAXDATASIZE \in Nat \ {0}
      /\ \A p \in 1 .. Len(bytes) : bytes[p] \in Byte
  BY SizeAssumption, LenProperties, ElementOfSeq
<1>2. size \in 0 .. Len(bytes) /\ (Len(bytes) > 0 => size > 0)
  <2>1. /\ Min({Len(bytes), L2_MSG_MAXDATASIZE}) \in {Len(bytes), L2_MSG_MAXDATASIZE}
        /\ \A x \in {Len(bytes), L2_MSG_MAXDATASIZE} : Min({Len(bytes), L2_MSG_MAXDATASIZE}) <= x
    BY <1>1, MinFact
  <2> QED BY <1>1, <2>1 DEF PullSize
<1> HIDE DEF size
<1> DEFINE x == SubSeq(bytes, 1, size)
           y == SubSeq(bytes, size + 1, Len(bytes))
<1>3. x \in Seq(Byte) /\ Len(x) = size /\ \A p \in 1 .. size : x[p] = bytes[p]
  BY <1>1, <1>2, SubSeqProperties
<1>4. y \in Seq(Byte) /\ Len(y) = Len(bytes) - size
      /\ \A p \in 1 .. (Len(bytes) - size) : y[p] = bytes[size + p]
  BY <1>1, <1>2, SubSeqProperties, SMTT(30)
<1> HIDE DEF x, y
<1>5. x \o y = bytes
  <2>1. /\ x \o y \in Seq(Byte) /\ Len(x \o y) = Len(bytes)
        /\ \A p \in 1 .. size : (x \o y)[p] = x[p]
        /\ \A p \in 1 .. (Len(bytes) - size) : (x \o y)[size + p] = y[p]
    <3>1. /\ x \o y \in Seq(Byte) /\ Len(x \o y) = Len(x) + Len(y)
          /\ \A p \in 1 .. Len(x) : (x \o y)[p] = x[p]
          /\ \A p \in 1 .. Len(y) : (x \o y)[Len(x) + p] = y[p]
      BY <1>3, <1>4, ConcatFact
    <3> QED BY <1>1, <1>2, <1>3, <1>4, <3>1
  <2>2. ASSUME NEW p \in 1 .. Len(bytes)
        PROVE  (x \o y)[p] = bytes[p]
    <3>1. CASE p <= size
      BY <1>1, <1>2, <1>3, <2>1, <3>1
    <3>2. CASE ~(p <= size)
      <4>1. p - size \in 1 .. (Len(bytes) - size) /\ size + (p - size) = p
        BY <1>1, <1>2, <3>2
      <4> QED BY <1>4, <2>1, <4>1
    <3> QED BY <3>1, <3>2
  <2> QED BY <2>1, <2>2, SeqEqual
<1>6. bytes # <<>> => x # <<>>
  <2>1. bytes # <<>> => Len(bytes) > 0
    BY <1>1, EmptySeq
  <2> QED BY <1>2, <1>3, <2>1
<1>7. Pulled(bytes) = x /\ Cut(bytes) = y
  BY DEF Pulled, Cut, size, x, y
<1> QED BY <1>3, <1>4, <1>5, <1>6, <1>7

(* Pulling the next frame from the rest keeps the message together. *)
LEMMA PullFits ==
    ASSUME NEW m \in Senders \X Nat, NEW g \in Nat, NEW size,
           NEW rest \in Seq(Byte), Fits(m, g, size, <<>>, rest)
    PROVE  Fits(m, g, size, Pulled(rest), Cut(rest))
<1> DEFINE x == Pulled(rest)
           y == Cut(rest)
<1>1. x \in Seq(Byte) /\ y \in Seq(Byte) /\ x \o y = rest /\ (rest # <<>> => x # <<>>)
  BY PullFact
<1> HIDE DEF x, y
<1>2. Owners(x \o y) = Owners(x) \cup Owners(y) /\ Len(x) \in Nat /\ Len(y) \in Nat
      /\ Len(x \o y) = Len(x) + Len(y)
  BY <1>1, OwnersConcat, ConcatFact
<1>3. Run(x \o y, m, g) <=> Run(x, m, g) /\ Run(y, m, g + Len(x))
  BY <1>1, RunConcat
<1>4. Len(<<>>) = 0 /\ g + 0 = g
  OBVIOUS
<1>5. CASE Other(rest, m)
  <2>1. Other(x, m)
    BY <1>1, <1>2, <1>5 DEF Other
  <2> QED BY <2>1 DEF Fits, x, y
<1>6. CASE ~Other(rest, m)
  <2>1. Run(rest, m, g) /\ g + Len(rest) = size
    BY <1>4, <1>6 DEF Fits, Other
  <2>2. g + Len(x) + Len(y) = size
    BY <1>1, <1>2, <2>1
  <2>3. Run(x, m, g) /\ Run(y, m, g + Len(x))
    BY <1>1, <1>3, <2>1
  <2>4. Fits(m, g, size, x, y)
    BY <2>2, <2>3 DEF Fits
  <2> QED BY <2>4 DEF x, y
<1> QED BY <1>5, <1>6

(* The next frame arrives, and only bytes of message m have been           *)
(* collected: the rest continues what is there.                            *)
LEMMA TakeFits ==
    ASSUME NEW m \in Senders \X Nat, NEW size, NEW have \in Seq(Byte),
           NEW frame \in Seq(Byte), NEW rest \in Seq(Byte),
           Owners(have \o frame) = {m}, m \in Owners(have) => Run(have, m, 0),
           Fits(m, Got(have, m), size, frame, rest)
    PROVE  /\ Run(have \o frame, m, 0)
           /\ Fits(m, Got(have \o frame, m), size, <<>>, rest)
<1>1. /\ Owners(have) \cup Owners(frame) = {m}
      /\ Len(have) \in Nat /\ Len(frame) \in Nat /\ Len(have \o frame) = Len(have) + Len(frame)
  BY OwnersConcat, ConcatFact
<1>2. Got(have, m) = Len(have) /\ Run(have, m, 0)
  <2>1. CASE m \in Owners(have)
    BY <2>1 DEF Got
  <2>2. CASE m \notin Owners(have)
    <3>1. have = <<>>
      BY <1>1, <2>2, OwnersEmpty
    <3> QED BY <2>2, <3>1, RunEmpty DEF Got
  <2> QED BY <2>1, <2>2
<1>3. ~Other(frame, m)
  BY <1>1, OwnersEmpty DEF Other
<1>4. Run(frame, m, Len(have))
  BY <1>2, <1>3 DEF Fits
<1>5. Run(have \o frame, m, 0)
  <2>1. 0 + Len(have) = Len(have)
    BY <1>1
  <2> QED BY <1>2, <1>4, <2>1, RunConcat
<1>6. Got(have \o frame, m) = Len(have) + Len(frame)
  BY <1>1 DEF Got
<1>7. Other(rest, m) \/ (Run(rest, m, Len(have) + Len(frame)) /\ Len(have) + Len(frame) + Len(rest) = size)
  BY <1>2, <1>3 DEF Fits
<1>8. Fits(m, Got(have \o frame, m), size, <<>>, rest)
  <2>1. Len(<<>>) = 0 /\ \A g \in Nat : g + 0 = g
    OBVIOUS
  <2> QED BY <1>1, <1>6, <1>7, <2>1, RunEmpty DEF Fits
<1> QED BY <1>5, <1>8

(* The last frame of message m arrives: all of it is there.                *)
LEMMA LastFits ==
    ASSUME NEW m \in Senders \X Nat, NEW size \in Nat, NEW have \in Seq(Byte),
           NEW frame \in Seq(Byte), Owners(have \o frame) = {m},
           m \in Owners(have) => Run(have, m, 0),
           Fits(m, Got(have, m), size, frame, <<>>)
    PROVE  Run(have \o frame, m, 0) /\ Len(have \o frame) = size
<1>1. <<>> \in Seq(Byte)
  OBVIOUS
<1>2. Run(have \o frame, m, 0) /\ Fits(m, Got(have \o frame, m), size, <<>>, <<>>)
  BY <1>1, TakeFits
<1>3. Got(have \o frame, m) = Len(have \o frame) /\ Len(have \o frame) \in Nat
  BY ConcatFact DEF Got
<1>4. Len(have \o frame) + Len(<<>>) + Len(<<>>) = size
  BY <1>2, <1>3 DEF Fits, Other
<1> QED BY <1>2, <1>3, <1>4

-----------------------------------------------------------------------------
(* The inductive invariant *)

Frame == [data : Seq(Byte), end : BOOLEAN]

Types ==
    /\ requested \in [Senders -> Seq(Seq(Byte))]
    /\ sduIn \in [Senders -> Seq(Byte)]
    /\ toSend \in [Senders -> BOOLEAN]
    /\ sduBuffer \in [Senders -> Seq(Byte)]
    /\ toSendBuffer \in [Senders -> BOOLEAN]
    /\ air \in [Senders -> {<<>>} \cup {<<f>> : f \in Frame}]
    /\ pduBuffer \in Seq(Byte)
    /\ indicated \in Seq(Seq(Byte))

(* The bytes of board s under way, and whether they end a message. *)
Air(s) == IF air[s] = <<>> THEN <<>> ELSE Head(air[s]).data

LastOnAir(s) == air[s] # <<>> /\ Head(air[s]).end

(* The latest message of s, and whether some of it is still to be sent. *)
Latest(s) == <<s, Len(requested[s])>>

Busy(s) == toSend[s] \/ toSendBuffer[s]

(* The messages with bytes at the receiver or on the way there from s, and *)
(* those with bytes that s keeps.                                          *)
Arriving(s) == Owners(pduBuffer) \cup Owners(Air(s))

Unsent(s) == (IF toSend[s] THEN Owners(sduIn[s]) ELSE {}) \cup Owners(sduBuffer[s])

Size(m) == Len(requested[m[1]][m[2]])

Sent(s) == {<<s, k>> : k \in 1 .. Len(requested[s])}

(* Every byte belongs to a message that its board has requested. *)
Owned ==
    /\ \A s \in Senders :
         Owners(Air(s)) \cup Owners(sduIn[s]) \cup Owners(sduBuffer[s]) \subseteq Sent(s)
    /\ \A m \in Owners(pduBuffer) : m \in Sent(m[1])
    /\ \A i \in DOMAIN indicated : \A m \in Owners(indicated[i]) : m \in Sent(m[1])

(* A request is the run of its bytes. *)
Requests ==
    \A s \in Senders : \A k \in 1 .. Len(requested[s]) : Run(requested[s][k], <<s, k>>, 0)

(* The two events and the two places for bytes. *)
Flags(s) ==
    /\ ~toSendBuffer[s] => sduBuffer[s] = <<>>
    /\ air[s] # <<>> /\ ~LastOnAir(s) => toSendBuffer[s]
    /\ LastOnAir(s) /\ toSendBuffer[s] => toSend[s]
    /\ Busy(s) => Len(requested[s]) > 0

(* The latest message, while it is being sent: its next bytes wait in      *)
(* sduIn, or they are under way, or the receiver has them.                 *)
Current(s) ==
    LET m == Latest(s)
        g == Got(pduBuffer, m)
    IN  Busy(s) /\ m \notin disturbed =>
          \/ /\ toSend[s]
             /\ m \in Owners(pduBuffer) \cup Owners(sduIn[s])
             /\ Fits(m, g, Size(m), sduIn[s], sduBuffer[s])
             /\ air[s] # <<>> => m \notin Arriving(s)
          \/ /\ ~toSend[s]
             /\ m \in Arriving(s)
             /\ Fits(m, g, Size(m), Air(s), sduBuffer[s])

(* The last frame under way ends message k, and a request made meanwhile   *)
(* is a later one.                                                         *)
EndsWith(s, k) ==
    /\ toSend[s] => k < Len(requested[s])
    /\ <<s, k>> \notin disturbed =>
         /\ <<s, k>> \in Arriving(s)
         /\ Fits(<<s, k>>, Got(pduBuffer, <<s, k>>), Size(<<s, k>>), Air(s), <<>>)
    /\ \A m \in Arriving(s) \ disturbed : m[1] = s => m = <<s, k>>

Ending(s) == LastOnAir(s) => \E k \in 1 .. Len(requested[s]) : EndsWith(s, k)

(* What has not been sent, and what is arriving without an end, is of the  *)
(* latest message only.                                                    *)
OnlyLatest(s) ==
    /\ \A m \in Unsent(s) \ disturbed : m = Latest(s)
    /\ ~LastOnAir(s) => \A m \in Arriving(s) \ disturbed :
                            m[1] = s => m = Latest(s) /\ Busy(s)

Sender(s) == Flags(s) /\ Current(s) /\ Ending(s) /\ OnlyLatest(s)

(* What has been collected of a message is its beginning, and nothing else *)
(* has been collected.                                                     *)
Pure == \A m \in Owners(pduBuffer) \ disturbed : Run(pduBuffer, m, 0)

(* What is arriving or waits to be sent is later than what was indicated.  *)
Later ==
    \A s \in Senders : \A i \in DOMAIN indicated :
        \A m \in Owners(indicated[i]) \ disturbed, n \in (Arriving(s) \cup Unsent(s)) \ disturbed :
            m[1] = s /\ n[1] = s => m[2] < n[2]

IInv ==
    /\ Types /\ Owned /\ Requests
    /\ \A s \in Senders : Sender(s)
    /\ Pure /\ Later
    /\ WholeUnlessDisturbed /\ InTurnUnlessDisturbed

-----------------------------------------------------------------------------
(* What a step leaves alone *)

(* The parts of a board that takes no part in a step, as long as its       *)
(* undisturbed messages have not gained or lost anything at the receiver.  *)
LEMMA OthersKeep ==
    ASSUME NEW u \in Senders, Types, Sender(u), disturbed \subseteq disturbed',
           requested'[u] = requested[u], sduIn'[u] = sduIn[u], toSend'[u] = toSend[u],
           sduBuffer'[u] = sduBuffer[u], toSendBuffer'[u] = toSendBuffer[u], air'[u] = air[u],
           \A k : <<u, k>> \notin disturbed' =>
               /\ <<u, k>> \in Owners(pduBuffer') <=> <<u, k>> \in Owners(pduBuffer)
               /\ Got(pduBuffer', <<u, k>>) = Got(pduBuffer, <<u, k>>),
           Owners(pduBuffer') \subseteq Senders \X Nat
    PROVE  Sender(u)'
<1>1. /\ Latest(u)' = Latest(u) /\ Air(u)' = Air(u) /\ (LastOnAir(u)' <=> LastOnAir(u))
      /\ (Busy(u)' <=> Busy(u)) /\ Unsent(u)' = Unsent(u)
      /\ \A k : Size(<<u, k>>)' = Size(<<u, k>>)
  BY DEF Latest, Air, LastOnAir, Busy, Unsent, Size
<1>2. \A k : <<u, k>> \notin disturbed' => (<<u, k>> \in Arriving(u)' <=> <<u, k>> \in Arriving(u))
  BY <1>1 DEF Arriving
<1>3. \A m \in Arriving(u)' \ disturbed' :
         m[1] = u => m \in Arriving(u) /\ m \notin disturbed
  <2>1. ASSUME NEW m \in Arriving(u)' \ disturbed', m[1] = u
        PROVE  m \in Arriving(u)
    <3>1. CASE m \in Owners(Air(u)')
      BY <1>1, <3>1 DEF Arriving
    <3>2. CASE m \in Owners(pduBuffer')
      <4>1. m = <<u, m[2]>>
        BY <2>1, <3>2
      <4> QED BY <1>2, <2>1, <4>1
    <3> QED BY <2>1, <3>1, <3>2 DEF Arriving
  <2> QED BY <2>1
<1>4. Flags(u)'
  BY <1>1 DEF Sender, Flags
<1>5. Current(u)'
  <2> DEFINE m == Latest(u)
  <2>1. m = <<u, Len(requested[u])>>
    BY DEF Latest
  <2>2. SUFFICES ASSUME Busy(u), m \notin disturbed'
                 PROVE  \/ /\ toSend[u]
                           /\ m \in Owners(pduBuffer') \cup Owners(sduIn[u])
                           /\ Fits(m, Got(pduBuffer', m), Size(m)', sduIn[u], sduBuffer[u])
                           /\ air[u] # <<>> => m \notin Arriving(u)'
                        \/ /\ ~toSend[u]
                           /\ m \in Arriving(u)'
                           /\ Fits(m, Got(pduBuffer', m), Size(m)', Air(u), sduBuffer[u])
    BY <1>1 DEF Current, Size, Latest
  <2>3. /\ m \in Owners(pduBuffer') <=> m \in Owners(pduBuffer)
        /\ Got(pduBuffer', m) = Got(pduBuffer, m)
        /\ m \in Arriving(u)' <=> m \in Arriving(u)
        /\ Size(m)' = Size(m)
        /\ m \notin disturbed
    BY <1>1, <1>2, <2>1, <2>2
  <2>4. \/ /\ toSend[u]
           /\ m \in Owners(pduBuffer) \cup Owners(sduIn[u])
           /\ Fits(m, Got(pduBuffer, m), Size(m), sduIn[u], sduBuffer[u])
           /\ air[u] # <<>> => m \notin Arriving(u)
        \/ /\ ~toSend[u]
           /\ m \in Arriving(u)
           /\ Fits(m, Got(pduBuffer, m), Size(m), Air(u), sduBuffer[u])
    BY <2>2, <2>3 DEF Sender, Current
  <2> HIDE DEF m
  <2> QED BY <2>3, <2>4
<1>6. Ending(u)'
  <2> SUFFICES ASSUME LastOnAir(u)' PROVE \E k \in 1 .. Len(requested[u]) : EndsWith(u, k)'
    BY DEF Ending
  <2>1. PICK k \in 1 .. Len(requested[u]) : EndsWith(u, k)
    BY <1>1 DEF Sender, Ending
  <2>2. <<u, k>> \notin disturbed' =>
           /\ <<u, k>> \in Arriving(u)'
           /\ Fits(<<u, k>>, Got(pduBuffer', <<u, k>>), Size(<<u, k>>)', Air(u)', <<>>)
    BY <1>1, <1>2, <2>1 DEF EndsWith
  <2>3. \A m \in Arriving(u)' \ disturbed' : m[1] = u => m = <<u, k>>
    BY <1>3, <2>1 DEF EndsWith
  <2>4. toSend'[u] => k < Len(requested'[u])
    BY <2>1 DEF EndsWith
  <2>5. EndsWith(u, k)'
    BY <2>2, <2>3, <2>4 DEF EndsWith
  <2> QED BY <2>5
<1>7. OnlyLatest(u)'
  <2>1. \A m \in Unsent(u)' \ disturbed' : m = Latest(u)'
    BY <1>1 DEF Sender, OnlyLatest
  <2>2. ASSUME ~LastOnAir(u)', NEW m \in Arriving(u)' \ disturbed', m[1] = u
        PROVE  m = Latest(u)' /\ Busy(u)'
    BY <1>1, <1>3, <2>2 DEF Sender, OnlyLatest
  <2> QED BY <2>1, <2>2 DEF OnlyLatest
<1> QED BY <1>4, <1>5, <1>6, <1>7 DEF Sender

-----------------------------------------------------------------------------
(* SendFrame *)

(* The bytes under way are bytes. *)
LEMMA AirFact ==
    ASSUME Types, NEW s \in Senders
    PROVE  /\ Air(s) \in Seq(Byte)
           /\ air[s] # <<>> => Air(s) = Head(air[s]).data /\ Head(air[s]).end \in BOOLEAN
<1>1. CASE air[s] = <<>>
  BY <1>1 DEF Air
<1>2. CASE air[s] # <<>>
  <2>1. PICK f \in Frame : air[s] = <<f>>
    BY <1>2 DEF Types
  <2>2. Head(air[s]) = f
    BY <2>1
  <2> QED BY <1>2, <2>2 DEF Air, Frame
<1> QED BY <1>1, <1>2

(* A frame that goes out carries what sduIn holds, and ends the message    *)
(* when nothing is kept back.                                              *)
LEMMA SendFrameTypes ==
    ASSUME Types, NEW s \in Senders, SendFrame(s)
    PROVE  /\ Types'
           /\ air[s] = <<>> /\ toSend[s] /\ ~toSend'[s]
           /\ air'[s] # <<>> /\ Head(air'[s]).data = sduIn[s]
           /\ Head(air'[s]).end <=> ~toSendBuffer[s]
           /\ \A u \in Senders \ {s} : toSend'[u] = toSend[u] /\ air'[u] = air[u]
<1> DEFINE f == [data |-> sduIn[s], end |-> ~toSendBuffer[s]]
<1>1. f \in Frame
  BY DEF Types, Frame
<1>2. air' = [air EXCEPT ![s] = <<f>>]
  BY DEF SendFrame
<1>3. f.data = sduIn[s] /\ (f.end <=> ~toSendBuffer[s])
  OBVIOUS
<1> HIDE DEF f
<1>4. air'[s] = <<f>> /\ \A u \in Senders \ {s} : air'[u] = air[u]
  BY <1>2 DEF Types
<1>5. Head(air'[s]) = f /\ air'[s] # <<>>
  BY <1>4
<1>6. Types'
  BY <1>1, <1>2 DEF Types, SendFrame
<1>7. air[s] = <<>> /\ toSend[s] /\ ~toSend'[s] /\ \A u \in Senders \ {s} : toSend'[u] = toSend[u]
  BY DEF SendFrame, Types
<1> QED BY <1>3, <1>4, <1>5, <1>6, <1>7

(* Sending a frame keeps the invariant: the air takes over what was next.  *)
LEMMA SendFrameKeeps ==
    ASSUME IInv, NEW s \in Senders, SendFrame(s)
    PROVE  IInv'
<1>1. Types /\ Owned /\ Requests /\ Sender(s)
  BY DEF IInv
<1>2. /\ Types'
      /\ air[s] = <<>> /\ toSend[s] /\ ~toSend'[s]
      /\ air'[s] # <<>> /\ Head(air'[s]).data = sduIn[s]
      /\ Head(air'[s]).end <=> ~toSendBuffer[s]
      /\ \A u \in Senders \ {s} : toSend'[u] = toSend[u] /\ air'[u] = air[u]
  BY <1>1, SendFrameTypes
<1>3. /\ requested' = requested /\ sduIn' = sduIn /\ sduBuffer' = sduBuffer
      /\ toSendBuffer' = toSendBuffer /\ pduBuffer' = pduBuffer
      /\ indicated' = indicated /\ disturbed' = disturbed
  BY DEF SendFrame
<1>4. /\ Air(s) = <<>> /\ Air(s)' = sduIn[s] /\ ~LastOnAir(s)
      /\ LastOnAir(s)' <=> ~toSendBuffer[s]
      /\ Arriving(s) = Owners(pduBuffer)
      /\ Arriving(s)' = Owners(pduBuffer) \cup Owners(sduIn[s])
      /\ Unsent(s) = Owners(sduIn[s]) \cup Owners(sduBuffer[s])
      /\ Unsent(s)' = Owners(sduBuffer[s])
      /\ Latest(s)' = Latest(s) /\ Busy(s) /\ (Busy(s)' <=> toSendBuffer[s])
      /\ \A m : Size(m)' = Size(m)
  BY <1>2, <1>3, OwnersEmpty DEF Air, LastOnAir, Arriving, Unsent, Latest, Busy, Size
<1>5. Sender(s)'
  <2>1. Flags(s)'
    BY <1>1, <1>2, <1>3, <1>4 DEF Sender, Flags
  <2>2. Current(s)'
    BY <1>1, <1>2, <1>3, <1>4 DEF Sender, Current
  <2>3. ASSUME LastOnAir(s)'
        PROVE  /\ Len(requested[s]) \in 1 .. Len(requested[s])
               /\ EndsWith(s, Len(requested[s]))'
    <3> DEFINE K == Len(requested[s])
    <3>1. K \in Nat /\ K > 0 /\ Latest(s) = <<s, K>>
      BY <1>1, <1>4, LenProperties DEF Sender, Flags, Latest, Types
    <3>2. sduBuffer[s] = <<>>
      BY <1>1, <1>4, <2>3 DEF Sender, Flags
    <3>3. <<s, K>> \notin disturbed =>
            /\ <<s, K>> \in Owners(pduBuffer) \cup Owners(sduIn[s])
            /\ Fits(<<s, K>>, Got(pduBuffer, <<s, K>>), Size(<<s, K>>), sduIn[s], <<>>)
      BY <1>1, <1>2, <1>4, <3>1, <3>2 DEF Sender, Current
    <3>4. \A m \in Arriving(s)' \ disturbed : m[1] = s => m = <<s, K>>
      BY <1>1, <1>4, <3>1 DEF Sender, OnlyLatest
    <3> QED BY <1>2, <1>3, <1>4, <3>1, <3>3, <3>4 DEF EndsWith
  <2>4. Ending(s)'
    BY <1>3, <2>3 DEF Ending
  <2>5. OnlyLatest(s)'
    BY <1>1, <1>3, <1>4 DEF Sender, OnlyLatest
  <2> QED BY <2>1, <2>2, <2>4, <2>5 DEF Sender
<1>6. Owned'
  <2>1. \A u \in Senders : Owners(Air(u)') \cup Owners(sduIn'[u]) \cup Owners(sduBuffer'[u]) \subseteq Sent(u)'
    <3>1. \A u \in Senders \ {s} : Air(u)' = Air(u)
      BY <1>2 DEF Air
    <3>2. \A u : Sent(u)' = Sent(u)
      BY <1>3 DEF Sent
    <3> QED BY <1>1, <1>3, <1>4, <3>1, <3>2 DEF Owned
  <2>2. \A u : Sent(u)' = Sent(u)
    BY <1>3 DEF Sent
  <2> QED BY <1>1, <1>3, <2>1, <2>2 DEF Owned
<1>7. ASSUME NEW u \in Senders \ {s}
      PROVE  Sender(u)'
  <2>1. Owners(pduBuffer') \subseteq Senders \X Nat
    BY <1>2, OwnersFact DEF Types
  <2> QED BY <1>1, <1>2, <1>3, <2>1, OthersKeep DEF IInv
<1>8. Later'
  <2>1. \A u \in Senders : Arriving(u)' \cup Unsent(u)' \subseteq Arriving(u) \cup Unsent(u)
    <3>1. \A u \in Senders \ {s} : Arriving(u)' = Arriving(u) /\ Unsent(u)' = Unsent(u)
      BY <1>2, <1>3 DEF Arriving, Unsent, Air
    <3> QED BY <1>4, <3>1
  <2> QED BY <1>3, <2>1 DEF IInv, Later
<1>9. Requests' /\ Pure' /\ WholeUnlessDisturbed' /\ InTurnUnlessDisturbed'
  BY <1>3 DEF IInv, Requests, Pure, WholeUnlessDisturbed, InTurnUnlessDisturbed, IsWhole
<1> QED BY <1>2, <1>5, <1>6, <1>7, <1>8, <1>9, <1>3 DEF IInv

-----------------------------------------------------------------------------
(* PullBuffer *)

(* The next frame of a message is taken from its rest: nothing is lost.    *)
LEMMA PullBufferKeeps ==
    ASSUME IInv, NEW s \in Senders, PullBuffer(s)
    PROVE  IInv'
<1> DEFINE next == Pulled(sduBuffer[s])
           rest == Cut(sduBuffer[s])
<1>1. Types /\ Owned /\ Requests /\ Sender(s) /\ sduBuffer[s] \in Seq(Byte)
  BY DEF IInv, Types
<1>2. /\ next \in Seq(Byte) /\ rest \in Seq(Byte)
      /\ Owners(sduBuffer[s]) = Owners(next) \cup Owners(rest)
  BY <1>1, PullFact, OwnersConcat
<1>3. /\ requested' = requested /\ air' = air /\ pduBuffer' = pduBuffer
      /\ indicated' = indicated /\ disturbed' = disturbed
      /\ air[s] = <<>> /\ ~toSend[s] /\ toSendBuffer[s]
      /\ toSend' = [toSend EXCEPT ![s] = TRUE]
      /\ sduIn' = [sduIn EXCEPT ![s] = next]
      /\ sduBuffer' = [sduBuffer EXCEPT ![s] = rest]
      /\ toSendBuffer' = [toSendBuffer EXCEPT ![s] = (rest # <<>>)]
  BY DEF PullBuffer
<1>4. \A m \in Senders \X Nat : \A g \in Nat : \A size :
         Fits(m, g, size, <<>>, sduBuffer[s]) => Fits(m, g, size, next, rest)
  BY <1>1, PullFits
<1> HIDE DEF next, rest
<1>5. Types'
  BY <1>1, <1>2, <1>3 DEF Types
<1>6. /\ toSend'[s] /\ sduIn'[s] = next /\ sduBuffer'[s] = rest
      /\ (toSendBuffer'[s] <=> rest # <<>>)
      /\ \A u \in Senders \ {s} : /\ toSend'[u] = toSend[u] /\ sduIn'[u] = sduIn[u]
                                  /\ sduBuffer'[u] = sduBuffer[u]
                                  /\ toSendBuffer'[u] = toSendBuffer[u]
  BY <1>1, <1>3 DEF Types
<1>7. /\ Air(s) = <<>> /\ ~LastOnAir(s) /\ ~LastOnAir(s)'
      /\ Arriving(s) = Owners(pduBuffer) /\ Arriving(s)' = Owners(pduBuffer)
      /\ Unsent(s) = Owners(sduBuffer[s]) /\ Unsent(s)' = Unsent(s)
      /\ Latest(s)' = Latest(s) /\ Busy(s) /\ Busy(s)'
      /\ \A m : Size(m)' = Size(m)
  BY <1>2, <1>3, <1>6, OwnersEmpty DEF Air, LastOnAir, Arriving, Unsent, Latest, Busy, Size
<1>8. Sender(s)'
  <2>1. Flags(s)'
    BY <1>1, <1>3, <1>6, <1>7 DEF Sender, Flags
  <2>2. Current(s)'
    <3> DEFINE m == Latest(s)
    <3>1. SUFFICES ASSUME m \notin disturbed
                   PROVE  /\ m \in Owners(pduBuffer)
                          /\ Fits(m, Got(pduBuffer, m), Size(m), next, rest)
      BY <1>3, <1>6, <1>7 DEF Current
    <3>2. m \in Owners(pduBuffer) /\ Fits(m, Got(pduBuffer, m), Size(m), <<>>, sduBuffer[s])
      BY <1>1, <1>3, <1>7, <3>1 DEF Sender, Current
    <3>3. m \in Senders \X Nat /\ Got(pduBuffer, m) \in Nat
      BY <1>1, LenProperties DEF Types, Latest, Got
    <3> HIDE DEF m
    <3> QED BY <1>4, <3>2, <3>3
  <2>3. Ending(s)' /\ OnlyLatest(s)'
    BY <1>1, <1>3, <1>7 DEF Sender, Ending, OnlyLatest
  <2> QED BY <2>1, <2>2, <2>3 DEF Sender
<1>9. ASSUME NEW u \in Senders \ {s}
      PROVE  Sender(u)'
  <2>1. Owners(pduBuffer') \subseteq Senders \X Nat
    BY <1>5, OwnersFact DEF Types
  <2> QED BY <1>1, <1>3, <1>6, <2>1, OthersKeep DEF IInv
<1>10. Owned'
  <2>1. \A u : Sent(u)' = Sent(u) /\ Air(u)' = Air(u)
    BY <1>3 DEF Sent, Air
  <2>2. \A u \in Senders : Owners(sduIn'[u]) \cup Owners(sduBuffer'[u])
                           \subseteq Owners(sduIn[u]) \cup Owners(sduBuffer[u])
    BY <1>2, <1>6
  <2>3. \A u \in Senders : Owners(Air(u)') \cup Owners(sduIn'[u]) \cup Owners(sduBuffer'[u]) \subseteq Sent(u)'
    BY <1>1, <2>1, <2>2 DEF Owned
  <2> QED BY <1>1, <1>3, <2>1, <2>3 DEF Owned
<1>11. Later'
  <2>1. \A u \in Senders : Arriving(u)' \cup Unsent(u)' = Arriving(u) \cup Unsent(u)
    <3>1. \A u \in Senders \ {s} : Arriving(u)' = Arriving(u) /\ Unsent(u)' = Unsent(u)
      BY <1>3, <1>6 DEF Arriving, Unsent, Air
    <3> QED BY <1>7, <3>1
  <2> QED BY <1>3, <2>1 DEF IInv, Later
<1>12. Requests' /\ Pure' /\ WholeUnlessDisturbed' /\ InTurnUnlessDisturbed'
  BY <1>3 DEF IInv, Requests, Pure, WholeUnlessDisturbed, InTurnUnlessDisturbed, IsWhole
<1> QED BY <1>5, <1>8, <1>9, <1>10, <1>11, <1>12 DEF IInv

-----------------------------------------------------------------------------
(* DataReq *)

(* A request of s with the bytes sdu puts next into sduIn and leaves rest  *)
(* in sduBuffer: the whole message and what was there before, or the first *)
(* frame of it and the others.                                             *)
Placed(s, sdu, next, rest) ==
    /\ sdu # <<>> /\ next # <<>>
    /\ Run(sdu, <<s, Len(requested[s]) + 1>>, 0)
    /\ requested' = [requested EXCEPT ![s] = Append(requested[s], sdu)]
    /\ sduIn' = [sduIn EXCEPT ![s] = next]
    /\ sduBuffer' = [sduBuffer EXCEPT ![s] = rest]
    /\ \/ /\ next = sdu /\ rest = sduBuffer[s]
          /\ toSendBuffer' = toSendBuffer
       \/ /\ next \o rest = sdu
          /\ toSendBuffer' = [toSendBuffer EXCEPT ![s] = TRUE]

(* A new request places its bytes in this way. *)
LEMMA DataReqPlaces ==
    ASSUME Types, NEW s \in Senders, NEW len \in Nat \ {0}, DataReq(s, len)
    PROVE  \E sdu \in Seq(Byte), next \in Seq(Byte), rest \in Seq(Byte) :
               Placed(s, sdu, next, rest)
<1> DEFINE k   == Len(requested[s]) + 1
           sdu == Bytes(s, k, len)
<1>1. k \in Nat
  BY LenProperties DEF Types
<1> HIDE DEF k
<1>2. sdu \in Seq(Byte) /\ sdu # <<>> /\ Len(sdu) = len /\ Run(sdu, <<s, k>>, 0)
  BY <1>1, BytesFact
<1>3. requested' = [requested EXCEPT ![s] = Append(requested[s], sdu)]
  BY DEF DataReq, k
<1>4. \/ sduIn' = [sduIn EXCEPT ![s] = sdu] /\ sduBuffer' = sduBuffer /\ toSendBuffer' = toSendBuffer
      \/ /\ sduIn' = [sduIn EXCEPT ![s] = Pulled(sdu)]
         /\ sduBuffer' = [sduBuffer EXCEPT ![s] = Cut(sdu)]
         /\ toSendBuffer' = [toSendBuffer EXCEPT ![s] = TRUE]
  BY DEF DataReq, k
<1>5. /\ Pulled(sdu) \in Seq(Byte) /\ Cut(sdu) \in Seq(Byte)
      /\ Pulled(sdu) \o Cut(sdu) = sdu /\ Pulled(sdu) # <<>>
  BY <1>2, PullFact
<1>6. sduBuffer \in [Senders -> Seq(Byte)] /\ sduBuffer = [sduBuffer EXCEPT ![s] = sduBuffer[s]]
  BY DEF Types
<1>7. CASE sduIn' = [sduIn EXCEPT ![s] = sdu] /\ sduBuffer' = sduBuffer /\ toSendBuffer' = toSendBuffer
  <2>1. sduBuffer' = [sduBuffer EXCEPT ![s] = sduBuffer[s]] /\ sduBuffer[s] \in Seq(Byte)
    BY <1>6, <1>7
  <2> HIDE DEF sdu
  <2>2. Placed(s, sdu, sdu, sduBuffer[s])
    BY <1>2, <1>3, <1>7, <2>1 DEF Placed, k
  <2> QED BY <1>2, <2>1, <2>2
<1>8. CASE /\ sduIn' = [sduIn EXCEPT ![s] = Pulled(sdu)]
           /\ sduBuffer' = [sduBuffer EXCEPT ![s] = Cut(sdu)]
           /\ toSendBuffer' = [toSendBuffer EXCEPT ![s] = TRUE]
  <2> HIDE DEF sdu
  <2>1. Placed(s, sdu, Pulled(sdu), Cut(sdu))
    BY <1>2, <1>3, <1>5, <1>8 DEF Placed, k
  <2> QED BY <1>2, <1>5, <2>1
<1> QED BY <1>4, <1>7, <1>8

(* The bytes of the request and of its parts belong to it and continue it  *)
(* from the beginning.                                                     *)
LEMMA PlacedFits ==
    ASSUME Types, NEW s \in Senders, NEW sdu \in Seq(Byte),
           NEW next \in Seq(Byte), NEW rest \in Seq(Byte), NEW k \in Nat,
           k = Len(requested[s]) + 1, Placed(s, sdu, next, rest),
           <<s, k>> \notin Owners(sduBuffer[s])
    PROVE  /\ Owners(sdu) = {<<s, k>>}
           /\ Owners(next) = {<<s, k>>}
           /\ Owners(rest) \subseteq {<<s, k>>} \/ (rest = sduBuffer[s] /\ toSendBuffer' = toSendBuffer)
           /\ Fits(<<s, k>>, 0, Len(sdu), next, rest)
<1>1. Run(sdu, <<s, k>>, 0) /\ sdu # <<>> /\ next # <<>>
  BY DEF Placed
<1>2. <<s, k>> \in Senders \X Nat
  OBVIOUS
<1>3. Owners(sdu) = {<<s, k>>}
  BY <1>1, <1>2, RunOwners
<1>4. CASE next = sdu /\ rest = sduBuffer[s] /\ toSendBuffer' = toSendBuffer
  <2>1. rest # <<>> => Other(rest, <<s, k>>)
    BY <1>4 DEF Other
  <2>2. Len(<<>>) = 0 /\ Len(sdu) \in Nat /\ 0 + Len(sdu) + 0 = Len(sdu)
    BY LenProperties
  <2>3. rest = <<>> => Run(rest, <<s, k>>, 0 + Len(next)) /\ 0 + Len(next) + Len(rest) = Len(sdu)
    BY <1>4, <2>2, RunEmpty
  <2>4. Fits(<<s, k>>, 0, Len(sdu), next, rest)
    BY <1>1, <1>4, <2>1, <2>3 DEF Fits
  <2> QED BY <1>3, <1>4, <2>4
<1>5. CASE next \o rest = sdu
  <2>1. /\ Owners(sdu) = Owners(next) \cup Owners(rest)
        /\ Len(sdu) = Len(next) + Len(rest) /\ Len(next) \in Nat /\ Len(rest) \in Nat
    BY <1>5, OwnersConcat, ConcatFact
  <2>2. Run(next, <<s, k>>, 0) /\ Run(rest, <<s, k>>, 0 + Len(next))
    BY <1>1, <1>5, RunConcat
  <2>3. Owners(next) = {<<s, k>>}
    BY <1>1, <1>2, <2>2, RunOwners
  <2>4. 0 + Len(next) + Len(rest) = Len(sdu)
    BY <2>1
  <2>5. Fits(<<s, k>>, 0, Len(sdu), next, rest)
    BY <2>2, <2>4 DEF Fits
  <2> QED BY <1>3, <2>1, <2>3, <2>5
<1> QED BY <1>4, <1>5 DEF Placed

(* One more request: the others stay. *)
LEMMA RequestedMore ==
    ASSUME Types, NEW s \in Senders, NEW sdu \in Seq(Byte),
           requested' = [requested EXCEPT ![s] = Append(requested[s], sdu)]
    PROVE  /\ requested' \in [Senders -> Seq(Seq(Byte))]
           /\ Len(requested[s]) \in Nat
           /\ Len(requested'[s]) = Len(requested[s]) + 1
           /\ requested'[s][Len(requested[s]) + 1] = sdu
           /\ \A k \in 1 .. Len(requested[s]) : requested'[s][k] = requested[s][k]
           /\ \A u \in Senders \ {s} : requested'[u] = requested[u]
<1>1. requested[s] \in Seq(Seq(Byte))
  BY DEF Types
<1>2. /\ Append(requested[s], sdu) \in Seq(Seq(Byte))
      /\ Len(Append(requested[s], sdu)) = Len(requested[s]) + 1
      /\ Append(requested[s], sdu)[Len(requested[s]) + 1] = sdu
      /\ \A k \in 1 .. Len(requested[s]) : Append(requested[s], sdu)[k] = requested[s][k]
  BY <1>1, AppendProperties
<1>3. Len(requested[s]) \in Nat
  BY <1>1, LenProperties
<1>4. requested'[s] = Append(requested[s], sdu)
      /\ \A u \in Senders \ {s} : requested'[u] = requested[u]
  BY DEF Types
<1>5. requested' \in [Senders -> Seq(Seq(Byte))]
  BY <1>2 DEF Types
<1> QED BY <1>2, <1>3, <1>4, <1>5

(* What was requested stays requested. *)
LEMMA RequestedStays ==
    ASSUME Types, NEW s \in Senders, NEW sdu \in Seq(Byte),
           requested' = [requested EXCEPT ![s] = Append(requested[s], sdu)]
    PROVE  /\ \A u \in Senders : Sent(u) \subseteq Sent(u)'
           /\ \A u \in Senders : \A m \in Sent(u) : Size(m)' = Size(m)
           /\ \A message : IsWhole(message) => IsWhole(message)'
<1> DEFINE K == Len(requested[s])
<1>1. /\ requested' \in [Senders -> Seq(Seq(Byte))]
      /\ K \in Nat
      /\ Len(requested'[s]) = K + 1
      /\ \A k \in 1 .. K : requested'[s][k] = requested[s][k]
      /\ \A u \in Senders \ {s} : requested'[u] = requested[u]
  BY RequestedMore
<1> HIDE DEF K
<1>2. \A u \in Senders : Len(requested[u]) \in Nat /\ Len(requested[u]) <= Len(requested'[u])
      /\ \A k \in 1 .. Len(requested[u]) : requested'[u][k] = requested[u][k]
  BY <1>1, LenProperties DEF Types, K
<1>3. \A u \in Senders : Sent(u) \subseteq Sent(u)'
  <2> SUFFICES ASSUME NEW u \in Senders PROVE Sent(u) \subseteq Sent(u)'
    OBVIOUS
  <2>1. Len(requested'[u]) \in Nat
    BY <1>1, LenProperties
  <2> QED BY <1>2, <2>1 DEF Sent
<1>4. \A u \in Senders : \A m \in Sent(u) : Size(m)' = Size(m)
  BY <1>2 DEF Sent, Size
<1>5. ASSUME NEW message, IsWhole(message)
      PROVE  IsWhole(message)'
  <2>1. PICK u \in Senders : message \in ToSet(requested[u])
    BY <1>5 DEF IsWhole
  <2>2. requested[u] \in Seq(Seq(Byte)) /\ requested'[u] \in Seq(Seq(Byte))
    BY <1>1 DEF Types
  <2>3. PICK k \in 1 .. Len(requested[u]) : requested[u][k] = message
    BY <2>1, <2>2, ToSetFact
  <2>4. k \in 1 .. Len(requested'[u]) /\ requested'[u][k] = message
    BY <1>2, <2>2, <2>3, LenProperties
  <2>5. message \in ToSet(requested'[u])
    BY <2>2, <2>4, ToSetFact
  <2> QED BY <2>5 DEF IsWhole
<1> QED BY <1>3, <1>4, <1>5

(* The four parts of the board that makes the request. *)
LEMMA DataReqSender ==
    ASSUME IInv, Types', NEW s \in Senders, NEW len, DataReq(s, len),
           NEW sdu \in Seq(Byte), NEW next \in Seq(Byte), NEW rest \in Seq(Byte),
           Placed(s, sdu, next, rest)
    PROVE  Sender(s)'
<1>1. Types /\ Owned /\ Sender(s)
  BY DEF IInv
<1>K. PICK K \in Nat : K = Len(requested[s])
  BY <1>1, LenProperties DEF Types
<1>m. PICK m : m = <<s, K + 1>>
  OBVIOUS
<1>0. K = Len(requested[s]) /\ m = <<s, K + 1>>
  BY <1>K, <1>m
<1>2. /\ K \in Nat
      /\ Len(requested'[s]) = K + 1
      /\ requested'[s][K + 1] = sdu
      /\ \A k \in 1 .. K : requested'[s][k] = requested[s][k]
  BY <1>0, <1>1, RequestedMore DEF Placed
<1>3. /\ toSend'[s] /\ sduIn'[s] = next /\ sduBuffer'[s] = rest
      /\ air' = air /\ pduBuffer' = pduBuffer /\ indicated' = indicated
      /\ disturbed' = disturbed \cup (IF Busy(s) THEN {<<s, K>>} ELSE {})
  <2>1. Overtaken(s, Len(requested[s]) + 1) = IF Busy(s) THEN {<<s, K>>} ELSE {}
    <3>1. (K + 1) - 1 = K
      OBVIOUS
    <3> QED BY <1>0, <3>1 DEF Overtaken, Busy
  <2> QED BY <1>1, <2>1 DEF DataReq, Placed, Types
<1>4. m \notin Owners(sduBuffer[s]) /\ m \notin Owners(pduBuffer) /\ m \notin Owners(Air(s))
  <2>1. m \notin Sent(s) /\ m[1] = s
    BY <1>0 DEF Sent
  <2> QED BY <1>1, <2>1 DEF Owned
<1>5. /\ Owners(next) = {m}
      /\ Owners(rest) \subseteq {m} \/ (rest = sduBuffer[s] /\ toSendBuffer' = toSendBuffer)
      /\ Fits(m, 0, Len(sdu), next, rest)
  <2>1. K + 1 \in Nat /\ K + 1 = Len(requested[s]) + 1
    BY <1>0
  <2> QED BY <1>0, <1>1, <1>4, <2>1, PlacedFits
<1>6. /\ Latest(s) = <<s, K>> /\ Latest(s)' = m /\ Size(m)' = Len(sdu)
      /\ Air(s)' = Air(s) /\ (LastOnAir(s)' <=> LastOnAir(s)) /\ Arriving(s)' = Arriving(s)
      /\ Unsent(s)' = {m} \cup Owners(rest)
      /\ Busy(s)' /\ Got(pduBuffer, m) = 0
  <2>1. Latest(s) = <<s, K>> /\ Latest(s)' = m /\ Size(m)' = Len(sdu)
    BY <1>0, <1>2 DEF Latest, Size
  <2>2. Air(s)' = Air(s) /\ (LastOnAir(s)' <=> LastOnAir(s)) /\ Arriving(s)' = Arriving(s)
    BY <1>3 DEF Air, LastOnAir, Arriving
  <2>3. Unsent(s)' = {m} \cup Owners(rest) /\ Busy(s)'
    BY <1>3, <1>5 DEF Unsent, Busy
  <2>4. Got(pduBuffer, m) = 0
    BY <1>4 DEF Got
  <2> QED BY <2>1, <2>2, <2>3, <2>4
<1>7. Flags(s)'
  <2>1. ~toSendBuffer'[s] => rest = <<>>
    BY <1>1 DEF Placed, Types, Sender, Flags
  <2>2. toSendBuffer[s] => toSendBuffer'[s]
    BY <1>1 DEF Placed, Types
  <2> QED BY <1>1, <1>2, <1>3, <1>6, <2>1, <2>2 DEF Sender, Flags
<1>8. Current(s)'
  <2>1. m \in Owners(sduIn'[s]) /\ m \notin Arriving(s)'
    BY <1>3, <1>4, <1>5, <1>6 DEF Arriving
  <2> QED BY <1>3, <1>5, <1>6, <2>1 DEF Current
<1>9. Ending(s)'
  <2> SUFFICES ASSUME LastOnAir(s) PROVE \E k \in 1 .. Len(requested'[s]) : EndsWith(s, k)'
    BY <1>6 DEF Ending
  <2>1. PICK k \in 1 .. K : EndsWith(s, k)
    BY <1>0, <1>1 DEF Sender, Ending
  <2>2. k \in 1 .. Len(requested'[s]) /\ k < Len(requested'[s])
    BY <1>2
  <2>3. Size(<<s, k>>)' = Size(<<s, k>>)
    BY <1>2 DEF Size
  <2>4. EndsWith(s, k)'
    BY <1>0, <1>3, <1>6, <2>1, <2>2, <2>3 DEF EndsWith
  <2> QED BY <2>2, <2>4
<1>10. OnlyLatest(s)'
  <2>1. ASSUME NEW n \in Unsent(s)' \ disturbed'
        PROVE  n = m
    <3>1. CASE n \in {m}
      BY <3>1
    <3>2. CASE n \in Owners(sduBuffer[s])
      <4>1. n = <<s, K>>
        BY <1>1, <1>3, <1>6, <2>1, <3>2 DEF Sender, OnlyLatest, Unsent
      <4>2. Busy(s)
        BY <1>1, <3>2, OwnersEmpty DEF Sender, Flags, Busy
      <4> QED BY <1>3, <2>1, <4>1, <4>2
    <3> QED BY <1>5, <1>6, <2>1, <3>1, <3>2
  <2>2. ASSUME ~LastOnAir(s), NEW n \in Arriving(s) \ disturbed', n[1] = s
        PROVE  FALSE
    <3>1. n = <<s, K>> /\ Busy(s)
      BY <1>1, <1>3, <1>6, <2>2 DEF Sender, OnlyLatest
    <3> QED BY <1>3, <2>2, <3>1
  <2> QED BY <1>6, <2>1, <2>2 DEF OnlyLatest
<1> QED BY <1>7, <1>8, <1>9, <1>10 DEF Sender

(* The shape of the variables after a request. *)
LEMMA DataReqTypes ==
    ASSUME Types, NEW s \in Senders, NEW len, DataReq(s, len),
           NEW sdu \in Seq(Byte), NEW next \in Seq(Byte), NEW rest \in Seq(Byte),
           Placed(s, sdu, next, rest)
    PROVE  /\ Types'
           /\ \A u \in Senders \ {s} :
                /\ requested'[u] = requested[u] /\ sduIn'[u] = sduIn[u] /\ toSend'[u] = toSend[u]
                /\ sduBuffer'[u] = sduBuffer[u] /\ toSendBuffer'[u] = toSendBuffer[u]
<1>1. requested' \in [Senders -> Seq(Seq(Byte))] /\ \A u \in Senders \ {s} : requested'[u] = requested[u]
  BY RequestedMore DEF Placed
<1>2. /\ sduIn' \in [Senders -> Seq(Byte)] /\ sduBuffer' \in [Senders -> Seq(Byte)]
      /\ toSendBuffer' \in [Senders -> BOOLEAN]
      /\ \A u \in Senders \ {s} : /\ sduIn'[u] = sduIn[u] /\ sduBuffer'[u] = sduBuffer[u]
                                  /\ toSendBuffer'[u] = toSendBuffer[u]
  BY DEF Placed, Types
<1>3. toSend' = [toSend EXCEPT ![s] = TRUE] /\ UNCHANGED <<air, pduBuffer, indicated>>
  BY DEF DataReq
<1>4. toSend' \in [Senders -> BOOLEAN] /\ \A u \in Senders \ {s} : toSend'[u] = toSend[u]
  BY <1>3 DEF Types
<1> QED BY <1>1, <1>2, <1>3, <1>4 DEF Types

(* A request keeps the invariant: it may disturb the message before it,    *)
(* and its own bytes are all its own.                                      *)
LEMMA DataReqKeeps ==
    ASSUME IInv, NEW s \in Senders, NEW len \in Lengths, DataReq(s, len)
    PROVE  IInv'
<1>1. Types /\ Owned /\ Requests
  BY DEF IInv
<1>2. PICK sdu \in Seq(Byte), next \in Seq(Byte), rest \in Seq(Byte) : Placed(s, sdu, next, rest)
  BY <1>1, LengthsAssumption, DataReqPlaces
<1>3. /\ Types'
      /\ \A u \in Senders \ {s} :
           /\ requested'[u] = requested[u] /\ sduIn'[u] = sduIn[u] /\ toSend'[u] = toSend[u]
           /\ sduBuffer'[u] = sduBuffer[u] /\ toSendBuffer'[u] = toSendBuffer[u]
  BY <1>1, <1>2, DataReqTypes
<1>4. /\ air' = air /\ pduBuffer' = pduBuffer /\ indicated' = indicated
      /\ disturbed \subseteq disturbed'
      /\ toSend'[s] /\ sduIn'[s] = next /\ sduBuffer'[s] = rest
  BY <1>1, <1>2 DEF DataReq, Placed, Types
<1>5. Sender(s)'
  BY <1>2, <1>3, DataReqSender
<1>6. ASSUME NEW u \in Senders \ {s}
      PROVE  Sender(u)'
  <2>1. Owners(pduBuffer') \subseteq Senders \X Nat
    BY <1>3, OwnersFact DEF Types
  <2> QED BY <1>1, <1>3, <1>4, <2>1, OthersKeep DEF IInv
<1>7. PICK K \in Nat : K = Len(requested[s])
  BY <1>1, LenProperties DEF Types
<1>8. /\ Len(requested'[s]) = K + 1
      /\ requested'[s][K + 1] = sdu
      /\ \A k \in 1 .. K : requested'[s][k] = requested[s][k]
  BY <1>1, <1>2, <1>7, RequestedMore DEF Placed
<1>9. /\ \A u \in Senders : Sent(u) \subseteq Sent(u)'
      /\ \A message : IsWhole(message) => IsWhole(message)'
  BY <1>1, <1>2, RequestedStays DEF Placed
<1>10. PICK m : m = <<s, K + 1>>
  OBVIOUS
<1>11. /\ Owners(next) = {m}
       /\ Owners(rest) \subseteq {m} \/ rest = sduBuffer[s]
       /\ m \in Sent(s)'
  <2>1. m \notin Sent(s)
    BY <1>7, <1>10 DEF Sent
  <2>2. m \notin Owners(sduBuffer[s]) /\ K + 1 \in Nat
    BY <1>1, <2>1 DEF Owned
  <2>3. m \in Sent(s)'
    BY <1>8, <1>10 DEF Sent
  <2> QED BY <1>1, <1>2, <1>7, <1>10, <2>2, <2>3, PlacedFits
<1>12. Owned'
  <2>1. \A u : Air(u)' = Air(u)
    BY <1>4 DEF Air
  <2>2. ASSUME NEW u \in Senders
        PROVE  Owners(Air(u)') \cup Owners(sduIn'[u]) \cup Owners(sduBuffer'[u]) \subseteq Sent(u)'
    <3>1. Owners(Air(u)) \cup Owners(sduIn[u]) \cup Owners(sduBuffer[u]) \subseteq Sent(u)'
      BY <1>1, <1>9 DEF Owned
    <3>2. CASE u = s
      BY <1>4, <1>11, <2>1, <3>1, <3>2
    <3>3. CASE u # s
      BY <1>3, <2>1, <3>1, <3>3
    <3> QED BY <3>2, <3>3
  <2>3. \A n \in Owners(pduBuffer) : n[1] \in Senders
    BY <1>1, OwnersFact DEF Types
  <2>4. \A i \in DOMAIN indicated : \A n \in Owners(indicated[i]) : n[1] \in Senders
    BY <1>1, OwnersFact, ElementOfSeq, LenProperties DEF Types
  <2> QED BY <1>1, <1>4, <1>9, <2>2, <2>3, <2>4 DEF Owned
<1>13. Requests'
  <2> SUFFICES ASSUME NEW u \in Senders, NEW k \in 1 .. Len(requested'[u])
               PROVE  Run(requested'[u][k], <<u, k>>, 0)
    BY DEF Requests
  <2>1. CASE u = s /\ k = K + 1
    BY <1>2, <1>7, <1>8, <2>1 DEF Placed
  <2>2. CASE ~(u = s /\ k = K + 1)
    <3>1. k \in 1 .. Len(requested[u]) /\ requested'[u][k] = requested[u][k]
      BY <1>3, <1>7, <1>8, <2>2
    <3> QED BY <1>1, <3>1 DEF Requests
  <2> QED BY <2>1, <2>2
<1>14. Later'
  <2> SUFFICES ASSUME NEW u \in Senders, NEW i \in DOMAIN indicated,
                      NEW a \in Owners(indicated[i]) \ disturbed',
                      NEW b \in (Arriving(u)' \cup Unsent(u)') \ disturbed',
                      a[1] = u, b[1] = u
               PROVE  a[2] < b[2]
    BY <1>4 DEF Later
  <2>1. \A v : Arriving(v)' = Arriving(v)
    BY <1>4 DEF Arriving, Air
  <2>2. CASE b \in Arriving(u) \cup Unsent(u)
    BY <1>4, <2>2 DEF IInv, Later
  <2>3. CASE b \notin Arriving(u) \cup Unsent(u)
    <3>1. u = s
      BY <1>3, <2>1, <2>3 DEF Unsent
    <3>2. b \in {m} \cup Owners(sduBuffer[s])
      BY <1>4, <1>11, <2>1, <2>3, <3>1 DEF Unsent
    <3>3. b = m
      BY <2>3, <3>1, <3>2 DEF Unsent
    <3>4. a \in Sent(s)
      BY <1>1, <3>1 DEF Owned
    <3>5. a[2] \in 1 .. K
      BY <1>7, <3>4 DEF Sent
    <3> QED BY <1>10, <3>3, <3>5
  <2> QED BY <2>2, <2>3
<1>15. Pure' /\ InTurnUnlessDisturbed'
  BY <1>4 DEF IInv, Pure, InTurnUnlessDisturbed
<1>16. WholeUnlessDisturbed'
  <2> SUFFICES ASSUME NEW i \in DOMAIN indicated
               PROVE  \/ IsWhole(indicated[i])'
                      \/ Owners(indicated[i]) \cap disturbed' # {}
                      \/ indicated[i] = <<>> /\ disturbed' # {}
    BY <1>4 DEF WholeUnlessDisturbed, IsWhole
  <2>1. \/ IsWhole(indicated[i])
        \/ Owners(indicated[i]) \cap disturbed # {}
        \/ indicated[i] = <<>> /\ disturbed # {}
    BY DEF IInv, WholeUnlessDisturbed
  <2>2. IsWhole(indicated[i]) => IsWhole(indicated[i])'
    BY <1>4, <1>9 DEF IsWhole
  <2> QED BY <1>4, <2>1, <2>2
<1> QED BY <1>3, <1>5, <1>6, <1>12, <1>13, <1>14, <1>15, <1>16 DEF IInv

-----------------------------------------------------------------------------
(* ReceiveFrame *)

(* A frame of s arrives: what has been collected then, and who has met     *)
(* whom.  A message that is in the receiver's buffer afterwards and was    *)
(* not disturbed is a message of s, and alone there.                       *)
LEMMA ReceiveFact ==
    ASSUME Types, NEW s \in Senders, ReceiveFrame(s),
           NEW all, all = pduBuffer \o Air(s)
    PROVE  /\ all \in Seq(Byte) /\ Owners(all) = Arriving(s)
           /\ air[s] # <<>> /\ air' = [air EXCEPT ![s] = <<>>]
           /\ disturbed' = disturbed \cup Mixed(s)
           /\ \A m \in Owners(all) \ Mixed(s) : Owners(all) = {m} /\ m[1] = s
           /\ LastOnAir(s) => indicated' = Append(indicated, all) /\ pduBuffer' = <<>>
           /\ ~LastOnAir(s) => indicated' = indicated /\ pduBuffer' = all
<1>1. air[s] # <<>> /\ Air(s) \in Seq(Byte) /\ Air(s) = Head(air[s]).data
  BY AirFact DEF ReceiveFrame
<1>2. all \in Seq(Byte) /\ Owners(all) = Arriving(s)
  BY <1>1, ConcatFact, OwnersConcat DEF Types, Arriving
<1>3. Mixed(s) = IF \E m, n \in Owners(all) : m # n \/ m[1] # s THEN Owners(all) ELSE {}
  BY <1>1 DEF Mixed
<1>4. \A m \in Owners(all) \ Mixed(s) : Owners(all) = {m} /\ m[1] = s
  BY <1>3
<1>5. LastOnAir(s) => indicated' = Append(indicated, all) /\ pduBuffer' = <<>>
  BY <1>1 DEF ReceiveFrame, LastOnAir
<1>6. ~LastOnAir(s) => indicated' = indicated /\ pduBuffer' = all
  BY <1>1 DEF ReceiveFrame, LastOnAir
<1> QED BY <1>1, <1>2, <1>4, <1>5, <1>6 DEF ReceiveFrame

(* The types after a frame has arrived. *)
LEMMA ReceiveTypes ==
    ASSUME Types, NEW s \in Senders, ReceiveFrame(s)
    PROVE  /\ Types'
           /\ requested' = requested /\ sduIn' = sduIn /\ toSend' = toSend
           /\ sduBuffer' = sduBuffer /\ toSendBuffer' = toSendBuffer
           /\ air'[s] = <<>> /\ \A u \in Senders \ {s} : air'[u] = air[u]
<1> DEFINE all == pduBuffer \o Air(s)
<1>1. all \in Seq(Byte) /\ air' = [air EXCEPT ![s] = <<>>]
      /\ (LastOnAir(s) => indicated' = Append(indicated, all) /\ pduBuffer' = <<>>)
      /\ (~LastOnAir(s) => indicated' = indicated /\ pduBuffer' = all)
  BY ReceiveFact
<1> HIDE DEF all
<1>2. pduBuffer' \in Seq(Byte) /\ indicated' \in Seq(Seq(Byte))
  <2>1. indicated \in Seq(Seq(Byte)) /\ <<>> \in Seq(Byte)
    BY DEF Types
  <2>2. Append(indicated, all) \in Seq(Seq(Byte))
    BY <1>1, <2>1, AppendProperties
  <2> QED BY <1>1, <2>1, <2>2
<1>3. air' \in [Senders -> {<<>>} \cup {<<f>> : f \in Frame}]
      /\ air'[s] = <<>> /\ \A u \in Senders \ {s} : air'[u] = air[u]
  BY <1>1 DEF Types
<1>4. /\ requested' = requested /\ sduIn' = sduIn /\ toSend' = toSend
      /\ sduBuffer' = sduBuffer /\ toSendBuffer' = toSendBuffer
  BY DEF ReceiveFrame
<1> QED BY <1>2, <1>3, <1>4 DEF Types

(* A board whose frame does not end a message: the receiver has its bytes. *)
LEMMA ReceiveMore ==
    ASSUME IInv, NEW s \in Senders, ReceiveFrame(s), ~LastOnAir(s)
    PROVE  Sender(s)' /\ Pure'
<1>1. Types /\ Sender(s) /\ Owned /\ air[s] # <<>>
  BY DEF IInv, ReceiveFrame
<1>2. /\ Types'
      /\ requested' = requested /\ sduIn' = sduIn /\ toSend' = toSend
      /\ sduBuffer' = sduBuffer /\ toSendBuffer' = toSendBuffer /\ air'[s] = <<>>
  BY <1>1, ReceiveTypes
<1>3. /\ pduBuffer' = pduBuffer \o Air(s) /\ Owners(pduBuffer') = Arriving(s)
      /\ disturbed' = disturbed \cup Mixed(s)
      /\ \A m \in Owners(pduBuffer') \ Mixed(s) : Owners(pduBuffer') = {m} /\ m[1] = s
  BY <1>1, ReceiveFact
<1>4. /\ Air(s)' = <<>> /\ ~LastOnAir(s)' /\ Arriving(s)' = Arriving(s)
      /\ Unsent(s)' = Unsent(s) /\ Latest(s)' = Latest(s) /\ (Busy(s)' <=> Busy(s))
      /\ \A m : Size(m)' = Size(m)
  BY <1>2, <1>3, OwnersEmpty DEF Air, LastOnAir, Arriving, Unsent, Latest, Busy, Size
<1>5. toSendBuffer[s] /\ Busy(s)
  BY <1>1 DEF Sender, Flags, Busy
<1>6. PICK m : m = Latest(s)
  OBVIOUS
<1>7. m \in Senders \X Nat
  BY <1>1, <1>6, LenProperties DEF Types, Latest
<1>8. ASSUME m \notin disturbed', m \in Arriving(s)
      PROVE  /\ ~toSend[s]
             /\ Owners(pduBuffer') = {m}
             /\ Run(pduBuffer', m, 0)
             /\ Fits(m, Got(pduBuffer', m), Size(m), <<>>, sduBuffer[s])
  <2>1. ~toSend[s] /\ Fits(m, Got(pduBuffer, m), Size(m), Air(s), sduBuffer[s])
    BY <1>1, <1>3, <1>5, <1>6, <1>8 DEF Sender, Current
  <2>2. Owners(pduBuffer \o Air(s)) = {m}
    BY <1>3, <1>8
  <2>3. m \in Owners(pduBuffer) => Run(pduBuffer, m, 0)
    BY <1>3, <1>8 DEF IInv, Pure
  <2>4. pduBuffer \in Seq(Byte) /\ Air(s) \in Seq(Byte) /\ sduBuffer[s] \in Seq(Byte)
    BY <1>1, AirFact DEF Types
  <2> QED BY <1>3, <1>7, <2>1, <2>2, <2>3, <2>4, TakeFits
<1>9. \A n \in Arriving(s) \ disturbed : n[1] = s => n = m
  BY <1>1, <1>6 DEF Sender, OnlyLatest
<1>10. Flags(s)'
  BY <1>1, <1>2, <1>4 DEF Sender, Flags
<1>11. Current(s)'
  <2> SUFFICES ASSUME m \notin disturbed'
               PROVE  \/ /\ toSend[s]
                         /\ m \in Owners(pduBuffer') \cup Owners(sduIn[s])
                         /\ Fits(m, Got(pduBuffer', m), Size(m), sduIn[s], sduBuffer[s])
                      \/ /\ ~toSend[s]
                         /\ m \in Arriving(s)
                         /\ Fits(m, Got(pduBuffer', m), Size(m), <<>>, sduBuffer[s])
    BY <1>2, <1>4, <1>6 DEF Current
  <2>1. CASE toSend[s]
    <3>1. /\ m \in Owners(pduBuffer) \cup Owners(sduIn[s])
          /\ Fits(m, Got(pduBuffer, m), Size(m), sduIn[s], sduBuffer[s])
          /\ m \notin Arriving(s)
      BY <1>1, <1>3, <1>5, <1>6, <2>1 DEF Sender, Current
    <3>2. Got(pduBuffer, m) = 0 /\ Got(pduBuffer', m) = 0
      BY <1>3, <3>1 DEF Got, Arriving
    <3> QED BY <2>1, <3>1, <3>2 DEF Arriving
  <2>2. CASE ~toSend[s]
    <3>1. m \in Arriving(s)
      BY <1>1, <1>3, <1>5, <1>6, <2>2 DEF Sender, Current
    <3> QED BY <1>8, <2>2, <3>1
  <2> QED BY <2>1, <2>2
<1>12. Ending(s)' /\ OnlyLatest(s)'
  BY <1>1, <1>3, <1>4 DEF Sender, Ending, OnlyLatest
<1>13. Pure'
  <2> SUFFICES ASSUME NEW n \in Owners(pduBuffer') \ disturbed'
               PROVE  Run(pduBuffer', n, 0)
    BY DEF Pure
  <2>1. n = m
    BY <1>3, <1>9
  <2> QED BY <1>3, <1>8, <2>1
<1> QED BY <1>10, <1>11, <1>12, <1>13 DEF Sender

(* A board whose frame ends a message: the receiver's buffer is empty.     *)
LEMMA ReceiveLast ==
    ASSUME IInv, NEW s \in Senders, ReceiveFrame(s), LastOnAir(s)
    PROVE  Sender(s)' /\ Pure'
<1>1. Types /\ Sender(s) /\ air[s] # <<>>
  BY DEF IInv, ReceiveFrame
<1>2. /\ requested' = requested /\ sduIn' = sduIn /\ toSend' = toSend
      /\ sduBuffer' = sduBuffer /\ toSendBuffer' = toSendBuffer /\ air'[s] = <<>>
  BY <1>1, ReceiveTypes
<1>3. pduBuffer' = <<>> /\ disturbed' = disturbed \cup Mixed(s)
  BY <1>1, ReceiveFact
<1>4. /\ Air(s)' = <<>> /\ ~LastOnAir(s)' /\ Arriving(s)' = {}
      /\ Unsent(s)' = Unsent(s) /\ Latest(s)' = Latest(s) /\ (Busy(s)' <=> Busy(s))
      /\ \A m : Size(m)' = Size(m)
  BY <1>2, <1>3, OwnersEmpty DEF Air, LastOnAir, Arriving, Unsent, Latest, Busy, Size
<1>5. Flags(s)'
  BY <1>1, <1>2, <1>4 DEF Sender, Flags
<1>6. PICK m : m = Latest(s)
  OBVIOUS
<1>7. Current(s)'
  <2> SUFFICES ASSUME Busy(s), m \notin disturbed'
               PROVE  /\ toSend[s] /\ m \in Owners(sduIn[s])
                      /\ Fits(m, Got(<<>>, m), Size(m), sduIn[s], sduBuffer[s])
    BY <1>2, <1>3, <1>4, <1>6 DEF Current
  <2>1. toSend[s]
    BY <1>1 DEF Sender, Flags, Busy
  <2>2. /\ m \in Owners(pduBuffer) \cup Owners(sduIn[s])
        /\ Fits(m, Got(pduBuffer, m), Size(m), sduIn[s], sduBuffer[s])
        /\ m \notin Arriving(s)
    BY <1>1, <1>3, <1>6, <2>1 DEF Sender, Current
  <2>3. m \notin Owners(pduBuffer) /\ Got(pduBuffer, m) = 0 /\ Got(<<>>, m) = 0
    BY <2>2, OwnersEmpty DEF Arriving, Got
  <2> QED BY <2>1, <2>2, <2>3
<1>8. Ending(s)' /\ OnlyLatest(s)'
  BY <1>1, <1>3, <1>4 DEF Sender, Ending, OnlyLatest
<1>9. Pure'
  BY <1>3, OwnersEmpty DEF Pure
<1> QED BY <1>5, <1>7, <1>8, <1>9 DEF Sender

(* The other boards: what they have at the receiver is disturbed.          *)
LEMMA ReceiveOthers ==
    ASSUME IInv, NEW s \in Senders, ReceiveFrame(s), NEW u \in Senders \ {s}
    PROVE  Sender(u)'
<1>1. Types /\ Owned /\ Sender(u)
  BY DEF IInv
<1>2. /\ Types'
      /\ requested' = requested /\ sduIn' = sduIn /\ toSend' = toSend
      /\ sduBuffer' = sduBuffer /\ toSendBuffer' = toSendBuffer /\ air'[u] = air[u]
  BY <1>1, ReceiveTypes
<1>3. PICK all : all = pduBuffer \o Air(s)
  OBVIOUS
<1>4. /\ Owners(all) = Arriving(s)
      /\ disturbed' = disturbed \cup Mixed(s)
      /\ \A m \in Owners(all) \ Mixed(s) : m[1] = s
      /\ pduBuffer' = <<>> \/ pduBuffer' = all
  BY <1>1, <1>3, ReceiveFact
<1>5. ASSUME NEW k, <<u, k>> \notin disturbed'
      PROVE  <<u, k>> \notin Owners(pduBuffer') /\ <<u, k>> \notin Owners(pduBuffer)
  <2>1. <<u, k>>[1] # s
    OBVIOUS
  <2>2. <<u, k>> \notin Arriving(s)
    BY <1>4, <1>5, <2>1
  <2>3. <<u, k>> \notin Owners(pduBuffer)
    BY <2>2 DEF Arriving
  <2>4. <<u, k>> \notin Owners(pduBuffer')
    BY <1>4, <2>2, OwnersEmpty
  <2> QED BY <2>3, <2>4
<1>6. \A k : <<u, k>> \notin disturbed' =>
         /\ <<u, k>> \in Owners(pduBuffer') <=> <<u, k>> \in Owners(pduBuffer)
         /\ Got(pduBuffer', <<u, k>>) = Got(pduBuffer, <<u, k>>)
  BY <1>5 DEF Got
<1>7. Owners(pduBuffer') \subseteq Senders \X Nat
  BY <1>2, OwnersFact DEF Types
<1> QED BY <1>1, <1>2, <1>4, <1>6, <1>7, OthersKeep

(* What the last frame completes is the message as it was requested,       *)
(* unless that was disturbed.                                              *)
LEMMA LastIsWhole ==
    ASSUME IInv, NEW s \in Senders, ReceiveFrame(s), LastOnAir(s),
           NEW all, all = pduBuffer \o Air(s)
    PROVE  \/ IsWhole(all)
           \/ Owners(all) \cap disturbed' # {}
           \/ all = <<>> /\ disturbed' # {}
<1>1. Types /\ Sender(s) /\ Requests
  BY DEF IInv
<1>2. /\ all \in Seq(Byte) /\ Owners(all) = Arriving(s)
      /\ disturbed' = disturbed \cup Mixed(s)
      /\ \A m \in Owners(all) \ Mixed(s) : Owners(all) = {m} /\ m[1] = s
  BY <1>1, ReceiveFact
<1>3. PICK k \in 1 .. Len(requested[s]) : EndsWith(s, k)
  BY <1>1 DEF Sender, Ending
<1>4. PICK m : m = <<s, k>>
  OBVIOUS
<1>5. CASE Owners(all) = {}
  <2>1. all = <<>>
    BY <1>2, <1>5, OwnersEmpty
  <2>2. m \in disturbed
    BY <1>2, <1>3, <1>4, <1>5 DEF EndsWith
  <2> QED BY <1>2, <2>1, <2>2
<1>6. CASE Owners(all) # {} /\ Owners(all) \cap disturbed' = {}
  <2>1. PICK n \in Owners(all) : TRUE
    BY <1>6
  <2>2. Owners(all) = {n} /\ n[1] = s /\ n \notin disturbed
    BY <1>2, <1>6, <2>1
  <2>3. n = m
    BY <1>2, <1>3, <1>4, <2>2 DEF EndsWith
  <2>4. Fits(m, Got(pduBuffer, m), Size(m), Air(s), <<>>)
    BY <1>3, <1>4, <2>2, <2>3 DEF EndsWith
  <2>5. m \in Owners(pduBuffer) => Run(pduBuffer, m, 0)
    BY <2>2, <2>3 DEF IInv, Pure
  <2>6. /\ pduBuffer \in Seq(Byte) /\ Air(s) \in Seq(Byte) /\ <<>> \in Seq(Byte)
        /\ m \in Senders \X Nat
    BY <1>1, <1>4, AirFact, LenProperties DEF Types
  <2>7. /\ requested[s] \in Seq(Seq(Byte)) /\ requested[s][k] \in Seq(Byte)
        /\ Run(requested[s][k], m, 0)
        /\ Size(m) = Len(requested[s][k]) /\ Size(m) \in Nat
    <3>1. requested[s] \in Seq(Seq(Byte))
      BY <1>1 DEF Types
    <3>2. requested[s][k] \in Seq(Byte)
      BY <3>1, ElementOfSeq
    <3> QED BY <1>1, <1>4, <3>1, <3>2, LenProperties DEF Requests, Size
  <2>8. Run(all, m, 0) /\ Len(all) = Size(m)
    <3>1. Owners(all) = {m}
      BY <2>2, <2>3
    <3>2. m \in Senders \X Nat
      BY <2>6
    <3>3. ASSUME NEW have \in Seq(Byte), NEW frame \in Seq(Byte), NEW size \in Nat,
                 Owners(have \o frame) = {m}, m \in Owners(have) => Run(have, m, 0),
                 Fits(m, Got(have, m), size, frame, <<>>)
          PROVE  Run(have \o frame, m, 0) /\ Len(have \o frame) = size
      BY <3>2, <3>3, LastFits
    <3> QED BY <2>4, <2>5, <2>6, <2>7, <3>1, <3>3
  <2>9. all = requested[s][k]
    BY <1>2, <2>7, <2>8, RunUnique
  <2>10. all \in ToSet(requested[s])
    BY <2>7, <2>9, ToSetFact
  <2> QED BY <2>10 DEF IsWhole
<1> QED BY <1>5, <1>6

(* The list of what was indicated, with one more at its end. *)
LEMMA IndicatedMore ==
    ASSUME Types, NEW all \in Seq(Byte), indicated' = Append(indicated, all)
    PROVE  /\ DOMAIN indicated = 1 .. Len(indicated) /\ Len(indicated) \in Nat
           /\ DOMAIN indicated' = 1 .. (Len(indicated) + 1)
           /\ \A i \in 1 .. Len(indicated) : indicated'[i] = indicated[i]
           /\ indicated'[Len(indicated) + 1] = all
<1>1. indicated \in Seq(Seq(Byte))
  BY DEF Types
<1>2. /\ Append(indicated, all) \in Seq(Seq(Byte))
      /\ Len(Append(indicated, all)) = Len(indicated) + 1
      /\ \A i \in 1 .. Len(indicated) : Append(indicated, all)[i] = indicated[i]
      /\ Append(indicated, all)[Len(indicated) + 1] = all
  BY <1>1, AppendProperties
<1>3. Len(indicated) \in Nat /\ DOMAIN indicated = 1 .. Len(indicated)
  BY <1>1, LenProperties
<1>4. DOMAIN Append(indicated, all) = 1 .. (Len(indicated) + 1)
  BY <1>2, LenProperties
<1> QED BY <1>2, <1>3, <1>4

(* A frame that does not end a message indicates nothing. *)
LEMMA ReceiveMoreKeeps ==
    ASSUME IInv, NEW s \in Senders, ReceiveFrame(s), ~LastOnAir(s)
    PROVE  IInv'
<1>1. Types /\ Owned
  BY DEF IInv
<1>2. /\ Types'
      /\ requested' = requested /\ sduIn' = sduIn /\ toSend' = toSend
      /\ sduBuffer' = sduBuffer /\ toSendBuffer' = toSendBuffer /\ air'[s] = <<>>
      /\ \A u \in Senders \ {s} : air'[u] = air[u]
  BY <1>1, ReceiveTypes
<1>3. /\ Owners(pduBuffer') = Arriving(s)
      /\ disturbed \subseteq disturbed' /\ indicated' = indicated
  BY <1>1, ReceiveFact
<1>4. (\A u \in Senders : Sender(u)') /\ Pure'
  BY ReceiveMore, ReceiveOthers
<1>5. /\ \A u : Sent(u)' = Sent(u) /\ Unsent(u)' = Unsent(u)
      /\ Air(s)' = <<>> /\ \A u \in Senders \ {s} : Air(u)' = Air(u)
  BY <1>2 DEF Sent, Unsent, Air
<1>6. Owned'
  <2>1. \A u \in Senders : Owners(Air(u)') \cup Owners(sduIn'[u]) \cup Owners(sduBuffer'[u]) \subseteq Sent(u)'
    BY <1>1, <1>2, <1>5, OwnersEmpty DEF Owned
  <2>2. \A m \in Owners(pduBuffer') : m \in Sent(m[1])'
    <3>1. \A m \in Sent(s) : m \in Sent(m[1])
      BY DEF Sent
    <3> QED BY <1>1, <1>3, <1>5, <3>1 DEF Owned, Arriving
  <2> QED BY <1>1, <1>3, <1>5, <2>1, <2>2 DEF Owned
<1>7. Later'
  <2> SUFFICES ASSUME NEW u \in Senders, NEW i \in DOMAIN indicated,
                      NEW a \in Owners(indicated[i]) \ disturbed',
                      NEW b \in (Arriving(u)' \cup Unsent(u)') \ disturbed',
                      a[1] = u, b[1] = u
               PROVE  a[2] < b[2]
    BY <1>3 DEF Later
  <2>1. b \in Arriving(u) \cup Unsent(u)
    <3>1. CASE u = s
      BY <1>3, <1>5, <3>1, OwnersEmpty DEF Arriving
    <3>2. CASE u # s
      <4>1. \A m \in Owners(Air(s)) : m[1] = s
        BY <1>1 DEF Owned, Sent
      <4> QED BY <1>3, <1>5, <3>2, <4>1 DEF Arriving
    <3> QED BY <3>1, <3>2
  <2> QED BY <1>3, <2>1 DEF IInv, Later
<1>8. Requests' /\ InTurnUnlessDisturbed' /\ WholeUnlessDisturbed'
  BY <1>2, <1>3 DEF IInv, Requests, InTurnUnlessDisturbed, WholeUnlessDisturbed, IsWhole
<1> QED BY <1>2, <1>4, <1>6, <1>7, <1>8 DEF IInv

(* A frame that ends a message indicates it. *)
LEMMA ReceiveLastKeeps ==
    ASSUME IInv, NEW s \in Senders, ReceiveFrame(s), LastOnAir(s)
    PROVE  IInv'
<1>1. Types /\ Owned /\ Sender(s)
  BY DEF IInv
<1>2. /\ Types'
      /\ requested' = requested /\ sduIn' = sduIn /\ toSend' = toSend
      /\ sduBuffer' = sduBuffer /\ toSendBuffer' = toSendBuffer /\ air'[s] = <<>>
      /\ \A u \in Senders \ {s} : air'[u] = air[u]
  BY <1>1, ReceiveTypes
<1>3. PICK all : all = pduBuffer \o Air(s)
  OBVIOUS
<1>4. /\ all \in Seq(Byte) /\ Owners(all) = Arriving(s)
      /\ disturbed' = disturbed \cup Mixed(s)
      /\ \A m \in Owners(all) \ Mixed(s) : Owners(all) = {m} /\ m[1] = s
      /\ indicated' = Append(indicated, all) /\ pduBuffer' = <<>>
  BY <1>1, <1>3, ReceiveFact
<1>5. PICK N \in Nat : /\ N = Len(indicated)
                       /\ DOMAIN indicated = 1 .. N /\ DOMAIN indicated' = 1 .. (N + 1)
                       /\ \A i \in 1 .. N : indicated'[i] = indicated[i]
                       /\ indicated'[N + 1] = all
  BY <1>1, <1>4, IndicatedMore
<1>6. \A i \in DOMAIN indicated' : (i \in DOMAIN indicated /\ i # N + 1) \/ i = N + 1
  BY <1>5
<1>7. (\A u \in Senders : Sender(u)') /\ Pure'
  BY ReceiveLast, ReceiveOthers
<1>8. /\ \A u : Sent(u)' = Sent(u) /\ Unsent(u)' = Unsent(u)
      /\ Air(s)' = <<>> /\ \A u \in Senders \ {s} : Air(u)' = Air(u)
  BY <1>2 DEF Sent, Unsent, Air
<1>9. Owned'
  <2>1. \A u \in Senders : Owners(Air(u)') \cup Owners(sduIn'[u]) \cup Owners(sduBuffer'[u]) \subseteq Sent(u)'
    BY <1>1, <1>2, <1>8, OwnersEmpty DEF Owned
  <2>2. \A m \in Owners(all) : m \in Sent(m[1])
    <3>1. \A m \in Sent(s) : m \in Sent(m[1])
      BY DEF Sent
    <3> QED BY <1>1, <1>4, <3>1 DEF Owned, Arriving
  <2>3. \A i \in DOMAIN indicated' : \A m \in Owners(indicated'[i]) : m \in Sent(m[1])
    BY <1>1, <1>5, <1>6, <2>2 DEF Owned
  <2> QED BY <1>4, <1>8, <2>1, <2>3, OwnersEmpty DEF Owned
<1>10. PICK k \in 1 .. Len(requested[s]) : EndsWith(s, k)
  BY <1>1 DEF Sender, Ending
<1>11. \A m \in Owners(all) \ disturbed' : m = <<s, k>>
  BY <1>4, <1>10 DEF EndsWith
<1>12. Later'
  <2> SUFFICES ASSUME NEW u \in Senders, NEW i \in DOMAIN indicated',
                      NEW a \in Owners(indicated'[i]) \ disturbed',
                      NEW b \in (Arriving(u)' \cup Unsent(u)') \ disturbed',
                      a[1] = u, b[1] = u
               PROVE  a[2] < b[2]
    BY DEF Later
  <2>1. b \in Arriving(u) \cup Unsent(u) /\ b \notin disturbed
    BY <1>4, <1>8, OwnersEmpty DEF Arriving
  <2>2. CASE i # N + 1
    BY <1>4, <1>5, <1>6, <2>1, <2>2 DEF IInv, Later
  <2>3. CASE i = N + 1
    <3>1. a = <<s, k>> /\ u = s
      BY <1>5, <1>11, <2>3
    <3>2. b \in Unsent(s)
      BY <1>4, <1>8, <3>1, OwnersEmpty DEF Arriving
    <3>3. b = <<s, Len(requested[s])>>
      BY <1>1, <2>1, <3>2 DEF Sender, OnlyLatest, Latest
    <3>4. toSend[s]
      BY <1>1, <3>2, OwnersEmpty DEF Unsent, Sender, Flags
    <3>5. k < Len(requested[s])
      BY <1>10, <3>4 DEF EndsWith
    <3> QED BY <3>1, <3>3, <3>5
  <2> QED BY <2>2, <2>3
<1>13. InTurnUnlessDisturbed'
  <2> SUFFICES ASSUME NEW i \in DOMAIN indicated', NEW j \in DOMAIN indicated', i < j,
                      NEW a \in Owners(indicated'[i]) \ disturbed',
                      NEW b \in Owners(indicated'[j]) \ disturbed', a[1] = b[1]
               PROVE  a[2] < b[2]
    BY DEF InTurnUnlessDisturbed
  <2>1. i \in 1 .. N /\ indicated'[i] = indicated[i]
    BY <1>5
  <2>2. CASE j # N + 1
    BY <1>4, <1>5, <1>6, <2>1, <2>2 DEF IInv, InTurnUnlessDisturbed
  <2>3. CASE j = N + 1
    <3>1. b = <<s, k>> /\ b \in Arriving(s) \cup Unsent(s)
      BY <1>4, <1>5, <1>11, <2>3
    <3>2. b[1] = s
      BY <3>1
    <3>3. i \in DOMAIN indicated /\ a \in Owners(indicated[i]) /\ a \notin disturbed /\ b \notin disturbed
      BY <1>4, <1>5, <2>1
    <3> QED BY <3>1, <3>2, <3>3 DEF IInv, Later
  <2> QED BY <2>2, <2>3
<1>14. WholeUnlessDisturbed'
  <2> SUFFICES ASSUME NEW i \in DOMAIN indicated'
               PROVE  \/ IsWhole(indicated'[i])
                      \/ Owners(indicated'[i]) \cap disturbed' # {}
                      \/ indicated'[i] = <<>> /\ disturbed' # {}
    BY <1>2 DEF WholeUnlessDisturbed, IsWhole
  <2>1. CASE i # N + 1
    <3>1. \/ IsWhole(indicated[i])
          \/ Owners(indicated[i]) \cap disturbed # {}
          \/ indicated[i] = <<>> /\ disturbed # {}
      BY <1>6, <2>1 DEF IInv, WholeUnlessDisturbed
    <3>2. indicated'[i] = indicated[i]
      BY <1>5, <1>6, <2>1
    <3> QED BY <1>4, <3>1, <3>2
  <2>2. CASE i = N + 1
    BY <1>3, <1>5, <2>2, LastIsWhole
  <2> QED BY <2>1, <2>2
<1>15. Requests'
  BY <1>2 DEF IInv, Requests
<1> QED BY <1>2, <1>7, <1>9, <1>12, <1>13, <1>14, <1>15 DEF IInv

-----------------------------------------------------------------------------

(* Nothing has been requested: everything holds. *)
LEMMA InitIInv == Init => IInv
<1> SUFFICES ASSUME Init PROVE IInv
  OBVIOUS
<1>1. Types
  BY DEF Init, Types
<1>2. Owned /\ Requests /\ Pure /\ Later
  BY OwnersEmpty DEF Init, Owned, Requests, Pure, Later, Air
<1>3. \A s \in Senders : Sender(s)
  BY OwnersEmpty DEF Init, Sender, Flags, Current, Ending, OnlyLatest, Busy, LastOnAir,
                     Arriving, Unsent, Air
<1>4. WholeUnlessDisturbed /\ InTurnUnlessDisturbed
  BY DEF Init, WholeUnlessDisturbed, InTurnUnlessDisturbed
<1> QED BY <1>1, <1>2, <1>3, <1>4 DEF IInv

(* Every step of any board keeps the invariant. *)
LEMMA NextIInv == IInv /\ [Next]_vars => IInv'
<1> SUFFICES ASSUME IInv, [Next]_vars PROVE IInv'
  OBVIOUS
<1>1. CASE UNCHANGED vars
  <2>1. /\ requested' = requested /\ sduIn' = sduIn /\ toSend' = toSend
        /\ sduBuffer' = sduBuffer /\ toSendBuffer' = toSendBuffer /\ air' = air
        /\ pduBuffer' = pduBuffer /\ indicated' = indicated /\ disturbed' = disturbed
    BY <1>1 DEF vars
  <2>2. Types' /\ Requests' /\ Pure' /\ WholeUnlessDisturbed' /\ InTurnUnlessDisturbed'
    <3>1. Types'
      BY <2>1 DEF IInv, Types
    <3>2. Requests' /\ Pure' /\ InTurnUnlessDisturbed'
      BY <2>1 DEF IInv, Requests, Pure, InTurnUnlessDisturbed
    <3>3. WholeUnlessDisturbed'
      BY <2>1 DEF IInv, WholeUnlessDisturbed, IsWhole
    <3> QED BY <3>1, <3>2, <3>3
  <2>3. Owned' /\ Later'
    BY <2>1 DEF IInv, Owned, Later, Air, Sent, Arriving, Unsent
  <2>4. ASSUME NEW u \in Senders PROVE Sender(u)'
    <3>1. Owners(pduBuffer') \subseteq Senders \X Nat
      BY <2>2, OwnersFact DEF Types
    <3> QED BY <2>1, <3>1, OthersKeep DEF IInv
  <2> QED BY <2>2, <2>3, <2>4 DEF IInv
<1>2. CASE Next
  <2>1. PICK s \in Senders : Step(s) \/ \E len \in Lengths : DataReq(s, len)
    BY <1>2 DEF Next
  <2>2. CASE ReceiveFrame(s)
    BY <2>2, ReceiveMoreKeeps, ReceiveLastKeeps
  <2> QED BY <2>1, <2>2, SendFrameKeeps, PullBufferKeeps, DataReqKeeps DEF Step
<1> QED BY <1>1, <1>2

(* The invariant holds of every execution. *)
THEOREM InductiveInvariant == Spec => []IInv
BY InitIInv, NextIInv, PTL DEF Spec

(* A message that nothing disturbed arrives whole, whatever its length     *)
(* and whatever others suffer.                                             *)
THEOREM UndisturbedArrivesWhole == Spec => []WholeUnlessDisturbed
<1>1. IInv => WholeUnlessDisturbed
  BY DEF IInv
<1> QED BY <1>1, InductiveInvariant, PTL

(* Undisturbed messages of a board arrive in the order of their requests,  *)
(* each at most once.                                                      *)
THEOREM UndisturbedInTurn == Spec => []InTurnUnlessDisturbed
<1>1. IInv => InTurnUnlessDisturbed
  BY DEF IInv
<1> QED BY <1>1, InductiveInvariant, PTL
=============================================================================
