------------------------------ MODULE PopinProofs ------------------------------
(***************************************************************************)
(* Proofs about Popin, for any boards and any values of its constants.     *)
(*                                                                         *)
(* Under every loss, nobody takes itself for inside who was never admitted *)
(* (InUseWasAdmitted), as long as no message reaches another user than it  *)
(* was made for.  That is so when layer 2 keeps up (no message is          *)
(* redirected), and with a single user in any case.                        *)
(*                                                                         *)
(* With nothing late and nothing lost, only replaced, a user inside knows  *)
(* where it is, is so once, is not thrown out, and goes through the states *)
(* as the diagram says, until somebody stands in the queues of two booths, *)
(* which never happens with one booth or with two users; and booth and     *)
(* user agree when the user has no company.                                *)
(*                                                                         *)
(* The booths' part of a step is a step of Booth, so what BoothProofs      *)
(* proves of the booths holds here; the rest is about what is under way.   *)
(***************************************************************************)
EXTENDS Popin, SequenceTheorems, TLAPS

(* The booth with its theorems.  B, of module Popin, is the booth without. *)
P == INSTANCE BoothProofs

(* Layer 2 keeps up with the requests, or there is only one user.          *)
Sole == \A u, v \in Users : u = v
NothingMisdirected == ~Late \/ Sole

(* A message as a booth made it, perhaps with the receiver of another.     *)
Packets == {Redirect(m, d) : m \in P!Message, d \in Users \cup {Broadcast}}

Reaches(m, u) == Sole \/ m.dest \in {u, Broadcast}

(* Messages that tell nobody but the users in R that they are inside.      *)
Sound(R) == {m \in Packets : P!IsSuccess(m) => \A u \in Users : Reaches(m, u) => u \in R}

Registered(b) == P!ToSet(registered[b])

(* The inductive invariant. *)
IInv ==
    /\ P!IInv
    /\ \A b \in Booths : P!Recorded(sent[b], registered[b])
    /\ state \in [Users -> U!States]
    /\ link = [n \in Boards |-> link[n]]
    /\ \A b \in Booths : link[b] \in Seq(Sound(Registered(b)))
    /\ \A u \in Users : state[u] = "IN_USE" => \E b \in Booths : u \in Registered(b)

-----------------------------------------------------------------------------
(* Booth with and without its theorems *)

(* What Popin assumes is what Booth assumes.                               *)
LEMMA Assumed == P!CapacityAssumption /\ P!MaxUsersAssumption /\ P!NoUserAssumption
<1> QED BY BoothAssumption
        DEF B!CapacityAssumption, B!MaxUsersAssumption, B!NoUserAssumption,
            P!CapacityAssumption, P!MaxUsersAssumption, P!NoUserAssumption

(* The operators on lists and queues are the same in both.                 *)
LEMMA SameLists ==
    /\ \A s : B!ToSet(s) = P!ToSet(s) /\ ToSet(s) = P!ToSet(s)
    /\ \A s, u : B!RemoveActive(s, u) = P!RemoveActive(s, u)
    /\ \A s, u : B!AddActive(s, u) = P!AddActive(s, u)
    /\ \A q, u : B!InQueue(q, u) = P!InQueue(q, u)
    /\ \A q, u : B!IndexOf(q, u) = P!IndexOf(q, u)
    /\ \A q, u : B!RemoveWaiting(q, u) = P!RemoveWaiting(q, u)
    /\ \A q, u : B!AddWaiting(q, u) = P!AddWaiting(q, u)
    /\ \A q : B!UpdateAll(q) = P!UpdateAll(q)
    /\ \A q, c : B!AdmitNext(q, c) = P!AdmitNext(q, c)
    /\ \A q, c : B!CallExpired(q, c) = P!CallExpired(q, c)
<1>1. \A s : B!ToSet(s) = P!ToSet(s) /\ ToSet(s) = P!ToSet(s)
  BY DEF B!ToSet, P!ToSet, ToSet
<1>2. \A s, u : B!RemoveActive(s, u) = P!RemoveActive(s, u)
  BY DEF B!RemoveActive, P!RemoveActive, B!RemoveFirst, P!RemoveFirst, B!RemoveAt,
         P!RemoveAt, B!SelectInSeq, P!SelectInSeq, B!Min, P!Min
<1>3. \A s, u : B!AddActive(s, u) = P!AddActive(s, u)
  BY DEF B!AddActive, P!AddActive, B!ToSet, P!ToSet
<1>4. /\ \A q, u : B!InQueue(q, u) = P!InQueue(q, u)
      /\ \A q, u : B!IndexOf(q, u) = P!IndexOf(q, u)
  BY DEF B!InQueue, P!InQueue, B!IndexOf, P!IndexOf, B!Positions, P!Positions, B!Min, P!Min
<1>5. \A q, u : B!RemoveWaiting(q, u) = P!RemoveWaiting(q, u)
  BY <1>4 DEF B!RemoveWaiting, P!RemoveWaiting, B!RemoveAt, P!RemoveAt, B!Renumber, P!Renumber
<1>6. \A q, u : B!AddWaiting(q, u) = P!AddWaiting(q, u)
  BY DEF B!AddWaiting, P!AddWaiting
<1>7. \A q : B!UpdateAll(q) = P!UpdateAll(q)
  BY DEF B!UpdateAll, P!UpdateAll, B!QueueMessage, P!QueueMessage
<1>8. \A q, c : B!AdmitNext(q, c) = P!AdmitNext(q, c)
  BY DEF B!AdmitNext, P!AdmitNext, B!Renumber, P!Renumber, B!Notice, P!Notice
<1>9. \A q, c : B!CallExpired(q, c) = P!CallExpired(q, c)
  BY <1>5, <1>7, <1>8 DEF B!CallExpired, P!CallExpired, B!QueueMessage, P!QueueMessage
<1> QED BY <1>1, <1>2, <1>3, <1>4, <1>5, <1>6, <1>7, <1>8, <1>9

(* So are the requests of a user.                                          *)
LEMMA SameRequests ==
    ASSUME NEW b \in Booths, NEW u \in Users
    PROVE  /\ B!BoothScan(b, u) => P!BoothScan(b, u)
           /\ B!ConnectRequest(b, u) => P!ConnectRequest(b, u)
           /\ B!UserResponseNo(b, u) => P!UserResponseNo(b, u)
           /\ B!QueueLeave(b, u) => P!QueueLeave(b, u)
           /\ B!ExitRequest(b, u) => P!ExitRequest(b, u)
           /\ B!OnlyLogged(b, u) => P!OnlyLogged(b, u)
           /\ B!ChatMessage(b, u) => P!ChatMessage(b, u)
           /\ B!RegisterRejected(b, u) => P!RegisterRejected(b, u)
           /\ B!RegisterQueued(b, u) => P!RegisterQueued(b, u)
           /\ B!RegisterStillQueued(b, u) => P!RegisterStillQueued(b, u)
           /\ B!RegisterAdmitted(b, u) => P!RegisterAdmitted(b, u)
<1>1. /\ B!BoothScan(b, u) => P!BoothScan(b, u)
      /\ B!ConnectRequest(b, u) => P!ConnectRequest(b, u)
      /\ B!OnlyLogged(b, u) => P!OnlyLogged(b, u)
  BY DEF B!BoothScan, P!BoothScan, B!ConnectRequest, P!ConnectRequest, B!OnlyLogged,
         P!OnlyLogged, B!BoothStatus, P!BoothStatus, B!Send, P!Send
<1>2. /\ B!UserResponseNo(b, u) => P!UserResponseNo(b, u)
      /\ B!QueueLeave(b, u) => P!QueueLeave(b, u)
  BY SameLists DEF B!UserResponseNo, P!UserResponseNo, B!QueueLeave, P!QueueLeave, B!Send, P!Send
<1>3. B!ExitRequest(b, u) => P!ExitRequest(b, u)
  BY SameLists DEF B!ExitRequest, P!ExitRequest, B!SetQueue, P!SetQueue, B!Send, P!Send,
                   B!Notice, P!Notice
<1>4. B!ChatMessage(b, u) => P!ChatMessage(b, u)
  BY SameLists DEF B!ChatMessage, P!ChatMessage, B!Send, P!Send
<1>5. B!RegisterRejected(b, u) => P!RegisterRejected(b, u)
  BY SameLists DEF B!RegisterRejected, P!RegisterRejected, B!RegisterResponse,
                   P!RegisterResponse, B!Send, P!Send
<1>6. B!RegisterQueued(b, u) => P!RegisterQueued(b, u)
  BY SameLists DEF B!RegisterQueued, P!RegisterQueued, B!Full, P!Full, B!RegisterResponse,
                   P!RegisterResponse, B!QueueMessage, P!QueueMessage, B!Send, P!Send
<1>7. B!RegisterStillQueued(b, u) => P!RegisterStillQueued(b, u)
  BY SameLists DEF B!RegisterStillQueued, P!RegisterStillQueued, B!Full, P!Full,
                   B!RegisterResponse, P!RegisterResponse, B!QueueMessage, P!QueueMessage,
                   B!Send, P!Send
<1>8. B!RegisterAdmitted(b, u) => P!RegisterAdmitted(b, u)
  BY SameLists DEF B!RegisterAdmitted, P!RegisterAdmitted, B!Full, P!Full, B!RegisterResponse,
                   P!RegisterResponse, B!SetQueue, P!SetQueue, B!Send, P!Send
<1> QED BY <1>1, <1>2, <1>3, <1>4, <1>5, <1>6, <1>7, <1>8

(* And the booth's own steps.                                              *)
LEMMA SameTimers ==
    ASSUME NEW b \in Booths
    PROVE  /\ \A u \in Users : /\ B!SessionTimeout(b, u) => P!SessionTimeout(b, u)
                               /\ B!BothTimeouts(b, u) => P!BothTimeouts(b, u)
           /\ B!QueueReadyTimeout(b) => P!QueueReadyTimeout(b)
           /\ B!AutoAnnounce(b) => P!AutoAnnounce(b)
           /\ B!AnnounceKey(b) => P!AnnounceKey(b)
           /\ B!QuietKey(b) => P!QuietKey(b)
           /\ B!AdminMessage(b) => P!AdminMessage(b)
<1>1. ASSUME NEW u \in Users, B!SessionTimeout(b, u)
      PROVE  P!SessionTimeout(b, u)
  BY <1>1, SameLists DEF B!SessionTimeout, P!SessionTimeout, B!SetQueue, P!SetQueue,
                         B!Send, P!Send, B!Notice, P!Notice
<1>2. ASSUME NEW u \in Users, B!BothTimeouts(b, u)
      PROVE  P!BothTimeouts(b, u)
  BY <1>2, SameLists DEF B!BothTimeouts, P!BothTimeouts, B!SetQueue, P!SetQueue,
                         B!Send, P!Send, B!Notice, P!Notice
<1>3. B!QueueReadyTimeout(b) => P!QueueReadyTimeout(b)
  BY SameLists DEF B!QueueReadyTimeout, P!QueueReadyTimeout, B!SetQueue, P!SetQueue,
                   B!Send, P!Send
<1>4. /\ B!AutoAnnounce(b) => P!AutoAnnounce(b)
      /\ B!AnnounceKey(b) => P!AnnounceKey(b)
      /\ B!QuietKey(b) => P!QuietKey(b)
  BY DEF B!AutoAnnounce, P!AutoAnnounce, B!AnnounceKey, P!AnnounceKey, B!QuietKey, P!QuietKey,
         B!BoothStatus, P!BoothStatus, B!Send, P!Send
<1>5. B!AdminMessage(b) => P!AdminMessage(b)
  BY DEF B!AdminMessage, P!AdminMessage, B!Notice, P!Notice, B!Send, P!Send
<1> QED BY <1>1, <1>2, <1>3, <1>4, <1>5

(* A message that a booth handles, and what its own timers and keys do.    *)
LEMMA BoothHandler ==
    ASSUME NEW b \in Booths, NEW u \in Users, NEW m, BoothHandles(b, u, m)
    PROVE  P!Receive(b, u)
<1> QED BY SameRequests DEF BoothHandles, P!Receive

LEMMA BoothOwnStep ==
    ASSUME NEW b \in Booths, BoothTimers(b) \/ BoothTalks(b)
    PROVE  \/ \E u \in Users : P!SessionTimeout(b, u) \/ P!BothTimeouts(b, u)
           \/ P!QueueReadyTimeout(b) \/ P!AutoAnnounce(b) \/ P!AnnounceKey(b)
           \/ P!QuietKey(b) \/ P!AdminMessage(b)
<1> QED BY SameTimers DEF BoothTimers, BoothTalks

(* The booths' part of every step is a step of Booth, or none.             *)
LEMMA BoothStep ==
    ASSUME [Next]_vars
    PROVE  [P!Next]_(P!vars)
<1>1. UNCHANGED boothVars => UNCHANGED P!vars
  BY DEF boothVars, P!vars
<1>2. ASSUME NEW b \in Booths, NEW u \in Users, NEW m, BoothHandles(b, u, m)
      PROVE  P!Next
  <2>1. P!Receive(b, u)
    BY <1>2, BoothHandler
  <2> QED BY <2>1 DEF P!Next
<1>3. ASSUME NEW b \in Booths, NEW u \in Users, DeliverToBooth(u, b)
      PROVE  P!Next
  BY <1>2, <1>3 DEF DeliverToBooth
<1>4. ASSUME NEW b \in Booths, BoothActs(b)
      PROVE  P!Next
  BY <1>4, BoothOwnStep DEF BoothActs, P!Next
<1>5. ASSUME NEW b \in Booths, NEW u \in Users, DeliverToUser(b, u) \/ BroadcastReaches(b, u)
      PROVE  UNCHANGED boothVars
  BY <1>5 DEF DeliverToUser, BroadcastReaches
<1>6. ASSUME NEW u \in Users, UserActs(u)
      PROVE  UNCHANGED boothVars
  BY <1>6 DEF UserActs
<1>7. ASSUME NEW n \in Boards, Drop(n)
      PROVE  UNCHANGED boothVars
  BY <1>7 DEF Drop
<1>8. UNCHANGED vars => UNCHANGED boothVars
  BY DEF vars
<1> QED BY <1>1, <1>3, <1>4, <1>5, <1>6, <1>7, <1>8 DEF Next

-----------------------------------------------------------------------------
(* What is under way *)

(* A message of a booth, as it was made, may go under way.                 *)
LEMMA MadeIsSound ==
    ASSUME NEW m \in P!Message, NEW R, P!IsSuccess(m) => m.dest \in R
    PROVE  m \in Sound(R)
<1>1. /\ m.dest \in Users \cup {Broadcast}
      /\ P!IsSuccess(m) => m.dest \in Users
      /\ m = [m EXCEPT !.dest = m.dest]
  BY DEF P!Message, P!IsSuccess
<1>2. m \in Packets
  BY <1>1 DEF Packets, Redirect
<1>3. ASSUME P!IsSuccess(m), NEW u \in Users, Reaches(m, u)
      PROVE  u \in R
  BY <1>1, <1>3, BoardsAssumption DEF Reaches, Sole, Boards
<1> QED BY <1>2, <1>3 DEF Sound

(* With one user alone, so may a message that is redirected.               *)
LEMMA RedirectedIsSound ==
    ASSUME Sole, NEW R, NEW m \in Sound(R), NEW d \in Users \cup {Broadcast}
    PROVE  Redirect(m, d) \in Sound(R)
<1>1. PICK k \in P!Message, e \in Users \cup {Broadcast} : m = Redirect(k, e)
  BY DEF Sound, Packets
<1>2. Redirect(m, d) = Redirect(k, d)
  BY <1>1 DEF Redirect, P!Message
<1>3. P!IsSuccess(Redirect(m, d)) <=> P!IsSuccess(m)
  BY <1>1 DEF Redirect, P!IsSuccess, P!Message
<1>4. Redirect(m, d) \in Packets
  BY <1>2 DEF Packets
<1> QED BY <1>3, <1>4 DEF Sound, Reaches

(* A sequence without its last element.                                    *)
LEMMA FrontFact ==
    ASSUME NEW S, NEW s \in Seq(S), s # <<>>
    PROVE  /\ Front(s) \in Seq(S)
           /\ Len(s) \in Nat \ {0} /\ Len(Front(s)) = Len(s) - 1
           /\ DOMAIN Front(s) = 1 .. Len(s) - 1
           /\ \A i \in 1 .. Len(s) - 1 : Front(s)[i] = s[i]
<1>1. Len(s) \in Nat \ {0} /\ \A i \in 1 .. Len(s) - 1 : s[i] \in S
  <2>1. Len(s) \in Nat \ {0} /\ DOMAIN s = 1 .. Len(s)
    BY EmptySeq, LenProperties
  <2>2. \A i \in 1 .. Len(s) - 1 : i \in 1 .. Len(s)
    BY <2>1
  <2> QED BY <2>1, <2>2, ElementOfSeq
<1>2. /\ Front(s) \in Seq(S)
      /\ Len(Front(s)) = (IF 1 <= Len(s) - 1 THEN Len(s) - 1 - 1 + 1 ELSE 0)
      /\ \A i \in 1 .. Len(s) - 1 - 1 + 1 : Front(s)[i] = s[1 + i - 1]
  BY <1>1, SubSeqProperties DEF Front
<1>3. Len(Front(s)) = Len(s) - 1
  <2> DEFINE N == Len(s)
             K == Len(Front(s))
  <2>1. N \in Nat \ {0} /\ K = IF 1 <= N - 1 THEN N - 1 - 1 + 1 ELSE 0
    BY <1>1, <1>2
  <2> HIDE DEF N, K
  <2>2. K = N - 1
    BY <2>1
  <2> QED BY <2>2 DEF N, K
<1>4. DOMAIN Front(s) = 1 .. Len(s) - 1
  BY <1>2, <1>3, LenProperties
<1>5. ASSUME NEW i \in 1 .. Len(s) - 1
      PROVE  Front(s)[i] = s[i]
  <2>1. i \in 1 .. Len(s) - 1 - 1 + 1 /\ 1 + i - 1 = i
    BY <1>1
  <2> QED BY <1>2, <2>1
<1> QED BY <1>1, <1>2, <1>3, <1>4, <1>5

(* What layer 2 is handed by a booth.                                      *)
LEMMA HandedIsSound ==
    ASSUME NothingMisdirected, NEW b \in Booths, NEW R,
           link[b] \in Seq(Sound(R)),
           NEW msgs \in Seq(P!Message),
           \A i \in DOMAIN msgs : P!IsSuccess(msgs[i]) => msgs[i].dest \in R,
           NEW p, p => link[b] # <<>>, NEW l \in Handed(b, msgs, p)
    PROVE  l \in Seq(Sound(R))
<1>1. CASE msgs = <<>>
  BY <1>1 DEF Handed
<1>2. CASE msgs # <<>>
  <2> DEFINE last == Last(msgs)
  <2>1. Len(msgs) \in DOMAIN msgs /\ last = msgs[Len(msgs)] /\ last \in P!Message
    <3>1. Len(msgs) \in Nat \ {0} /\ DOMAIN msgs = 1 .. Len(msgs)
      BY <1>2, EmptySeq, LenProperties
    <3>2. Len(msgs) \in 1 .. Len(msgs)
      BY <3>1
    <3> QED BY <3>1, <3>2, ElementOfSeq DEF Last
  <2>2. last \in Sound(R) /\ last.dest \in Users \cup {Broadcast}
    <3>1. last.dest \in Users \cup {Broadcast}
      BY <2>1 DEF P!Message
    <3> HIDE DEF last
    <3> QED BY <2>1, <3>1, MadeIsSound
  <2>3. CASE ~(Late /\ link[b] # <<>>)
    <3>1. l = Append(link[b], last) \/ (p /\ l = Append(Front(link[b]), last))
      BY <1>2, <2>3 DEF Handed
    <3>2. p => Front(link[b]) \in Seq(Sound(R))
      BY FrontFact
    <3> HIDE DEF last
    <3>3. \A s \in Seq(Sound(R)) : Append(s, last) \in Seq(Sound(R))
      BY <2>2, AppendProperties
    <3> QED BY <3>1, <3>2, <3>3
  <2>4. CASE Late /\ link[b] # <<>>
    <3>1. l = <<Redirect(Head(link[b]), last.dest), last>> \/ l = <<last>>
      BY <1>2, <2>4 DEF Handed
    <3>2. Head(link[b]) \in Sound(R)
      BY <2>4, HeadTailProperties
    <3> HIDE DEF last
    <3>3. Redirect(Head(link[b]), last.dest) \in Sound(R)
      BY <2>2, <2>4, <3>2, RedirectedIsSound DEF NothingMisdirected
    <3>4. ASSUME NEW r \in Sound(R), NEW m \in Sound(R)
          PROVE  <<r, m>> \in Seq(Sound(R)) /\ <<m>> \in Seq(Sound(R))
      <4> DEFINE S == Sound(R)
      <4> HIDE DEF S
      <4>1. r \in S /\ m \in S
        BY <3>4 DEF S
      <4>2. <<r, m>> \in Seq(S)
        BY <4>1
      <4>3. <<m>> \in Seq(S)
        BY <4>1
      <4> QED BY <4>2, <4>3 DEF S
    <3> QED BY <2>2, <3>1, <3>3, <3>4
  <2> QED BY <2>3, <2>4
<1> QED BY <1>1, <1>2

(* What a step may do to the messages of a booth.                          *)
LEMMA LinkStep ==
    ASSUME IInv, [Next]_vars
    PROVE  /\ link' = [n \in Boards |-> link'[n]]
           /\ \A b \in Booths :
                \/ link'[b] = link[b]
                \/ link[b] # <<>> /\ link'[b] = Tail(link[b])
                \/ \E p : (p => link[b] # <<>>) /\ link'[b] \in Handed(b, sent'[b], p)
<1> DEFINE Kept(b) == \/ link'[b] = link[b]
                      \/ link[b] # <<>> /\ link'[b] = Tail(link[b])
                      \/ \E p : (p => link[b] # <<>>) /\ link'[b] \in Handed(b, sent'[b], p)
           Good == link' = [n \in Boards |-> link'[n]] /\ \A b \in Booths : Kept(b)
<1>0. /\ link = [n \in Boards |-> link[n]]
      /\ \A b \in Booths : b \in Boards /\ b \notin Users
      /\ \A u \in Users : u \in Boards
  BY BoardsAssumption DEF IInv, Boards
<1>1. ASSUME NEW n \in Boards, NEW l, link' = [link EXCEPT ![n] = l],
             n \in Booths => \E p : (p => link[n] # <<>>) /\ l \in Handed(n, sent'[n], p)
      PROVE  Good
  BY <1>0, <1>1
<1>2. CASE UNCHANGED vars
  BY <1>0, <1>2 DEF vars
<1>3. ASSUME NEW b \in Booths, BoothActs(b)
      PROVE  Good
  <2> DEFINE p == B!AutoAnnounce(b) /\ JustChecked(b)
  <2>1. PICK l \in Handed(b, sent'[b], p) : link' = [link EXCEPT ![b] = l]
    BY <1>3 DEF BoothActs, Hand
  <2>2. p => link[b] # <<>>
    BY DEF JustChecked, JustMade
  <2> HIDE DEF p
  <2> QED BY <1>0, <1>1, <2>1, <2>2
<1>4. ASSUME NEW u \in Users, UserActs(u)
      PROVE  Good
  BY <1>0, <1>1, <1>4 DEF UserActs, Hand
<1>5. ASSUME NEW b \in Booths, NEW u \in Users, BroadcastReaches(b, u)
      PROVE  Good
  BY <1>0, <1>1, <1>5 DEF BroadcastReaches, Hand
<1>6. ASSUME NEW b \in Booths, NEW u \in Users, DeliverToBooth(u, b)
      PROVE  Good
  <2> DEFINE p == JustChecked(b) \/ JustAnnounced(b)
  <2>1. PICK l \in Handed(b, sent'[b], p) : link' = [link EXCEPT ![u] = Tail(@), ![b] = l]
    BY <1>6 DEF DeliverToBooth, TakeAndHand
  <2>2. p => link[b] # <<>>
    BY DEF JustChecked, JustAnnounced, JustMade
  <2> HIDE DEF p
  <2> QED BY <1>0, <2>1, <2>2
<1>7. ASSUME NEW b \in Booths, NEW u \in Users, DeliverToUser(b, u)
      PROVE  Good
  <2>1. PICK l : link' = [link EXCEPT ![b] = Tail(@), ![u] = l]
    BY <1>7 DEF DeliverToUser, TakeAndHand
  <2>2. link[b] # <<>>
    BY <1>7 DEF DeliverToUser
  <2> QED BY <1>0, <2>1, <2>2
<1>8. ASSUME NEW n \in Boards, Drop(n)
      PROVE  Good
  <2>1. link[n] # <<>> /\ link' = [link EXCEPT ![n] = Tail(link[n])]
    BY <1>8 DEF Drop
  <2> QED BY <1>0, <2>1
<1> QED BY <1>2, <1>3, <1>4, <1>5, <1>6, <1>7, <1>8 DEF Next

-----------------------------------------------------------------------------
(* Who comes to be IN_USE *)

(* Of the timers, the keys and the messages, only the answer SUCCESS lets  *)
(* a user take itself for inside.                                          *)
LEMMA OnlySuccessEnters ==
    ASSUME state \in [Users -> U!States], NEW u \in Users,
           \/ UserTimers(u) \/ U!AnswerKeys(u) \/ U!ChatKeys(u)
           \/ \E b \in Booths : \E m : UserHandles(u, b, m) /\ ~P!IsSuccess(m)
    PROVE  /\ state' \in [Users -> U!States]
           /\ \A v \in Users : state'[v] = "IN_USE" => state[v] = "IN_USE"
<1> DEFINE Safe == /\ state' \in [Users -> U!States]
                   /\ \A v \in Users : state'[v] = "IN_USE" => state[v] = "IN_USE"
<1>1. ASSUME NEW s \in U!States \ {"IN_USE"}, state' = [state EXCEPT ![u] = s]
      PROVE  Safe
  BY <1>1
<1>2. state' = state => Safe
  OBVIOUS
<1>3. "SCANNING" \in U!States \ {"IN_USE"} /\ "CONNECTED" \in U!States \ {"IN_USE"}
      /\ "WAITING" \in U!States \ {"IN_USE"}
  BY DEF U!States
<1> HIDE DEF Safe
<1>4. U!OnlyShown(u) => Safe
  BY <1>2 DEF U!OnlyShown, U!control
<1>5. CASE UserTimers(u)
  <2>1. CASE U!NoBoothFound(u) \/ U!ScanAgain(u) \/ U!ConnectRetry(u) \/ U!RegisterRetry(u)
           \/ U!BothRetries(u)
    BY <1>2, <2>1
       DEF U!NoBoothFound, U!ScanAgain, U!ConnectRetry, U!RegisterRetry, U!BothRetries, U!control
  <2>2. CASE U!SessionOver(u)
    BY <1>2, <2>2 DEF U!SessionOver, U!control
  <2>3. CASE U!ConnectGiveUp(u) \/ U!GiveUpAndRegister(u)
    BY <1>1, <1>3, <2>3 DEF U!ConnectGiveUp, U!GiveUpAndRegister, U!ToScanning
  <2>4. CASE \E b \in Booths : U!SelectBooth(u, b)
    BY <1>1, <1>3, <2>4 DEF U!SelectBooth
  <2> QED BY <1>5, <2>1, <2>2, <2>3, <2>4
      DEF UserTimers, U!Scans, U!Retries, U!ConnectOver, U!RegisterOver
<1>6. CASE U!AnswerKeys(u)
  BY <1>1, <1>2, <1>3, <1>6
     DEF U!AnswerKeys, U!PressYes, U!PressNo, U!PressExit, U!PressLeave, U!ToScanning
<1>7. CASE U!ChatKeys(u)
  BY <1>2, <1>7 DEF U!ChatKeys, U!PressChat, U!EndChat, U!control
<1>8. ASSUME NEW b \in Booths, NEW m, UserHandles(u, b, m), ~P!IsSuccess(m)
      PROVE  Safe
  <2>1. \/ U!AnnounceArrives(u, b) \/ U!InfoArrives(u) \/ U!AlreadyUsed(u) \/ U!FullWaiting(u)
        \/ \E place : U!QueueInfoArrives(u, place)
        \/ U!QueueReadyArrives(u) \/ U!RemovedFromQueue(u) \/ U!ExitResponseArrives(u)
        \/ U!TimeoutAlertArrives(u) \/ U!OnlyShown(u)
    BY <1>8 DEF UserHandles, P!IsSuccess
  <2>2. CASE U!AnnounceArrives(u, b) \/ U!InfoArrives(u) \/ U!QueueReadyArrives(u)
    BY <1>2, <2>2 DEF U!AnnounceArrives, U!InfoArrives, U!QueueReadyArrives, U!control
  <2>3. CASE \/ U!AlreadyUsed(u) \/ U!FullWaiting(u) \/ U!RemovedFromQueue(u)
             \/ U!ExitResponseArrives(u) \/ U!TimeoutAlertArrives(u)
    BY <1>1, <1>3, <2>3 DEF U!AlreadyUsed, U!FullWaiting, U!RemovedFromQueue,
       U!ExitResponseArrives, U!TimeoutAlertArrives, U!ToScanning
  <2>4. CASE \E place : U!QueueInfoArrives(u, place)
    BY <1>1, <1>3, <2>4 DEF U!QueueInfoArrives
  <2> QED BY <1>4, <2>1, <2>2, <2>3, <2>4
<1> QED BY <1>5, <1>6, <1>7, <1>8 DEF Safe

(* Nobody enters but by a SUCCESS that is under way to it.                 *)
LEMMA EntersBySuccess ==
    ASSUME IInv, [Next]_vars
    PROVE  /\ state' \in [Users -> U!States]
           /\ \A u \in Users : state'[u] = "IN_USE" =>
                \/ state[u] = "IN_USE"
                \/ \E b \in Booths : /\ link[b] # <<>>
                                     /\ P!IsSuccess(Head(link[b]))
                                     /\ Head(link[b]).dest \in {u, Broadcast}
<1> DEFINE Called(u) == \E b \in Booths : /\ link[b] # <<>>
                                          /\ P!IsSuccess(Head(link[b]))
                                          /\ Head(link[b]).dest \in {u, Broadcast}
           Safe == /\ state' \in [Users -> U!States]
                   /\ \A u \in Users : state'[u] = "IN_USE" => state[u] = "IN_USE" \/ Called(u)
<1>0. state \in [Users -> U!States]
  BY DEF IInv
<1>1. UNCHANGED userVars => Safe
  BY <1>0 DEF userVars
<1>2. ASSUME NEW u \in Users, UserActs(u)
      PROVE  Safe
  BY <1>0, <1>2, OnlySuccessEnters DEF UserActs
<1>3. ASSUME NEW b \in Booths, NEW u \in Users, DeliverToUser(b, u) \/ BroadcastReaches(b, u)
      PROVE  Safe
  <2> DEFINE m == Head(link[b])
  <2>1. UserHandles(u, b, m) /\ link[b] # <<>> /\ m.dest \in {u, Broadcast}
    BY <1>3 DEF DeliverToUser, BroadcastReaches
  <2>2. CASE ~P!IsSuccess(m)
    BY <1>0, <2>1, <2>2, OnlySuccessEnters
  <2>3. CASE P!IsSuccess(m)
    <3>1. U!RegisterSucceeds(u) \/ U!OnlyShown(u)
      BY <2>1, <2>3 DEF UserHandles, NotTaken, P!IsSuccess
    <3>2. state' = [state EXCEPT ![u] = "IN_USE"] \/ state' = state
      BY <3>1 DEF U!RegisterSucceeds, U!OnlyShown, U!control
    <3>3. Called(u)
      BY <2>1, <2>3
    <3> QED BY <1>0, <3>2, <3>3 DEF U!States
  <2> QED BY <2>2, <2>3
<1> HIDE DEF Safe
<1>4. ASSUME NEW b \in Booths, BoothActs(b) \/ \E u \in Users : DeliverToBooth(u, b)
      PROVE  Safe
  BY <1>1, <1>4 DEF BoothActs, DeliverToBooth
<1>5. ASSUME NEW n \in Boards, Drop(n)
      PROVE  Safe
  BY <1>1, <1>5 DEF Drop
<1>6. UNCHANGED vars => Safe
  BY <1>1 DEF vars
<1>7. Safe
  BY <1>2, <1>3, <1>4, <1>5, <1>6 DEF Next
<1> QED BY <1>7 DEF Safe

-----------------------------------------------------------------------------
(* The invariant *)

(* Nothing but announcements is under way at the start.                    *)
LEMMA InitIInv == Init => IInv
<1> SUFFICES ASSUME Init PROVE IInv
  OBVIOUS
<1>1. P!Init
  BY DEF Init, B!Init, P!Init
<1>2. P!IInv
  BY <1>1, Assumed, P!InitIInv
<1> DEFINE first == [type |-> "BOOTH_ANNOUNCE", dest |-> Broadcast, count |-> 0, waiting |-> 0]
<1>3. first \in P!Message /\ ~P!IsSuccess(first)
  BY DEF P!Message, P!IsSuccess
<1>4. \A b \in Booths : sent[b] = <<first>>
  BY <1>1 DEF P!Init
<1>5. link = [n \in Boards |-> <<Last(IF n \in Booths THEN sent[n] ELSE out[n])>>]
  BY DEF Init
<1>6. state \in [Users -> U!States] /\ \A u \in Users : state[u] # "IN_USE"
  BY DEF Init, U!Init, U!States
<1> HIDE DEF first
<1>7. \A b \in Booths : P!Recorded(sent[b], registered[b])
  BY <1>3, <1>4 DEF P!Recorded
<1>8. ASSUME NEW b \in Booths
      PROVE  link[b] \in Seq(Sound(Registered(b)))
  <2>1. Last(sent[b]) = first
    BY <1>4 DEF Last
  <2>2. link[b] = <<first>>
    BY <1>5, <2>1 DEF Boards
  <2>3. first \in Sound(Registered(b))
    BY <1>3, MadeIsSound
  <2> QED BY <2>2, <2>3
<1>9. link = [n \in Boards |-> link[n]]
  BY <1>5
<1> QED BY <1>2, <1>6, <1>7, <1>8, <1>9 DEF IInv

(* IInv is inductive when nothing is misdirected.                          *)
LEMMA NextIInv ==
    ASSUME NothingMisdirected, IInv, [Next]_vars
    PROVE  IInv'
<1>1. [P!Next]_(P!vars) /\ P!IInv /\ \A b \in Booths : P!Recorded(sent[b], registered[b])
  BY BoothStep DEF IInv
<1>2. P!IInv'
  BY <1>1, Assumed, P!NextIInv
<1>3. \A b \in Booths : /\ P!Recorded(sent'[b], registered'[b])
                        /\ P!ToSet(registered[b]) \subseteq P!ToSet(registered'[b])
  BY <1>1, Assumed, P!StepRecords
<1>4. \A b \in Booths : Registered(b) \subseteq Registered(b)'
  BY <1>3 DEF Registered
<1>5. \A b \in Booths : sent'[b] \in Seq(P!Message)
  BY <1>2 DEF P!IInv, P!TypeOK
<1>6. ASSUME NEW b \in Booths
      PROVE  link'[b] \in Seq(Sound(Registered(b)'))
  <2>1. Sound(Registered(b)) \subseteq Sound(Registered(b)')
    BY <1>4 DEF Sound
  <2>2. link[b] \in Seq(Sound(Registered(b)))
    BY DEF IInv
  <2>3. link[b] \in Seq(Sound(Registered(b)'))
    BY <2>1, <2>2, SeqMonotonic
  <2>4. CASE link'[b] = link[b]
    BY <2>3, <2>4
  <2>5. CASE link[b] # <<>> /\ link'[b] = Tail(link[b])
    BY <2>3, <2>5, HeadTailProperties
  <2>6. ASSUME NEW p, p => link[b] # <<>>, link'[b] \in Handed(b, sent'[b], p)
        PROVE  link'[b] \in Seq(Sound(Registered(b)'))
    <3>1. \A i \in DOMAIN sent'[b] :
            P!IsSuccess(sent'[b][i]) => sent'[b][i].dest \in Registered(b)'
      BY <1>3 DEF P!Recorded, Registered
    <3> QED BY <1>5, <2>3, <2>6, <3>1, HandedIsSound
  <2> QED BY <2>4, <2>5, <2>6, LinkStep
<1>7. ASSUME NEW u \in Users, state'[u] = "IN_USE"
      PROVE  \E b \in Booths : u \in Registered(b)'
  <2>1. CASE state[u] = "IN_USE"
    BY <1>4, <2>1 DEF IInv
  <2>2. ASSUME NEW b \in Booths, link[b] # <<>>, P!IsSuccess(Head(link[b])),
               Head(link[b]).dest \in {u, Broadcast}
        PROVE  u \in Registered(b)'
    <3>1. Head(link[b]) \in Sound(Registered(b))
      BY <2>2, HeadTailProperties DEF IInv
    <3>2. u \in Registered(b)
      BY <2>2, <3>1 DEF Sound, Reaches
    <3> QED BY <1>4, <3>2
  <2> QED BY <1>7, <2>1, <2>2, EntersBySuccess
<1>8. link' = [n \in Boards |-> link'[n]]
  BY LinkStep
<1>9. state' \in [Users -> U!States]
  BY EntersBySuccess
<1>10. \A b \in Booths : link'[b] \in Seq(Sound(Registered(b))')
  BY <1>6 DEF Sound, Packets, P!Message
<1>11. \A b \in Booths : P!Recorded(sent[b], registered[b])'
  BY <1>3 DEF P!Recorded, P!ToSet
<1> QED BY <1>2, <1>7, <1>8, <1>9, <1>10, <1>11 DEF IInv

(* Whatever is lost, nobody takes itself for inside who was never admitted *)
(* by a booth: with any number of users when layer 2 keeps up with the     *)
(* requests, and with a single user when it does not.                      *)
THEOREM OnlyAdmittedEnter ==
    ASSUME NothingMisdirected
    PROVE  Spec => []InUseWasAdmitted
<1>1. Init => IInv
  BY InitIInv
<1>2. IInv /\ [Next]_vars => IInv'
  BY NextIInv
<1>3. IInv => InUseWasAdmitted
  BY SameLists DEF IInv, InUseWasAdmitted, Registered
<1> QED BY <1>1, <1>2, <1>3, PTL DEF Spec

-----------------------------------------------------------------------------

(* Together with the users the booths do what Booth says, so all that is   *)
(* proved of a booth alone holds of it in company, too.                    *)
THEOREM BoothsAsAlone == Spec => P!Spec
<1>1. Init => P!Init
  BY DEF Init, B!Init, P!Init
<1>2. [Next]_vars => [P!Next]_(P!vars)
  BY BoothStep
<1> QED BY <1>1, <1>2, PTL DEF Spec, P!Spec

-----------------------------------------------------------------------------
(* What is under way between a user and the booths *)

(* A message in layer 2's hands on board n that is u's own or made for u.  *)
(* What u asks of booth 0 comes to nobody.                                 *)
Concerns(n, u, m) == (n = u /\ m.dest # NoBooth) \/ (n \in Booths /\ m.dest = u)

Hit(n, i, u, K) == Concerns(n, u, link[n][i]) /\ P!Kind(link[n][i]) \in K

Carries(n, u, K) == \E i \in DOMAIN link[n] : Hit(n, i, u, K)

AtMostOne(u, K) ==
    \A n, k \in Boards : \A i \in DOMAIN link[n], j \in DOMAIN link[k] :
        Hit(n, i, u, K) /\ Hit(k, j, u, K) => n = k /\ i = j

Letters == U!Request \cup P!Message

(* What a booth's check of its timers or its announcement may end with, so *)
(* that a later handler of the same pass may replace it.                   *)
Passing == {"TIMEOUT_ALERT", "QUEUE_UPDATE", "REMOVED", "QUEUE_READY", "BOOTH_ANNOUNCE"}

Passed(n) == n \in Booths /\ link[n] # <<>> /\ P!Kind(Last(link[n])) \in Passing

(* What board n keeps of its messages.                                     *)
Rest(n, from, cut) ==
    IF n \in from THEN Tail(link[n]) ELSE IF n \in cut THEN Front(link[n]) ELSE link[n]

(* The boards in from lose the head of their messages, that in to gets m,  *)
(* perhaps in place of its last one.                                       *)
Mail(from, to, m) ==
    /\ from \subseteq Boards /\ to \subseteq Boards
    /\ \A n \in from : link[n] # <<>>
    /\ \A n, k \in to : n = k
    /\ to # {} => m \in Letters
    /\ \E cut \in SUBSET to :
         /\ \A n \in cut : Passed(n)
         /\ link' = [n \in Boards |-> IF n \in to THEN Append(Rest(n, from, cut), m)
                                     ELSE Rest(n, from, cut)]

Given(n, to, m, u, K) == n \in to /\ Concerns(n, u, m) /\ P!Kind(m) \in K
Taken(n, from, u, K) ==
    n \in from /\ Concerns(n, u, Head(link[n])) /\ P!Kind(Head(link[n])) \in K

(* Where each message of a board was before.                               *)
LEMMA MailPlaces ==
    ASSUME link \in [Boards -> Seq(Letters)],
           NEW from, NEW to, NEW m, Mail(from, to, m), NEW j \in Boards
    PROVE  /\ link'[j] \in Seq(Letters)
           /\ \A i \in DOMAIN link'[j] :
                \/ /\ j \notin from /\ i \in DOMAIN link[j] /\ link'[j][i] = link[j][i]
                \/ /\ j \in from /\ i + 1 \in DOMAIN link[j] /\ link'[j][i] = link[j][i + 1]
                \/ /\ j \in to /\ i = Len(link'[j]) /\ link'[j][i] = m
           /\ \A i \in DOMAIN link[j] :
                \/ /\ j \notin from /\ i \in DOMAIN link'[j] /\ link'[j][i] = link[j][i]
                \/ /\ j \in from /\ i = 1 /\ link[j][i] = Head(link[j])
                \/ /\ j \in from /\ i - 1 \in DOMAIN link'[j] /\ link'[j][i - 1] = link[j][i]
                \/ /\ j \in to \cap Booths /\ P!Kind(link[j][i]) \in Passing
           /\ DOMAIN link'[j] \subseteq Nat /\ DOMAIN link[j] \subseteq Nat
<1>0. PICK cut \in SUBSET to :
        /\ \A n \in cut : Passed(n)
        /\ link' = [n \in Boards |-> IF n \in to THEN Append(Rest(n, from, cut), m)
                                    ELSE Rest(n, from, cut)]
  BY DEF Mail
<1> DEFINE s == link[j]
           rest == Rest(j, from, cut)
           t == link'[j]
<1>1. s \in Seq(Letters) /\ Len(s) \in Nat /\ DOMAIN s = 1 .. Len(s)
  BY LenProperties
<1>2. j \in from => s # <<>>
  BY DEF Mail
<1>3. t = IF j \in to THEN Append(rest, m) ELSE rest
  BY <1>0
<1>4. j \in to => m \in Letters
  BY DEF Mail
<1> HIDE DEF t
<1>5. CASE j \in from
  <2>1. /\ rest \in Seq(Letters) /\ Len(rest) = Len(s) - 1 /\ DOMAIN rest = 1 .. Len(s) - 1
        /\ \A i \in 1 .. Len(s) - 1 : rest[i] = s[i + 1]
        /\ Head(s) = s[1] /\ Len(s) >= 1
    <3>1. Tail(s) \in Seq(Letters) /\ Len(Tail(s)) = Len(s) - 1
          /\ \A i \in 1 .. Len(Tail(s)) : Tail(s)[i] = s[i + 1]
      BY <1>1, <1>2, <1>5, HeadTailProperties
    <3>0. rest = Tail(s)
      BY <1>5 DEF Rest
    <3>2. Head(s) = s[1]
      BY <1>1, <1>2, <1>5, HeadTailProperties
    <3>3. Len(s) >= 1
      BY <1>1, <1>2, <1>5, EmptySeq
    <3> HIDE DEF rest, s
    <3> QED BY <3>0, <3>1, <3>2, <3>3, LenProperties
  <2> HIDE DEF rest
  <2>2. CASE j \in to
    <3> DEFINE N == Len(s)
    <3>0. N \in Nat /\ N >= 1 /\ Len(rest) = N - 1 /\ DOMAIN s = 1 .. N
          /\ DOMAIN rest = 1 .. N - 1 /\ Len(rest) \in Nat
      BY <1>1, <2>1
    <3>1. /\ t \in Seq(Letters) /\ Len(t) = Len(rest) + 1
          /\ \A i \in 1 .. Len(rest) : t[i] = rest[i]
          /\ t[Len(rest) + 1] = m
      <4>1. t = Append(rest, m)
        BY <1>3, <2>2
      <4> QED BY <1>4, <2>1, <2>2, <4>1, AppendProperties
    <3>2. \A i \in 1 .. N - 1 : rest[i] = s[i + 1]
      BY <2>1
    <3>3. DOMAIN t = 1 .. Len(t)
      BY <3>1, LenProperties
    <3>4. Head(s) = s[1]
      BY <2>1
    <3> HIDE DEF s, N
    <3>5. Len(t) = N /\ DOMAIN t = 1 .. N /\ t[N] = m /\ \A i \in 1 .. N - 1 : t[i] = s[i + 1]
      BY <3>0, <3>1, <3>2, <3>3
    <3>6. ASSUME NEW i \in DOMAIN t
          PROVE  (i + 1 \in DOMAIN s /\ t[i] = s[i + 1]) \/ (i = Len(t) /\ t[i] = m)
      BY <3>0, <3>5
    <3>7. ASSUME NEW i \in DOMAIN s
          PROVE  (i = 1 /\ s[i] = Head(s)) \/ (i - 1 \in DOMAIN t /\ t[i - 1] = s[i])
      BY <3>0, <3>4, <3>5
    <3>8. Len(t) \in DOMAIN t /\ t[Len(t)] = m /\ DOMAIN t \subseteq Nat /\ DOMAIN s \subseteq Nat
      BY <3>0, <3>5
    <3> QED BY <1>5, <2>2, <3>1, <3>6, <3>7, <3>8 DEF s, t
  <2>3. CASE j \notin to
    <3>1. t = rest
      BY <1>3, <2>3
    <3> HIDE DEF s
    <3> QED BY <1>1, <1>5, <2>1, <2>3, <3>1 DEF s, t
  <2> QED BY <2>2, <2>3
<1>6. CASE j \notin from /\ j \notin cut
  <2>1. rest = s
    BY <1>6 DEF Rest
  <2> HIDE DEF rest
  <2>2. CASE j \in to
    <3>1. /\ t \in Seq(Letters) /\ Len(t) = Len(s) + 1 /\ DOMAIN t = 1 .. Len(s) + 1
          /\ \A i \in 1 .. Len(s) : t[i] = s[i]
          /\ t[Len(s) + 1] = m
      <4>1. t = Append(s, m)
        BY <1>3, <2>1, <2>2
      <4> QED BY <1>1, <1>4, <2>2, <4>1, AppendProperties, LenProperties
    <3> HIDE DEF s
    <3>2. \A i \in 1 .. Len(s) + 1 : i \in 1 .. Len(s) \/ i = Len(s) + 1
      BY <1>1
    <3> QED BY <1>1, <1>6, <2>2, <3>1, <3>2 DEF s, t
  <2>3. CASE j \notin to
    <3>1. t = s
      BY <1>3, <2>1, <2>3
    <3> HIDE DEF s
    <3> QED BY <1>1, <1>6, <2>3, <3>1 DEF s, t
  <2> QED BY <2>2, <2>3
<1>7. CASE j \notin from /\ j \in cut
  <2> DEFINE N == Len(s)
  <2>1. j \in to /\ j \in Booths /\ s # <<>> /\ P!Kind(Last(s)) \in Passing
    BY <1>0, <1>7 DEF Passed
  <2>2. rest = Front(s)
    BY <1>7 DEF Rest
  <2>3. /\ rest \in Seq(Letters) /\ N \in Nat \ {0} /\ Len(rest) = N - 1
        /\ \A i \in 1 .. N - 1 : rest[i] = s[i]
    BY <1>1, <2>1, <2>2, FrontFact
  <2> HIDE DEF rest
  <2>4. /\ t \in Seq(Letters) /\ Len(t) = Len(rest) + 1 /\ DOMAIN t = 1 .. Len(rest) + 1
        /\ \A i \in 1 .. Len(rest) : t[i] = rest[i]
        /\ t[Len(rest) + 1] = m
    <3>1. t = Append(rest, m)
      BY <1>3, <2>1
    <3> QED BY <1>4, <2>1, <2>3, <3>1, AppendProperties, LenProperties
  <2>5. DOMAIN s = 1 .. N /\ P!Kind(s[N]) \in Passing
    BY <1>1, <2>1 DEF Last
  <2> HIDE DEF s, N
  <2>6. Len(t) = N /\ DOMAIN t = 1 .. N /\ t[N] = m /\ \A i \in 1 .. N - 1 : t[i] = s[i]
    BY <2>3, <2>4
  <2>7. ASSUME NEW i \in DOMAIN t
        PROVE  (i \in DOMAIN s /\ t[i] = s[i]) \/ (i = Len(t) /\ t[i] = m)
    BY <2>3, <2>5, <2>6
  <2>8. ASSUME NEW i \in DOMAIN s
        PROVE  (i \in DOMAIN t /\ t[i] = s[i]) \/ P!Kind(s[i]) \in Passing
    BY <2>3, <2>5, <2>6
  <2>9. DOMAIN t \subseteq Nat /\ DOMAIN s \subseteq Nat
    BY <2>3, <2>5, <2>6
  <2> QED BY <1>7, <2>1, <2>4, <2>7, <2>8, <2>9 DEF s, t
<1> QED BY <1>5, <1>6, <1>7

(* A message that is given is under way.                                   *)
LEMMA MailGiven ==
    ASSUME link \in [Boards -> Seq(Letters)],
           NEW from, NEW to, NEW m, Mail(from, to, m), NEW j \in to
    PROVE  \E i \in DOMAIN link'[j] : link'[j][i] = m
<1>1. j \in Boards /\ m \in Letters /\ (j \in from => link[j] # <<>>)
  BY DEF Mail
<1>0. PICK cut \in SUBSET to :
        (\A n \in cut : Passed(n)) /\ link'[j] = Append(Rest(j, from, cut), m)
  BY <1>1 DEF Mail
<1> DEFINE rest == Rest(j, from, cut)
<1>2. link'[j] = Append(rest, m)
  BY <1>0
<1>3. rest \in Seq(Letters)
  BY <1>0, <1>1, HeadTailProperties, FrontFact DEF Rest, Passed
<1> HIDE DEF rest
<1>4. link'[j] \in Seq(Letters) /\ Len(link'[j]) = Len(rest) + 1 /\ link'[j][Len(rest) + 1] = m
  BY <1>1, <1>2, <1>3, AppendProperties
<1>5. Len(rest) + 1 \in DOMAIN link'[j]
  <2>1. Len(rest) \in Nat /\ DOMAIN link'[j] = 1 .. Len(rest) + 1
    BY <1>3, <1>4, LenProperties
  <2> QED BY <2>1
<1> QED BY <1>4, <1>5

(* A message is under way after a step if it was before and has not been   *)
(* taken or replaced, or has been given.                                   *)
LEMMA MailCarries ==
    ASSUME link \in [Boards -> Seq(Letters)],
           NEW from, NEW to, NEW m, Mail(from, to, m), NEW u, NEW K, NEW j \in Boards
    PROVE  /\ Carries(j, u, K)' => Carries(j, u, K) \/ Given(j, to, m, u, K)
           /\ Carries(j, u, K) => \/ Carries(j, u, K)' \/ Taken(j, from, u, K)
                                  \/ j \in to \cap Booths /\ K \cap Passing # {}
           /\ Given(j, to, m, u, K) => Carries(j, u, K)'
<1> DEFINE Now(i) == Concerns(j, u, link'[j][i]) /\ P!Kind(link'[j][i]) \in K
<1>1. ASSUME NEW i \in DOMAIN link'[j], Now(i)
      PROVE  Carries(j, u, K) \/ Given(j, to, m, u, K)
  <2>1. \/ i \in DOMAIN link[j] /\ link'[j][i] = link[j][i]
        \/ i + 1 \in DOMAIN link[j] /\ link'[j][i] = link[j][i + 1]
        \/ j \in to /\ link'[j][i] = m
    BY MailPlaces
  <2> QED BY <1>1, <2>1 DEF Carries, Hit, Given
<1>2. ASSUME NEW i \in DOMAIN link[j], Hit(j, i, u, K)
      PROVE  \/ (\E x \in DOMAIN link'[j] : Now(x)) \/ Taken(j, from, u, K)
             \/ j \in to \cap Booths /\ K \cap Passing # {}
  <2>1. \/ i \in DOMAIN link'[j] /\ link'[j][i] = link[j][i]
        \/ j \in from /\ link[j][i] = Head(link[j])
        \/ i - 1 \in DOMAIN link'[j] /\ link'[j][i - 1] = link[j][i]
        \/ j \in to \cap Booths /\ P!Kind(link[j][i]) \in Passing
    BY MailPlaces
  <2> QED BY <1>2, <2>1 DEF Taken, Hit
<1>3. ASSUME Given(j, to, m, u, K)
      PROVE  \E x \in DOMAIN link'[j] : Now(x)
  <2>1. \E x \in DOMAIN link'[j] : link'[j][x] = m
    BY <1>3, MailGiven DEF Given
  <2> QED BY <1>3, <2>1 DEF Given
<1>4. Carries(j, u, K)' <=> \E x \in DOMAIN link'[j] : Now(x)
  BY DEF Carries, Hit, Concerns, P!Kind
<1> HIDE DEF Now
<1>5. Carries(j, u, K)' => Carries(j, u, K) \/ Given(j, to, m, u, K)
  BY <1>1, <1>4
<1>6. ASSUME Carries(j, u, K)
      PROVE  \/ Carries(j, u, K)' \/ Taken(j, from, u, K)
             \/ j \in to \cap Booths /\ K \cap Passing # {}
  <2>1. PICK i \in DOMAIN link[j] : Hit(j, i, u, K)
    BY <1>6 DEF Carries
  <2>2. \/ (\E x \in DOMAIN link'[j] : Now(x)) \/ Taken(j, from, u, K)
        \/ j \in to \cap Booths /\ K \cap Passing # {}
    BY <1>2, <2>1
  <2> QED BY <1>4, <2>2
<1>7. Given(j, to, m, u, K) => Carries(j, u, K)'
  BY <1>3, <1>4
<1> QED BY <1>5, <1>6, <1>7

(* What is one stays one, unless a second is given.                        *)
LEMMA MailOnce ==
    ASSUME link \in [Boards -> Seq(Letters)],
           NEW from, NEW to, NEW m, Mail(from, to, m), NEW u, NEW K, AtMostOne(u, K),
           \A j \in to : Given(j, to, m, u, K) =>
              \/ \A x \in Boards : ~Carries(x, u, K)
              \/ \E n \in from : Taken(n, from, u, K)
    PROVE  /\ AtMostOne(u, K)'
           /\ (\E n \in from : Taken(n, from, u, K)) =>
                \A j \in Boards : Carries(j, u, K)' => Given(j, to, m, u, K)
<1> DEFINE New(j, i) == j \in to /\ i = Len(link'[j]) /\ link'[j][i] = m
           Was(j, i) == IF j \in from THEN i + 1 ELSE i
           Now(j, i) == Concerns(j, u, link'[j][i]) /\ P!Kind(link'[j][i]) \in K
<1>1. ASSUME NEW j \in Boards, NEW i \in DOMAIN link'[j], Now(j, i)
      PROVE  \/ New(j, i) /\ Given(j, to, m, u, K)
             \/ Was(j, i) \in DOMAIN link[j] /\ Hit(j, Was(j, i), u, K)
  <2>1. \/ j \notin from /\ i \in DOMAIN link[j] /\ link'[j][i] = link[j][i]
        \/ j \in from /\ i + 1 \in DOMAIN link[j] /\ link'[j][i] = link[j][i + 1]
        \/ New(j, i)
    BY MailPlaces
  <2> QED BY <1>1, <2>1 DEF Hit, Given
<1>2. ASSUME NEW n \in from, Taken(n, from, u, K),
             NEW j \in Boards, NEW i \in DOMAIN link[j], Hit(j, i, u, K)
      PROVE  j = n /\ i = 1
  <2>1. n \in Boards /\ link[n] # <<>>
    BY <1>2 DEF Mail
  <2>2. 1 \in DOMAIN link[n] /\ Head(link[n]) = link[n][1]
    <3>1. link[n] \in Seq(Letters)
      BY <2>1
    <3>2. Len(link[n]) \in Nat \ {0} /\ DOMAIN link[n] = 1 .. Len(link[n])
      BY <2>1, <3>1, EmptySeq, LenProperties
    <3> QED BY <2>1, <3>1, <3>2, HeadTailProperties
  <2>3. Hit(n, 1, u, K)
    BY <1>2, <2>2 DEF Hit, Taken
  <2> QED BY <1>2, <2>1, <2>2, <2>3 DEF AtMostOne
<1>3. ASSUME NEW n \in from, Taken(n, from, u, K), NEW j \in Boards, NEW i \in DOMAIN link'[j]
      PROVE  ~(Was(j, i) \in DOMAIN link[j] /\ Hit(j, Was(j, i), u, K))
  <2> SUFFICES ASSUME Was(j, i) \in DOMAIN link[j], Hit(j, Was(j, i), u, K)
               PROVE  FALSE
    OBVIOUS
  <2>1. j = n /\ Was(j, i) = 1
    BY <1>2, <1>3
  <2>2. i \in Nat /\ i # 0
    <3>1. link'[j] \in Seq(Letters)
      BY MailPlaces
    <3> QED BY <3>1, LenProperties
  <2> QED BY <1>3, <2>1, <2>2
<1>4. ASSUME NEW j \in Boards, NEW i \in DOMAIN link'[j], Now(j, i),
             NEW k \in to, Given(k, to, m, u, K)
      PROVE  New(j, i)
  <2>1. CASE \A x \in Boards : ~Carries(x, u, K)
    BY <1>1, <1>4, <2>1 DEF Carries
  <2>2. CASE \E n \in from : Taken(n, from, u, K)
    BY <1>1, <1>3, <1>4, <2>2
  <2> QED BY <1>4, <2>1, <2>2
<1>5. ASSUME NEW j \in Boards, NEW x \in Boards, NEW i \in DOMAIN link'[j], NEW y \in DOMAIN link'[x],
             Now(j, i), Now(x, y)
      PROVE  j = x /\ i = y
  <2>1. CASE \E k \in to : Given(k, to, m, u, K)
    <3>1. New(j, i) /\ New(x, y)
      BY <1>4, <1>5, <2>1
    <3> QED BY <3>1 DEF Mail
  <2>2. CASE ~\E k \in to : Given(k, to, m, u, K)
    <3>1. /\ Was(j, i) \in DOMAIN link[j] /\ Hit(j, Was(j, i), u, K)
          /\ Was(x, y) \in DOMAIN link[x] /\ Hit(x, Was(x, y), u, K)
      BY <1>1, <1>5, <2>2 DEF Given
    <3>2. j = x /\ Was(j, i) = Was(x, y)
      BY <3>1 DEF AtMostOne
    <3>3. i \in Nat /\ y \in Nat
      BY MailPlaces
    <3> QED BY <3>2, <3>3
  <2> QED BY <2>1, <2>2
<1>6. AtMostOne(u, K)'
  <2>1. AtMostOne(u, K)' <=>
          \A j, x \in Boards : \A i \in DOMAIN link'[j], y \in DOMAIN link'[x] :
              Now(j, i) /\ Now(x, y) => j = x /\ i = y
    BY DEF AtMostOne, Hit, Concerns, P!Kind
  <2> HIDE DEF Now
  <2> QED BY <1>5, <2>1
<1>7. ASSUME NEW n \in from, Taken(n, from, u, K), NEW j \in Boards, Carries(j, u, K)'
      PROVE  Given(j, to, m, u, K)
  <2>1. PICK i \in DOMAIN link'[j] : Now(j, i)
    BY <1>7 DEF Carries, Hit, Concerns, P!Kind
  <2> QED BY <1>1, <1>3, <1>7, <2>1
<1> QED BY <1>6, <1>7

(* Two different things are not under way to a user, of which there is one *)
(* at most.                                                                *)
LEMMA Exclusive ==
    ASSUME NEW u, NEW K, AtMostOne(u, K),
           NEW A, NEW B1, A \subseteq K, B1 \subseteq K, A \cap B1 = {},
           NEW j \in Boards, NEW x \in Boards
    PROVE  ~(Carries(j, u, A) /\ Carries(x, u, B1))
<1> SUFFICES ASSUME NEW i \in DOMAIN link[j], NEW y \in DOMAIN link[x],
                    Hit(j, i, u, A), Hit(x, y, u, B1)
             PROVE  FALSE
  BY DEF Carries
<1>1. Hit(j, i, u, K) /\ Hit(x, y, u, K)
  BY DEF Hit
<1>2. j = x /\ i = y
  BY <1>1 DEF AtMostOne
<1> QED BY <1>2 DEF Hit

(* What is under way among few kinds is so among many.                     *)
LEMMA CarriesMore ==
    ASSUME NEW u, NEW A, NEW K, A \subseteq K, NEW j, Carries(j, u, A)
    PROVE  Carries(j, u, K)
<1> QED BY DEF Carries, Hit

(* The messages of users are requests, those of booths Booth's.            *)
Posted ==
    /\ link \in [Boards -> Seq(Letters)]
    /\ \A u \in Users : link[u] \in Seq(U!Request)
    /\ \A b \in Booths : link[b] \in Seq(P!Message)

(* Posted is kept when each board gets what is its own.                    *)
LEMMA MailPosted ==
    ASSUME Posted, NEW from, NEW to, NEW m, Mail(from, to, m),
           \A n \in to : (n \in Users => m \in U!Request) /\ (n \in Booths => m \in P!Message)
    PROVE  Posted'
<1>1. ASSUME NEW S, NEW n \in Boards, link[n] \in Seq(S), n \in to => m \in S
      PROVE  link'[n] \in Seq(S)
  <2>0. PICK cut \in SUBSET to :
          /\ \A k \in cut : Passed(k)
          /\ link'[n] = IF n \in to THEN Append(Rest(n, from, cut), m) ELSE Rest(n, from, cut)
    BY DEF Mail
  <2> DEFINE rest == Rest(n, from, cut)
  <2>1. link'[n] = IF n \in to THEN Append(rest, m) ELSE rest
    BY <2>0
  <2>2. n \in from => link[n] # <<>>
    BY DEF Mail
  <2>3. rest \in Seq(S)
    BY <1>1, <2>0, <2>2, HeadTailProperties, FrontFact DEF Rest, Passed
  <2> HIDE DEF rest
  <2> QED BY <1>1, <2>1, <2>3, AppendProperties
<1>2. \A n \in Boards : link'[n] \in Seq(Letters)
  BY <1>1 DEF Posted, Letters, Mail
<1>3. link' = [n \in Boards |-> link'[n]]
  BY DEF Mail
<1>4. \A u \in Users : link'[u] \in Seq(U!Request)
  BY <1>1 DEF Posted, Boards
<1>5. \A b \in Booths : link'[b] \in Seq(P!Message)
  BY <1>1 DEF Posted, Boards
<1>6. link' \in [Boards -> Seq(Letters)]
  BY <1>2, <1>3
<1> QED BY <1>4, <1>5, <1>6 DEF Posted, Letters, P!Message, U!Request

Gets(n, msgs) == IF msgs = <<>> THEN {} ELSE {n}

(* When layer 2 is not late, what a handler asks for last is sent after    *)
(* what is under way, or replaces what was made in the same pass.          *)
LEMMA HandIsMail ==
    ASSUME ~Late, Posted, NEW n \in Boards, NEW msgs \in Seq(Letters),
           NEW p, p => Passed(n), Hand(n, msgs, p)
    PROVE  Mail({}, Gets(n, msgs), Last(msgs))
<1>1. msgs # <<>> => Last(msgs) \in Letters
  BY P!LastFact DEF Last, P!Last
<1>2. PICK l \in Handed(n, msgs, p) : link' = [link EXCEPT ![n] = l]
  BY DEF Hand
<1>3. /\ msgs = <<>> => l = link[n]
      /\ msgs # <<>> => l = Append(link[n], Last(msgs)) \/ (p /\ l = Append(Front(link[n]), Last(msgs)))
  BY DEF Handed
<1>4. PICK cut \in SUBSET Gets(n, msgs) :
        /\ \A k \in cut : Passed(k)
        /\ msgs # <<>> => l = Append(IF n \in cut THEN Front(link[n]) ELSE link[n], Last(msgs))
  <2>1. CASE msgs # <<>> /\ p /\ l = Append(Front(link[n]), Last(msgs))
    BY <2>1 DEF Gets
  <2>2. CASE msgs # <<>> => l = Append(link[n], Last(msgs))
    <3> WITNESS {} \in SUBSET Gets(n, msgs)
    <3> QED BY <2>2
  <2> QED BY <1>3, <2>1, <2>2
<1>5. link' = [k \in Boards |-> IF k \in Gets(n, msgs) THEN Append(Rest(k, {}, cut), Last(msgs))
                                ELSE Rest(k, {}, cut)]
  BY <1>2, <1>3, <1>4 DEF Rest, Gets, Posted
<1> QED BY <1>1, <1>4, <1>5 DEF Mail, Gets

(* The same for the handler of a message that arrives.                     *)
LEMMA TakeIsMail ==
    ASSUME ~Late, Posted, NEW n \in Boards, NEW k \in Boards, n # k, link[n] # <<>>,
           NEW msgs \in Seq(Letters), NEW p, p => Passed(k), TakeAndHand(n, k, msgs, p)
    PROVE  Mail({n}, Gets(k, msgs), Last(msgs))
<1>1. msgs # <<>> => Last(msgs) \in Letters
  BY P!LastFact DEF Last, P!Last
<1>2. PICK l \in Handed(k, msgs, p) : link' = [link EXCEPT ![n] = Tail(@), ![k] = l]
  BY DEF TakeAndHand
<1>3. /\ msgs = <<>> => l = link[k]
      /\ msgs # <<>> => l = Append(link[k], Last(msgs)) \/ (p /\ l = Append(Front(link[k]), Last(msgs)))
  BY DEF Handed
<1>4. PICK cut \in SUBSET Gets(k, msgs) :
        /\ \A j \in cut : Passed(j)
        /\ msgs # <<>> => l = Append(IF k \in cut THEN Front(link[k]) ELSE link[k], Last(msgs))
  <2>1. CASE msgs # <<>> /\ p /\ l = Append(Front(link[k]), Last(msgs))
    BY <2>1 DEF Gets
  <2>2. CASE msgs # <<>> => l = Append(link[k], Last(msgs))
    <3> WITNESS {} \in SUBSET Gets(k, msgs)
    <3> QED BY <2>2
  <2> QED BY <1>3, <2>1, <2>2
<1>5. link' = [j \in Boards |-> IF j \in Gets(k, msgs) THEN Append(Rest(j, {n}, cut), Last(msgs))
                                ELSE Rest(j, {n}, cut)]
  BY <1>2, <1>3, <1>4 DEF Rest, Gets, Posted
<1> QED BY <1>1, <1>4, <1>5 DEF Mail, Gets

(* What was made earlier in the pass is no answer to a request.            *)
LEMMA NoAnswerPassed == {"SUCCESS"} \cap Passing = {}
<1> QED BY DEF Passing

LEMMA PassedFact ==
    ASSUME NEW b \in Booths
    PROVE  JustChecked(b) \/ JustAnnounced(b) => Passed(b)
<1> QED BY DEF JustChecked, JustAnnounced, JustMade, Passed, Passing, P!Kind

(* A message that is over is taken, and nothing is given.                  *)
LEMMA DropIsMail ==
    ASSUME Posted, NEW n \in Boards, Drop(n)
    PROVE  Mail({n}, {}, Head(link[n]))
<1>1. link' = [k \in Boards |-> IF k \in {} THEN Append(Rest(k, {n}, {}), Head(link[n]))
                                ELSE Rest(k, {n}, {})]
  BY DEF Drop, Posted, Rest
<1> QED BY <1>1 DEF Drop, Mail

-----------------------------------------------------------------------------
(* Where a user stands *)

Requests == {"REGISTER_REQUEST", "EXIT_REQUEST"}

(* What decides about a user: its request, the answer, the end.            *)
Fates == Requests \cup P!Answers \cup P!Farewells \cup {"REMOVED"}

Calls == {"QUEUE_READY"}

In(b, u) == u \in P!ToSet(active[b])
Free(u) == \A b \in Booths : ~P!Bound(b, u)
Called(u) == \E b \in Booths : pending[b] = u
NoCall(u) == \A b \in Booths : ~Carries(b, u, Calls)

(* A request fits the state it was made in, which the user has not left.   *)
RequestsFit(u) ==
    \A i \in DOMAIN link[u] :
        link[u][i].dest # NoBooth =>
        /\ link[u][i].type = "REGISTER_REQUEST" =>
             state[u] \in {"CONNECTED", "WAITING"} /\ link[u][i].dest = booth[u]
        /\ link[u][i].type = "EXIT_REQUEST" => state[u] = "IN_USE" /\ link[u][i].dest = booth[u]
        /\ link[u][i].type = "USER_RESPONSE_NO" => state[u] = "SCANNING"

(* An answer finds the user in front of the booth that gives it.           *)
AnswersFit(u) ==
    \A b \in Booths :
        /\ Carries(b, u, P!Answers) => state[u] \in {"CONNECTED", "WAITING"} /\ booth[u] = b
        /\ Carries(b, u, {"SUCCESS"}) => In(b, u)

(* The end of a session finds the user inside, as it sees it, but no more  *)
(* in a list.                                                              *)
FarewellsFit(u) ==
    \A b \in Booths :
        Carries(b, u, P!Farewells) =>
            state[u] = "IN_USE" /\ booth[u] = b /\ \A c \in Booths : ~In(c, u)

(* Who is told that it is no more in the queue is in none.                 *)
RemovalsFit(u) == \A b \in Booths : Carries(b, u, {"REMOVED"}) => Free(u) /\ NoCall(u)

(* Who is inside knows it, and where, or hears of it.                      *)
InsideKnown(u) ==
    \A b \in Booths :
        In(b, u) => booth[u] = b /\ (state[u] = "IN_USE" \/ Carries(b, u, {"SUCCESS"}))

BoothKept(u) ==
    /\ state[u] # "SCANNING" => booth[u] \in Booths
    /\ state[u] = "IN_USE" => u \in Registered(booth[u])
    /\ scanning[u] => state[u] = "SCANNING"

(* A call to a user who may take it is the booth's only one, or it comes   *)
(* too late: the user is admitted and in no queue.                         *)
CallsFit(u) ==
    state[u] \in {"CONNECTED", "WAITING"} =>
        /\ AtMostOne(u, Calls)
        /\ \A b \in Booths :
             Carries(b, u, Calls) =>
                 \/ pending[b] = u
                 \/ /\ state[u] = "CONNECTED" /\ Free(u)
                    /\ \E c \in Booths : Carries(c, u, {"SUCCESS"})

(* A user in the queue who asks to register has been called, and is not    *)
(* called again before it is answered.                                     *)
CalledOnce(u) ==
    state[u] = "WAITING" =>
        /\ Carries(u, u, {"REGISTER_REQUEST"}) => NoCall(u) /\ Called(u)
        /\ (\E b \in Booths : Carries(b, u, P!Answers)) => NoCall(u) /\ (Free(u) \/ Called(u))

Clear(u) ==
    /\ AtMostOne(u, Fates) /\ RequestsFit(u) /\ AnswersFit(u) /\ FarewellsFit(u)
    /\ RemovalsFit(u) /\ InsideKnown(u) /\ BoothKept(u) /\ CallsFit(u) /\ CalledOnce(u)

-----------------------------------------------------------------------------
(* What a step does with the user who makes it *)

UserTypes ==
    /\ state \in [Users -> U!States]
    /\ booth \in [Users -> Booths \cup {NoBooth}]
    /\ scanning \in [Users -> BOOLEAN]
    /\ seen \in [Users -> SUBSET Booths]
    /\ out \in [Users -> Seq(U!Request)]

Same(u) == state'[u] = state[u] /\ booth'[u] = booth[u] /\ scanning'[u] = scanning[u]

(* Nobody but u is touched.                                                *)
Alone(u) == UserTypes' /\ \A v \in Users \ {u} : Same(v)

(* Of its own accord a user does not come inside nor, once there, leave,   *)
(* and what it asks for fits the state it comes to.                        *)
Turns(u) ==
    /\ \/ state'[u] = state[u] /\ booth'[u] = booth[u]
       \/ state[u] # "IN_USE" /\ state'[u] = "SCANNING"
       \/ state[u] = "SCANNING" /\ state'[u] = "CONNECTED" /\ booth'[u] \in Booths
    /\ scanning'[u] => state'[u] = "SCANNING"
    /\ \A m \in U!Request : out'[u] # <<>> /\ m = Last(out'[u]) /\ m.dest # NoBooth =>
         /\ m.type = "REGISTER_REQUEST" => state'[u] = "CONNECTED" /\ m.dest = booth'[u]
         /\ m.type = "EXIT_REQUEST" => state'[u] = "IN_USE" /\ m.dest = booth'[u]
         /\ m.type = "USER_RESPONSE_NO" => state'[u] = "SCANNING"

(* What a message of some kind does with the user it comes to.             *)
Moves(u, k) ==
    \/ k \notin {"SUCCESS"} \cup P!Farewells /\ Same(u) /\ out'[u] = <<>>
    \/ /\ k \in {"ALREADY_USED", "REMOVED"} \cup P!Farewells
       /\ k = "REMOVED" => state[u] = "WAITING"
       /\ state'[u] = "SCANNING" /\ scanning'[u] = scanning[u] /\ out'[u] = <<>>
    \/ /\ k = "SUCCESS" /\ state'[u] = "IN_USE"
       /\ booth'[u] = booth[u] /\ scanning'[u] = scanning[u] /\ out'[u] = <<>>
    \/ /\ k \in {"FULL_WAITING", "QUEUE_INFO"} /\ state'[u] = "WAITING"
       /\ booth'[u] = booth[u] /\ scanning'[u] = scanning[u] /\ out'[u] = <<>>
    \/ /\ k = "QUEUE_READY" /\ state[u] = "WAITING" /\ Same(u)
       /\ out'[u] = <<U!To(booth[u], "REGISTER_REQUEST")>>

(* A request to a booth, or to none.                                       *)
LEMMA RequestMade ==
    ASSUME NEW b \in Booths \cup {NoBooth},
           NEW t \in {"BOOTH_SCAN", "CONNECT_REQUEST", "USER_RESPONSE_YES", "USER_RESPONSE_NO",
                      "REGISTER_REQUEST", "QUEUE_LEAVE", "EXIT_REQUEST", "CHAT_MESSAGE"}
    PROVE  /\ U!To(b, t) \in U!Request /\ U!To(b, t).type = t /\ U!To(b, t).dest = b
           /\ \A M : M = <<U!To(b, t)>> =>
                M \in Seq(U!Request) /\ M # <<>> /\ Last(M).type = t /\ Last(M).dest = b
<1>1. U!To(b, t) \in U!Request /\ U!To(b, t).type = t /\ U!To(b, t).dest = b
  BY DEF U!To, U!Request
<1> DEFINE m == U!To(b, t)
<1> HIDE DEF m
<1>2. m \in U!Request => <<m>> \in Seq(U!Request) /\ <<m>> # <<>> /\ Last(<<m>>) = m
  BY DEF Last
<1>3. \A M : M = <<m>> =>
        M \in Seq(U!Request) /\ M # <<>> /\ Last(M).type = m.type /\ Last(M).dest = m.dest
  BY <1>1, <1>2 DEF m
<1> QED BY <1>1, <1>3 DEF m

(* What the requests of a scan and of a registration end with.             *)
LEMMA LastMade ==
    /\ U!ScanAll \in Seq(U!Request)
    /\ U!ScanAll # <<>> => Last(U!ScanAll).type = "BOOTH_SCAN"
    /\ \A b \in Booths \cup {NoBooth} :
         /\ U!AskToRegister(b) \in Seq(U!Request)
         /\ Last(U!AskToRegister(b)) = U!To(b, "REGISTER_REQUEST")
         /\ <<U!To(b, "CONNECT_REQUEST")>> \o U!AskToRegister(b) \in Seq(U!Request)
         /\ Last(<<U!To(b, "CONNECT_REQUEST")>> \o U!AskToRegister(b))
              = U!To(b, "REGISTER_REQUEST")
<1>1. ScanOrder \in Seq(Booths)
  BY BoardsAssumption DEF U!ScanOrderAssumption
<1>2. ASSUME NEW i \in DOMAIN ScanOrder
      PROVE  U!To(ScanOrder[i], "BOOTH_SCAN") \in U!Request
             /\ U!To(ScanOrder[i], "BOOTH_SCAN").type = "BOOTH_SCAN"
  BY <1>1, ElementOfSeq, LenProperties DEF U!To, U!Request
<1>3. /\ U!ScanAll \in Seq(U!Request)
      /\ U!ScanAll # <<>> => Last(U!ScanAll).type = "BOOTH_SCAN"
  <2>1. U!ScanAll \in Seq(U!Request) /\ DOMAIN U!ScanAll = DOMAIN ScanOrder
        /\ \A i \in DOMAIN U!ScanAll : U!ScanAll[i].type = "BOOTH_SCAN"
    <3>1. Len(ScanOrder) \in Nat /\ DOMAIN ScanOrder = 1 .. Len(ScanOrder)
      BY <1>1, LenProperties
    <3>2. U!ScanAll = [i \in 1 .. Len(ScanOrder) |-> U!To(ScanOrder[i], "BOOTH_SCAN")]
      BY <3>1 DEF U!ScanAll
    <3>3. \A i \in 1 .. Len(ScanOrder) : U!To(ScanOrder[i], "BOOTH_SCAN") \in U!Request
      BY <1>2, <3>1
    <3>4. U!ScanAll \in Seq(U!Request)
      BY <3>1, <3>2, <3>3, IsASeq
    <3> QED BY <1>2, <3>1, <3>2, <3>4
  <2> DEFINE s == U!ScanAll
  <2> HIDE DEF s
  <2>2. s \in Seq(U!Request) /\ s # <<>> => Len(s) \in DOMAIN s
    <3> SUFFICES ASSUME s \in Seq(U!Request), s # <<>> PROVE Len(s) \in DOMAIN s
      OBVIOUS
    <3>1. Len(s) \in Nat \ {0} /\ DOMAIN s = 1 .. Len(s)
      BY EmptySeq, LenProperties
    <3> QED BY <3>1
  <2> QED BY <2>1, <2>2 DEF s, Last
<1>4. ASSUME NEW b \in Booths \cup {NoBooth}
      PROVE  /\ U!AskToRegister(b) \in Seq(U!Request)
             /\ Last(U!AskToRegister(b)) = U!To(b, "REGISTER_REQUEST")
             /\ <<U!To(b, "CONNECT_REQUEST")>> \o U!AskToRegister(b) \in Seq(U!Request)
             /\ Last(<<U!To(b, "CONNECT_REQUEST")>> \o U!AskToRegister(b))
                  = U!To(b, "REGISTER_REQUEST")
  <2> DEFINE c == U!To(b, "CONNECT_REQUEST")
             y == U!To(b, "USER_RESPONSE_YES")
             r == U!To(b, "REGISTER_REQUEST")
  <2>1. c \in U!Request /\ y \in U!Request /\ r \in U!Request
    BY RequestMade
  <2> HIDE DEF c, y, r
  <2>2. <<y, r>> \in Seq(U!Request) /\ Last(<<y, r>>) = r
    BY <2>1 DEF Last
  <2>3. <<c>> \o <<y, r>> \in Seq(U!Request) /\ Last(<<c>> \o <<y, r>>) = r
    BY <2>1 DEF Last
  <2> QED BY <2>2, <2>3 DEF c, y, r, U!AskToRegister
<1> QED BY <1>3, <1>4

(* One user's variables change, to values of their types.                  *)
LEMMA AloneFact ==
    ASSUME UserTypes, NEW u \in Users,
           NEW s \in U!States, NEW b \in Booths \cup {NoBooth}, NEW z \in BOOLEAN,
           NEW M \in Seq(U!Request),
           state' \in {state, [state EXCEPT ![u] = s]},
           booth' \in {booth, [booth EXCEPT ![u] = b]},
           scanning' \in {scanning, [scanning EXCEPT ![u] = z]},
           seen' \in [Users -> SUBSET Booths],
           out' = [out EXCEPT ![u] = M]
    PROVE  Alone(u) /\ out'[u] = M
<1>1. state' \in [Users -> U!States] /\ \A v \in Users \ {u} : state'[v] = state[v]
  BY DEF UserTypes
<1>2. booth' \in [Users -> Booths \cup {NoBooth}] /\ \A v \in Users \ {u} : booth'[v] = booth[v]
  BY DEF UserTypes
<1>3. scanning' \in [Users -> BOOLEAN] /\ \A v \in Users \ {u} : scanning'[v] = scanning[v]
  BY DEF UserTypes
<1>4. seen' \in [Users -> SUBSET Booths]
  OBVIOUS
<1>5. out' \in [Users -> Seq(U!Request)] /\ out'[u] = M
  BY DEF UserTypes
<1>6. UserTypes'
  BY <1>1, <1>2, <1>3, <1>4, <1>5 DEF UserTypes, U!States, U!Request
<1> QED BY <1>1, <1>2, <1>3, <1>5, <1>6 DEF Alone, Same

(* The timers and the keys.                                                *)
LEMMA OwnTurns ==
    ASSUME UserTypes, NEW u \in Users, BoothKept(u),
           UserTimers(u) \/ U!AnswerKeys(u) \/ U!ChatKeys(u)
    PROVE  Alone(u) /\ Turns(u)
<1>0. /\ state[u] \in U!States /\ booth[u] \in Booths \cup {NoBooth} /\ scanning[u] \in BOOLEAN
      /\ seen[u] \in SUBSET Booths /\ NoBooth \in Booths \cup {NoBooth}
      /\ "SCANNING" \in U!States /\ "CONNECTED" \in U!States
      /\ state[u] # "SCANNING" => booth[u] \in Booths
      /\ scanning[u] => state[u] = "SCANNING"
      /\ <<>> \in Seq(U!Request)
      /\ state \in [Users -> U!States] /\ booth \in [Users -> Booths \cup {NoBooth}]
      /\ scanning \in [Users -> BOOLEAN] /\ seen \in [Users -> SUBSET Booths]
  BY DEF UserTypes, BoothKept, U!States
<1>1. CASE U!NoBoothFound(u) \/ U!SessionOver(u) \/ U!PressChat(u)
  <2>1. /\ state' = state /\ booth' = booth /\ seen' = seen
        /\ scanning' \in {scanning, [scanning EXCEPT ![u] = FALSE]}
        /\ out' = [out EXCEPT ![u] = <<>>]
    BY <1>1 DEF U!NoBoothFound, U!SessionOver, U!PressChat, U!control, U!Send
  <2>2. Alone(u) /\ out'[u] = <<>>
    BY <1>0, <2>1, AloneFact
  <2>3. scanning'[u] => scanning[u]
    BY <1>0, <2>1
  <2> QED BY <1>0, <2>1, <2>2, <2>3 DEF Turns
<1>2. CASE U!ScanAgain(u)
  <2>1. /\ state' = state /\ booth' = booth /\ state[u] = "SCANNING"
        /\ seen' \in {[seen EXCEPT ![u] = {}]}
        /\ scanning' \in {[scanning EXCEPT ![u] = TRUE]}
        /\ out' = [out EXCEPT ![u] = U!ScanAll]
    BY <1>2 DEF U!ScanAgain, U!Send
  <2>0. seen' \in [Users -> SUBSET Booths]
    BY <1>0, <2>1
  <2>2. Alone(u) /\ out'[u] = U!ScanAll
    <3> DEFINE M == U!ScanAll
    <3>1. M \in Seq(U!Request) /\ out' = [out EXCEPT ![u] = M]
      BY <2>1, LastMade
    <3> HIDE DEF M
    <3>2. Alone(u) /\ out'[u] = M
      BY <1>0, <2>0, <2>1, <3>1, AloneFact
    <3> QED BY <3>2 DEF M
  <2>3. Turns(u)
    BY <1>0, <2>1, <2>2, LastMade DEF Turns
  <2> QED BY <2>2, <2>3
<1>3. ASSUME NEW b \in Booths, U!SelectBooth(u, b)
      PROVE  Alone(u) /\ Turns(u)
  <2> DEFINE M == <<U!To(b, "CONNECT_REQUEST")>>
  <2>1. /\ state' = [state EXCEPT ![u] = "CONNECTED"] /\ booth' = [booth EXCEPT ![u] = b]
        /\ state[u] = "SCANNING" /\ seen' = seen
        /\ scanning' = [scanning EXCEPT ![u] = FALSE]
        /\ out' = [out EXCEPT ![u] = M]
    BY <1>0, <1>3 DEF U!SelectBooth, U!Send
  <2>2. M \in Seq(U!Request) /\ Last(M).type = "CONNECT_REQUEST"
    <3>1. b \in Booths \cup {NoBooth}
      OBVIOUS
    <3> QED BY <3>1, RequestMade
  <2> HIDE DEF M
  <2>3. Alone(u) /\ out'[u] = M
    BY <1>0, <2>1, <2>2, AloneFact
  <2>4. state'[u] = "CONNECTED" /\ booth'[u] = b /\ ~scanning'[u]
    BY <1>0, <2>1
  <2> QED BY <2>1, <2>2, <2>3, <2>4 DEF Turns
<1>4. CASE U!ConnectRetry(u) \/ U!EndChat(u)
  <2>1. /\ state' = state /\ booth' = booth /\ seen' = seen /\ scanning' = scanning
        /\ \/ out' = [out EXCEPT ![u] = <<>>]
           \/ \E t \in {"CONNECT_REQUEST", "CHAT_MESSAGE"} :
                out' = [out EXCEPT ![u] = <<U!To(booth[u], t)>>]
    BY <1>4 DEF U!ConnectRetry, U!EndChat, U!control, U!Send
  <2>2. CASE out' = [out EXCEPT ![u] = <<>>]
    <3>1. Alone(u) /\ out'[u] = <<>>
      BY <1>0, <2>1, <2>2, AloneFact
    <3> QED BY <1>0, <2>1, <3>1 DEF Turns
  <2>3. ASSUME NEW t \in {"CONNECT_REQUEST", "CHAT_MESSAGE"},
               out' = [out EXCEPT ![u] = <<U!To(booth[u], t)>>]
        PROVE  Alone(u) /\ Turns(u)
    <3> DEFINE M == <<U!To(booth[u], t)>>
    <3>1. M \in Seq(U!Request) /\ Last(M).type = t
      BY <1>0, RequestMade
    <3>2. out' = [out EXCEPT ![u] = M]
      BY <2>3
    <3> HIDE DEF M
    <3>3. Alone(u) /\ out'[u] = M
      BY <1>0, <2>1, <3>1, <3>2, AloneFact
    <3> QED BY <1>0, <2>1, <3>1, <3>3 DEF Turns
  <2> QED BY <2>1, <2>2, <2>3
<1>5. ASSUME NEW M, M \in {U!AskToRegister(booth[u]),
                        <<U!To(booth[u], "CONNECT_REQUEST")>> \o U!AskToRegister(booth[u])},
             U!RegisterRetry(u) \/ U!PressYes(u) \/ U!BothRetries(u),
             out' = [out EXCEPT ![u] = M]
      PROVE  Alone(u) /\ Turns(u)
  <2>1. /\ state' = state /\ booth' = booth /\ seen' = seen /\ scanning' = scanning
        /\ state[u] = "CONNECTED"
    BY <1>5 DEF U!RegisterRetry, U!PressYes, U!BothRetries, U!Answering, U!control
  <2>2. M \in Seq(U!Request) /\ Last(M).type = "REGISTER_REQUEST" /\ Last(M).dest = booth[u]
    <3>1. /\ U!To(booth[u], "REGISTER_REQUEST").type = "REGISTER_REQUEST"
          /\ U!To(booth[u], "REGISTER_REQUEST").dest = booth[u]
      BY <1>0, RequestMade
    <3> QED BY <1>0, <1>5, <3>1, LastMade
  <2>3. Alone(u) /\ out'[u] = M
    BY <1>0, <1>5, <2>1, <2>2, AloneFact
  <2> QED BY <1>0, <2>1, <2>2, <2>3 DEF Turns
<1>6. CASE U!PressExit(u)
  <2> DEFINE M == <<U!To(booth[u], "EXIT_REQUEST")>>
  <2>1. /\ state' = state /\ booth' = booth /\ seen' \in {[seen EXCEPT ![u] = {}]}
        /\ scanning' = scanning /\ state[u] = "IN_USE"
        /\ out' = [out EXCEPT ![u] = M]
    BY <1>6 DEF U!PressExit, U!Send
  <2>0. seen' \in [Users -> SUBSET Booths]
    BY <1>0, <2>1
  <2>2. M \in Seq(U!Request) /\ Last(M).type = "EXIT_REQUEST" /\ Last(M).dest = booth[u]
    BY <1>0, RequestMade
  <2> HIDE DEF M
  <2>3. Alone(u) /\ out'[u] = M
    BY <1>0, <2>1, <2>2, <2>0, AloneFact
  <2> QED BY <1>0, <2>1, <2>2, <2>3 DEF Turns
<1>7. CASE U!ConnectGiveUp(u) \/ U!PressNo(u) \/ U!PressLeave(u)
  <2>1. /\ state' = [state EXCEPT ![u] = "SCANNING"] /\ booth' = [booth EXCEPT ![u] = NoBooth]
        /\ state[u] # "IN_USE" /\ seen' = [seen EXCEPT ![u] = {}] /\ scanning' = scanning
        /\ \/ out' = [out EXCEPT ![u] = <<>>]
           \/ \E t \in {"USER_RESPONSE_NO", "QUEUE_LEAVE"} :
                out' = [out EXCEPT ![u] = <<U!To(booth[u], t)>>]
    BY <1>7 DEF U!ConnectGiveUp, U!PressNo, U!PressLeave, U!Answering, U!ToScanning, U!Send
  <2>0. seen' \in [Users -> SUBSET Booths]
    BY <1>0, <2>1
  <2>2. state'[u] = "SCANNING"
    BY <1>0, <2>1
  <2>3. CASE out' = [out EXCEPT ![u] = <<>>]
    <3>1. Alone(u) /\ out'[u] = <<>>
      BY <1>0, <2>0, <2>1, <2>3, AloneFact
    <3> QED BY <2>1, <2>2, <3>1 DEF Turns
  <2>4. ASSUME NEW t \in {"USER_RESPONSE_NO", "QUEUE_LEAVE"},
               out' = [out EXCEPT ![u] = <<U!To(booth[u], t)>>]
        PROVE  Alone(u) /\ Turns(u)
    <3> DEFINE M == <<U!To(booth[u], t)>>
    <3>1. M \in Seq(U!Request) /\ Last(M).type = t
      BY <1>0, RequestMade
    <3>2. out' = [out EXCEPT ![u] = M]
      BY <2>4
    <3> HIDE DEF M
    <3>3. Alone(u) /\ out'[u] = M
      BY <1>0, <2>1, <3>1, <3>2, <2>0, AloneFact
    <3> QED BY <2>1, <2>2, <3>1, <3>3 DEF Turns
  <2> QED BY <2>1, <2>3, <2>4
<1>8. CASE U!GiveUpAndRegister(u)
  <2> DEFINE M == U!AskToRegister(NoBooth)
  <2>1. /\ state' = [state EXCEPT ![u] = "SCANNING"] /\ booth' = [booth EXCEPT ![u] = NoBooth]
        /\ state[u] # "IN_USE" /\ seen' \in {[seen EXCEPT ![u] = {}]} /\ scanning' = scanning
        /\ out' = [out EXCEPT ![u] = M]
    BY <1>8 DEF U!GiveUpAndRegister, U!ToScanning, U!Send
  <2>0. seen' \in [Users -> SUBSET Booths]
    BY <1>0, <2>1
  <2>2. M \in Seq(U!Request) /\ Last(M).type = "REGISTER_REQUEST" /\ Last(M).dest = NoBooth
    <3>1. /\ U!To(NoBooth, "REGISTER_REQUEST").type = "REGISTER_REQUEST"
          /\ U!To(NoBooth, "REGISTER_REQUEST").dest = NoBooth
      BY <1>0, RequestMade
    <3> QED BY <1>0, <3>1, LastMade
  <2> HIDE DEF M
  <2>3. Alone(u) /\ out'[u] = M
    <3>1. /\ state' \in {state, [state EXCEPT ![u] = "SCANNING"]}
          /\ booth' \in {booth, [booth EXCEPT ![u] = NoBooth]}
          /\ scanning' \in {scanning, [scanning EXCEPT ![u] = TRUE]}
          /\ out' = [out EXCEPT ![u] = M]
      BY <2>1
    <3>2. M \in Seq(U!Request)
      BY <2>2
    <3>3. "SCANNING" \in U!States /\ NoBooth \in Booths \cup {NoBooth} /\ TRUE \in BOOLEAN
      BY DEF U!States
    <3> HIDE <2>1, <2>2
    <3> QED BY <1>0, <2>0, <3>1, <3>2, <3>3, AloneFact
  <2>4. state'[u] = "SCANNING"
    BY <1>0, <2>1
  <2> QED BY <2>1, <2>2, <2>3, <2>4 DEF Turns
<1>9. CASE U!RegisterRetry(u) \/ U!PressYes(u) \/ U!BothRetries(u)
  <2>1. PICK M \in {U!AskToRegister(booth[u]),
                    <<U!To(booth[u], "CONNECT_REQUEST")>> \o U!AskToRegister(booth[u])} :
               out' = [out EXCEPT ![u] = M]
    BY <1>9 DEF U!RegisterRetry, U!PressYes, U!BothRetries, U!Send
  <2> QED BY <1>5, <1>9, <2>1
<1> QED BY <1>1, <1>2, <1>3, <1>4, <1>6, <1>7, <1>8, <1>9
    DEF UserTimers, U!Scans, U!Retries, U!ConnectOver, U!RegisterOver, U!AnswerKeys, U!ChatKeys

(* The messages.                                                           *)
LEMMA MessageMoves ==
    ASSUME UserTypes, NEW u \in Users, NEW b \in Booths, NEW m \in P!Message,
           UserHandles(u, b, m)
    PROVE  Alone(u) /\ Moves(u, P!Kind(m))
<1> DEFINE k == P!Kind(m)
<1>0. /\ state[u] \in U!States /\ booth[u] \in Booths \cup {NoBooth} /\ scanning[u] \in BOOLEAN
      /\ seen[u] \in SUBSET Booths
      /\ "SCANNING" \in U!States /\ "IN_USE" \in U!States /\ "WAITING" \in U!States
      /\ <<>> \in Seq(U!Request)
      /\ state \in [Users -> U!States] /\ booth \in [Users -> Booths \cup {NoBooth}]
      /\ scanning \in [Users -> BOOLEAN] /\ seen \in [Users -> SUBSET Booths]
  BY DEF UserTypes, U!States
<1>1. CASE \/ m.type = "BOOTH_ANNOUNCE" /\ U!AnnounceArrives(u, b)
           \/ m.type = "BOOTH_INFO" /\ U!InfoArrives(u)
           \/ NotTaken(u, m) /\ U!OnlyShown(u)
  <2>1. /\ state' = state /\ booth' = booth /\ scanning' = scanning
        /\ seen' \in {seen, [seen EXCEPT ![u] = seen[u] \cup {b}]}
        /\ out' = [out EXCEPT ![u] = <<>>]
    BY <1>1 DEF U!AnnounceArrives, U!InfoArrives, U!OnlyShown, U!control, U!Send
  <2>2. seen[u] \cup {b} \in SUBSET Booths
    BY <1>0
  <2>3. Alone(u) /\ out'[u] = <<>>
    BY <1>0, <2>1, <2>2, AloneFact
  <2>4. k \notin {"SUCCESS"} \cup P!Farewells
    BY <1>1 DEF P!Kind, P!Farewells, NotTaken, P!Message
  <2> QED BY <2>1, <2>3, <2>4 DEF Moves, Same
<1>2. CASE \/ m.type = "REGISTER_RESPONSE" /\ m.reason = "ALREADY_USED" /\ U!AlreadyUsed(u)
           \/ m.type = "QUEUE_UPDATE" /\ (m.pos = 0 \/ m.total = 0) /\ U!RemovedFromQueue(u)
           \/ m.type = "EXIT_RESPONSE" /\ U!ExitResponseArrives(u)
           \/ m.type = "TIMEOUT_ALERT" /\ U!TimeoutAlertArrives(u)
  <2>1. /\ state' = [state EXCEPT ![u] = "SCANNING"] /\ booth' = [booth EXCEPT ![u] = NoBooth]
        /\ scanning' = scanning /\ seen' = [seen EXCEPT ![u] = {}]
        /\ out' = [out EXCEPT ![u] = <<>>]
    BY <1>2 DEF U!AlreadyUsed, U!RemovedFromQueue, U!ExitResponseArrives,
                U!TimeoutAlertArrives, U!ToScanning, U!Send
  <2>2. Alone(u) /\ out'[u] = <<>>
    BY <1>0, <2>1, AloneFact
  <2>3. k \in {"ALREADY_USED", "REMOVED"} \cup P!Farewells
    BY <1>2 DEF P!Kind, P!Farewells
  <2>4. state'[u] = "SCANNING"
    BY <1>0, <2>1
  <2>5. k = "REMOVED" => state[u] = "WAITING"
    BY <1>2 DEF P!Kind, U!RemovedFromQueue
  <2> QED BY <2>1, <2>2, <2>3, <2>4, <2>5 DEF Moves
<1>3. CASE m.type = "REGISTER_RESPONSE" /\ m.reason = "SUCCESS" /\ U!RegisterSucceeds(u)
  <2>1. /\ state' = [state EXCEPT ![u] = "IN_USE"] /\ booth' = booth
        /\ scanning' = scanning /\ seen' = seen /\ out' = [out EXCEPT ![u] = <<>>]
    BY <1>3 DEF U!RegisterSucceeds, U!Send
  <2>2. Alone(u) /\ out'[u] = <<>>
    BY <1>0, <2>1, AloneFact
  <2>3. k = "SUCCESS" /\ state'[u] = "IN_USE"
    BY <1>0, <1>3, <2>1 DEF P!Kind
  <2> QED BY <2>1, <2>2, <2>3 DEF Moves
<1>4. CASE \/ m.type = "REGISTER_RESPONSE" /\ m.reason = "FULL_WAITING" /\ U!FullWaiting(u)
           \/ m.type = "QUEUE_INFO" /\ \E place : U!QueueInfoArrives(u, place)
  <2>1. /\ state' = [state EXCEPT ![u] = "WAITING"] /\ booth' = booth
        /\ scanning' = scanning /\ seen' = seen /\ out' = [out EXCEPT ![u] = <<>>]
    BY <1>4 DEF U!FullWaiting, U!QueueInfoArrives, U!Send
  <2>2. Alone(u) /\ out'[u] = <<>>
    BY <1>0, <2>1, AloneFact
  <2>3. k \in {"FULL_WAITING", "QUEUE_INFO"} /\ state'[u] = "WAITING"
    BY <1>0, <1>4, <2>1 DEF P!Kind
  <2> QED BY <2>1, <2>2, <2>3 DEF Moves
<1>5. CASE m.type = "QUEUE_READY" /\ U!QueueReadyArrives(u)
  <2> DEFINE M == <<U!To(booth[u], "REGISTER_REQUEST")>>
  <2>1. /\ state' = state /\ booth' = booth /\ scanning' = scanning /\ seen' = seen
        /\ out' = [out EXCEPT ![u] = M] /\ state[u] = "WAITING"
    BY <1>5 DEF U!QueueReadyArrives, U!control, U!Send
  <2>2. M \in Seq(U!Request)
    BY <1>0, RequestMade
  <2> HIDE DEF M
  <2>3. Alone(u) /\ out'[u] = M
    BY <1>0, <2>1, <2>2, AloneFact
  <2>4. k = "QUEUE_READY"
    BY <1>5 DEF P!Kind
  <2> QED BY <2>1, <2>3, <2>4 DEF Moves, Same, M
<1> QED BY <1>1, <1>2, <1>3, <1>4, <1>5 DEF UserHandles

-----------------------------------------------------------------------------
(* What keeps a user's standing *)

(* Where the messages of a board come from.                                *)
LEMMA MailOld ==
    ASSUME Posted, NEW from, NEW to, NEW m, Mail(from, to, m), NEW j \in Boards,
           NEW i \in DOMAIN link'[j]
    PROVE  \/ \E x \in DOMAIN link[j] : link'[j][i] = link[j][x]
           \/ j \in to /\ link'[j][i] = m
<1>1. \/ i \in DOMAIN link[j] /\ link'[j][i] = link[j][i]
      \/ i + 1 \in DOMAIN link[j] /\ link'[j][i] = link[j][i + 1]
      \/ j \in to /\ link'[j][i] = m
  BY MailPlaces DEF Posted
<1> QED BY <1>1

(* The lists of all booths stay as they are.                               *)
ListsKept == UNCHANGED <<registered, active, waiting, pending>>

(* Then nobody comes or goes.                                              *)
LEMMA ListsFact ==
    ASSUME ListsKept, NEW u
    PROVE  /\ \A b \in Booths : In(b, u)' <=> In(b, u)
           /\ \A b \in Booths : P!Bound(b, u)' <=> P!Bound(b, u)
           /\ \A b \in Booths : Registered(b)' = Registered(b)
           /\ Free(u)' <=> Free(u)
           /\ Called(u)' <=> Called(u)
<1>1. /\ \A b \in Booths : In(b, u)' <=> In(b, u)
      /\ \A b \in Booths : P!Bound(b, u)' <=> P!Bound(b, u)
      /\ \A b \in Booths : Registered(b)' = Registered(b)
      /\ Called(u)' <=> Called(u)
  BY DEF ListsKept, In, Registered, P!Bound, P!InQueue, P!Positions, P!ToSet, Called
<1> QED BY <1>1 DEF Free

(* A step that tells u nothing, takes nothing of it back and does not      *)
(* touch it.                                                               *)
LEMMA BystanderClear ==
    ASSUME Posted, NEW u \in Users, Clear(u), Same(u), ListsKept,
           NEW from, NEW to, NEW m, Mail(from, to, m),
           \A j \in to : ~Given(j, to, m, u, Fates \cup Calls \cup {"USER_RESPONSE_NO"}),
           \A j \in from : ~Taken(j, from, u, {"SUCCESS"})
    PROVE  Clear(u)'
<1>0. u \in Boards /\ link \in [Boards -> Seq(Letters)] /\ \A b \in Booths : b \in Boards
  BY DEF Boards, Posted
<1>1. ASSUME NEW K \in SUBSET (Fates \cup Calls)
      PROVE  /\ \A j \in Boards : Carries(j, u, K)' => Carries(j, u, K)
             /\ AtMostOne(u, K) => AtMostOne(u, K)'
  <2>1. ASSUME NEW j \in Boards PROVE ~Given(j, to, m, u, K)
    BY <2>1 DEF Given
  <2>2. \A j \in Boards : Carries(j, u, K)' => Carries(j, u, K)
    BY <1>0, <2>1, MailCarries
  <2>3. AtMostOne(u, K) => AtMostOne(u, K)'
    <3>1. \A j \in to : ~Given(j, to, m, u, K)
      BY <2>1 DEF Mail
    <3> QED BY <1>0, <3>1, MailOnce
  <2> QED BY <2>2, <2>3
<1>2. \A j \in Boards : Carries(j, u, {"SUCCESS"}) => Carries(j, u, {"SUCCESS"})'
  <2>1. \A j \in Boards : ~Taken(j, from, u, {"SUCCESS"})
    BY DEF Taken
  <2> QED BY <1>0, <2>1, MailCarries, NoAnswerPassed
<1>3. /\ P!Answers \in SUBSET (Fates \cup Calls) /\ P!Farewells \in SUBSET (Fates \cup Calls)
      /\ {"SUCCESS"} \in SUBSET (Fates \cup Calls) /\ {"REMOVED"} \in SUBSET (Fates \cup Calls)
      /\ {"REGISTER_REQUEST"} \in SUBSET (Fates \cup Calls)
      /\ Fates \in SUBSET (Fates \cup Calls) /\ Calls \in SUBSET (Fates \cup Calls)
  BY DEF Fates, P!Answers, Requests
<1>4. /\ \A j \in Boards : /\ Carries(j, u, P!Answers)' => Carries(j, u, P!Answers)
                           /\ Carries(j, u, P!Farewells)' => Carries(j, u, P!Farewells)
                           /\ Carries(j, u, {"SUCCESS"})' => Carries(j, u, {"SUCCESS"})
                           /\ Carries(j, u, {"REMOVED"})' => Carries(j, u, {"REMOVED"})
                           /\ Carries(j, u, Calls)' => Carries(j, u, Calls)
                           /\ Carries(j, u, {"REGISTER_REQUEST"})' => Carries(j, u, {"REGISTER_REQUEST"})
      /\ AtMostOne(u, Fates) => AtMostOne(u, Fates)'
      /\ AtMostOne(u, Calls) => AtMostOne(u, Calls)'
  BY <1>1, <1>3
<1>5. NoCall(u) => NoCall(u)'
  BY <1>0, <1>4 DEF NoCall
<1>6. AtMostOne(u, Fates)'
  BY <1>4 DEF Clear
<1>7. RequestsFit(u)'
  <2>1. u \in to /\ m.dest # NoBooth => m.type \notin Requests \cup {"USER_RESPONSE_NO"}
    <3> SUFFICES ASSUME u \in to, m.dest # NoBooth, m.type \in Requests \cup {"USER_RESPONSE_NO"}
                 PROVE  FALSE
      OBVIOUS
    <3>1. P!Kind(m) = m.type
      BY DEF P!Kind, Requests
    <3> QED BY <3>1 DEF Given, Concerns, Fates
  <2>2. ASSUME NEW i \in DOMAIN link'[u], link'[u][i].dest # NoBooth
        PROVE  /\ link'[u][i].type = "REGISTER_REQUEST" =>
                    state'[u] \in {"CONNECTED", "WAITING"} /\ link'[u][i].dest = booth'[u]
               /\ link'[u][i].type = "EXIT_REQUEST" =>
                    state'[u] = "IN_USE" /\ link'[u][i].dest = booth'[u]
               /\ link'[u][i].type = "USER_RESPONSE_NO" => state'[u] = "SCANNING"
    <3>1. \/ \E x \in DOMAIN link[u] : link'[u][i] = link[u][x]
          \/ u \in to /\ link'[u][i] = m
      BY <1>0, MailOld
    <3> QED BY <2>1, <2>2, <3>1 DEF Clear, RequestsFit, Same, Requests
  <2> QED BY <2>2 DEF RequestsFit
<1>8. AnswersFit(u)'
  BY <1>0, <1>4, ListsFact DEF Clear, AnswersFit, Same
<1>9. FarewellsFit(u)'
  BY <1>0, <1>4, ListsFact DEF Clear, FarewellsFit, Same
<1>10. RemovalsFit(u)'
  BY <1>0, <1>4, <1>5, ListsFact DEF Clear, RemovalsFit, Same
<1>11. InsideKnown(u)'
  BY <1>0, <1>2, ListsFact DEF Clear, InsideKnown, Same
<1>12. BoothKept(u)'
  BY ListsFact DEF Clear, BoothKept, Same
<1>13. CallsFit(u)'
  <2>1. \A b \in Booths : pending'[b] = pending[b]
    BY DEF ListsKept
  <2> QED BY <1>0, <1>2, <1>4, <2>1, ListsFact DEF Clear, CallsFit, Same
<1>14. CalledOnce(u)'
  BY <1>0, <1>4, <1>5, ListsFact DEF Clear, CalledOnce, Same
<1> QED BY <1>6, <1>7, <1>8, <1>9, <1>10, <1>11, <1>12, <1>13, <1>14 DEF Clear

(* Who carries a message of which kind.                                    *)
LEMMA WhoCarries ==
    ASSUME Posted, NEW u \in Users
    PROVE  /\ \A b \in Booths : /\ ~Carries(b, u, Requests \cup {"USER_RESPONSE_NO"})
                                /\ Carries(b, u, Fates) => \/ Carries(b, u, P!Answers)
                                                           \/ Carries(b, u, P!Farewells)
                                                           \/ Carries(b, u, {"REMOVED"})
           /\ \A v \in Users : v # u => \A K : ~Carries(v, u, K)
           /\ Carries(u, u, Fates) =>
                Carries(u, u, {"REGISTER_REQUEST"}) \/ Carries(u, u, {"EXIT_REQUEST"})
           /\ ~Carries(u, u, Calls)
           /\ \A i \in DOMAIN link[u] : P!Kind(link[u][i]) = link[u][i].type
<1>1. ASSUME NEW b \in Booths, NEW i \in DOMAIN link[b]
      PROVE  P!Kind(link[b][i]) \notin Requests \cup {"USER_RESPONSE_NO"}
  <2>1. link[b][i] \in P!Message
    BY <1>1, ElementOfSeq, LenProperties DEF Posted
  <2> QED BY <2>1 DEF P!Message, P!Kind, Requests
<1>2. ASSUME NEW i \in DOMAIN link[u]
      PROVE  /\ P!Kind(link[u][i]) = link[u][i].type
             /\ P!Kind(link[u][i]) \notin P!Answers \cup P!Farewells \cup {"REMOVED"} \cup Calls
  <2>1. link[u][i] \in U!Request
    BY <1>2, ElementOfSeq, LenProperties DEF Posted
  <2> QED BY <2>1 DEF U!Request, P!Kind, P!Answers, P!Farewells, Calls
<1>3. \A v \in Users : v \notin Booths
  BY BoardsAssumption
<1>4. \A b \in Booths : /\ ~Carries(b, u, Requests \cup {"USER_RESPONSE_NO"})
                        /\ Carries(b, u, Fates) => \/ Carries(b, u, P!Answers)
                                                   \/ Carries(b, u, P!Farewells)
                                                   \/ Carries(b, u, {"REMOVED"})
  BY <1>1 DEF Carries, Hit, Fates
<1>5. \A v \in Users : v # u => \A K : ~Carries(v, u, K)
  BY <1>3 DEF Carries, Hit, Concerns
<1>6. /\ Carries(u, u, Fates) =>
           Carries(u, u, {"REGISTER_REQUEST"}) \/ Carries(u, u, {"EXIT_REQUEST"})
      /\ ~Carries(u, u, Calls)
  BY <1>2 DEF Carries, Hit, Fates, Requests
<1> QED BY <1>2, <1>4, <1>5, <1>6

(* What u itself asks for.                                                 *)
LEMMA AskedFits ==
    ASSUME Posted, NEW u \in Users, RequestsFit(u)
    PROVE  /\ Carries(u, u, {"REGISTER_REQUEST"}) => state[u] \in {"CONNECTED", "WAITING"}
           /\ Carries(u, u, {"EXIT_REQUEST"}) => state[u] = "IN_USE"
           /\ Carries(u, u, {"USER_RESPONSE_NO"}) => state[u] = "SCANNING"
<1>1. \A i \in DOMAIN link[u] : P!Kind(link[u][i]) = link[u][i].type
  BY WhoCarries
<1> QED BY <1>1, BoardsAssumption DEF Carries, Hit, Concerns, RequestsFit

(* The head of a board's messages is one of them.                          *)
LEMMA HeadFact ==
    ASSUME NEW S, NEW s \in Seq(S), s # <<>>
    PROVE  1 \in DOMAIN s /\ Head(s) = s[1] /\ Head(s) \in S
<1>1. Len(s) \in Nat \ {0} /\ DOMAIN s = 1 .. Len(s)
  BY EmptySeq, LenProperties
<1> QED BY <1>1, HeadTailProperties, ElementOfSeq

(* What is taken was under way.                                            *)
LEMMA TakenIsCarried ==
    ASSUME Posted, NEW n \in Boards, link[n] # <<>>, NEW u, NEW K, NEW from, Taken(n, from, u, K)
    PROVE  Carries(n, u, K)
<1>1. 1 \in DOMAIN link[n] /\ Head(link[n]) = link[n][1]
  BY HeadFact DEF Posted
<1> QED BY <1>1 DEF Taken, Carries, Hit

(* Nothing is under way to or from a user who is Answered.                 *)
LEMMA AnsweredCarries ==
    ASSUME Posted, NEW u \in Users, Answered(u), NEW j \in Boards, NEW K
    PROVE  ~Carries(j, u, K)
<1>1. \A v \in Users : v # u => ~Carries(v, u, K)
  BY WhoCarries
<1>2. DOMAIN link[u] = {}
  BY DEF Answered
<1>3. ~Carries(u, u, K)
  BY <1>2 DEF Carries
<1>4. \A b \in Booths : ~Carries(b, u, K)
  <2>1. u \notin Booths
    BY BoardsAssumption
  <2> QED BY <2>1 DEF Answered, Carries, Hit, Concerns
<1> QED BY <1>1, <1>3, <1>4 DEF Boards

(* A step of booth b, in which the request r of u may be handled.          *)
LEMMA BoothSideClear ==
    ASSUME Posted, NEW u \in Users, Clear(u), Same(u), NEW b \in Booths,
           \A c, d \in Booths : P!Bound(c, u) /\ P!Bound(d, u) => c = d,
           NEW from \in SUBSET Users, NEW to, NEW m, Mail(from, to, m),
           to = Gets(b, sent'[b]), m = Last(sent'[b]), sent'[b] \in Seq(P!Message),
           \A n \in from : Head(link[n]).dest = b,
           NEW r, r = IF u \in from THEN Head(link[u]).type ELSE "none",
           P!Treats(b, u, r, Answered(u)),
           \A c \in Booths \ {b} : /\ registered'[c] = registered[c] /\ active'[c] = active[c]
                                   /\ waiting'[c] = waiting[c] /\ pending'[c] = pending[c]
    PROVE  Clear(u)'
<1> DEFINE Tells(K) == \E k \in K : P!Tells(b, u, k)
<1>0. /\ u \in Boards /\ b \in Boards /\ b # u /\ u \notin Booths
      /\ link \in [Boards -> Seq(Letters)]
      /\ \A c \in Booths : c \in Boards
  BY BoardsAssumption DEF Boards, Posted
(* What is told, and what is taken. *)
<1>1. ASSUME NEW j \in Boards, NEW K
      PROVE  /\ Given(j, to, m, u, K) => j = b /\ Tells(K)
             /\ j = b /\ Tells(K) => Given(j, to, m, u, K)
  <2>1. j \in to <=> j = b /\ sent'[b] # <<>>
    BY DEF Gets
  <2>2. Last(sent'[b]) = m /\ P!Last(sent'[b]) = m
    BY DEF Last, P!Last
  <2>3. ASSUME NEW k PROVE P!Tells(b, u, k) <=> sent'[b] # <<>> /\ m.dest = u /\ P!Kind(m) = k
    BY <2>2 DEF P!Tells
  <2>4. j = b => (Concerns(j, u, m) <=> m.dest = u)
    BY <1>0 DEF Concerns
  <2> QED BY <2>1, <2>3, <2>4 DEF Given
<1>2. to # {} => to = {b} /\ m \in P!Message
  <2>1. sent'[b] # <<>> => Last(sent'[b]) \in P!Message
    BY P!LastFact DEF Last, P!Last
  <2> QED BY <2>1 DEF Gets
<1>3. ~Tells(Requests)
  <2>1. ASSUME sent'[b] # <<>> PROVE P!Kind(m) \notin Requests
    <3>1. m \in P!Message
      BY <1>2, <2>1 DEF Gets
    <3> QED BY <3>1 DEF P!Message, P!Kind, Requests
  <2>2. P!Last(sent'[b]) = m
    BY DEF Last, P!Last
  <2> QED BY <2>1, <2>2 DEF P!Tells
<1>4. u \in from =>
        /\ link[u] # <<>> /\ r = Head(link[u]).type /\ P!Kind(Head(link[u])) = r
        /\ Head(link[u]) \in U!Request
        /\ \E i \in DOMAIN link[u] : link[u][i] = Head(link[u])
  <2> SUFFICES ASSUME u \in from
               PROVE  /\ link[u] # <<>> /\ r = Head(link[u]).type /\ P!Kind(Head(link[u])) = r
                      /\ Head(link[u]) \in U!Request
                      /\ \E i \in DOMAIN link[u] : link[u][i] = Head(link[u])
    OBVIOUS
  <2>1. link[u] # <<>>
    BY DEF Mail
  <2>2. 1 \in DOMAIN link[u] /\ Head(link[u]) = link[u][1] /\ Head(link[u]) \in U!Request
    BY <2>1, HeadFact DEF Posted
  <2> QED BY <2>1, <2>2, WhoCarries
<1>5. ASSUME NEW n \in Boards, NEW K, Taken(n, from, u, K)
      PROVE  n = u /\ u \in from /\ r \in K
  <2>1. n \in from /\ Concerns(n, u, Head(link[n])) /\ P!Kind(Head(link[n])) \in K
    BY <1>5 DEF Taken
  <2>2. n = u
    BY <2>1, BoardsAssumption DEF Concerns
  <2> QED BY <1>4, <2>1, <2>2
<1>6. ASSUME NEW k \in {"REGISTER_REQUEST", "EXIT_REQUEST", "USER_RESPONSE_NO"}, r = k
      PROVE  u \in from /\ (\A K : k \in K => Taken(u, from, u, K)) /\ Carries(u, u, {k})
  <2>1. u \in from
    BY <1>6
  <2>2. \A K : k \in K => Taken(u, from, u, K)
    <3>1. Head(link[u]).dest # NoBooth
      BY <2>1, BoardsAssumption DEF Boards
    <3> QED BY <1>4, <1>6, <2>1, <3>1 DEF Taken, Concerns
  <2>3. Taken(u, from, u, {k})
    BY <2>2
  <2> QED BY <1>0, <1>4, <2>1, <2>2, <2>3, TakenIsCarried
(* What is under way before and after. *)
<1>7. ASSUME NEW j \in Boards, NEW K
      PROVE  /\ Carries(j, u, K)' => Carries(j, u, K) \/ (j = b /\ Tells(K))
             /\ j = b /\ Tells(K) => Carries(j, u, K)'
  BY <1>0, <1>1, MailCarries
<1>8. \A j \in Boards : Carries(j, u, {"SUCCESS"}) => Carries(j, u, {"SUCCESS"})'
  <2>1. \A j \in Boards : ~Taken(j, from, u, {"SUCCESS"})
    <3>1. u \in from => r # "SUCCESS"
      BY <1>4 DEF U!Request
    <3> QED BY <1>5, <3>1
  <2> QED BY <1>0, <2>1, MailCarries, NoAnswerPassed
<1>9. Answered(u) => \A j \in Boards : \A K : ~Carries(j, u, K)
  BY AnsweredCarries
<1>10. /\ r = "REGISTER_REQUEST" =>
            /\ state[u] \in {"CONNECTED", "WAITING"} /\ booth[u] = b
            /\ Carries(u, u, {"REGISTER_REQUEST"})
       /\ r = "EXIT_REQUEST" => state[u] = "IN_USE" /\ booth[u] = b /\ Carries(u, u, {"EXIT_REQUEST"})
       /\ r = "USER_RESPONSE_NO" => state[u] = "SCANNING"
  <2>1. r \in Requests \cup {"USER_RESPONSE_NO"} =>
          /\ u \in from /\ r = Head(link[u]).type /\ Head(link[u]).dest = b
          /\ Head(link[u]).dest # NoBooth
          /\ \E i \in DOMAIN link[u] : link[u][i] = Head(link[u])
    <3>1. "none" \notin Requests \cup {"USER_RESPONSE_NO"}
      BY DEF Requests
    <3>2. b # NoBooth
      BY BoardsAssumption DEF Boards
    <3> QED BY <1>4, <3>1, <3>2
  <2> QED BY <1>6, <2>1 DEF Clear, RequestsFit, Requests
<1>11. ASSUME NEW k \in Requests, r = k
       PROVE  \A j \in Boards : /\ ~Carries(j, u, P!Answers) /\ ~Carries(j, u, P!Farewells)
                                /\ ~Carries(j, u, {"REMOVED"}) /\ ~Carries(j, u, {"SUCCESS"})
  <2>1. Carries(u, u, {k})
    BY <1>6, <1>11 DEF Requests
  <2>2. /\ {k} \cap P!Answers = {} /\ {k} \cap P!Farewells = {} /\ {k} \cap {"REMOVED"} = {}
        /\ {k} \cap {"SUCCESS"} = {} /\ {k} \subseteq Fates
        /\ P!Answers \subseteq Fates /\ P!Farewells \subseteq Fates
        /\ {"REMOVED"} \subseteq Fates /\ {"SUCCESS"} \subseteq Fates
    BY DEF Requests, P!Answers, P!Farewells, Fates
  <2>3. AtMostOne(u, Fates)
    BY DEF Clear
  <2>4. \A j \in Boards : ~Carries(j, u, P!Answers)
    BY <1>0, <2>1, <2>2, <2>3, Exclusive
  <2>5. \A j \in Boards : ~Carries(j, u, P!Farewells)
    BY <1>0, <2>1, <2>2, <2>3, Exclusive
  <2>6. \A j \in Boards : ~Carries(j, u, {"REMOVED"})
    BY <1>0, <2>1, <2>2, <2>3, Exclusive
  <2>7. \A j \in Boards : ~Carries(j, u, {"SUCCESS"})
    BY <1>0, <2>1, <2>2, <2>3, Exclusive
  <2> QED BY <2>4, <2>5, <2>6, <2>7
(* What the booth does with u. *)
<1>12. /\ Registered(b) \subseteq Registered(b)'
       /\ In(b, u)' /\ ~In(b, u) => r = "REGISTER_REQUEST" /\ Tells({"SUCCESS"})
       /\ In(b, u) /\ ~In(b, u)' => r = "EXIT_REQUEST" \/ Answered(u)
       /\ P!Bound(b, u)' => P!Bound(b, u) \/ r = "REGISTER_REQUEST"
       /\ pending[b] = u /\ pending'[b] # u =>
            \/ Answered(u) \/ r = "USER_RESPONSE_NO"
            \/ r = "REGISTER_REQUEST" /\ Tells({"SUCCESS"}) /\ ~P!Bound(b, u)'
       /\ Tells(Calls) => P!Bound(b, u) /\ pending[b] # u /\ pending'[b] = u
       /\ Tells({"REMOVED"}) => Answered(u) /\ pending[b] = u /\ ~P!Bound(b, u)'
  BY DEF P!Treats, In, Registered, P!ToSet, P!Bound, P!InQueue, P!Positions, Calls
<1>13. /\ Tells(P!Answers) => r = "REGISTER_REQUEST"
       /\ Tells({"SUCCESS"}) => In(b, u)' /\ r = "REGISTER_REQUEST"
       /\ Tells(P!Farewells) => In(b, u) /\ ~In(b, u)'
  BY DEF P!Treats, In, P!ToSet, P!Answers, P!Farewells
<1>14. \A c \in Booths \ {b} :
         /\ In(c, u)' <=> In(c, u)
         /\ P!Bound(c, u)' <=> P!Bound(c, u)
         /\ Registered(c)' = Registered(c)
         /\ pending'[c] = pending[c]
  BY DEF In, Registered, P!ToSet, P!Bound, P!InQueue, P!Positions
<1>15. /\ Tells({"REMOVED"}) => ~Tells(Calls)
       /\ Tells(P!Answers) => ~Tells(Calls)
  BY DEF P!Tells, P!Answers, Calls
<1>16. \A c \in Booths : pending[c] = u => P!Bound(c, u)
  BY DEF P!Bound
<1>17. Tells(Fates) => r \in Requests \/ Answered(u)
  <2>1. Tells(Fates) => Tells(Requests) \/ Tells(P!Answers) \/ Tells(P!Farewells) \/ Tells({"REMOVED"})
    BY DEF Fates
  <2> QED BY <1>3, <1>12, <1>13, <2>1 DEF Requests
<1> HIDE DEF Tells
<1>18. /\ AtMostOne(u, Fates)'
       /\ r \in Requests => \A j \in Boards : Carries(j, u, Fates)' => j = b
  <2>1. r \in Requests => u \in from /\ Taken(u, from, u, Fates)
    BY <1>6 DEF Requests, Fates
  <2>2. \A j \in to : Given(j, to, m, u, Fates) =>
          (\A x \in Boards : ~Carries(x, u, Fates)) \/ \E n \in from : Taken(n, from, u, Fates)
    <3>1. \A j \in to : j \in Boards
      BY DEF Mail
    <3> QED BY <1>1, <1>9, <1>17, <2>1, <3>1
  <2>3. AtMostOne(u, Fates)
    BY DEF Clear
  <2>4. /\ AtMostOne(u, Fates)'
        /\ (\E n \in from : Taken(n, from, u, Fates)) =>
             \A j \in Boards : Carries(j, u, Fates)' => Given(j, to, m, u, Fates)
    BY <1>0, <2>2, <2>3, MailOnce
  <2> QED BY <1>1, <2>1, <2>4
<1>19. RequestsFit(u)'
  <2>1. u \notin to
    BY <1>0 DEF Gets
  <2>2. ASSUME NEW i \in DOMAIN link'[u], link'[u][i].dest # NoBooth
        PROVE  /\ link'[u][i].type = "REGISTER_REQUEST" =>
                    state'[u] \in {"CONNECTED", "WAITING"} /\ link'[u][i].dest = booth'[u]
               /\ link'[u][i].type = "EXIT_REQUEST" =>
                    state'[u] = "IN_USE" /\ link'[u][i].dest = booth'[u]
               /\ link'[u][i].type = "USER_RESPONSE_NO" => state'[u] = "SCANNING"
    <3>1. \E x \in DOMAIN link[u] : link'[u][i] = link[u][x]
      BY <1>0, <2>1, MailOld
    <3> QED BY <2>2, <3>1 DEF Clear, RequestsFit, Same
  <2> QED BY <2>2 DEF RequestsFit
<1>20. AnswersFit(u)'
  <2>1. ASSUME NEW c \in Booths, Carries(c, u, P!Answers)'
        PROVE  state'[u] \in {"CONNECTED", "WAITING"} /\ booth'[u] = c
    BY <1>0, <1>7, <1>10, <1>13, <2>1 DEF Clear, AnswersFit, Same
  <2>2. ASSUME NEW c \in Booths, Carries(c, u, {"SUCCESS"})'
        PROVE  In(c, u)'
    <3>1. CASE c = b /\ Tells({"SUCCESS"})
      BY <1>13, <3>1
    <3>2. CASE Carries(c, u, {"SUCCESS"})
      <4>1. In(c, u)
        BY <3>2 DEF Clear, AnswersFit
      <4>2. c \in Boards
        BY <1>0
      <4>3. ~Answered(u) /\ r # "EXIT_REQUEST"
        BY <1>9, <1>11, <3>2, <4>2 DEF Requests
      <4> QED BY <1>12, <1>14, <4>1, <4>3
    <3> QED BY <1>0, <1>7, <2>2, <3>1, <3>2
  <2> QED BY <2>1, <2>2 DEF AnswersFit
<1>21. FarewellsFit(u)'
  <2>1. ASSUME NEW c \in Booths, Carries(c, u, P!Farewells)'
        PROVE  state'[u] = "IN_USE" /\ booth'[u] = c /\ \A d \in Booths : ~In(d, u)'
    <3>1. CASE c = b /\ Tells(P!Farewells)
      <4>1. In(b, u) /\ ~In(b, u)' /\ (r = "EXIT_REQUEST" \/ Answered(u))
        BY <1>12, <1>13, <3>1
      <4>2. booth[u] = b /\ (state[u] = "IN_USE" \/ Carries(b, u, {"SUCCESS"}))
        BY <4>1 DEF Clear, InsideKnown
      <4>3. state[u] = "IN_USE"
        BY <1>0, <1>9, <1>10, <4>1, <4>2
      <4>4. \A d \in Booths : In(d, u) => d = b
        BY <4>2 DEF Clear, InsideKnown
      <4> QED BY <1>14, <3>1, <4>1, <4>2, <4>3, <4>4 DEF Same
    <3>2. CASE Carries(c, u, P!Farewells)
      <4>1. state[u] = "IN_USE" /\ booth[u] = c /\ \A d \in Booths : ~In(d, u)
        BY <3>2 DEF Clear, FarewellsFit
      <4>2. r # "REGISTER_REQUEST"
        BY <1>10, <4>1
      <4>3. \A d \in Booths : ~In(d, u)'
        BY <1>12, <1>14, <4>1, <4>2
      <4> QED BY <4>1, <4>3 DEF Same
    <3> QED BY <1>0, <1>7, <2>1, <3>1, <3>2
  <2> QED BY <2>1 DEF FarewellsFit
<1>22. RemovalsFit(u)'
  <2>1. ASSUME NEW c \in Booths, Carries(c, u, {"REMOVED"})'
        PROVE  (\A d \in Booths : ~P!Bound(d, u)') /\ (\A d \in Booths : ~Carries(d, u, Calls)')
    <3>1. CASE c = b /\ Tells({"REMOVED"})
      <4>1. Answered(u) /\ P!Bound(b, u) /\ ~P!Bound(b, u)' /\ ~Tells(Calls)
        BY <1>12, <1>15, <1>16, <3>1
      <4>2. \A d \in Booths : ~P!Bound(d, u)'
        BY <1>14, <4>1
      <4> QED BY <1>0, <1>7, <1>9, <4>1, <4>2
    <3>2. CASE Carries(c, u, {"REMOVED"})
      <4>1. (\A d \in Booths : ~P!Bound(d, u)) /\ (\A d \in Booths : ~Carries(d, u, Calls))
        BY <3>2 DEF Clear, RemovalsFit, Free, NoCall
      <4>2. r # "REGISTER_REQUEST"
        BY <1>0, <1>11, <3>2 DEF Requests
      <4>3. ~Tells(Calls)
        BY <1>12, <4>1
      <4> QED BY <1>0, <1>7, <1>12, <1>14, <4>1, <4>2, <4>3
    <3> QED BY <1>0, <1>7, <2>1, <3>1, <3>2
  <2> QED BY <2>1 DEF RemovalsFit, Free, NoCall
<1>23. InsideKnown(u)'
  <2>1. ASSUME NEW c \in Booths, In(c, u)'
        PROVE  booth'[u] = c /\ (state'[u] = "IN_USE" \/ Carries(c, u, {"SUCCESS"})')
    <3>1. CASE In(c, u)
      BY <1>0, <1>8, <3>1 DEF Clear, InsideKnown, Same
    <3>2. CASE ~In(c, u)
      <4>1. c = b /\ r = "REGISTER_REQUEST" /\ Tells({"SUCCESS"})
        BY <1>12, <1>14, <2>1, <3>2
      <4> QED BY <1>0, <1>7, <1>10, <4>1 DEF Same
    <3> QED BY <3>1, <3>2
  <2> QED BY <2>1 DEF InsideKnown
<1>24. BoothKept(u)'
  <2>1. \A c \in Booths : Registered(c) \subseteq Registered(c)'
    BY <1>12, <1>14
  <2> QED BY <2>1 DEF Clear, BoothKept, Same
<1>25. ASSUME Tells(Calls)
       PROVE  \A j \in Boards : state[u] \in {"CONNECTED", "WAITING"} => ~Carries(j, u, Calls)
  <2>1. P!Bound(b, u) /\ pending[b] # u
    BY <1>12, <1>25
  <2>2. ASSUME NEW c \in Booths, state[u] \in {"CONNECTED", "WAITING"}, Carries(c, u, Calls)
        PROVE  FALSE
    BY <1>16, <2>1, <2>2 DEF Clear, CallsFit, Free
  <2>3. \A v \in Users : ~Carries(v, u, Calls)
    BY WhoCarries
  <2> QED BY <2>2, <2>3 DEF Boards
<1>26. CallsFit(u)'
  <2> SUFFICES ASSUME state'[u] \in {"CONNECTED", "WAITING"}
               PROVE  /\ AtMostOne(u, Calls)'
                      /\ \A c \in Booths :
                           Carries(c, u, Calls)' =>
                             \/ pending'[c] = u
                             \/ /\ state'[u] = "CONNECTED" /\ Free(u)'
                                /\ \E d \in Booths : Carries(d, u, {"SUCCESS"})'
    BY DEF CallsFit
  <2>0. state[u] \in {"CONNECTED", "WAITING"} /\ state'[u] = state[u]
    BY DEF Same
  <2>1. AtMostOne(u, Calls)'
    <3>1. \A j \in to : Given(j, to, m, u, Calls) => \A x \in Boards : ~Carries(x, u, Calls)
      <4>1. \A j \in to : j \in Boards
        BY DEF Mail
      <4> QED BY <1>1, <1>25, <2>0, <4>1
    <3>2. AtMostOne(u, Calls)
      BY <2>0 DEF Clear, CallsFit
    <3> QED BY <1>0, <3>1, <3>2, MailOnce
  <2>2. ASSUME NEW c \in Booths, Carries(c, u, Calls)', pending'[c] # u
        PROVE  /\ state[u] = "CONNECTED" /\ \A d \in Booths : ~P!Bound(d, u)'
               /\ \E d \in Booths : Carries(d, u, {"SUCCESS"})'
    <3>1. Carries(c, u, Calls)
      BY <1>0, <1>7, <1>12, <2>2
    <3>2. ~Answered(u)
      BY <1>0, <1>9, <3>1
    <3>3. CASE pending[c] = u
      <4>1. c = b /\ r # "USER_RESPONSE_NO"
        BY <1>10, <1>14, <2>0, <2>2, <3>3
      <4>2. r = "REGISTER_REQUEST" /\ Tells({"SUCCESS"}) /\ ~P!Bound(b, u)'
        BY <1>12, <2>2, <3>2, <3>3, <4>1
      <4>3. \A d \in Booths : ~P!Bound(d, u)'
        BY <1>14, <1>16, <3>3, <4>1, <4>2
      <4>4. state[u] # "WAITING"
        BY <1>10, <3>1, <4>2 DEF Clear, CalledOnce, NoCall
      <4>5. Carries(b, u, {"SUCCESS"})'
        BY <1>0, <1>7, <4>2
      <4> QED BY <2>0, <4>3, <4>4, <4>5
    <3>4. CASE pending[c] # u
      <4>1. /\ state[u] = "CONNECTED" /\ (\A d \in Booths : ~P!Bound(d, u))
            /\ \E d \in Booths : Carries(d, u, {"SUCCESS"})
        BY <2>0, <3>1, <3>4 DEF Clear, CallsFit, Free
      <4>2. r # "REGISTER_REQUEST"
        BY <1>0, <1>11, <4>1 DEF Requests
      <4> QED BY <1>0, <1>8, <1>12, <1>14, <4>1, <4>2
    <3> QED BY <3>3, <3>4
  <2> QED BY <2>0, <2>1, <2>2 DEF Free
<1>27. CalledOnce(u)'
  <2> SUFFICES ASSUME state'[u] = "WAITING"
               PROVE  /\ Carries(u, u, {"REGISTER_REQUEST"})' => NoCall(u)' /\ Called(u)'
                      /\ (\E c \in Booths : Carries(c, u, P!Answers)') =>
                           NoCall(u)' /\ (Free(u)' \/ Called(u)')
    BY DEF CalledOnce
  <2>0. state[u] = "WAITING" /\ r # "USER_RESPONSE_NO"
    BY <1>10 DEF Same
  <2>1. ASSUME NoCall(u), Free(u) \/ Called(u), ~Tells(Calls) \/ r # "REGISTER_REQUEST"
        PROVE  NoCall(u)'
    <3>1. ASSUME Tells(Calls) PROVE FALSE
      BY <1>12, <1>16, <2>1, <3>1 DEF Free, Called
    <3> QED BY <1>0, <1>7, <2>1, <3>1 DEF NoCall
  <2>2. ASSUME Called(u), ~Answered(u), r # "REGISTER_REQUEST"
        PROVE  Called(u)'
    BY <1>12, <1>14, <2>0, <2>2 DEF Called
  <2>3. ASSUME Carries(u, u, {"REGISTER_REQUEST"})'
        PROVE  NoCall(u)' /\ Called(u)'
    <3>1. Carries(u, u, {"REGISTER_REQUEST"}) /\ ~Answered(u)
      BY <1>0, <1>7, <1>9, <2>3
    <3>2. r # "REGISTER_REQUEST"
      <4>1. Carries(u, u, Fates)'
        BY <2>3 DEF Carries, Hit, Concerns, P!Kind, Fates, Requests
      <4> QED BY <1>0, <1>18, <4>1 DEF Requests
    <3>3. NoCall(u) /\ Called(u)
      BY <2>0, <3>1 DEF Clear, CalledOnce
    <3> QED BY <2>1, <2>2, <3>1, <3>2, <3>3
  <2>4. ASSUME NEW c \in Booths, Carries(c, u, P!Answers)'
        PROVE  NoCall(u)' /\ (Free(u)' \/ Called(u)')
    <3>1. CASE c = b /\ Tells(P!Answers)
      <4>1. r = "REGISTER_REQUEST" /\ ~Tells(Calls) /\ ~Answered(u)
        BY <1>0, <1>9, <1>10, <1>13, <1>15, <3>1
      <4>2. NoCall(u) /\ Called(u)
        BY <1>10, <2>0, <4>1 DEF Clear, CalledOnce
      <4>3. NoCall(u)'
        BY <2>1, <4>1, <4>2
      <4>4. PICK d \in Booths : pending[d] = u
        BY <4>2 DEF Called
      <4>5. CASE pending'[d] = u
        BY <4>3, <4>5 DEF Called
      <4>6. CASE pending'[d] # u
        <5>1. d = b /\ ~P!Bound(b, u)'
          BY <1>12, <1>14, <2>0, <4>1, <4>4, <4>6
        <5>2. \A x \in Booths : ~P!Bound(x, u)'
          BY <1>14, <1>16, <4>4, <5>1
        <5> QED BY <4>3, <5>2 DEF Free
      <4> QED BY <4>5, <4>6
    <3>2. CASE Carries(c, u, P!Answers)
      <4>1. NoCall(u) /\ (Free(u) \/ Called(u)) /\ ~Answered(u)
        BY <1>0, <1>9, <2>0, <3>2 DEF Clear, CalledOnce
      <4>2. r # "REGISTER_REQUEST"
        BY <1>0, <1>11, <3>2 DEF Requests
      <4>3. Free(u) => Free(u)'
        BY <1>12, <1>14, <4>2 DEF Free
      <4> QED BY <2>1, <2>2, <4>1, <4>2, <4>3
    <3> QED BY <1>0, <1>7, <2>4, <3>1, <3>2
  <2> QED BY <2>3, <2>4
<1> QED BY <1>18, <1>19, <1>20, <1>21, <1>22, <1>23, <1>24, <1>26, <1>27 DEF Clear

(* A step that u makes of its own accord, with nothing under way.          *)
LEMMA OwnClear ==
    ASSUME Posted, NEW u \in Users, Clear(u), Answered(u), ListsKept, Turns(u),
           NEW to, NEW m, Mail({}, to, m), to = Gets(u, out'[u]), m = Last(out'[u]),
           out'[u] \in Seq(U!Request)
    PROVE  Clear(u)'
<1>0. /\ u \in Boards /\ u \notin Booths /\ link \in [Boards -> Seq(Letters)]
      /\ \A b \in Booths : b \in Boards
  BY BoardsAssumption DEF Boards, Posted
<1>1. u \in to => m \in U!Request /\ P!Kind(m) = m.type /\ out'[u] # <<>>
  <2>1. u \in to => out'[u] # <<>>
    BY DEF Gets
  <2>2. out'[u] # <<>> => Last(out'[u]) \in U!Request
    BY P!LastFact DEF Last, P!Last
  <2>3. m \in U!Request => P!Kind(m) = m.type
    BY DEF U!Request, P!Kind
  <2> QED BY <2>1, <2>2, <2>3
<1>2. \A j \in Boards : \A K : ~Carries(j, u, K)
  BY AnsweredCarries
<1>3. ASSUME NEW j \in Boards, NEW K
      PROVE  Carries(j, u, K)' => j = u /\ u \in to /\ m.type \in K /\ m.dest # NoBooth
  <2>1. Carries(j, u, K)' => Given(j, to, m, u, K)
    BY <1>0, <1>2, MailCarries
  <2>2. j \in to => j = u
    BY DEF Gets
  <2> QED BY <1>0, <1>1, <2>1, <2>2 DEF Given, Concerns
<1>4. \A b \in Booths : \A K : ~Carries(b, u, K)'
  BY <1>0, <1>3
<1>5. ASSUME NEW K PROVE AtMostOne(u, K)'
  <2>1. AtMostOne(u, K)
    BY <1>2 DEF AtMostOne, Carries
  <2> QED BY <1>0, <1>2, <2>1, MailOnce
<1>6. u \in to /\ m.dest # NoBooth =>
        /\ m.type = "REGISTER_REQUEST" => state'[u] = "CONNECTED" /\ m.dest = booth'[u]
        /\ m.type = "EXIT_REQUEST" => state'[u] = "IN_USE" /\ m.dest = booth'[u]
        /\ m.type = "USER_RESPONSE_NO" => state'[u] = "SCANNING"
  BY <1>1 DEF Turns
<1>7. RequestsFit(u)'
  <2>1. ASSUME NEW i \in DOMAIN link'[u]
        PROVE  u \in to /\ link'[u][i] = m
    <3>1. DOMAIN link[u] = {}
      BY DEF Answered
    <3> QED BY <1>0, <3>1, MailOld
  <2> QED BY <1>6, <2>1 DEF RequestsFit
<1>8. AnswersFit(u)' /\ FarewellsFit(u)' /\ RemovalsFit(u)'
  BY <1>4 DEF AnswersFit, FarewellsFit, RemovalsFit
<1>9. \A b \in Booths : In(b, u) => booth[u] = b /\ state[u] = "IN_USE"
  BY <1>0, <1>2 DEF Clear, InsideKnown
<1>10. InsideKnown(u)'
  BY <1>9, ListsFact DEF InsideKnown, Turns
<1>11. BoothKept(u)'
  BY ListsFact DEF Clear, BoothKept, Turns
<1>12. CallsFit(u)'
  BY <1>4, <1>5 DEF CallsFit
<1>13. CalledOnce(u)'
  <2>1. Carries(u, u, {"REGISTER_REQUEST"})' => state'[u] = "CONNECTED"
    BY <1>0, <1>3, <1>6
  <2> QED BY <1>4, <2>1 DEF CalledOnce
<1> QED BY <1>5, <1>7, <1>8, <1>10, <1>11, <1>12, <1>13 DEF Clear

(* A message that comes to u.                                              *)
LEMMA MessageClear ==
    ASSUME Posted, NEW u \in Users, Clear(u), ListsKept,
           \A c \in Booths : In(c, u) => u \in Registered(c),
           NEW b \in Booths, link[b] # <<>>, Head(link[b]).dest = u,
           NEW k, k = P!Kind(Head(link[b])), Moves(u, k),
           NEW to, NEW m, Mail({b}, to, m), to = Gets(u, out'[u]), m = Last(out'[u]),
           out'[u] \in Seq(U!Request)
    PROVE  Clear(u)'
<1>0. /\ u \in Boards /\ u \notin Booths /\ b \in Boards /\ link \in [Boards -> Seq(Letters)]
      /\ \A c \in Booths : c \in Boards
  BY BoardsAssumption DEF Boards, Posted
<1>1. ASSUME NEW K
      PROVE  /\ Taken(b, {b}, u, K) <=> k \in K
             /\ k \in K => Carries(b, u, K)
  <2>1. Taken(b, {b}, u, K) <=> k \in K
    BY DEF Taken, Concerns
  <2> QED BY <1>0, <2>1, TakenIsCarried
<1>2. CASE k \notin {"SUCCESS"} \cup P!Farewells /\ Same(u) /\ out'[u] = <<>>
  <2>1. \A j \in to : FALSE
    BY <1>2 DEF Gets
  <2>2. \A j \in {b} : ~Taken(j, {b}, u, {"SUCCESS"})
    <3>1. ~Taken(b, {b}, u, {"SUCCESS"})
      BY <1>2 DEF Taken
    <3> QED BY <3>1
  <2> QED BY <1>2, <2>1, <2>2, BystanderClear
(* A fate of u, to which it sends nothing. *)
<1>3. ASSUME k \in Fates, out'[u] = <<>>, scanning'[u] = scanning[u],
             state'[u] # "SCANNING" => state'[u] \in {"WAITING", "IN_USE"} /\ k \in P!Answers,
             \A c \in Booths : In(c, u) => state'[u] = "IN_USE" /\ booth'[u] = c,
             state'[u] # "SCANNING" => booth'[u] = booth[u],
             state'[u] = "IN_USE" => k = "SUCCESS",
             state'[u] = "WAITING" => k # "SUCCESS"
      PROVE  Clear(u)'
  <2>1. ASSUME NEW K, NEW j \in Boards
        PROVE  Carries(j, u, K)' => Carries(j, u, K)
    <3>1. ~Given(j, to, m, u, K)
      BY <1>3 DEF Given, Gets
    <3> QED BY <1>0, <3>1, MailCarries
  <2>2. AtMostOne(u, Fates)' /\ \A j \in Boards : ~Carries(j, u, Fates)'
    <3>1. AtMostOne(u, Fates) /\ Taken(b, {b}, u, Fates)
      BY <1>1, <1>3 DEF Clear
    <3>2. \A j \in Boards : ~Given(j, to, m, u, Fates)
      BY <1>3 DEF Given, Gets
    <3>3. \A j \in to : Given(j, to, m, u, Fates) =>
            (\A x \in Boards : ~Carries(x, u, Fates)) \/ \E n \in {b} : Taken(n, {b}, u, Fates)
      BY <3>1
    <3> QED BY <1>0, <3>1, <3>2, <3>3, MailOnce
  <2>3. \A j \in Boards : /\ ~Carries(j, u, P!Answers)' /\ ~Carries(j, u, P!Farewells)'
                          /\ ~Carries(j, u, {"REMOVED"})' /\ ~Carries(j, u, {"SUCCESS"})'
                          /\ ~Carries(j, u, {"REGISTER_REQUEST"})'
    <3>1. \A K : K \subseteq Fates => \A j : Carries(j, u, K)' => Carries(j, u, Fates)'
      BY DEF Carries, Hit
    <3>2. P!Answers \subseteq Fates /\ P!Farewells \subseteq Fates
          /\ {"REMOVED"} \subseteq Fates /\ {"SUCCESS"} \subseteq Fates
          /\ {"REGISTER_REQUEST"} \subseteq Fates
      BY DEF Fates, Requests, P!Answers
    <3> QED BY <2>2, <3>1, <3>2
  <2>4. state'[u] # "SCANNING" => state[u] \in {"CONNECTED", "WAITING"} /\ booth[u] = b
    <3>1. k \in P!Answers => Carries(b, u, P!Answers)
      BY <1>1
    <3> QED BY <1>3, <3>1 DEF Clear, AnswersFit
  <2>5. RequestsFit(u)'
    <3>1. ASSUME NEW i \in DOMAIN link'[u], link'[u][i].dest # NoBooth
          PROVE  /\ link'[u][i].type \notin Requests
                 /\ link'[u][i].type = "USER_RESPONSE_NO" => state[u] = "SCANNING"
      <4>1. PICK x \in DOMAIN link[u] : link'[u][i] = link[u][x]
        BY <1>0, <1>3, MailOld DEF Gets
      <4>2. P!Kind(link'[u][i]) = link'[u][i].type
        BY <4>1, WhoCarries
      <4>3. link'[u][i].type \notin Requests
        <5>1. ~(Concerns(u, u, link'[u][i]) /\ P!Kind(link'[u][i]) \in Fates)
          BY <1>0, <2>2 DEF Carries, Hit, Concerns, P!Kind, Fates, Requests, P!Answers, P!Farewells
        <5> QED BY <3>1, <4>2, <5>1 DEF Concerns, Fates
      <4> QED BY <3>1, <4>1, <4>3 DEF Clear, RequestsFit
    <3> QED BY <2>4, <3>1 DEF RequestsFit, Requests
  <2>6. AnswersFit(u)' /\ FarewellsFit(u)' /\ RemovalsFit(u)'
    BY <1>0, <2>3 DEF AnswersFit, FarewellsFit, RemovalsFit
  <2>7. InsideKnown(u)'
    BY <1>3, ListsFact DEF InsideKnown
  <2>8. BoothKept(u)'
    <3>1. state'[u] # "SCANNING" => booth'[u] \in Booths
      BY <1>3, <2>4
    <3>2. state'[u] = "IN_USE" => In(b, u) /\ booth'[u] = b
      <4>1. k = "SUCCESS" => Carries(b, u, {"SUCCESS"})
        BY <1>1
      <4> QED BY <1>3, <2>4, <4>1 DEF Clear, AnswersFit
    <3>3. scanning'[u] => state'[u] = "SCANNING"
      BY <1>3, <2>4 DEF Clear, BoothKept
    <3> QED BY <3>1, <3>2, <3>3, ListsFact DEF BoothKept
  <2>9. CallsFit(u)'
    <3> SUFFICES ASSUME state'[u] = "WAITING"
                 PROVE  /\ AtMostOne(u, Calls)'
                        /\ \A c \in Booths : Carries(c, u, Calls)' => pending'[c] = u
      BY <1>3 DEF CallsFit
    <3>1. AtMostOne(u, Calls)
      BY <2>4 DEF Clear, CallsFit
    <3>2. AtMostOne(u, Calls)'
      <4>1. \A j \in to : Given(j, to, m, u, Calls) =>
              (\A x \in Boards : ~Carries(x, u, Calls)) \/ \E n \in {b} : Taken(n, {b}, u, Calls)
        BY <1>3 DEF Gets
      <4> QED BY <1>0, <3>1, <4>1, MailOnce
    <3>3. \A c \in Booths : ~Carries(c, u, {"SUCCESS"})
      <4>1. {k} \cap {"SUCCESS"} = {} /\ {k} \subseteq Fates /\ {"SUCCESS"} \subseteq Fates
        BY <1>3 DEF Fates, P!Answers
      <4>2. Carries(b, u, {k})
        BY <1>1
      <4> QED BY <1>0, <4>1, <4>2, Exclusive DEF Clear
    <3>4. \A c \in Booths : Carries(c, u, Calls) => pending[c] = u
      BY <2>4, <3>3 DEF Clear, CallsFit
    <3>5. \A c \in Booths : pending'[c] = pending[c]
      BY DEF ListsKept
    <3> QED BY <1>0, <2>1, <3>2, <3>4, <3>5
  <2>10. CalledOnce(u)'
    BY <1>0, <2>3 DEF CalledOnce
  <2> QED BY <2>2, <2>5, <2>6, <2>7, <2>8, <2>9, <2>10 DEF Clear
<1>4. ASSUME k \in Fates, k # "SUCCESS"
      PROVE  \A c \in Booths : ~Carries(c, u, {"SUCCESS"})
  <2>1. {k} \cap {"SUCCESS"} = {} /\ {k} \subseteq Fates /\ {"SUCCESS"} \subseteq Fates
    BY <1>4 DEF Fates, P!Answers
  <2>2. Carries(b, u, {k})
    BY <1>1
  <2> QED BY <1>0, <2>1, <2>2, Exclusive DEF Clear
<1>5. CASE /\ k \in {"ALREADY_USED", "REMOVED"} \cup P!Farewells
           /\ k = "REMOVED" => state[u] = "WAITING"
           /\ state'[u] = "SCANNING" /\ scanning'[u] = scanning[u] /\ out'[u] = <<>>
  <2>1. k \in Fates /\ k # "SUCCESS"
    BY <1>5 DEF Fates, P!Answers, P!Farewells
  <2>2. ASSUME NEW c \in Booths, In(c, u) PROVE FALSE
    <3>1. booth[u] = c /\ state[u] = "IN_USE"
      BY <1>4, <2>1, <2>2 DEF Clear, InsideKnown
    <3>2. k \notin P!Farewells
      BY <1>1, <2>2 DEF Clear, FarewellsFit
    <3>3. k # "ALREADY_USED"
      BY <1>1, <3>1 DEF Clear, AnswersFit, P!Answers
    <3> QED BY <1>5, <3>1, <3>2, <3>3
  <2> QED BY <1>3, <1>5, <2>1, <2>2
<1>6. CASE /\ k = "SUCCESS" /\ state'[u] = "IN_USE"
           /\ booth'[u] = booth[u] /\ scanning'[u] = scanning[u] /\ out'[u] = <<>>
  <2>1. k \in Fates /\ k \in P!Answers
    BY <1>6 DEF Fates, P!Answers
  <2>2. \A c \in Booths : In(c, u) => booth[u] = c
    BY DEF Clear, InsideKnown
  <2> QED BY <1>3, <1>6, <2>1, <2>2
<1>7. CASE /\ k \in {"FULL_WAITING", "QUEUE_INFO"} /\ state'[u] = "WAITING"
           /\ booth'[u] = booth[u] /\ scanning'[u] = scanning[u] /\ out'[u] = <<>>
  <2>1. k \in Fates /\ k \in P!Answers /\ k # "SUCCESS"
    BY <1>7 DEF Fates, P!Answers
  <2>2. ASSUME NEW c \in Booths, In(c, u) PROVE FALSE
    <3>1. state[u] = "IN_USE"
      BY <1>4, <2>1, <2>2 DEF Clear, InsideKnown
    <3> QED BY <1>1, <2>1, <3>1 DEF Clear, AnswersFit
  <2> QED BY <1>3, <1>7, <2>1, <2>2
(* The call from the queue, which u answers with its request. *)
<1>8. CASE /\ k = "QUEUE_READY" /\ state[u] = "WAITING" /\ Same(u)
           /\ out'[u] = <<U!To(booth[u], "REGISTER_REQUEST")>>
  <2>1. /\ to = {u} /\ m \in U!Request /\ m.type = "REGISTER_REQUEST" /\ m.dest = booth[u]
        /\ P!Kind(m) = "REGISTER_REQUEST"
    <3>1. booth[u] \in Booths
      BY <1>8 DEF Clear, BoothKept
    <3>2. /\ U!To(booth[u], "REGISTER_REQUEST") \in U!Request
          /\ U!To(booth[u], "REGISTER_REQUEST").type = "REGISTER_REQUEST"
          /\ U!To(booth[u], "REGISTER_REQUEST").dest = booth[u]
      BY <3>1, RequestMade
    <3>3. m = U!To(booth[u], "REGISTER_REQUEST") /\ out'[u] # <<>>
      BY <1>8 DEF Last
    <3> QED BY <3>2, <3>3 DEF Gets, P!Kind
  <2>2. Carries(b, u, Calls) /\ Taken(b, {b}, u, Calls)
    BY <1>1, <1>8 DEF Calls
  <2>3. ~NoCall(u)
    BY <2>2 DEF NoCall
  <2>4. \A j \in Boards : ~Carries(j, u, Fates)
    <3>1. ~Carries(u, u, {"REGISTER_REQUEST"}) /\ \A c \in Booths : ~Carries(c, u, P!Answers)
      BY <1>8, <2>3 DEF Clear, CalledOnce
    <3>2. ~Carries(u, u, {"EXIT_REQUEST"})
      BY <1>8, AskedFits DEF Clear
    <3>3. \A c \in Booths : ~Carries(c, u, P!Farewells) /\ ~Carries(c, u, {"REMOVED"})
      BY <1>8, <2>3 DEF Clear, FarewellsFit, RemovalsFit
    <3>4. ~Carries(u, u, Fates)
      BY <3>1, <3>2, WhoCarries
    <3>5. \A c \in Booths : ~Carries(c, u, Fates)
      BY <3>1, <3>3, WhoCarries
    <3>6. \A v \in Users : v # u => ~Carries(v, u, Fates)
      BY WhoCarries
    <3> QED BY <3>4, <3>5, <3>6 DEF Boards
  <2>5. AtMostOne(u, Fates)'
    <3>1. \A j \in to : Given(j, to, m, u, Fates) =>
            (\A x \in Boards : ~Carries(x, u, Fates)) \/ \E n \in {b} : Taken(n, {b}, u, Fates)
      BY <2>4
    <3>2. AtMostOne(u, Fates)
      BY DEF Clear
    <3> QED BY <1>0, <3>1, <3>2, MailOnce
  <2>6. \A c \in Booths : ~Carries(c, u, Fates)' /\ ~Carries(c, u, Calls)'
    <3>1. \A c \in Booths : ~Given(c, to, m, u, Fates) /\ ~Given(c, to, m, u, Calls)
      BY <1>0, <2>1 DEF Given
    <3>2. \A c \in Booths : ~Carries(c, u, Fates)'
      BY <1>0, <2>4, <3>1, MailCarries
    <3>3. AtMostOne(u, Calls)
      BY <1>8 DEF Clear, CallsFit
    <3>4. \A j \in to : Given(j, to, m, u, Calls) =>
            (\A x \in Boards : ~Carries(x, u, Calls)) \/ \E n \in {b} : Taken(n, {b}, u, Calls)
      BY <2>2
    <3>5. \A c \in Booths : Carries(c, u, Calls)' => Given(c, to, m, u, Calls)
      BY <1>0, <2>2, <3>3, <3>4, MailOnce
    <3> QED BY <3>1, <3>2, <3>5
  <2>7. \A c \in Booths : /\ ~Carries(c, u, P!Answers)' /\ ~Carries(c, u, P!Farewells)'
                          /\ ~Carries(c, u, {"REMOVED"})' /\ ~Carries(c, u, {"SUCCESS"})'
                          /\ ~Carries(c, u, Calls)'
    <3>1. /\ P!Answers \subseteq Fates /\ P!Farewells \subseteq Fates
          /\ {"REMOVED"} \subseteq Fates /\ {"SUCCESS"} \subseteq Fates
      BY DEF Fates, P!Answers
    <3>2. ASSUME NEW c \in Booths, NEW K, K \subseteq Fates PROVE ~Carries(c, u, K)'
      BY <2>6, <3>2 DEF Carries, Hit
    <3> QED BY <2>6, <3>1, <3>2
  <2>8. RequestsFit(u)'
    <3>1. ASSUME NEW i \in DOMAIN link'[u]
          PROVE  \/ \E x \in DOMAIN link[u] : link'[u][i] = link[u][x]
                 \/ link'[u][i] = m
      BY <1>0, MailOld
    <3> QED BY <1>8, <2>1, <3>1 DEF Clear, RequestsFit, Same
  <2>9. AnswersFit(u)' /\ FarewellsFit(u)' /\ RemovalsFit(u)'
    BY <2>7 DEF AnswersFit, FarewellsFit, RemovalsFit
  <2>10. InsideKnown(u)' /\ BoothKept(u)'
    <3>1. \A c \in Booths : ~In(c, u)
      <4>1. \A c \in Booths : ~Carries(c, u, {"SUCCESS"})
        BY <1>0, <2>4 DEF Carries, Hit, Fates, P!Answers
      <4> QED BY <1>8, <4>1 DEF Clear, InsideKnown
    <3> QED BY <1>8, <3>1, ListsFact DEF InsideKnown, BoothKept, Clear, Same
  <2>11. CallsFit(u)'
    <3>1. AtMostOne(u, Calls)
      BY <1>8 DEF Clear, CallsFit
    <3>2. \A j \in to : Given(j, to, m, u, Calls) =>
            (\A x \in Boards : ~Carries(x, u, Calls)) \/ \E n \in {b} : Taken(n, {b}, u, Calls)
      BY <2>2
    <3>3. AtMostOne(u, Calls)'
      BY <1>0, <3>1, <3>2, MailOnce
    <3> QED BY <2>7, <3>3 DEF CallsFit
  <2>12. CalledOnce(u)'
    <3>1. Called(u)
      BY <1>8, <2>2 DEF Clear, CallsFit, Called
    <3>2. NoCall(u)'
      BY <2>7 DEF NoCall
    <3> QED BY <2>7, <3>1, <3>2, ListsFact DEF CalledOnce
  <2> QED BY <2>5, <2>8, <2>9, <2>10, <2>11, <2>12 DEF Clear
<1> QED BY <1>2, <1>5, <1>6, <1>7, <1>8 DEF Moves

-----------------------------------------------------------------------------
(* The standing of all users *)

Standing == P!IInv /\ Posted /\ UserTypes /\ \A u \in Users : Clear(u)

(* Who is inside is registered.                                            *)
LEMMA InsideIsRegistered ==
    ASSUME P!IInv, NEW b \in Booths, NEW u, In(b, u)
    PROVE  u \in Registered(b)
<1> QED BY DEF P!IInv, P!VisitOnce, In, Registered

(* A user in two queues is one whom both booths hold bound.                *)
LEMMA SameBound ==
    ASSUME NEW u
    PROVE  \A b \in Booths : Bound(b, u) <=> P!Bound(b, u)
<1> QED BY DEF Bound, Queued, P!Bound, P!InQueue, P!Positions

(* Announcements and requests to scan are all that is under way at first.  *)
LEMMA InitStanding == Init => Standing
<1> SUFFICES ASSUME Init PROVE Standing
  OBVIOUS
<1> DEFINE first == [type |-> "BOOTH_ANNOUNCE", dest |-> Broadcast, count |-> 0, waiting |-> 0]
           ask == Last(U!ScanAll)
<1>1. P!Init
  BY DEF Init, B!Init, P!Init
<1>2. P!IInv
  BY <1>1, Assumed, P!InitIInv
<1>3. first \in P!Message /\ first.type = "BOOTH_ANNOUNCE" /\ first.dest = Broadcast
  BY DEF P!Message
<1>4. \A b \in Booths : sent[b] = <<first>>
  BY <1>1 DEF P!Init
<1>5. \A u \in Users : out[u] = U!ScanAll
  BY DEF Init, U!Init
<1>6. link = [n \in Boards |-> <<Last(IF n \in Booths THEN sent[n] ELSE out[n])>>]
  BY DEF Init
<1>7. ask \in U!Request /\ ask.type = "BOOTH_SCAN"
  <2>1. U!ScanAll # <<>>
    <3>1. ScanOrder \in Seq(Booths) /\ ScanOrder # <<>>
      BY BoardsAssumption DEF U!ScanOrderAssumption
    <3>2. Len(ScanOrder) \in Nat \ {0} /\ DOMAIN ScanOrder = 1 .. Len(ScanOrder)
      BY <3>1, EmptySeq, LenProperties
    <3>3. DOMAIN U!ScanAll = 1 .. Len(ScanOrder) /\ 1 \in 1 .. Len(ScanOrder)
      BY <3>2 DEF U!ScanAll
    <3>4. DOMAIN U!ScanAll # {}
      BY <3>3
    <3>5. \A s : s = <<>> => DOMAIN s = {}
      OBVIOUS
    <3> QED BY <3>4, <3>5
  <2> DEFINE s == U!ScanAll
  <2>2. s \in Seq(U!Request) /\ (s # <<>> => Last(s).type = "BOOTH_SCAN")
    BY LastMade
  <2> HIDE DEF s
  <2>3. s # <<>> => Last(s) \in U!Request
    BY <2>2, P!LastFact DEF Last, P!Last
  <2> QED BY <2>1, <2>2, <2>3 DEF s
<1> HIDE DEF first, ask
<1>8. \A b \in Booths : link[b] = <<first>>
  <2>1. Last(<<first>>) = first
    BY DEF Last
  <2> QED BY <1>4, <1>6, <2>1 DEF Boards
<1>9. \A u \in Users : link[u] = <<ask>>
  BY <1>5, <1>6, BoardsAssumption DEF Boards, ask
<1>10. Posted
  <2>1. link = [n \in Boards |-> link[n]]
    BY <1>6
  <2>0. \A S : \A x \in S : <<x>> \in Seq(S)
    OBVIOUS
  <2>2. \A b \in Booths : link[b] \in Seq(P!Message) /\ link[b] \in Seq(Letters)
    <3>1. first \in Letters
      BY <1>3 DEF Letters
    <3> QED BY <1>3, <1>8, <2>0, <3>1
  <2>3. \A u \in Users : link[u] \in Seq(U!Request) /\ link[u] \in Seq(Letters)
    <3>1. ask \in Letters
      BY <1>7 DEF Letters
    <3> QED BY <1>7, <1>9, <2>0, <3>1
  <2>4. \A n \in Boards : link[n] \in Seq(Letters)
    BY <2>2, <2>3 DEF Boards
  <2>5. link \in [Boards -> Seq(Letters)]
    BY <2>1, <2>4
  <2> QED BY <2>2, <2>3, <2>5 DEF Posted
<1>11. UserTypes
  <2>1. /\ state = [u \in Users |-> "SCANNING"] /\ booth = [u \in Users |-> NoBooth]
        /\ scanning = [u \in Users |-> TRUE] /\ seen = [u \in Users |-> {}]
        /\ out = [u \in Users |-> U!ScanAll]
    BY DEF Init, U!Init
  <2>2. U!ScanAll \in Seq(U!Request)
    BY LastMade
  <2>3. out \in [Users -> Seq(U!Request)]
    BY <2>1, <2>2
  <2> QED BY <2>1, <2>3 DEF UserTypes, U!States
<1>12. ASSUME NEW u \in Users
       PROVE  Clear(u)
  <2>1. state[u] = "SCANNING"
    BY DEF Init, U!Init
  <2>2. ASSUME NEW n \in Boards, NEW i \in DOMAIN link[n], Concerns(n, u, link[n][i])
        PROVE  P!Kind(link[n][i]) = "BOOTH_SCAN"
    <3>1. CASE n \in Booths
      <4>1. link[n][i] = first
        BY <1>8, <3>1, <2>2
      <4> QED BY <1>3, <2>2, <3>1, <4>1, BoardsAssumption DEF Concerns, Boards
    <3>2. CASE n \in Users
      <4>1. link[n][i] = ask
        BY <1>9, <3>2, <2>2
      <4> QED BY <1>7, <4>1 DEF P!Kind
    <3> QED BY <3>1, <3>2 DEF Boards
  <2>3. ASSUME NEW n \in Boards, NEW K, "BOOTH_SCAN" \notin K
        PROVE  \A i \in DOMAIN link[n] : ~Hit(n, i, u, K)
    BY <2>2, <2>3 DEF Hit
  <2>4. /\ "BOOTH_SCAN" \notin Fates /\ "BOOTH_SCAN" \notin P!Answers /\ "BOOTH_SCAN" \notin P!Farewells
        /\ "BOOTH_SCAN" \notin {"SUCCESS"} /\ "BOOTH_SCAN" \notin {"REMOVED"}
    BY DEF Fates, P!Answers, P!Farewells, Requests
  <2>5. \A n \in Boards : /\ ~Carries(n, u, P!Answers) /\ ~Carries(n, u, P!Farewells)
                          /\ ~Carries(n, u, {"SUCCESS"}) /\ ~Carries(n, u, {"REMOVED"})
    BY <2>3, <2>4 DEF Carries
  <2>6. AtMostOne(u, Fates)
    BY <2>3, <2>4 DEF AtMostOne
  <2>7. \A i \in DOMAIN link[u] : link[u][i].type = "BOOTH_SCAN"
    BY <1>7, <1>9
  <2>8. \A b \in Booths : ~In(b, u)
    BY <1>1 DEF P!Init, In, P!ToSet
  <2>9. \A b \in Booths : b \in Boards
    BY DEF Boards
  <2> QED BY <2>1, <2>5, <2>6, <2>7, <2>8, <2>9
          DEF Clear, RequestsFit, AnswersFit, FarewellsFit, RemovalsFit, InsideKnown, BoothKept,
              CallsFit, CalledOnce
<1> QED BY <1>2, <1>10, <1>11, <1>12 DEF Standing

(* What the booths say after a step is theirs to say.                      *)
LEMMA BoothsSpeak ==
    ASSUME P!IInv, [Next]_vars
    PROVE  P!IInv' /\ \A b \in Booths : sent'[b] \in Seq(P!Message)
<1>1. P!IInv'
  BY BoothStep, Assumed, P!NextIInv
<1> QED BY <1>1 DEF P!IInv, P!TypeOK

(* The messages of boards after a step in which a board n speaks.          *)
LEMMA SpokenPosted ==
    ASSUME Posted, NEW from, NEW n \in Boards, NEW msgs, Mail(from, Gets(n, msgs), Last(msgs)),
           n \in Booths => msgs \in Seq(P!Message), n \in Users => msgs \in Seq(U!Request)
    PROVE  Posted'
<1> DEFINE m == Last(msgs)
<1>1. \A S : msgs \in Seq(S) /\ msgs # <<>> => m \in S
  BY P!LastFact DEF Last, P!Last
<1> HIDE DEF m
<1>2. \A k \in Gets(n, msgs) : (k \in Users => m \in U!Request) /\ (k \in Booths => m \in P!Message)
  BY <1>1 DEF Gets
<1> QED BY <1>2, MailPosted DEF m

(* What comes under way with a booth's own step, and with its answer.      *)
LEMMA BoothMail ==
    ASSUME ~Late, Standing, NEW b \in Booths
    PROVE  /\ BoothActs(b) => /\ sent'[b] \in Seq(P!Message)
                             /\ Mail({}, Gets(b, sent'[b]), Last(sent'[b]))
           /\ \A w \in Users : DeliverToBooth(w, b) =>
                /\ sent'[b] \in Seq(P!Message)
                /\ Mail({w}, Gets(b, sent'[b]), Last(sent'[b]))
<1>1. ASSUME [Next]_vars
      PROVE  sent'[b] \in Seq(P!Message) /\ sent'[b] \in Seq(Letters)
  <2>1. sent'[b] \in Seq(P!Message)
    BY <1>1, BoothsSpeak DEF Standing
  <2> QED BY <2>1, SeqMonotonic DEF Letters
<1>2. ASSUME BoothActs(b)
      PROVE  Mail({}, Gets(b, sent'[b]), Last(sent'[b]))
  <2>1. sent'[b] \in Seq(P!Message) /\ sent'[b] \in Seq(Letters) /\ b \in Boards
    BY <1>1, <1>2 DEF Next, Boards
  <2> DEFINE p == B!AutoAnnounce(b) /\ JustChecked(b)
  <2>2. Hand(b, sent'[b], p)
    BY <1>2 DEF BoothActs
  <2>3. p => Passed(b)
    BY PassedFact
  <2> HIDE DEF p
  <2> QED BY <2>1, <2>2, <2>3, HandIsMail DEF Standing
<1>3. ASSUME NEW w \in Users, DeliverToBooth(w, b)
      PROVE  Mail({w}, Gets(b, sent'[b]), Last(sent'[b]))
  <2>1. /\ sent'[b] \in Seq(P!Message) /\ sent'[b] \in Seq(Letters)
        /\ b \in Boards /\ w \in Boards /\ b # w
    BY <1>1, <1>3, BoardsAssumption DEF Next, Boards
  <2> DEFINE p == JustChecked(b) \/ JustAnnounced(b)
  <2>2. TakeAndHand(w, b, sent'[b], p) /\ link[w] # <<>>
    BY <1>3 DEF DeliverToBooth
  <2>3. p => Passed(b)
    BY PassedFact
  <2> HIDE DEF p
  <2> QED BY <2>1, <2>2, <2>3, TakeIsMail DEF Standing
<1> QED BY <1>1, <1>2, <1>3 DEF Next

(* What comes under way when a user acts, or hears something.              *)
LEMMA UserMail ==
    ASSUME ~Late, Standing, NEW w \in Users
    PROVE  /\ UserActs(w) => /\ Alone(w) /\ Turns(w)
                             /\ out'[w] \in Seq(U!Request)
                             /\ Mail({}, Gets(w, out'[w]), Last(out'[w]))
           /\ \A b \in Booths :
                /\ DeliverToUser(b, w) =>
                     /\ Alone(w) /\ Moves(w, P!Kind(Head(link[b])))
                     /\ out'[w] \in Seq(U!Request)
                     /\ Mail({b}, Gets(w, out'[w]), Last(out'[w]))
                /\ BroadcastReaches(b, w) =>
                     Alone(w) /\ Same(w) /\ out'[w] = <<>> /\ Mail({}, {}, Last(out'[w]))
<1>0. w \in Boards /\ w \notin Booths /\ \A b \in Booths : b \in Boards /\ b # w
  BY BoardsAssumption DEF Boards
<1>1. ASSUME Alone(w)
      PROVE  out'[w] \in Seq(U!Request) /\ out'[w] \in Seq(Letters)
  <2>1. out'[w] \in Seq(U!Request)
    BY <1>1 DEF Alone, UserTypes, U!Request
  <2> QED BY <2>1, SeqMonotonic DEF Letters
<1>2. ASSUME UserActs(w)
      PROVE  /\ Alone(w) /\ Turns(w) /\ out'[w] \in Seq(U!Request)
             /\ Mail({}, Gets(w, out'[w]), Last(out'[w]))
  <2>1. Alone(w) /\ Turns(w)
    <3>1. UserTypes /\ BoothKept(w)
      BY DEF Standing, Clear
    <3> QED BY <1>2, <3>1, OwnTurns DEF UserActs
  <2>2. Mail({}, Gets(w, out'[w]), Last(out'[w]))
    BY <1>0, <1>1, <1>2, <2>1, HandIsMail DEF UserActs, Standing
  <2> QED BY <1>1, <2>1, <2>2
<1>3. ASSUME NEW b \in Booths, DeliverToUser(b, w) \/ BroadcastReaches(b, w)
      PROVE  /\ link[b] # <<>> /\ Head(link[b]) \in P!Message
             /\ Alone(w) /\ Moves(w, P!Kind(Head(link[b])))
  <2>1. link[b] # <<>> /\ UserHandles(w, b, Head(link[b]))
    BY <1>3 DEF DeliverToUser, BroadcastReaches
  <2>2. Head(link[b]) \in P!Message
    BY <2>1, HeadFact DEF Standing, Posted
  <2> QED BY <2>1, <2>2, MessageMoves DEF Standing
<1>4. ASSUME NEW b \in Booths, DeliverToUser(b, w)
      PROVE  Mail({b}, Gets(w, out'[w]), Last(out'[w]))
  BY <1>0, <1>1, <1>3, <1>4, TakeIsMail DEF DeliverToUser, Standing
<1>5. ASSUME NEW b \in Booths, BroadcastReaches(b, w)
      PROVE  Same(w) /\ out'[w] = <<>> /\ Mail({}, {}, Last(out'[w]))
  <2>1. P!Kind(Head(link[b])) \in {"BOOTH_ANNOUNCE", "BOOTH_INFO"}
    BY <1>3, <1>5, BoardsAssumption DEF BroadcastReaches, P!Message, P!Kind, Boards
  <2>2. Same(w) /\ out'[w] = <<>>
    BY <1>3, <1>5, <2>1 DEF Moves, P!Farewells
  <2>3. Mail({}, Gets(w, out'[w]), Last(out'[w]))
    BY <1>0, <1>1, <1>3, <1>5, HandIsMail DEF BroadcastReaches, Standing
  <2>4. Gets(w, out'[w]) = {}
    BY <2>2 DEF Gets
  <2> QED BY <2>2, <2>3, <2>4
<1> QED BY <1>1, <1>2, <1>3, <1>4, <1>5

(* The users' part of a step.                                              *)
LEMMA UsersStep ==
    ASSUME ~Late, Standing, [Next]_vars
    PROVE  /\ UserTypes'
           /\ \A u \in Users :
                \/ Same(u)
                \/ ListsKept /\ Turns(u)
                \/ /\ ListsKept
                   /\ \E b \in Booths : /\ link[b] # <<>> /\ Head(link[b]).dest = u
                                        /\ Moves(u, P!Kind(Head(link[b])))
<1> DEFINE Stepped(u) ==
             \/ Same(u)
             \/ ListsKept /\ Turns(u)
             \/ /\ ListsKept
                /\ \E b \in Booths : /\ link[b] # <<>> /\ Head(link[b]).dest = u
                                     /\ Moves(u, P!Kind(Head(link[b])))
<1>0. UserTypes
  BY DEF Standing
<1>1. UNCHANGED userVars => UserTypes' /\ \A u \in Users : Same(u)
  BY <1>0 DEF userVars, UserTypes, Same, U!States, U!Request
<1>2. UNCHANGED boothVars => ListsKept
  BY DEF boothVars, ListsKept
<1>3. ASSUME NEW w \in Users, UserActs(w)
      PROVE  UserTypes' /\ \A u \in Users : Stepped(u)
  <2>1. Alone(w) /\ Turns(w)
    BY <1>3, UserMail
  <2> QED BY <1>2, <1>3, <2>1 DEF Alone, UserActs
<1>4. ASSUME NEW w \in Users, NEW b \in Booths, DeliverToUser(b, w)
      PROVE  UserTypes' /\ \A u \in Users : Stepped(u)
  <2>1. link[b] # <<>> /\ Head(link[b]).dest = w /\ UNCHANGED boothVars
    BY <1>4 DEF DeliverToUser
  <2>2. Alone(w) /\ Moves(w, P!Kind(Head(link[b])))
    BY <1>4, UserMail
  <2> QED BY <1>2, <2>1, <2>2 DEF Alone
<1>5. ASSUME NEW w \in Users, NEW b \in Booths, BroadcastReaches(b, w)
      PROVE  UserTypes' /\ \A u \in Users : Stepped(u)
  <2>1. Alone(w) /\ Same(w)
    BY <1>5, UserMail
  <2> QED BY <2>1 DEF Alone
<1>6. ASSUME NEW b \in Booths, BoothActs(b) \/ \E w \in Users : DeliverToBooth(w, b)
      PROVE  UserTypes' /\ \A u \in Users : Stepped(u)
  BY <1>1, <1>6 DEF BoothActs, DeliverToBooth
<1>7. ASSUME NEW n \in Boards, Drop(n)
      PROVE  UserTypes' /\ \A u \in Users : Stepped(u)
  BY <1>1, <1>7 DEF Drop
<1>8. CASE UNCHANGED vars
  BY <1>1, <1>8 DEF vars
<1> QED BY <1>3, <1>4, <1>5, <1>6, <1>7, <1>8 DEF Next

(* A booth's own step.                                                     *)
LEMMA ActsClear ==
    ASSUME ~Late, Standing, QueuedAtOne, NEW b \in Booths, BoothActs(b)
    PROVE  Posted' /\ \A u \in Users : Clear(u)'
<1>2. sent'[b] \in Seq(P!Message) /\ b \in Boards
  BY BoothMail DEF Boards
<1>3. Mail({}, Gets(b, sent'[b]), Last(sent'[b]))
  BY BoothMail
<1>4. Posted'
  BY <1>2, <1>3, BoardsAssumption, SpokenPosted DEF Standing, Boards
<1>5. ASSUME NEW u \in Users
      PROVE  P!Treats(b, u, "none", Answered(u))
  <2>1. PICK idle \in BOOLEAN : idle <=> Answered(u)
    <3>1. \E idle \in BOOLEAN : idle <=> Answered(u)
      BY DEF Answered
    <3> QED BY <3>1
  <2>2. P!Treats(b, u, "none", idle)
    <3>1. CASE P!AutoAnnounce(b) \/ P!AnnounceKey(b) \/ P!QuietKey(b) \/ P!AdminMessage(b)
      BY <3>1, Assumed, P!SpeechTreats DEF Standing
    <3>2. ASSUME NEW w \in Users, InTime(w), P!SessionTimeout(b, w)
          PROVE  P!Treats(b, u, "none", idle)
      <4>1. w = u => idle
        BY <2>1, <3>2 DEF InTime
      <4> QED BY <3>2, <4>1, Assumed, P!EndTreats DEF Standing
    <3>3. ASSUME NEW w \in Users, P!BothTimeouts(b, w), InTime(w), InTime(pending[b])
          PROVE  P!Treats(b, u, "none", idle)
      <4>1. (w = u => idle) /\ (pending[b] = u => idle)
        BY <2>1, <3>3 DEF InTime
      <4> QED BY <3>3, <4>1, Assumed, P!ExpiryTreats DEF Standing
    <3>4. ASSUME P!QueueReadyTimeout(b), InTime(pending[b])
          PROVE  P!Treats(b, u, "none", idle)
      <4>1. pending[b] = u => idle
        BY <2>1, <3>4 DEF InTime
      <4> QED BY <3>4, <4>1, Assumed, P!ExpiryTreats DEF Standing
    <3> QED BY <3>1, <3>2, <3>3, <3>4, SameTimers DEF BoothActs, BoothTimers, BoothTalks
  <2> QED BY <2>1, <2>2 DEF P!Treats
<1>6. \A c \in Booths \ {b} : /\ registered'[c] = registered[c] /\ active'[c] = active[c]
                              /\ waiting'[c] = waiting[c] /\ pending'[c] = pending[c]
  BY BoothOwnStep, Assumed, P!OthersKept DEF BoothActs, Standing
<1>7. ASSUME NEW u \in Users
      PROVE  Clear(u)'
  <2>1. Same(u)
    BY DEF BoothActs, userVars, Same
  <2>2. \A c, d \in Booths : P!Bound(c, u) /\ P!Bound(d, u) => c = d
    BY SameBound DEF QueuedAtOne
  <2>3. "none" = IF u \in {} THEN Head(link[u]).type ELSE "none"
    OBVIOUS
  <2>4. {} \subseteq Users /\ \A n \in {} : Head(link[n]).dest = b
    OBVIOUS
  <2> QED BY <1>2, <1>3, <1>5, <1>6, <2>1, <2>2, <2>3, <2>4, BoothSideClear, SMTT(30) DEF Standing
<1> QED BY <1>4, <1>7

(* How a booth treats u when it handles a request of w.                    *)
LEMMA AnswersTreat ==
    ASSUME Standing, NEW b \in Booths, NEW w \in Users, DeliverToBooth(w, b),
           NEW u \in Users, NEW r, r = IF u \in {w} THEN Head(link[w]).type ELSE "none"
    PROVE  P!Treats(b, u, r, Answered(u))
<1> DEFINE h == Head(link[w])
<1>0. BoothHandles(b, w, h) /\ r = IF u \in {w} THEN h.type ELSE "none"
  BY DEF DeliverToBooth
<1> HIDE DEF h
<1>1. PICK idle \in BOOLEAN : idle <=> Answered(u)
  <2>1. \E idle \in BOOLEAN : idle <=> Answered(u)
    BY DEF Answered
  <2> QED BY <2>1
<1>2. P!Treats(b, u, r, idle)
  <2>1. CASE P!BoothScan(b, w) \/ P!ConnectRequest(b, w) \/ P!OnlyLogged(b, w) \/ P!ChatMessage(b, w)
    BY <2>1, Assumed, P!SpeechTreats DEF Standing
  <2>2. CASE h.type = "USER_RESPONSE_NO" /\ P!UserResponseNo(b, w)
    <3>1. P!UserResponseNo(b, w) /\ w = u => r = "USER_RESPONSE_NO"
      BY <1>0, <2>2
    <3> QED BY <2>2, <3>1, Assumed, P!DepartureTreats DEF Standing
  <2>3. CASE h.type = "QUEUE_LEAVE" /\ P!QueueLeave(b, w)
    <3>1. pending \in [Booths -> Users \cup {NoUser}]
      BY DEF Standing, P!IInv, P!TypeOK
    <3>2. ~P!UserResponseNo(b, w)
      BY <2>3, <3>1, Assumed DEF P!UserResponseNo, P!QueueLeave, P!NoUserAssumption
    <3> QED BY <2>3, <3>2, Assumed, P!DepartureTreats DEF Standing
  <2>4. CASE h.type = "EXIT_REQUEST" /\ P!ExitRequest(b, w)
    <3>1. w = u => r = "EXIT_REQUEST" \/ idle
      BY <1>0, <2>4
    <3> QED BY <2>4, <3>1, Assumed, P!EndTreats DEF Standing
  <2>5. CASE /\ h.type = "REGISTER_REQUEST"
             /\ \/ P!RegisterRejected(b, w) \/ P!RegisterQueued(b, w)
                \/ P!RegisterStillQueued(b, w) \/ P!RegisterAdmitted(b, w)
    <3>1. w = u => r = "REGISTER_REQUEST"
      BY <1>0, <2>5
    <3> QED BY <2>5, <3>1, Assumed, P!RegisterTreats DEF Standing
  <2> QED BY <1>0, <2>1, <2>2, <2>3, <2>4, <2>5, SameRequests DEF BoothHandles
<1> QED BY <1>1, <1>2 DEF P!Treats

(* A booth's answer to a user's request.                                   *)
LEMMA AnswersClear ==
    ASSUME ~Late, Standing, QueuedAtOne, NEW b \in Booths, NEW w \in Users, DeliverToBooth(w, b)
    PROVE  Posted' /\ \A u \in Users : Clear(u)'
<1> DEFINE h == Head(link[w])
<1>0. link[w] # <<>> /\ h.dest = b /\ BoothHandles(b, w, h)
  BY DEF DeliverToBooth
<1>2. sent'[b] \in Seq(P!Message) /\ b \in Boards /\ w \in Boards /\ b # w
  BY BoothMail, BoardsAssumption DEF Boards
<1>3. Mail({w}, Gets(b, sent'[b]), Last(sent'[b]))
  BY BoothMail
<1>4. Posted'
  BY <1>2, <1>3, BoardsAssumption, SpokenPosted DEF Standing, Boards
<1> HIDE DEF h
<1>5. ASSUME NEW u \in Users, NEW r, r = IF u \in {w} THEN h.type ELSE "none"
      PROVE  P!Treats(b, u, r, Answered(u))
  BY <1>5, AnswersTreat DEF h
<1>6. \A c \in Booths \ {b} : /\ registered'[c] = registered[c] /\ active'[c] = active[c]
                              /\ waiting'[c] = waiting[c] /\ pending'[c] = pending[c]
  <2>1. P!Receive(b, w)
    BY <1>0, BoothHandler
  <2> QED BY <2>1, Assumed, P!OthersKept DEF Standing
<1>7. ASSUME NEW u \in Users
      PROVE  Clear(u)'
  <2>1. Same(u)
    BY DEF DeliverToBooth, userVars, Same
  <2>2. \A c, d \in Booths : P!Bound(c, u) /\ P!Bound(d, u) => c = d
    BY SameBound DEF QueuedAtOne
  <2>3. PICK r : r = IF u \in {w} THEN Head(link[u]).type ELSE "none"
    OBVIOUS
  <2>4. P!Treats(b, u, r, Answered(u))
    <3>1. r = IF u \in {w} THEN h.type ELSE "none"
      BY <2>3 DEF h
    <3> QED BY <1>5, <3>1
  <2>5. {w} \in SUBSET Users /\ \A n \in {w} : Head(link[n]).dest = b
    BY <1>0 DEF h
  <2> QED BY <1>2, <1>3, <1>6, <2>1, <2>2, <2>3, <2>4, <2>5, BoothSideClear DEF Standing
<1> QED BY <1>4, <1>7

(* What a user does of its own accord.                                     *)
LEMMA TurnsClear ==
    ASSUME ~Late, Standing, NEW w \in Users, UserActs(w)
    PROVE  Posted' /\ \A u \in Users : Clear(u)'
<1>1. Alone(w) /\ Turns(w)
  BY UserMail
<1>2. out'[w] \in Seq(U!Request) /\ w \in Boards /\ w \notin Booths /\ Answered(w)
  BY UserMail, BoardsAssumption DEF Boards, UserActs, InTime
<1>3. Mail({}, Gets(w, out'[w]), Last(out'[w]))
  BY UserMail
<1>4. Posted'
  BY <1>2, <1>3, SpokenPosted DEF Standing
<1>5. ListsKept
  BY DEF UserActs, boothVars, ListsKept
<1>6. Clear(w)'
  BY <1>1, <1>2, <1>3, <1>5, OwnClear DEF Standing
<1>7. ASSUME NEW u \in Users, u # w
      PROVE  Clear(u)'
  <2>1. Same(u)
    BY <1>1, <1>7 DEF Alone
  <2>2. \A j \in Gets(w, out'[w]) :
          ~Given(j, Gets(w, out'[w]), Last(out'[w]), u, Fates \cup Calls \cup {"USER_RESPONSE_NO"})
    BY <1>2, <1>7 DEF Gets, Given, Concerns
  <2>3. \A j \in {} : ~Taken(j, {}, u, {"SUCCESS"})
    OBVIOUS
  <2> QED BY <1>3, <1>5, <2>1, <2>2, <2>3, BystanderClear DEF Standing
<1> QED BY <1>4, <1>6, <1>7

(* A message to one user.                                                  *)
LEMMA DeliveryClear ==
    ASSUME ~Late, Standing, NEW b \in Booths, NEW w \in Users, DeliverToUser(b, w)
    PROVE  Posted' /\ \A u \in Users : Clear(u)'
<1>0. link[b] # <<>> /\ Head(link[b]).dest = w
  BY DEF DeliverToUser
<1>1. Alone(w) /\ Moves(w, P!Kind(Head(link[b])))
  BY UserMail
<1>2. out'[w] \in Seq(U!Request) /\ w \in Boards /\ w \notin Booths
  BY UserMail, BoardsAssumption DEF Boards
<1>3. Mail({b}, Gets(w, out'[w]), Last(out'[w]))
  BY UserMail
<1>4. Posted'
  BY <1>2, <1>3, SpokenPosted DEF Standing
<1>5. ListsKept
  BY DEF DeliverToUser, boothVars, ListsKept
<1>6. Clear(w)'
  <2>1. \A c \in Booths : In(c, w) => w \in Registered(c)
    BY InsideIsRegistered DEF Standing
  <2> QED BY <1>0, <1>1, <1>2, <1>3, <1>5, <2>1, MessageClear DEF Standing
<1>7. ASSUME NEW u \in Users, u # w
      PROVE  Clear(u)'
  <2>1. Same(u)
    BY <1>1, <1>7 DEF Alone
  <2>2. \A j \in Gets(w, out'[w]) :
          ~Given(j, Gets(w, out'[w]), Last(out'[w]), u, Fates \cup Calls \cup {"USER_RESPONSE_NO"})
    BY <1>2, <1>7 DEF Gets, Given, Concerns
  <2>3. \A j \in {b} : ~Taken(j, {b}, u, {"SUCCESS"})
    BY <1>0, <1>7, BoardsAssumption DEF Taken, Concerns
  <2> QED BY <1>3, <1>5, <2>1, <2>2, <2>3, BystanderClear DEF Standing
<1> QED BY <1>4, <1>6, <1>7

(* A broadcast, and its end.                                               *)
LEMMA BroadcastClear ==
    ASSUME ~Late, Standing, NEW b \in Booths, NEW w \in Users, BroadcastReaches(b, w)
    PROVE  Posted' /\ \A u \in Users : Clear(u)'
<1>1. Alone(w) /\ Same(w) /\ Mail({}, {}, Last(out'[w]))
  BY UserMail
<1>4. Posted'
  BY <1>1, MailPosted DEF Standing
<1>5. ListsKept
  BY DEF BroadcastReaches, boothVars, ListsKept
<1>6. ASSUME NEW u \in Users
      PROVE  Clear(u)'
  <2>1. Same(u)
    BY <1>1 DEF Alone
  <2>2. /\ \A j \in {} : ~Given(j, {}, Last(out'[w]), u, Fates \cup Calls \cup {"USER_RESPONSE_NO"})
        /\ \A j \in {} : ~Taken(j, {}, u, {"SUCCESS"})
    OBVIOUS
  <2> QED BY <1>1, <1>5, <2>1, <2>2, BystanderClear DEF Standing
<1> QED BY <1>4, <1>6

(* A broadcast is over, or a message to nobody.                            *)
LEMMA DropClear ==
    ASSUME ~Lossy, Standing, NEW n \in Boards, Drop(n)
    PROVE  Posted' /\ \A u \in Users : Clear(u)'
<1>1. /\ link[n] # <<>> /\ Head(link[n]).dest \in {NoBooth, Broadcast}
      /\ UNCHANGED <<boothVars, userVars>>
  BY DEF Drop
<1>2. Mail({n}, {}, Head(link[n]))
  BY DropIsMail DEF Standing
<1>3. Posted'
  BY <1>2, MailPosted DEF Standing
<1>4. ListsKept /\ \A u \in Users : Same(u)
  BY <1>1 DEF boothVars, userVars, ListsKept, Same
<1>5. ASSUME NEW u \in Users
      PROVE  \A j \in {n} : ~Taken(j, {n}, u, {"SUCCESS"})
  <2>1. n \in Booths => Head(link[n]).dest # u
    BY <1>1, BoardsAssumption DEF Boards
  <2>2. n = u => P!Kind(Head(link[n])) # "SUCCESS"
    <3>1. n = u => Head(link[n]) \in U!Request
      BY <1>1, HeadFact DEF Standing, Posted
    <3> QED BY <3>1 DEF U!Request, P!Kind
  <2> QED BY <2>1, <2>2 DEF Taken, Concerns
<1>6. ASSUME NEW u \in Users
      PROVE  Clear(u)'
  <2>1. \A j \in {} : ~Given(j, {}, Head(link[n]), u, Fates \cup Calls \cup {"USER_RESPONSE_NO"})
    OBVIOUS
  <2> QED BY <1>2, <1>4, <1>5, <2>1, BystanderClear DEF Standing
<1> QED BY <1>3, <1>6

(* Standing is kept as long as nobody is bound to two booths.              *)
LEMMA NextStanding ==
    ASSUME ~Late, ~Lossy, Standing, QueuedAtOne, [Next]_vars
    PROVE  Standing'
<1>1. P!IInv' /\ UserTypes'
  BY BoothsSpeak, UsersStep DEF Standing
<1>2. Posted' /\ \A u \in Users : Clear(u)'
  <2>1. CASE UNCHANGED vars
    <3>1. Posted'
      BY <2>1 DEF Standing, Posted, vars, Letters, U!Request, P!Message
    <3>2. ASSUME NEW u \in Users
          PROVE  Clear(u)'
      <4>1. Clear(u)
        BY DEF Standing
      <4>2. /\ state' = state /\ booth' = booth /\ scanning' = scanning /\ link' = link
            /\ registered' = registered /\ active' = active
            /\ waiting' = waiting /\ pending' = pending
        BY <2>1 DEF vars, boothVars, userVars
      <4>3. /\ \A n, K : Carries(n, u, K)' <=> Carries(n, u, K)
            /\ \A n, i, K : Hit(n, i, u, K)' <=> Hit(n, i, u, K)
        BY <4>2 DEF Carries, Hit, Concerns, P!Kind
      <4>4. \A b \in Booths : P!Bound(b, u)' <=> P!Bound(b, u)
        BY <4>2 DEF P!Bound, P!InQueue, P!Positions
      <4>5. AtMostOne(u, Fates)' /\ RequestsFit(u)' /\ AnswersFit(u)'
        BY <4>1, <4>2, <4>3, <4>4 DEF Clear, AtMostOne, RequestsFit, AnswersFit, In, Free, Called, NoCall
      <4>6. FarewellsFit(u)' /\ RemovalsFit(u)' /\ InsideKnown(u)' /\ BoothKept(u)'
        BY <4>1, <4>2, <4>3, <4>4 DEF Clear, FarewellsFit, RemovalsFit, InsideKnown, BoothKept,
           In, Free, Called, NoCall, Registered
      <4>7. CallsFit(u)'
        BY <4>1, <4>2, <4>3, <4>4 DEF Clear, CallsFit, AtMostOne, Free
      <4>8. CalledOnce(u)'
        BY <4>1, <4>2, <4>3, <4>4 DEF Clear, CalledOnce, Called, NoCall, Free
      <4> QED BY <4>5, <4>6, <4>7, <4>8 DEF Clear
    <3> QED BY <3>1, <3>2
  <2> QED BY <2>1, ActsClear, AnswersClear, TurnsClear, DeliveryClear, BroadcastClear, DropClear
          DEF Next
<1> QED BY <1>1, <1>2 DEF Standing

-----------------------------------------------------------------------------
(* Who is inside, where *)

(* Nothing is late or lost, and nobody is bound to two booths.             *)
LEMMA StandingHolds ==
    ASSUME ~Late, ~Lossy
    PROVE  Spec /\ []QueuedAtOne => []Standing
<1>1. Init => Standing
  BY InitStanding
<1>2. Standing /\ QueuedAtOne /\ [Next]_vars => Standing'
  BY NextStanding
<1> QED BY <1>1, <1>2, PTL DEF Spec

(* It is never in two queues who has but one booth to go to.               *)
LEMMA OneBooth == (\A b, c \in Booths : b = c) => QueuedAtOne
<1> QED BY DEF QueuedAtOne

(* A message makes a user leave the booth only when it is inside no more.  *)
LEMMA MovesFit ==
    ASSUME Standing, NEW u \in Users, NEW b \in Booths, link[b] # <<>>,
           Head(link[b]).dest = u, Moves(u, P!Kind(Head(link[b])))
    PROVE  /\ state'[u] = state[u] \/ <<state[u], state'[u]>> \in Diagram
           /\ state[u] = "IN_USE" /\ state'[u] # "IN_USE" => \A c \in Booths : ~In(c, u)
<1> DEFINE k == P!Kind(Head(link[b]))
<1>1. \A K : k \in K => Carries(b, u, K)
  <2>1. \A K : k \in K => Taken(b, {b}, u, K)
    BY DEF Taken, Concerns
  <2> QED BY <2>1, TakenIsCarried DEF Standing, Boards
<1>2. Posted /\ Clear(u) /\ state[u] \in U!States
  BY DEF Standing, UserTypes
<1> HIDE DEF k
<1>3. k \in P!Answers => state[u] \in {"CONNECTED", "WAITING"}
  BY <1>1, <1>2 DEF Clear, AnswersFit
<1>4. k \in P!Farewells => state[u] = "IN_USE" /\ \A c \in Booths : ~In(c, u)
  BY <1>1, <1>2 DEF Clear, FarewellsFit
<1>5. Moves(u, k)
  BY DEF k
<1> QED BY <1>3, <1>4, <1>5 DEF Moves, Same, Diagram, P!Answers

(* What every step does with the state of every user.                      *)
LEMMA StepsFit ==
    ASSUME ~Late, Standing, [Next]_vars, NEW u \in Users
    PROVE  /\ state'[u] = state[u] \/ <<state[u], state'[u]>> \in Diagram
           /\ state[u] = "IN_USE" /\ state'[u] # "IN_USE" => \A c \in Booths : ~In(c, u)
<1>1. CASE Same(u)
  BY <1>1 DEF Same
<1>2. CASE Turns(u)
  <2>1. state[u] \in U!States
    BY DEF Standing, UserTypes
  <2> QED BY <1>2, <2>1 DEF Turns, Diagram, U!States
<1> QED BY <1>1, <1>2, UsersStep, MovesFit

(* With nothing late or lost, a user who takes itself for inside has       *)
(* currentBoothId at a booth that admitted it, where its EXIT_REQUEST      *)
(* goes: for any number of users and booths, until somebody is in the      *)
(* queues of two booths.                                                   *)
THEOREM InsideKnowsWhere ==
    ASSUME ~Late, ~Lossy
    PROVE  Spec /\ []QueuedAtOne => []KnowsItsBooth
<1>1. Standing => KnowsItsBooth
  <2> SUFFICES ASSUME Standing, NEW u \in Users, state[u] = "IN_USE"
               PROVE  \E b \in Booths : b = booth[u] /\ u \in ToSet(registered[b])
    BY DEF KnowsItsBooth
  <2> QED BY SameLists DEF Standing, Clear, BoothKept, Registered
<1> QED BY <1>1, StandingHolds, PTL

(* Then nobody takes a place in two booths.                                *)
THEOREM InsideOneBooth ==
    ASSUME ~Late, ~Lossy
    PROVE  Spec /\ []QueuedAtOne => []InsideOnce
<1>1. Standing => InsideOnce
  <2> SUFFICES ASSUME Standing, NEW u \in Users, NEW b \in Booths, NEW c \in Booths,
                      Inside(b, u), Inside(c, u)
               PROVE  b = c
    BY DEF InsideOnce
  <2>1. In(b, u) /\ In(c, u)
    BY SameLists DEF Inside, In
  <2> QED BY <2>1 DEF Standing, Clear, InsideKnown
<1> QED BY <1>1, StandingHolds, PTL

(* Nobody is thrown out of the booth that counts it as inside.             *)
THEOREM InsideIsLeftAtTheEnd ==
    ASSUME ~Late, ~Lossy
    PROVE  Spec /\ []QueuedAtOne => StaysInside
<1>1. Standing /\ [Next]_vars =>
        [\A b \in Booths, u \in Users :
           state[u] = "IN_USE" /\ Inside(b, u) /\ Inside(b, u)' => state'[u] = "IN_USE"]_vars
  <2> SUFFICES ASSUME Standing, [Next]_vars, NEW b \in Booths, NEW u \in Users,
                      state[u] = "IN_USE", Inside(b, u), state'[u] # "IN_USE"
               PROVE  FALSE
    OBVIOUS
  <2>1. In(b, u)
    BY SameLists DEF Inside, In
  <2> QED BY <2>1, StepsFit
<1> QED BY <1>1, StandingHolds, PTL DEF Spec, StaysInside

(* The states of the users follow the diagram of README.md.                *)
THEOREM DiagramFollowed ==
    ASSUME ~Late, ~Lossy
    PROVE  Spec /\ []QueuedAtOne => FollowsDiagram
<1>1. Standing /\ [Next]_vars =>
        [\A u \in Users : state'[u] = state[u] \/ <<state[u], state'[u]>> \in Diagram]_vars
  BY StepsFit
<1> QED BY <1>1, StandingHolds, PTL DEF Spec, FollowsDiagram

(* With a single booth that cannot happen.                                 *)
THEOREM OneBoothIsOrderly ==
    ASSUME ~Late, ~Lossy, \A b, c \in Booths : b = c
    PROVE  Spec => []KnowsItsBooth /\ StaysInside /\ FollowsDiagram
<1>1. QueuedAtOne
  BY OneBooth
<1> QED BY <1>1, InsideKnowsWhere, InsideIsLeftAtTheEnd, DiagramFollowed, PTL

-----------------------------------------------------------------------------
(* A user on its own *)

(* Nobody waits when there is only one user, *)
NobodyWaits == \A b \in Booths : waiting[b] = <<>> /\ pending[b] = NoUser

(* and so the end of a session is always told.                             *)
EndTold(u) ==
    \A b \in Booths :
        state[u] = "IN_USE" /\ booth[u] = b => In(b, u) \/ Carries(b, u, P!Farewells)

(* A session that the clock ends finds its user silent.                    *)
AlertAlone(u) == \A b \in Booths : Carries(b, u, {"TIMEOUT_ALERT"}) => link[u] = <<>>

OnItsOwn == Standing /\ NobodyWaits /\ \A u \in Users : EndTold(u) /\ AlertAlone(u)

(* Without a queue no booth calls anybody.                                 *)
LEMMA NobodyCalled ==
    /\ \A u : P!RemoveWaiting(<<>>, u) = <<>>
    /\ P!AdmitNext(<<>>, NoUser) = [queue |-> <<>>, pending |-> NoUser, msgs |-> <<>>]
    /\ \A u : ~P!InQueue(<<>>, u)
<1>1. \A u : ~P!InQueue(<<>>, u)
  BY DEF P!InQueue, P!Positions
<1> QED BY <1>1 DEF P!RemoveWaiting, P!AdmitNext

(* The end of the only user's session is all that its handler tells.       *)
LEMMA EndAlone ==
    ASSUME Sole, NobodyWaits, NEW b \in Booths, NEW u \in Users, NEW w \in Users,
           waiting \in [Booths -> Seq(P!QueueEntry)],
           pending \in [Booths -> Users \cup {NoUser}], sent \in [Booths -> Seq(P!Message)],
           NEW t \in P!Farewells,
           P!SetQueue(b, P!AdmitNext(waiting[b], pending[b])),
           P!Send(b, <<P!Notice(t, w)>> \o P!AdmitNext(waiting[b], pending[b]).msgs)
    PROVE  NobodyWaits' /\ P!Tells(b, u, t)
<1>1. waiting[b] = <<>> /\ pending[b] = NoUser
  BY DEF NobodyWaits
<1>2. /\ waiting' = [waiting EXCEPT ![b] = <<>>] /\ pending' = [pending EXCEPT ![b] = NoUser]
      /\ P!Send(b, <<P!Notice(t, w)>> \o <<>>)
  <2>1. PICK next : next = [queue |-> <<>>, pending |-> NoUser, msgs |-> <<>>]
    OBVIOUS
  <2>2. P!AdmitNext(waiting[b], pending[b]) = next
    BY <1>1, <2>1, NobodyCalled
  <2>3. P!SetQueue(b, next) /\ P!Send(b, <<P!Notice(t, w)>> \o next.msgs)
    BY <2>2
  <2>4. next.queue = <<>> /\ next.pending = NoUser /\ next.msgs = <<>>
    BY <2>1
  <2> QED BY <2>3, <2>4 DEF P!SetQueue
<1>3. NobodyWaits'
  BY <1>2 DEF NobodyWaits
<1> DEFINE n == P!Notice(t, w)
<1>4. n.dest = u /\ P!Kind(n) = t
  BY DEF P!Notice, P!Kind, P!Farewells, Sole
<1> HIDE DEF n
<1>5. <<n>> \o <<>> = <<n>> /\ <<n>> # <<>> /\ P!Last(<<n>>) = n
  BY DEF P!Last
<1>6. sent'[b] = <<n>>
  BY <1>2, <1>5 DEF P!Send, n
<1> QED BY <1>3, <1>4, <1>5, <1>6 DEF P!Tells

(* A booth's step with the only user.                                      *)
LEMMA AloneAtBooth ==
    ASSUME Sole, P!IInv, NobodyWaits, NEW b \in Booths, NEW u \in Users,
           \/ \E w \in Users : P!Receive(b, w) \/ P!SessionTimeout(b, w) \/ P!BothTimeouts(b, w)
           \/ P!QueueReadyTimeout(b) \/ P!AutoAnnounce(b) \/ P!AnnounceKey(b) \/ P!QuietKey(b)
           \/ P!AdminMessage(b)
    PROVE  /\ NobodyWaits'
           /\ In(b, u) /\ ~In(b, u)' => \E t \in P!Farewells : P!Tells(b, u, t)
<1> DEFINE Told == In(b, u) /\ ~In(b, u)' => \E t \in P!Farewells : P!Tells(b, u, t)
<1>0. /\ waiting[b] = <<>> /\ pending[b] = NoUser /\ NoUser \notin Users
      /\ active \in [Booths -> Seq(Users)] /\ waiting \in [Booths -> Seq(P!QueueEntry)]
      /\ pending \in [Booths -> Users \cup {NoUser}]
      /\ sent \in [Booths -> Seq(P!Message)]
      /\ MAX_BOOTH_CAPACITY \in Nat \ {0}
  BY Assumed DEF NobodyWaits, P!NoUserAssumption, P!CapacityAssumption, P!IInv, P!TypeOK
<1>1. CASE UNCHANGED <<active, waiting, pending>>
  BY <1>1 DEF NobodyWaits, In, P!ToSet
<1>2. ASSUME NEW w \in Users, P!ExitRequest(b, w) \/ P!SessionTimeout(b, w)
      PROVE  NobodyWaits' /\ Told
  <2>1. PICK t \in P!Farewells :
          /\ P!SetQueue(b, P!AdmitNext(waiting[b], pending[b]))
          /\ P!Send(b, <<P!Notice(t, w)>> \o P!AdmitNext(waiting[b], pending[b]).msgs)
    BY <1>2 DEF P!ExitRequest, P!SessionTimeout, P!Farewells
  <2>2. NobodyWaits' /\ P!Tells(b, u, t)
    BY <1>0, <2>1, EndAlone
  <2> QED BY <2>2
<1>3. ASSUME NEW w \in Users, P!QueueLeave(b, w)
      PROVE  NobodyWaits' /\ Told
  <2>1. waiting' = [waiting EXCEPT ![b] = <<>>] /\ pending' = pending /\ active' = active
    BY <1>0, <1>3, NobodyCalled DEF P!QueueLeave
  <2> QED BY <1>0, <2>1 DEF NobodyWaits, In, P!ToSet
<1>4. ASSUME NEW w \in Users, P!RegisterQueued(b, w)
      PROVE  FALSE
  <2>1. w \notin P!ToSet(registered[b]) /\ Len(active[b]) >= MAX_BOOTH_CAPACITY
    BY <1>4 DEF P!RegisterQueued, P!Full
  <2>2. Len(active[b]) \in Nat /\ DOMAIN active[b] = 1 .. Len(active[b]) /\ active[b] \in Seq(Users)
    BY <1>0, LenProperties
  <2>3. 1 \in DOMAIN active[b] /\ active[b][1] \in Users
    BY <1>0, <2>1, <2>2, ElementOfSeq
  <2>4. w \in P!ToSet(active[b])
    BY <2>3 DEF Sole, P!ToSet
  <2> QED BY <2>1, <2>4 DEF P!IInv, P!VisitOnce
<1>5. ASSUME NEW w \in Users, P!RegisterAdmitted(b, w)
      PROVE  NobodyWaits' /\ Told
  <2>1. UNCHANGED <<waiting, pending>> /\ active' = [active EXCEPT ![b] = P!AddActive(@, w)]
    BY <1>0, <1>5 DEF P!RegisterAdmitted
  <2>2. In(b, u) => In(b, u)'
    <3>1. u = w
      BY DEF Sole
    <3>2. In(b, u) => P!AddActive(active[b], w) = active[b]
      BY <3>1 DEF In, P!AddActive
    <3> QED BY <1>0, <2>1, <3>2 DEF In, P!ToSet
  <2> QED BY <2>1, <2>2 DEF NobodyWaits
<1>6. \A w \in Users : ~P!BothTimeouts(b, w) /\ ~P!UserResponseNo(b, w) /\ ~P!RegisterStillQueued(b, w)
  BY <1>0, NobodyCalled DEF P!BothTimeouts, P!UserResponseNo, P!RegisterStillQueued
<1>7. ~P!QueueReadyTimeout(b)
  BY <1>0 DEF P!QueueReadyTimeout
<1>8. ASSUME \/ P!AutoAnnounce(b) \/ P!AnnounceKey(b) \/ P!QuietKey(b) \/ P!AdminMessage(b)
             \/ \E w \in Users : \/ P!BoothScan(b, w) \/ P!ConnectRequest(b, w)
                                 \/ P!OnlyLogged(b, w) \/ P!ChatMessage(b, w)
                                 \/ P!RegisterRejected(b, w)
      PROVE  UNCHANGED <<active, waiting, pending>>
  BY <1>8 DEF P!AutoAnnounce, P!AnnounceKey, P!QuietKey, P!AdminMessage, P!BoothScan,
              P!ConnectRequest, P!OnlyLogged, P!ChatMessage, P!RegisterRejected
<1> QED BY <1>1, <1>2, <1>3, <1>4, <1>5, <1>6, <1>7, <1>8 DEF P!Receive

(* A handler that ends its session answers its request to leave.           *)
LEMMA AloneAnswered ==
    ASSUME Sole, P!IInv, NobodyWaits, NEW b \in Booths, NEW u \in Users,
           NEW w \in Users, P!Receive(b, w), In(b, u), ~In(b, u)'
    PROVE  P!Tells(b, u, "EXIT_RESPONSE")
<1>1. /\ active \in [Booths -> Seq(Users)] /\ waiting \in [Booths -> Seq(P!QueueEntry)]
      /\ pending \in [Booths -> Users \cup {NoUser}] /\ sent \in [Booths -> Seq(P!Message)]
  BY DEF P!IInv, P!TypeOK
<1>2. u = w
  BY DEF Sole
<1>3. CASE P!ExitRequest(b, w)
  <2>1. /\ P!SetQueue(b, P!AdmitNext(waiting[b], pending[b]))
        /\ P!Send(b, <<P!Notice("EXIT_RESPONSE", w)>> \o P!AdmitNext(waiting[b], pending[b]).msgs)
    BY <1>3 DEF P!ExitRequest
  <2>2. "EXIT_RESPONSE" \in P!Farewells
    BY DEF P!Farewells
  <2> QED BY <1>1, <2>1, <2>2, EndAlone
<1>4. CASE P!RegisterAdmitted(b, w)
  <2>1. active' = [active EXCEPT ![b] = P!AddActive(@, w)]
    BY <1>4 DEF P!RegisterAdmitted
  <2>2. P!AddActive(active[b], w) = active[b]
    BY <1>2 DEF In, P!AddActive
  <2> QED BY <1>1, <2>1, <2>2 DEF In, P!ToSet
<1>5. CASE ~P!ExitRequest(b, w) /\ ~P!RegisterAdmitted(b, w)
  <2>1. active' = active
    BY <1>5 DEF P!Receive, P!BoothScan, P!ConnectRequest, P!UserResponseNo, P!QueueLeave,
                P!OnlyLogged, P!ChatMessage, P!RegisterRejected, P!RegisterQueued,
                P!RegisterStillQueued
  <2> QED BY <2>1 DEF In, P!ToSet
<1> QED BY <1>3, <1>4, <1>5

(* A user without company is bound to no booth.                            *)
LEMMA UnboundAlone ==
    ASSUME NobodyWaits
    PROVE  QueuedAtOne
<1>1. \A u \in Users : \A b \in Booths : ~P!Bound(b, u)
  BY Assumed, NobodyCalled DEF NobodyWaits, P!Bound, P!NoUserAssumption
<1> QED BY <1>1, SameBound DEF QueuedAtOne

(* At first nobody is inside.                                              *)
LEMMA InitOnItsOwn == Init => OnItsOwn
<1> SUFFICES ASSUME Init PROVE OnItsOwn
  OBVIOUS
<1>1. \A u \in Users : state[u] = "SCANNING"
  BY DEF Init, U!Init
<1>2. \A b \in Booths : waiting[b] = <<>> /\ pending[b] = NoUser
  BY DEF Init, B!Init
<1>3. \A u \in Users : state[u] # "IN_USE" => AlertAlone(u)
  <2>1. {"TIMEOUT_ALERT"} \subseteq P!Farewells
    BY DEF P!Farewells
  <2>2. \A u \in Users, b \in Booths :
          Carries(b, u, {"TIMEOUT_ALERT"}) => Carries(b, u, P!Farewells)
    BY <2>1, CarriesMore
  <2> QED BY <2>2, InitStanding DEF AlertAlone, Standing, Clear, FarewellsFit
<1> QED BY <1>1, <1>2, <1>3, InitStanding DEF OnItsOwn, NobodyWaits, EndTold

(* Who is IN_USE before and after a step is so at the same booth; who      *)
(* comes to be it is inside.                                               *)
LEMMA InUseSame ==
    ASSUME ~Late, Standing, [Next]_vars, NEW u \in Users, state'[u] = "IN_USE"
    PROVE  /\ booth'[u] = booth[u]
           /\ state[u] = "IN_USE" \/ \E b \in Booths : b = booth[u] /\ In(b, u) /\ ListsKept
           /\ \A b \in Booths :
                /\ link[b] # <<>> /\ Head(link[b]).dest = u /\ Moves(u, P!Kind(Head(link[b])))
                => P!Kind(Head(link[b])) \notin P!Farewells
<1>1. ASSUME NEW b \in Booths, link[b] # <<>>, Head(link[b]).dest = u, ListsKept,
             Moves(u, P!Kind(Head(link[b])))
      PROVE  /\ booth'[u] = booth[u]
             /\ state[u] = "IN_USE" \/ (b = booth[u] /\ In(b, u))
  <2> DEFINE k == P!Kind(Head(link[b]))
  <2>1. \A K : k \in K => Carries(b, u, K)
    <3>1. \A K : k \in K => Taken(b, {b}, u, K)
      BY <1>1 DEF Taken, Concerns
    <3> QED BY <1>1, <3>1, TakenIsCarried DEF Standing, Boards
  <2>2. Clear(u)
    BY DEF Standing
  <2> HIDE DEF k
  <2>3. k = "SUCCESS" => booth[u] = b /\ In(b, u)
    <3>1. k = "SUCCESS" => Carries(b, u, P!Answers) /\ Carries(b, u, {"SUCCESS"})
      BY <2>1 DEF P!Answers
    <3> QED BY <2>2, <3>1 DEF Clear, AnswersFit
  <2>4. Moves(u, k)
    BY <1>1 DEF k
  <2> QED BY <2>3, <2>4 DEF Moves, Same
<1>2. ASSUME NEW k, Moves(u, k)
      PROVE  k \notin P!Farewells
  BY <1>2 DEF Moves, P!Farewells
<1>3. CASE Same(u)
  BY <1>2, <1>3 DEF Same
<1>4. CASE Turns(u)
  BY <1>2, <1>4 DEF Turns
<1> QED BY <1>1, <1>2, <1>3, <1>4, UsersStep

(* When booths do not talk, all that a booth does without a request is to  *)
(* look at the clock.                                                      *)
LEMMA ActsAlone ==
    ASSUME ~Late, ~Talks, Sole, NobodyWaits, NEW c \in Booths, BoothActs(c), NEW u \in Users
    PROVE  Answered(u)
<1>1. BoothTimers(c)
  BY DEF BoothActs
<1>2. ~P!QueueReadyTimeout(c) /\ \A w \in Users : ~P!BothTimeouts(c, w)
  BY DEF NobodyWaits, P!QueueReadyTimeout, P!BothTimeouts
<1>3. \E w \in Users : InTime(w)
  BY <1>1, <1>2, SameTimers DEF BoothTimers
<1> QED BY <1>3 DEF InTime, Sole

(* Only the clock ends a session without a request.                        *)
LEMMA AlertKept ==
    ASSUME ~Late, ~Lossy, ~Talks, Sole, OnItsOwn, [Next]_vars, NEW u \in Users
    PROVE  AlertAlone(u)'
<1> DEFINE K == {"TIMEOUT_ALERT"}
<1>0. /\ Standing /\ P!IInv /\ NobodyWaits /\ AlertAlone(u) /\ Clear(u)
      /\ u \in Boards /\ \A b \in Booths : b \in Boards /\ b # u
      /\ link \in [Boards -> Seq(Letters)]
  BY BoardsAssumption DEF OnItsOwn, Standing, Boards, Posted
<1>1. ASSUME NEW from, NEW to, NEW m, Mail(from, to, m), u \notin to, u \notin from
      PROVE  link'[u] = link[u]
  BY <1>0, <1>1 DEF Mail, Rest
<1>2. ASSUME NEW from, NEW to, NEW m, Mail(from, to, m), NEW b \in Booths, b \notin to
      PROVE  Carries(b, u, K)' => Carries(b, u, K)
  <2>1. ~Given(b, to, m, u, K)
    BY <1>2 DEF Given
  <2> QED BY <1>0, <1>2, <2>1, MailCarries
<1> HIDE DEF K
(* A booth's own step. *)
<1>3. ASSUME NEW c \in Booths, BoothActs(c)
      PROVE  AlertAlone(u)'
  <2>1. Mail({}, Gets(c, sent'[c]), Last(sent'[c]))
    BY <1>0, <1>3, BoothMail
  <2>2. link'[u] = link[u]
    BY <1>0, <1>1, <2>1 DEF Gets
  <2>3. link[u] = <<>>
    BY <1>0, <1>3, ActsAlone DEF Answered
  <2> QED BY <2>2, <2>3 DEF AlertAlone
(* An answer to u, which has not been told of the end before. *)
<1>4. ASSUME NEW c \in Booths, NEW w \in Users, DeliverToBooth(w, c)
      PROVE  AlertAlone(u)'
  <2>1. w = u /\ link[u] # <<>>
    BY <1>4 DEF Sole, DeliverToBooth
  <2>2. Mail({u}, Gets(c, sent'[c]), Last(sent'[c]))
    BY <1>0, <1>4, <2>1, BoothMail
  <2>3. \A b \in Booths : ~Carries(b, u, K)
    BY <1>0, <2>1 DEF AlertAlone, K
  <2>4. ~P!Tells(c, u, "TIMEOUT_ALERT")
    <3> SUFFICES ASSUME P!Tells(c, u, "TIMEOUT_ALERT")
                 PROVE  FALSE
      OBVIOUS
    <3>1. PICK r : r = IF u \in {u} THEN Head(link[u]).type ELSE "none"
      OBVIOUS
    <3>2. P!Treats(c, u, r, Answered(u))
      BY <1>0, <1>4, <2>1, <3>1, AnswersTreat
    <3>3. In(c, u) /\ ~In(c, u)'
      BY <3>2 DEF P!Treats, P!Farewells, In, P!ToSet
    <3>4. P!Receive(c, u)
      BY <1>4, <2>1, BoothHandler DEF DeliverToBooth
    <3>5. P!Tells(c, u, "EXIT_RESPONSE")
      BY <1>0, <3>3, <3>4, AloneAnswered
    <3> QED BY <3>5 DEF P!Tells
  <2>5. ~Given(c, Gets(c, sent'[c]), Last(sent'[c]), u, K)
    BY <1>0, <2>4 DEF Given, Gets, Concerns, K, P!Tells, Last, P!Last
  <2>6. \A b \in Booths : ~Given(b, Gets(c, sent'[c]), Last(sent'[c]), u, K)
    BY <2>5 DEF Given, Gets
  <2>7. \A b \in Booths : ~Carries(b, u, K)'
    BY <1>0, <2>2, <2>3, <2>6, MailCarries
  <2> QED BY <2>7 DEF AlertAlone, K, Carries, Hit, Concerns, P!Kind
(* A user does nothing before it has heard what is under way to it. *)
<1>5. ASSUME NEW w \in Users, UserActs(w)
      PROVE  AlertAlone(u)'
  <2>1. Answered(u)
    BY <1>5 DEF UserActs, InTime, Sole
  <2>2. Mail({}, Gets(w, out'[w]), Last(out'[w]))
    BY <1>0, <1>5, UserMail
  <2>3. \A b \in Booths : ~Carries(b, u, K)
    BY <1>0, <2>1, AnsweredCarries DEF Standing
  <2>4. \A b \in Booths : b \notin Gets(w, out'[w])
    BY BoardsAssumption DEF Gets
  <2>5. \A b \in Booths : ~Carries(b, u, K)'
    BY <1>2, <2>2, <2>3, <2>4
  <2> QED BY <2>5 DEF AlertAlone, K, Carries, Hit, Concerns, P!Kind
(* Whoever is told of the end is inside, and asks for nothing when it hears *)
(* something else.                                                          *)
<1>6. ASSUME NEW c \in Booths, NEW w \in Users, DeliverToUser(c, w)
      PROVE  AlertAlone(u)'
  <2>1. w = u
    BY <1>6 DEF Sole
  <2>2. Mail({c}, Gets(u, out'[u]), Last(out'[u])) /\ Moves(u, P!Kind(Head(link[c])))
    BY <1>0, <1>6, <2>1, UserMail
  <2>3. ASSUME NEW b \in Booths, Carries(b, u, K)'
        PROVE  link'[u] = <<>>
    <3>1. Carries(b, u, K)
      <4>1. b \notin Gets(u, out'[u])
        BY <1>0 DEF Gets
      <4> QED BY <1>2, <2>2, <2>3, <4>1
    <3>2. link[u] = <<>> /\ state[u] = "IN_USE"
      <4>1. {"TIMEOUT_ALERT"} \subseteq P!Farewells
        BY DEF P!Farewells
      <4>2. Carries(b, u, P!Farewells)
        BY <3>1, <4>1, CarriesMore DEF K
      <4> QED BY <1>0, <3>1, <4>2 DEF AlertAlone, K, Clear, FarewellsFit
    <3>3. out'[u] = <<>>
      BY <2>2, <3>2 DEF Moves
    <3>4. u \notin Gets(u, out'[u]) /\ u \notin {c}
      BY <1>0, <3>3 DEF Gets
    <3> QED BY <1>1, <2>2, <3>2, <3>4
  <2> QED BY <2>3 DEF AlertAlone, K, Carries, Hit, Concerns, P!Kind
<1>7. ASSUME NEW from, NEW m, Mail(from, {}, m), u \in from => link[u] # <<>>
      PROVE  AlertAlone(u)'
  <2>1. \A b \in Booths : Carries(b, u, K)' => Carries(b, u, K)
    BY <1>2, <1>7
  <2>2. link[u] = <<>> => link'[u] = <<>>
    BY <1>1, <1>7
  <2> QED BY <1>0, <2>1, <2>2 DEF AlertAlone, K, Carries, Hit, Concerns, P!Kind
<1>8. ASSUME NEW c \in Booths, NEW w \in Users, BroadcastReaches(c, w)
      PROVE  AlertAlone(u)'
  <2>1. Mail({}, {}, Last(out'[w]))
    BY <1>0, <1>8, UserMail
  <2> QED BY <1>7, <2>1
<1>9. ASSUME NEW n \in Boards, Drop(n)
      PROVE  AlertAlone(u)'
  <2>1. Mail({n}, {}, Head(link[n])) /\ link[n] # <<>>
    BY <1>0, <1>9, DropIsMail DEF Standing, Drop
  <2> QED BY <1>7, <2>1
<1>10. CASE UNCHANGED vars
  BY <1>0, <1>10 DEF vars, AlertAlone, Carries, Hit, Concerns, P!Kind
<1> QED BY <1>3, <1>4, <1>5, <1>6, <1>8, <1>9, <1>10 DEF Next

(* Who is told that the session is over, and does not hear it yet, is      *)
(* still being told.                                                       *)
LEMMA FarewellStays ==
    ASSUME ~Late, ~Lossy, ~Talks, Sole, OnItsOwn, [Next]_vars, NEW u \in Users,
           state'[u] = "IN_USE", NEW b \in Booths
    PROVE  /\ Carries(b, u, P!Farewells) => Carries(b, u, P!Farewells)'
           /\ \/ In(b, u)' <=> In(b, u)
              \/ BoothActs(b) /\ Mail({}, Gets(b, sent'[b]), Last(sent'[b]))
              \/ \E w \in Users : /\ DeliverToBooth(w, b)
                                  /\ Mail({w}, Gets(b, sent'[b]), Last(sent'[b]))
<1> DEFINE Kept == Carries(b, u, P!Farewells) => Carries(b, u, P!Farewells)'
<1>0. /\ b \in Boards /\ b # u /\ link \in [Boards -> Seq(Letters)]
      /\ \A w \in Users : w # b
      /\ Standing /\ NobodyWaits /\ AlertAlone(u)
  BY BoardsAssumption DEF Boards, OnItsOwn, Standing, Posted
<1>1. ASSUME NEW from, NEW to, NEW m, Mail(from, to, m), ~Taken(b, from, u, P!Farewells),
             b \notin to
      PROVE  Kept
  BY <1>0, <1>1, MailCarries
<1>2. \A S : b \notin S => ~Taken(b, S, u, P!Farewells)
  BY DEF Taken
<1>3. ListsKept => (In(b, u)' <=> In(b, u))
  BY ListsFact
<1>4. UNCHANGED boothVars => ListsKept
  BY DEF boothVars, ListsKept
<1> HIDE DEF Kept
<1>5. ASSUME NEW c \in Booths, BoothActs(c)
      PROVE  /\ Kept
             /\ \/ In(b, u)' <=> In(b, u)
                \/ BoothActs(b) /\ Mail({}, Gets(b, sent'[b]), Last(sent'[b]))
  <2>1. Mail({}, Gets(c, sent'[c]), Last(sent'[c]))
    BY <1>0, <1>5, BoothMail
  <2>2. Kept
    <3>1. Answered(u)
      BY <1>0, <1>5, ActsAlone
    <3> QED BY <1>0, <3>1, AnsweredCarries DEF Standing, Kept
  <2>3. c # b => (In(b, u)' <=> In(b, u))
    BY <1>0, <1>5, BoothOwnStep, Assumed, P!OthersKept DEF BoothActs, Standing, In, P!ToSet
  <2> QED BY <1>5, <2>1, <2>2, <2>3
<1>6. ASSUME NEW c \in Booths, NEW w \in Users, DeliverToBooth(w, c)
      PROVE  /\ Kept
             /\ \/ In(b, u)' <=> In(b, u)
                \/ DeliverToBooth(w, b) /\ Mail({w}, Gets(b, sent'[b]), Last(sent'[b]))
  <2>1. Mail({w}, Gets(c, sent'[c]), Last(sent'[c]))
    BY <1>0, <1>6, BoothMail
  <2>2. Kept
    <3>1. ~Carries(b, u, {"TIMEOUT_ALERT"})
      BY <1>0, <1>6 DEF Sole, DeliverToBooth, AlertAlone
    <3>2. Carries(b, u, P!Farewells) => Carries(b, u, {"EXIT_RESPONSE"})
      BY <3>1 DEF Carries, Hit, P!Farewells
    <3>3. ~Taken(b, {w}, u, {"EXIT_RESPONSE"})
      BY <1>0 DEF Taken
    <3>4. {"EXIT_RESPONSE"} \cap Passing = {}
      BY DEF Passing
    <3>5. Carries(b, u, {"EXIT_RESPONSE"}) => Carries(b, u, {"EXIT_RESPONSE"})'
      BY <1>0, <2>1, <3>3, <3>4, MailCarries
    <3>6. Carries(b, u, {"EXIT_RESPONSE"})' => Carries(b, u, P!Farewells)'
      BY DEF Carries, Hit, Concerns, P!Kind, P!Farewells
    <3> QED BY <3>2, <3>5, <3>6 DEF Kept
  <2>3. P!Receive(c, w)
    BY <1>6, BoothHandler DEF DeliverToBooth
  <2>4. c # b => (In(b, u)' <=> In(b, u))
    BY <1>0, <2>3, Assumed, P!OthersKept DEF Standing, In, P!ToSet
  <2> QED BY <1>6, <2>1, <2>2, <2>4
<1>7. ASSUME NEW w \in Users, UserActs(w)
      PROVE  Kept /\ ListsKept
  <2>1. Mail({}, Gets(w, out'[w]), Last(out'[w]))
    BY <1>0, <1>7, UserMail
  <2> QED BY <1>0, <1>1, <1>2, <1>4, <1>7, <2>1 DEF UserActs, Gets
<1>8. ASSUME NEW c \in Booths, NEW w \in Users, DeliverToUser(c, w)
      PROVE  Kept /\ ListsKept
  <2>1. Mail({c}, Gets(w, out'[w]), Last(out'[w])) /\ Moves(w, P!Kind(Head(link[c])))
    BY <1>0, <1>8, UserMail
  <2>2. link[c] # <<>> /\ Head(link[c]).dest = w /\ UNCHANGED boothVars
    BY <1>8 DEF DeliverToUser
  <2>3. ~Taken(b, {c}, u, P!Farewells)
    BY <1>0, <2>1, <2>2, InUseSame DEF Taken, Concerns
  <2> QED BY <1>0, <1>1, <1>4, <2>1, <2>2, <2>3 DEF Gets
<1>9. ASSUME NEW c \in Booths, NEW w \in Users, BroadcastReaches(c, w)
      PROVE  Kept /\ ListsKept
  <2>1. Mail({}, {}, Last(out'[w]))
    BY <1>0, <1>9, UserMail
  <2> QED BY <1>1, <1>2, <1>4, <1>9, <2>1 DEF BroadcastReaches
<1>10. ASSUME NEW n \in Boards, Drop(n)
       PROVE  Kept /\ ListsKept
  <2>1. Mail({n}, {}, Head(link[n])) /\ Head(link[n]).dest \in {NoBooth, Broadcast}
    BY <1>0, <1>10, DropIsMail DEF Standing, Drop
  <2>2. ~Taken(b, {n}, u, P!Farewells)
    BY <1>0, <2>1, BoardsAssumption DEF Taken, Concerns, Boards
  <2> QED BY <1>1, <1>4, <1>10, <2>1, <2>2 DEF Drop
<1>11. CASE UNCHANGED vars
  <2>1. Kept /\ ListsKept
    BY <1>11 DEF vars, boothVars, ListsKept, Kept, Carries, Hit, Concerns, P!Kind
  <2> QED BY <1>3, <2>1 DEF Kept
<1> QED BY <1>3, <1>5, <1>6, <1>7, <1>8, <1>9, <1>10, <1>11 DEF Next, Kept

(* The step of a user on its own.                                          *)
LEMMA NextOnItsOwn ==
    ASSUME ~Late, ~Lossy, ~Talks, Sole, OnItsOwn, [Next]_vars
    PROVE  OnItsOwn'
<1>0. Standing /\ P!IInv /\ NobodyWaits /\ \A u \in Users : EndTold(u)
  BY DEF OnItsOwn, Standing
<1>1. Standing'
  BY <1>0, UnboundAlone, NextStanding
<1>2. NobodyWaits'
  <2>1. UNCHANGED boothVars => NobodyWaits'
    BY <1>0 DEF boothVars, NobodyWaits
  <2>2. CASE \E u \in Users : TRUE
    <3>1. PICK u \in Users : TRUE
      BY <2>2
    <3>2. ASSUME NEW b \in Booths, BoothActs(b) \/ \E w \in Users : DeliverToBooth(w, b)
          PROVE  NobodyWaits'
      <4>1. \/ \E w \in Users : P!Receive(b, w) \/ P!SessionTimeout(b, w) \/ P!BothTimeouts(b, w)
            \/ P!QueueReadyTimeout(b) \/ P!AutoAnnounce(b) \/ P!AnnounceKey(b) \/ P!QuietKey(b)
            \/ P!AdminMessage(b)
        BY <3>2, BoothOwnStep, BoothHandler DEF BoothActs, DeliverToBooth
      <4> QED BY <1>0, <3>1, <4>1, AloneAtBooth
    <3> QED BY <2>1, <3>2 DEF Next, UserActs, DeliverToUser, BroadcastReaches, Drop, vars
  <2>3. CASE ~\E u \in Users : TRUE
    <3>1. /\ pending' \in [Booths -> Users \cup {NoUser}]
          /\ waiting' \in [Booths -> Seq(P!QueueEntry)]
      BY <1>1 DEF Standing, P!IInv, P!TypeOK, P!QueueEntry
    <3>2. ASSUME NEW b \in Booths, waiting'[b] # <<>>
          PROVE  FALSE
      <4>1. Head(waiting'[b]) \in P!QueueEntry
        BY <3>1, <3>2, HeadFact
      <4> QED BY <2>3, <4>1 DEF P!QueueEntry
    <3> QED BY <2>3, <3>1, <3>2 DEF NobodyWaits
  <2> QED BY <2>2, <2>3
<1>3. ASSUME NEW u \in Users, state'[u] = "IN_USE", NEW b \in Booths, booth'[u] = b
      PROVE  In(b, u)' \/ Carries(b, u, P!Farewells)'
  <2>1. In(b, u) \/ Carries(b, u, P!Farewells)
    BY <1>0, <1>3, InUseSame DEF EndTold
  <2>2. CASE Carries(b, u, P!Farewells)
    BY <1>0, <1>3, <2>2, FarewellStays
  <2>3. ASSUME In(b, u), ~In(b, u)', NEW from, Mail(from, Gets(b, sent'[b]), Last(sent'[b])),
               BoothActs(b) \/ \E w \in Users : DeliverToBooth(w, b)
        PROVE  Carries(b, u, P!Farewells)'
    <3>1. \/ \E w \in Users : P!Receive(b, w) \/ P!SessionTimeout(b, w) \/ P!BothTimeouts(b, w)
          \/ P!QueueReadyTimeout(b) \/ P!AutoAnnounce(b) \/ P!AnnounceKey(b) \/ P!QuietKey(b)
          \/ P!AdminMessage(b)
      BY <2>3, BoothOwnStep, BoothHandler DEF BoothActs, DeliverToBooth
    <3>2. PICK t \in P!Farewells : P!Tells(b, u, t)
      BY <1>0, <2>3, <3>1, AloneAtBooth
    <3> DEFINE m == Last(sent'[b])
    <3>3. Given(b, Gets(b, sent'[b]), m, u, P!Farewells)
      BY <3>2 DEF Given, Gets, Concerns, P!Tells, Last, P!Last
    <3> HIDE DEF m
    <3>4. Mail(from, Gets(b, sent'[b]), m)
      BY <2>3 DEF m
    <3> QED BY <1>0, <3>3, <3>4, MailCarries DEF Standing, Posted, Boards
  <2> QED BY <1>0, <1>3, <2>1, <2>2, <2>3, FarewellStays
<1>4. ASSUME NEW u \in Users
      PROVE  EndTold(u)' /\ AlertAlone(u)'
  BY <1>3, AlertKept DEF EndTold
<1> QED BY <1>1, <1>2, <1>4 DEF OnItsOwn

(* A user on its own, with any number of booths and nothing late or lost:  *)
(* at any moment booth and user agree who is inside, or the user is being  *)
(* told.  Nobody holds a place without knowing it, nobody takes itself for *)
(* inside a booth that has ended its session.  Booths must not talk: an    *)
(* announcement of the same pass may replace the news of the end.          *)
THEOREM AloneInAgreement ==
    ASSUME ~Late, ~Lossy, ~Talks, Sole
    PROVE  Spec => []AgreeWhoIsInside
<1>1. Init => OnItsOwn
  BY InitOnItsOwn
<1>2. OnItsOwn /\ [Next]_vars => OnItsOwn'
  BY NextOnItsOwn
<1>3. OnItsOwn => AgreeWhoIsInside
  <2> SUFFICES ASSUME OnItsOwn, NEW b \in Booths, NEW u \in Users, ~UnderWay(b, u)
               PROVE  Inside(b, u) <=> state[u] = "IN_USE" /\ booth[u] = b
    BY DEF AgreeWhoIsInside
  <2>1. \A K : ~Carries(b, u, K)
    BY BoardsAssumption DEF UnderWay, Carries, Hit, Concerns
  <2>2. In(b, u) => state[u] = "IN_USE" /\ booth[u] = b
    BY <2>1 DEF OnItsOwn, Standing, Clear, InsideKnown
  <2>3. state[u] = "IN_USE" /\ booth[u] = b => In(b, u)
    BY <2>1 DEF OnItsOwn, EndTold
  <2> QED BY <2>2, <2>3, SameLists DEF In, Inside
<1> QED BY <1>1, <1>2, <1>3, PTL DEF Spec

-----------------------------------------------------------------------------
(* Two users *)

(* v is inside booth b as it sees it, and has not been told to leave, or   *)
(* is being told to come in.                                               *)
Held(b, v) ==
    \/ /\ state[v] = "IN_USE" /\ booth[v] = b
       /\ \A c \in Booths : ~Carries(c, v, P!Farewells)
    \/ Carries(b, v, {"SUCCESS"})

(* Who waits at a booth waits for the other one, and the booth holds that  *)
(* one even when it is inside no more: the call of the one who waits has   *)
(* replaced its farewell.                                                  *)
Pair ==
    /\ Standing
    /\ \A b \in Booths : P!Waits(b)
    /\ \A b \in Booths, u, v \in Users :
         P!Bound(b, u) /\ v \in Registered(b) => Held(b, v)

(* Nobody is held by two booths,                                           *)
LEMMA HeldOnce ==
    ASSUME Standing, NEW v \in Users, NEW b \in Booths, NEW c \in Booths, Held(b, v), Held(c, v)
    PROVE  b = c
<1>1. \A d \in Booths : Carries(d, v, {"SUCCESS"}) =>
        booth[v] = d /\ state[v] # "IN_USE"
  <2>1. Clear(v) /\ {"SUCCESS"} \subseteq P!Answers
    BY DEF Standing, P!Answers
  <2>2. \A d \in Booths : Carries(d, v, {"SUCCESS"}) => Carries(d, v, P!Answers)
    BY <2>1, CarriesMore
  <2> QED BY <2>1, <2>2 DEF Clear, AnswersFit
<1> QED BY <1>1 DEF Held

(* so nobody waits at two.                                                 *)
LEMMA PairWaitsAtOne ==
    ASSUME P!Two, Pair
    PROVE  QueuedAtOne
<1> SUFFICES ASSUME NEW u \in Users, NEW b \in Booths, NEW c \in Booths,
                    P!Bound(b, u), P!Bound(c, u)
             PROVE  b = c
  BY SameBound DEF QueuedAtOne
<1>1. ASSUME NEW d \in Booths, P!Bound(d, u)
      PROVE  \E v \in Users : v # u /\ Held(d, v)
  <2>1. PICK v \in Registered(d) : v # u
    BY <1>1 DEF Pair, P!Waits, Registered
  <2>2. v \in Users
    BY Assumed, P!BoothAt, P!ToSetFact DEF Pair, Standing, Registered
  <2> QED BY <1>1, <2>1, <2>2 DEF Pair
<1>2. PICK v \in Users : v # u /\ Held(b, v)
  BY <1>1
<1>3. PICK w \in Users : w # u /\ Held(c, w)
  BY <1>1
<1>4. v = w
  BY <1>2, <1>3 DEF P!Two
<1> QED BY <1>2, <1>3, <1>4, HeldOnce DEF Pair

(* Who is in the list of those inside is held.                             *)
LEMMA InIsHeld ==
    ASSUME Standing', NEW v \in Users, NEW b \in Booths, In(b, v)'
    PROVE  Held(b, v)'
<1>1. InsideKnown(v)' /\ FarewellsFit(v)'
  BY DEF Standing, Clear
<1>2. booth'[v] = b /\ (state'[v] = "IN_USE" \/ Carries(b, v, {"SUCCESS"})')
  BY <1>1 DEF InsideKnown
<1>3. \A c \in Booths : ~Carries(c, v, P!Farewells)'
  BY <1>1 DEF FarewellsFit
<1> QED BY <1>2, <1>3 DEF Held

(* What a step changes in what booth b has under way for v: a farewell     *)
(* comes only from a step of the booth, and a SUCCESS goes only to v.      *)
LEMMA StepIsMail ==
    ASSUME ~Late, ~Lossy, Standing, [Next]_vars, NEW b \in Booths, NEW v \in Users
    PROVE  \E from, to, m :
             /\ Mail(from, to, m)
             /\ Given(b, to, m, v, P!Farewells) =>
                  /\ BoothActs(b) \/ \E w \in Users : DeliverToBooth(w, b)
                  /\ \E k \in P!Farewells : P!Tells(b, v, k)
             /\ Taken(b, from, v, {"SUCCESS"}) => DeliverToUser(b, v)
<1> DEFINE Fits(from, to, m) ==
             /\ Given(b, to, m, v, P!Farewells) =>
                  /\ BoothActs(b) \/ \E w \in Users : DeliverToBooth(w, b)
                  /\ \E k \in P!Farewells : P!Tells(b, v, k)
             /\ Taken(b, from, v, {"SUCCESS"}) => DeliverToUser(b, v)
<1>0. b # v /\ \A w \in Users : w # b
  BY BoardsAssumption
<1>1. ASSUME NEW c \in Booths, Given(b, Gets(c, sent'[c]), Last(sent'[c]), v, P!Farewells)
      PROVE  c = b /\ \E k \in P!Farewells : P!Tells(b, v, k)
  <2>1. c = b /\ sent'[b] # <<>> /\ Last(sent'[b]).dest = v
        /\ P!Kind(Last(sent'[b])) \in P!Farewells
    BY <1>0, <1>1 DEF Given, Gets, Concerns
  <2>2. P!Last(sent'[b]) = Last(sent'[b])
    BY DEF Last, P!Last
  <2> QED BY <2>1, <2>2 DEF P!Tells
<1>2. ASSUME NEW w \in Users, NEW m
      PROVE  ~Given(b, Gets(w, out'[w]), m, v, P!Farewells)
  BY <1>0 DEF Given, Gets
<1>3. ASSUME NEW from, b \notin from
      PROVE  ~Taken(b, from, v, {"SUCCESS"})
  BY <1>3 DEF Taken
<1>4. ASSUME NEW c \in Booths, BoothActs(c)
      PROVE  Mail({}, Gets(c, sent'[c]), Last(sent'[c])) /\ Fits({}, Gets(c, sent'[c]), Last(sent'[c]))
  BY <1>1, <1>3, <1>4, BoothMail
<1>5. ASSUME NEW c \in Booths, NEW w \in Users, DeliverToBooth(w, c)
      PROVE  Mail({w}, Gets(c, sent'[c]), Last(sent'[c])) /\ Fits({w}, Gets(c, sent'[c]), Last(sent'[c]))
  <2>1. b \notin {w}
    BY <1>0
  <2> QED BY <1>1, <1>3, <1>5, <2>1, BoothMail
<1>6. ASSUME NEW w \in Users, UserActs(w)
      PROVE  Mail({}, Gets(w, out'[w]), Last(out'[w])) /\ Fits({}, Gets(w, out'[w]), Last(out'[w]))
  BY <1>2, <1>3, <1>6, UserMail
<1>7. ASSUME NEW c \in Booths, NEW w \in Users, DeliverToUser(c, w)
      PROVE  Mail({c}, Gets(w, out'[w]), Last(out'[w])) /\ Fits({c}, Gets(w, out'[w]), Last(out'[w]))
  <2>1. Taken(b, {c}, v, {"SUCCESS"}) => c = b /\ w = v
    BY <1>0, <1>7 DEF Taken, Concerns, DeliverToUser
  <2>2. Mail({c}, Gets(w, out'[w]), Last(out'[w]))
    BY <1>7, UserMail
  <2> QED BY <1>2, <1>7, <2>1, <2>2
<1>8. ASSUME NEW c \in Booths, NEW w \in Users, BroadcastReaches(c, w)
      PROVE  Mail({}, {}, Last(out'[w])) /\ Fits({}, {}, Last(out'[w]))
  <2>1. Mail({}, {}, Last(out'[w]))
    BY <1>8, UserMail
  <2> QED BY <1>3, <2>1 DEF Given
<1>9. ASSUME NEW n \in Boards, Drop(n)
      PROVE  Mail({n}, {}, Head(link[n])) /\ Fits({n}, {}, Head(link[n]))
  <2>1. Mail({n}, {}, Head(link[n])) /\ Head(link[n]).dest \in {NoBooth, Broadcast}
    BY <1>9, DropIsMail DEF Standing, Drop
  <2>2. ~Taken(b, {n}, v, {"SUCCESS"})
    BY <1>0, <2>1, BoardsAssumption DEF Taken, Concerns, Boards
  <2> QED BY <2>1, <2>2 DEF Given
<1>10. ASSUME UNCHANGED vars
       PROVE  Mail({}, {}, 0) /\ Fits({}, {}, 0)
  <2>1. link' = link /\ link \in [Boards -> Seq(Letters)]
    BY <1>10 DEF vars, Standing, Posted
  <2>2. Mail({}, {}, 0)
    <3>1. link' = [n \in Boards |-> IF n \in {} THEN Append(Rest(n, {}, {}), 0) ELSE Rest(n, {}, {})]
      BY <2>1 DEF Rest
    <3>2. {} \in SUBSET {} /\ \A n \in {} : Passed(n)
      OBVIOUS
    <3> QED BY <3>1, <3>2 DEF Mail
  <2> QED BY <1>3, <2>2 DEF Given
<1> DEFINE Found == \E from, to, m : Mail(from, to, m) /\ Fits(from, to, m)
<1> HIDE DEF Fits
<1>11. ASSUME NEW from, NEW to, NEW m, Mail(from, to, m), Fits(from, to, m)
       PROVE  Found
  BY <1>11
<1> HIDE DEF Found
<1>12. ASSUME NEW c \in Booths, BoothActs(c) \/ \E w \in Users : DeliverToBooth(w, c)
       PROVE  Found
  BY <1>4, <1>5, <1>11, <1>12
<1>13. ASSUME NEW w \in Users,
              UserActs(w) \/ \E c \in Booths : DeliverToUser(c, w) \/ BroadcastReaches(c, w)
       PROVE  Found
  BY <1>6, <1>7, <1>8, <1>11, <1>13
<1>14. (\E n \in Boards : Drop(n)) \/ UNCHANGED vars => Found
  BY <1>9, <1>10, <1>11
<1>15. Found
  BY <1>12, <1>13, <1>14 DEF Next
<1> QED BY <1>15 DEF Found, Fits

(* Who is inside and is not told to leave stays there.                     *)
LEMMA UntoldStays ==
    ASSUME ~Late, Standing, [Next]_vars, NEW v \in Users, state[v] = "IN_USE",
           \A c \in Booths : ~Carries(c, v, P!Farewells)
    PROVE  state'[v] = "IN_USE"
<1>1. ASSUME NEW c \in Booths, link[c] # <<>>, Head(link[c]).dest = v,
             Moves(v, P!Kind(Head(link[c])))
      PROVE  state'[v] = "IN_USE"
  <2> DEFINE k == P!Kind(Head(link[c]))
  <2>1. \A K : k \in K => Carries(c, v, K)
    <3>1. \A K : k \in K => Taken(c, {c}, v, K)
      BY <1>1 DEF Taken, Concerns
    <3> QED BY <1>1, <3>1, TakenIsCarried DEF Standing, Boards
  <2>2. Clear(v) /\ Moves(v, k)
    BY <1>1 DEF Standing
  <2> HIDE DEF k
  <2>3. k \notin P!Answers \cup P!Farewells
    BY <2>1, <2>2 DEF Clear, AnswersFit
  <2> QED BY <2>2, <2>3 DEF Moves, Same, P!Answers
<1> QED BY <1>1, UsersStep DEF Same, Turns

(* Whom a booth holds it goes on holding, unless it tells it to leave.     *)
LEMMA HeldStays ==
    ASSUME ~Late, ~Lossy, Standing, Standing', [Next]_vars, NEW b \in Booths, NEW v \in Users,
           Held(b, v),
           BoothActs(b) \/ (\E w \in Users : DeliverToBooth(w, b)) =>
             \A k \in P!Farewells : ~P!Tells(b, v, k)
    PROVE  Held(b, v)'
<1>0. b \in Boards /\ link \in [Boards -> Seq(Letters)] /\ Clear(v)
  BY DEF Boards, Standing, Posted
<1>1. PICK from, to, m :
        /\ Mail(from, to, m)
        /\ ~Given(b, to, m, v, P!Farewells)
        /\ Taken(b, from, v, {"SUCCESS"}) => DeliverToUser(b, v)
  BY StepIsMail
<1>2. /\ Carries(b, v, P!Farewells)' => Carries(b, v, P!Farewells)
      /\ Carries(b, v, {"SUCCESS"}) => Carries(b, v, {"SUCCESS"})' \/ Taken(b, from, v, {"SUCCESS"})
  BY <1>0, <1>1, MailCarries, NoAnswerPassed
<1>3. ASSUME state'[v] = "IN_USE", booth'[v] = b, ~Carries(b, v, P!Farewells)
      PROVE  Held(b, v)'
  <2>1. \A c \in Booths : Carries(c, v, P!Farewells)' => booth'[v] = c
    BY DEF Standing, Clear, FarewellsFit
  <2>2. \A c \in Booths : ~Carries(c, v, P!Farewells)'
    BY <1>2, <1>3, <2>1
  <2> QED BY <1>3, <2>2 DEF Held
<1>4. CASE Carries(b, v, {"SUCCESS"})
  <2>1. CASE Carries(b, v, {"SUCCESS"})'
    BY <2>1 DEF Held
  <2>2. CASE Taken(b, from, v, {"SUCCESS"})
    <3>1. DeliverToUser(b, v) /\ P!Kind(Head(link[b])) = "SUCCESS"
      BY <1>1, <2>2 DEF Taken
    <3>2. Moves(v, "SUCCESS")
      BY <3>1, UserMail
    <3>3. state'[v] = "IN_USE" /\ booth'[v] = booth[v]
      BY <3>2 DEF Moves, P!Farewells
    <3>4. {"SUCCESS"} \subseteq P!Answers /\ {"SUCCESS"} \subseteq Fates /\ P!Farewells \subseteq Fates
          /\ {"SUCCESS"} \cap P!Farewells = {}
      BY DEF P!Answers, P!Farewells, Fates
    <3>5. booth[v] = b
      BY <1>0, <1>4, <3>4, CarriesMore DEF Clear, AnswersFit
    <3>6. ~Carries(b, v, P!Farewells)
      BY <1>0, <1>4, <3>4, Exclusive DEF Clear
    <3> QED BY <1>3, <3>3, <3>5, <3>6
  <2> QED BY <1>2, <1>4, <2>1, <2>2
<1>5. CASE state[v] = "IN_USE" /\ booth[v] = b /\ \A c \in Booths : ~Carries(c, v, P!Farewells)
  <2>1. state'[v] = "IN_USE"
    BY <1>5, UntoldStays
  <2>2. booth'[v] = booth[v]
    BY <2>1, InUseSame
  <2> QED BY <1>3, <1>5, <2>1, <2>2
<1> QED BY <1>4, <1>5 DEF Held

(* At first nobody waits.                                                  *)
LEMMA InitPair == Init => Pair
<1> SUFFICES ASSUME Init PROVE Pair
  OBVIOUS
<1>1. \A b \in Booths : waiting[b] = <<>> /\ pending[b] = NoUser
  BY DEF Init, B!Init
<1>2. \A b \in Booths : \A u \in Users : ~P!InQueue(waiting[b], u) /\ ~P!Bound(b, u)
  BY <1>1, Assumed, NobodyCalled DEF P!Bound, P!NoUserAssumption
<1> QED BY <1>1, <1>2, InitStanding DEF Pair, P!Waits

(* A step of two users and any number of booths.                           *)
LEMMA NextPair ==
    ASSUME ~Late, ~Lossy, P!Two, Pair, [Next]_vars
    PROVE  Pair'
<1>0. Standing /\ P!IInv
  BY DEF Pair, Standing
<1>1. Standing'
  BY <1>0, PairWaitsAtOne, NextStanding
<1>2. ASSUME NEW b \in Booths
      PROVE  /\ P!Waits(b)'
             /\ \A u, v \in Users : P!Bound(b, u)' /\ v \in Registered(b)' => Held(b, v)'
  <2>1. CASE BoothActs(b) \/ \E w \in Users : DeliverToBooth(w, b)
    <3>1. \/ \E w \in Users : P!Receive(b, w) \/ P!SessionTimeout(b, w) \/ P!BothTimeouts(b, w)
          \/ P!QueueReadyTimeout(b) \/ P!AutoAnnounce(b) \/ P!AnnounceKey(b) \/ P!QuietKey(b)
          \/ P!AdminMessage(b)
      BY <2>1, BoothOwnStep, BoothHandler DEF BoothActs, DeliverToBooth
    <3>2. P!KeepsWaits(b)
      BY <1>0, <3>1, Assumed, P!TwoAtBooth DEF Pair
    <3>3. ASSUME NEW u \in Users, NEW v \in Users, P!Bound(b, u)', v \in Registered(b)'
          PROVE  Held(b, v)'
      <4>1. CASE v \in P!ToSet(active'[b])
        <5>1. In(b, v)'
          BY <4>1 DEF In, P!ToSet
        <5> QED BY <1>1, <5>1, InIsHeld
      <4>2. CASE /\ P!Bound(b, u) /\ v \in P!ToSet(registered[b])
                 /\ \A k \in P!Farewells : ~P!Tells(b, v, k)
        <5>1. Held(b, v)
          BY <4>2 DEF Pair, Registered
        <5> QED BY <1>0, <1>1, <4>2, <5>1, HeldStays
      <4>3. v \in P!ToSet(registered'[b])
        BY <3>3 DEF Registered, P!ToSet
      <4> QED BY <3>2, <3>3, <4>1, <4>2, <4>3 DEF P!KeepsWaits
    <3> QED BY <3>2, <3>3 DEF P!KeepsWaits
  <2>2. CASE ~(BoothActs(b) \/ \E w \in Users : DeliverToBooth(w, b))
    <3>1. /\ registered'[b] = registered[b] /\ active'[b] = active[b]
          /\ waiting'[b] = waiting[b] /\ pending'[b] = pending[b]
      <4>1. ASSUME NEW c \in Booths, BoothActs(c) \/ \E w \in Users : DeliverToBooth(w, c)
            PROVE  /\ registered'[b] = registered[b] /\ active'[b] = active[b]
                   /\ waiting'[b] = waiting[b] /\ pending'[b] = pending[b]
        <5>1. \/ \E w \in Users : P!Receive(c, w) \/ P!SessionTimeout(c, w) \/ P!BothTimeouts(c, w)
              \/ P!QueueReadyTimeout(c) \/ P!AutoAnnounce(c) \/ P!AnnounceKey(c) \/ P!QuietKey(c)
              \/ P!AdminMessage(c)
          BY <4>1, BoothOwnStep, BoothHandler DEF BoothActs, DeliverToBooth
        <5>2. c # b
          BY <2>2, <4>1
        <5> QED BY <1>0, <5>1, <5>2, Assumed, P!OthersKept
      <4>2. UNCHANGED boothVars => /\ registered'[b] = registered[b] /\ active'[b] = active[b]
                                   /\ waiting'[b] = waiting[b] /\ pending'[b] = pending[b]
        BY DEF boothVars
      <4> QED BY <4>1, <4>2 DEF Next, UserActs, DeliverToUser, BroadcastReaches, Drop, vars
    <3>2. /\ \A u : P!Bound(b, u)' <=> P!Bound(b, u)
          /\ \A u : P!InQueue(waiting[b], u)' <=> P!InQueue(waiting[b], u)
          /\ Registered(b)' = Registered(b)
          /\ P!Full(b)' <=> P!Full(b)
          /\ P!ToSet(registered[b])' = P!ToSet(registered[b])
      BY <3>1 DEF P!Bound, P!InQueue, P!Positions, Registered, P!ToSet, P!Full
    <3>3. P!Waits(b)'
      <4>1. P!Waits(b)
        BY DEF Pair
      <4> QED BY <3>1, <3>2, <4>1 DEF P!Waits
    <3>4. \A u, v \in Users : P!Bound(b, u)' /\ v \in Registered(b)' => Held(b, v)
      BY <3>2 DEF Pair
    <3> QED BY <1>0, <1>1, <2>2, <3>3, <3>4, HeldStays
  <2> QED BY <2>1, <2>2
<1> QED BY <1>1, <1>2 DEF Pair

(* Two users, with any number of booths of any capacity and nothing late   *)
(* or lost, never wait at two booths, although queues are left by messages *)
(* that replace each other.                                                *)
THEOREM TwoWaitAtOne ==
    ASSUME ~Late, ~Lossy, P!Two
    PROVE  Spec => []QueuedAtOne
<1>1. Init => Pair
  BY InitPair
<1>2. Pair /\ [Next]_vars => Pair'
  BY NextPair
<1>3. Pair => QueuedAtOne
  BY PairWaitsAtOne
<1> QED BY <1>1, <1>2, <1>3, PTL DEF Spec

(* So for two users all of the above holds without a condition: they know  *)
(* where they are inside, are so once, stay there and follow the diagram.  *)
THEOREM TwoAreOrderly ==
    ASSUME ~Late, ~Lossy, P!Two
    PROVE  Spec => []KnowsItsBooth /\ []InsideOnce /\ StaysInside /\ FollowsDiagram
<1> QED BY TwoWaitAtOne, InsideKnowsWhere, InsideOneBooth, InsideIsLeftAtTheEnd,
           DiagramFollowed, PTL

=============================================================================
