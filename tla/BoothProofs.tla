----------------------------- MODULE BoothProofs -----------------------------
(***************************************************************************)
(* Proofs about Booth, for any number of booths and users and any values   *)
(* of MAX_BOOTH_CAPACITY and MAX_USERS that meet the assumptions there.    *)
(*                                                                         *)
(* The inductive invariant is IInv: the type invariant, VisitOnce,         *)
(* QueueInOrder and WithinArrays.  First come lemmas about the operations  *)
(* on the queue, then one lemma per group of actions, then the theorems;   *)
(* the parts after them rest on the invariant: the calls, what a booth     *)
(* tells a user and when, and two users at a booth.                        *)
(***************************************************************************)
EXTENDS Booth, ListFacts

(* A queue of the right type, within its array, in which everybody has his *)
(* own place.                                                              *)
GoodQueue(q) == q \in Seq(QueueEntry) /\ Ordered(q) /\ Len(q) <= MAX_USERS

(* Renumber keeps the users and their order, and numbers by place.         *)
LEMMA RenumberFact ==
    ASSUME NEW q \in Seq(QueueEntry)
    PROVE  /\ Renumber(q) \in Seq(QueueEntry)
           /\ Len(Renumber(q)) = Len(q)
           /\ \A i \in 1..Len(q) :
                 Renumber(q)[i] = [userId |-> q[i].userId, waitingNumber |-> i]
<1>1. Len(q) \in Nat /\ DOMAIN q = 1..Len(q) /\ \A i \in 1..Len(q) : q[i] \in QueueEntry
  BY LenProperties, ElementOfSeq
<1>2. ASSUME NEW i \in 1..Len(q)
      PROVE  /\ Renumber(q)[i] = [userId |-> q[i].userId, waitingNumber |-> i]
             /\ Renumber(q)[i] \in QueueEntry
  <2>1. Renumber(q)[i] = [q[i] EXCEPT !.waitingNumber = i]
    BY <1>1 DEF Renumber
  <2>2. q[i] \in QueueEntry /\ i \in Nat
    BY <1>1
  <2> QED
    BY <2>1, <2>2 DEF QueueEntry
<1>3. Renumber(q) = [i \in 1..Len(q) |-> Renumber(q)[i]]
  BY <1>1 DEF Renumber
<1>4. Renumber(q) \in Seq(QueueEntry) /\ Len(Renumber(q)) = Len(q)
  <2> DEFINE r == Renumber(q)
  <2>1. DOMAIN r = 1..Len(q)
    BY <1>1 DEF Renumber
  <2>2. r \in [1..Len(q) -> QueueEntry]
    BY <1>2, <1>3
  <2> HIDE DEF r
  <2>3. r \in Seq(QueueEntry)
    BY <1>1, <2>2, IsASeq
  <2>4. Len(r) = Len(q)
    BY <1>1, <2>1, <2>3, LenProperties
  <2> QED
    BY <2>3, <2>4 DEF r
<1> QED
  BY <1>2, <1>4

(* In a good queue a user who stands in it has exactly one place, which    *)
(* IndexOf returns.                                                        *)
LEMMA IndexOfFact ==
    ASSUME NEW q, GoodQueue(q), NEW u, InQueue(q, u)
    PROVE  /\ IndexOf(q, u) \in 1..Len(q)
           /\ q[IndexOf(q, u)].userId = u
           /\ \A i \in 1..Len(q) : q[i].userId = u => i = IndexOf(q, u)
<1>1. Len(q) \in Nat /\ DOMAIN q = 1..Len(q)
  BY LenProperties DEF GoodQueue
<1>2. Positions(q, u) \in SUBSET Nat /\ Positions(q, u) # {}
  BY <1>1 DEF Positions, InQueue
<1>3. Min(Positions(q, u)) \in Positions(q, u)
  BY <1>2, MinFact
<1>4. IndexOf(q, u) \in Positions(q, u)
  BY <1>2, <1>3 DEF IndexOf
<1> QED
  BY <1>1, <1>4 DEF GoodQueue, Ordered, Positions

(* A removal leaves a good queue, and its user is gone from it.            *)
LEMMA RemoveWaitingFact ==
    ASSUME NEW q, GoodQueue(q), NEW u
    PROVE  /\ GoodQueue(RemoveWaiting(q, u))
           /\ ~InQueue(RemoveWaiting(q, u), u)
           /\ Len(RemoveWaiting(q, u)) <= Len(q)
<1>0. Len(q) \in Nat /\ DOMAIN q = 1..Len(q) /\ q \in Seq(QueueEntry)
  BY LenProperties DEF GoodQueue
<1>1. CASE ~InQueue(q, u)
  BY <1>0, <1>1 DEF RemoveWaiting
<1>2. CASE InQueue(q, u)
  <2> DEFINE k == IndexOf(q, u)
             r == RemoveAt(q, k)
             t == Renumber(r)
  <2>1. k \in 1..Len(q) /\ \A i \in 1..Len(q) : q[i].userId = u => i = k
    BY <1>2, IndexOfFact
  <2>2. RemoveWaiting(q, u) = t
    BY <1>2 DEF RemoveWaiting
  <2> HIDE DEF k
  <2>3. /\ r \in Seq(QueueEntry)
        /\ Len(r) = Len(q) - 1
        /\ \A i \in 1..(Len(q) - 1) : r[i] = IF i < k THEN q[i] ELSE q[i + 1]
    BY <1>0, <2>1, RemoveAtFact
  <2> HIDE DEF r
  <2>4. /\ t \in Seq(QueueEntry)
        /\ Len(t) = Len(q) - 1
        /\ \A i \in 1..(Len(q) - 1) :
              t[i] = [userId |-> r[i].userId, waitingNumber |-> i]
    BY <2>3, RenumberFact
  <2> HIDE DEF t
  <2>5. DOMAIN t = 1..(Len(q) - 1)
    BY <2>4, LenProperties
  <2> DEFINE old(i) == IF i < k THEN i ELSE i + 1
  <2>6. ASSUME NEW i \in 1..(Len(q) - 1)
        PROVE  /\ old(i) \in 1..Len(q) /\ old(i) # k
               /\ t[i].userId = q[old(i)].userId
               /\ t[i].waitingNumber = i
    <3>1. old(i) \in 1..Len(q) /\ old(i) # k
      BY <1>0, <2>1
    <3>2. r[i] = q[old(i)]
      BY <2>3
    <3>3. t[i] = [userId |-> r[i].userId, waitingNumber |-> i]
      BY <2>4
    <3> QED
      BY <3>1, <3>2, <3>3
  <2>7. ASSUME NEW i \in 1..(Len(q) - 1), NEW j \in 1..(Len(q) - 1),
               t[i].userId = t[j].userId
        PROVE  i = j
    <3>1. old(i) = old(j)
      BY <1>0, <2>6, <2>7 DEF GoodQueue, Ordered
    <3> QED
      BY <1>0, <2>1, <3>1
  <2>8. Ordered(t)
    BY <2>5, <2>6, <2>7 DEF Ordered
  <2>9. ~InQueue(t, u)
    BY <2>1, <2>5, <2>6 DEF InQueue, Positions
  <2> QED
    BY <1>0, <2>2, <2>4, <2>8, <2>9, MaxUsersAssumption DEF GoodQueue
<1> QED
  BY <1>1, <1>2

(* The call of the head leaves a good queue.                               *)
LEMMA TailFact ==
    ASSUME NEW q, GoodQueue(q), q # <<>>
    PROVE  /\ GoodQueue(Renumber(Tail(q)))
           /\ Len(Renumber(Tail(q))) <= Len(q)
           /\ Head(q).userId \in Users
<1>1. q \in Seq(QueueEntry) /\ Len(q) \in Nat /\ DOMAIN q = 1..Len(q)
  BY LenProperties DEF GoodQueue
<1> DEFINE s == Tail(q)
           t == Renumber(s)
<1>2. /\ s \in Seq(QueueEntry)
      /\ Len(s) = Len(q) - 1
      /\ \A i \in 1..Len(s) : s[i] = q[i + 1]
  BY <1>1, HeadTailProperties
<1>3. Head(q) \in QueueEntry
  BY <1>1, HeadTailProperties
<1> HIDE DEF s
<1>4. /\ t \in Seq(QueueEntry)
      /\ Len(t) = Len(s)
      /\ \A i \in 1..Len(s) : t[i] = [userId |-> s[i].userId, waitingNumber |-> i]
  BY <1>2, RenumberFact
<1> HIDE DEF t
<1>5. DOMAIN t = 1..Len(s)
  BY <1>4, LenProperties
<1>6. ASSUME NEW i \in 1..Len(s)
      PROVE  /\ i + 1 \in 1..Len(q)
             /\ t[i].userId = q[i + 1].userId
             /\ t[i].waitingNumber = i
  <2>1. i + 1 \in 1..Len(q)
    BY <1>1, <1>2
  <2>2. t[i] = [userId |-> s[i].userId, waitingNumber |-> i] /\ s[i] = q[i + 1]
    BY <1>2, <1>4
  <2> QED
    BY <2>1, <2>2
<1>7. Ordered(t)
  <2>1. ASSUME NEW i \in 1..Len(s), NEW j \in 1..Len(s), t[i].userId = t[j].userId
        PROVE  i = j
    <3>1. i + 1 = j + 1
      BY <1>1, <1>6, <2>1 DEF GoodQueue, Ordered
    <3> QED
      BY <3>1
  <2> QED
    BY <1>5, <1>6, <2>1 DEF Ordered
<1> QED
  BY <1>1, <1>2, <1>3, <1>4, <1>7, MaxUsersAssumption DEF GoodQueue, QueueEntry, s, t

(* A user who is not in the queue joins it at the end, or not at all.      *)
LEMMA AddWaitingFact ==
    ASSUME NEW q, GoodQueue(q), NEW u \in Users, ~InQueue(q, u)
    PROVE  /\ GoodQueue(AddWaiting(q, u))
           /\ AddWaiting(q, u) # <<>>
<1>1. q \in Seq(QueueEntry) /\ Len(q) \in Nat /\ DOMAIN q = 1..Len(q)
      /\ \A i \in 1..Len(q) : q[i] \in QueueEntry
  BY LenProperties, ElementOfSeq DEF GoodQueue
<1>2. CASE Len(q) < MAX_USERS
  <2> DEFINE e == [userId |-> u, waitingNumber |-> 0]
             a == Append(q, e)
             t == [a EXCEPT ![Len(a)].waitingNumber = Len(a)]
             last == [userId |-> u, waitingNumber |-> Len(q) + 1]
  <2>1. e \in QueueEntry /\ last \in QueueEntry
    BY <1>1 DEF QueueEntry
  <2>2. /\ a \in Seq(QueueEntry)
        /\ Len(a) = Len(q) + 1
        /\ \A i \in 1..Len(q) : a[i] = q[i]
        /\ a[Len(q) + 1] = e
    BY <1>1, <2>1, AppendProperties
  <2>3. t = [a EXCEPT ![Len(q) + 1] = last]
    BY <2>2
  <2>4. AddWaiting(q, u) = t
    BY <1>2 DEF AddWaiting
  <2> HIDE DEF a, t, e
  <2>5. /\ t \in Seq(QueueEntry)
        /\ Len(t) = Len(q) + 1
        /\ \A i \in 1..(Len(q) + 1) : t[i] = IF i = Len(q) + 1 THEN last ELSE a[i]
    BY <1>1, <2>1, <2>2, <2>3, ExceptSeq
  <2>6. /\ \A i \in 1..Len(q) : t[i] = q[i]
        /\ t[Len(q) + 1] = last
    BY <1>1, <2>2, <2>5
  <2>7. DOMAIN t = 1..(Len(q) + 1)
    BY <2>5, LenProperties
  <2>8. \A i \in 1..Len(q) : q[i].userId # u
    BY <1>1 DEF InQueue, Positions
  <2>9. Ordered(t)
    BY <1>1, <2>6, <2>7, <2>8 DEF GoodQueue, Ordered
  <2>10. t # <<>>
    BY <1>1, <2>5
  <2> QED
    BY <1>1, <1>2, <2>4, <2>5, <2>9, <2>10, MaxUsersAssumption DEF GoodQueue
<1>3. CASE ~(Len(q) < MAX_USERS)
  <2>1. Len(q) \in 1..Len(q) /\ q # <<>>
    BY <1>1, <1>3, MaxUsersAssumption
  <2>2. AddWaiting(q, u) = [q EXCEPT ![Len(q)].waitingNumber = Len(q)]
    BY <1>3 DEF AddWaiting
  <2>3. [q[Len(q)] EXCEPT !.waitingNumber = Len(q)] = q[Len(q)]
    BY <1>1, <2>1 DEF GoodQueue, Ordered, QueueEntry
  <2>4. AddWaiting(q, u) = q
    BY <1>1, <2>1, <2>2, <2>3
  <2> QED
    BY <2>1, <2>4
<1> QED
  BY <1>2, <1>3

(* updateAllWaitingUsers makes one data request per waiting user.          *)
LEMMA UpdateAllFact ==
    ASSUME NEW q, GoodQueue(q)
    PROVE  UpdateAll(q) \in Seq(Message)
<1>1. q \in Seq(QueueEntry) /\ Len(q) \in Nat /\ DOMAIN q = 1..Len(q)
      /\ \A i \in 1..Len(q) : q[i] \in QueueEntry
  BY LenProperties, ElementOfSeq DEF GoodQueue
<1>2. ASSUME NEW i \in 1..Len(q)
      PROVE  QueueMessage("QUEUE_UPDATE", q[i].userId, i, Len(q)) \in Message
  <2>1. q[i].userId \in Users
    BY <1>1 DEF QueueEntry
  <2> QED
    BY <1>1, <2>1 DEF QueueMessage, Message
<1>3. UpdateAll(q) = [i \in 1..Len(q) |-> QueueMessage("QUEUE_UPDATE", q[i].userId, i, Len(q))]
  BY <1>1 DEF UpdateAll
<1> HIDE DEF UpdateAll
<1>4. UpdateAll(q) \in [1..Len(q) -> Message]
  BY <1>2, <1>3
<1> QED
  BY <1>1, <1>4, IsASeq

(* What admitNextWaitingUser leaves behind.                                *)
LEMMA AdmitNextFact ==
    ASSUME NEW q, GoodQueue(q), NEW p \in Users \cup {NoUser}
    PROVE  /\ GoodQueue(AdmitNext(q, p).queue)
           /\ AdmitNext(q, p).pending \in Users \cup {NoUser}
           /\ AdmitNext(q, p).msgs \in Seq(Message)
<1>1. CASE q # <<>> /\ p = NoUser
  <2>1. GoodQueue(Renumber(Tail(q))) /\ Head(q).userId \in Users
    BY <1>1, TailFact
  <2>2. Notice("QUEUE_READY", Head(q).userId) \in Message
    BY <2>1 DEF Notice, Message
  <2>3. AdmitNext(q, p) = [queue   |-> Renumber(Tail(q)),
                           pending |-> Head(q).userId,
                           msgs    |-> <<Notice("QUEUE_READY", Head(q).userId)>>]
    BY <1>1 DEF AdmitNext
  <2> QED
    BY <2>1, <2>2, <2>3
<1>2. CASE ~(q # <<>> /\ p = NoUser)
  <2>1. AdmitNext(q, p) = [queue |-> q, pending |-> p, msgs |-> <<>>]
    BY <1>2 DEF AdmitNext
  <2> QED
    BY <2>1
<1> QED
  BY <1>1, <1>2

(* What handleQueueReadyTimeout leaves behind.                             *)
LEMMA CallExpiredFact ==
    ASSUME NEW q, GoodQueue(q), NEW p \in Users
    PROVE  /\ GoodQueue(CallExpired(q, p).queue)
           /\ CallExpired(q, p).pending \in Users \cup {NoUser}
           /\ CallExpired(q, p).msgs \in Seq(Message)
<1> DEFINE rest == RemoveWaiting(q, p)
           next == AdmitNext(rest, NoUser)
           msgs == <<QueueMessage("QUEUE_UPDATE", p, 0, 0)>> \o UpdateAll(rest) \o next.msgs
<1>1. GoodQueue(rest)
  BY RemoveWaitingFact
<1>2. /\ GoodQueue(next.queue)
      /\ next.pending \in Users \cup {NoUser}
      /\ next.msgs \in Seq(Message)
  BY <1>1, AdmitNextFact
<1>3. next = [queue |-> next.queue, pending |-> next.pending, msgs |-> next.msgs]
  BY DEF AdmitNext
<1>4. CallExpired(q, p) = [next EXCEPT !.msgs = msgs]
  BY <1>3 DEF CallExpired
<1>5. msgs \in Seq(Message)
  <2>1. QueueMessage("QUEUE_UPDATE", p, 0, 0) \in Message
    BY DEF QueueMessage, Message
  <2>2. UpdateAll(rest) \in Seq(Message)
    BY <1>1, UpdateAllFact
  <2> HIDE DEF rest, next
  <2>3. <<QueueMessage("QUEUE_UPDATE", p, 0, 0)>> \in Seq(Message)
    BY <2>1
  <2> QED
    BY <1>2, <2>2, <2>3, ConcatProperties
<1> HIDE DEF msgs, next
<1> QED
  BY <1>2, <1>3, <1>4, <1>5

-----------------------------------------------------------------------------
(* The lists of users *)

(* Who leaves is gone from the list; the others stay, once each.           *)
LEMMA RemoveActiveFact ==
    ASSUME NEW s \in Seq(Users), NoRepeats(s), NEW u
    PROVE  /\ RemoveActive(s, u) \in Seq(Users)
           /\ NoRepeats(RemoveActive(s, u))
           /\ ToSet(RemoveActive(s, u)) = ToSet(s) \ {u}
           /\ Len(RemoveActive(s, u)) <= Len(s)
<1>0. Len(s) \in Nat /\ DOMAIN s = 1..Len(s)
  BY LenProperties
<1>1. CASE u \notin ToSet(s) /\ RemoveFirst(s, u) = s
  BY <1>0, <1>1 DEF RemoveActive
<1>2. CASE \E k \in 1..Len(s) : s[k] = u /\ RemoveFirst(s, u) = RemoveAt(s, k)
  <2>1. PICK k \in 1..Len(s) : s[k] = u /\ RemoveFirst(s, u) = RemoveAt(s, k)
    BY <1>2
  <2> DEFINE r == RemoveAt(s, k)
             old(i) == IF i < k THEN i ELSE i + 1
             new(j) == IF j < k THEN j ELSE j - 1
  <2>2. /\ r \in Seq(Users)
        /\ Len(r) = Len(s) - 1
        /\ \A i \in 1..(Len(s) - 1) : r[i] = IF i < k THEN s[i] ELSE s[i + 1]
    BY RemoveAtFact
  <2> HIDE DEF r
  <2>3. DOMAIN r = 1..(Len(s) - 1)
    BY <2>2, LenProperties
  <2>4. ASSUME NEW i \in 1..(Len(s) - 1)
        PROVE  old(i) \in 1..Len(s) /\ old(i) # k /\ r[i] = s[old(i)]
    <3>1. old(i) \in 1..Len(s) /\ old(i) # k
      BY <1>0
    <3> QED
      BY <2>2, <3>1
  <2>5. ASSUME NEW i \in 1..(Len(s) - 1), NEW j \in 1..(Len(s) - 1), r[i] = r[j]
        PROVE  i = j
    <3>1. old(i) = old(j)
      BY <1>0, <2>4, <2>5 DEF NoRepeats
    <3> QED
      BY <1>0, <3>1
  <2>6. ToSet(r) \subseteq ToSet(s) \ {u}
    <3>1. ASSUME NEW i \in 1..(Len(s) - 1)
          PROVE  r[i] \in ToSet(s) /\ r[i] # u
      BY <1>0, <2>1, <2>4 DEF NoRepeats, ToSet
    <3> QED
      BY <2>3, <3>1 DEF ToSet
  <2>7. ASSUME NEW j \in 1..Len(s), s[j] # u
        PROVE  s[j] \in ToSet(r)
    <3>1. j # k
      BY <2>1, <2>7
    <3>2. new(j) \in 1..(Len(s) - 1) /\ old(new(j)) = j
      BY <1>0, <3>1
    <3>3. r[new(j)] = s[j]
      BY <2>4, <3>2
    <3> HIDE DEF new
    <3> QED
      BY <2>3, <3>2, <3>3 DEF ToSet
  <2>8. ToSet(s) \ {u} \subseteq ToSet(r)
    BY <1>0, <2>7 DEF ToSet
  <2> QED
    BY <1>0, <2>1, <2>2, <2>3, <2>5, <2>6, <2>8 DEF RemoveActive, NoRepeats, r
<1> QED
  BY <1>1, <1>2, RemoveFirstFact

(* Who is new to a list stands in it once.                                 *)
LEMMA AppendFact ==
    ASSUME NEW s \in Seq(Users), NoRepeats(s), NEW u \in Users, u \notin ToSet(s)
    PROVE  /\ Append(s, u) \in Seq(Users)
           /\ NoRepeats(Append(s, u))
           /\ ToSet(Append(s, u)) = ToSet(s) \cup {u}
           /\ Len(Append(s, u)) = Len(s) + 1
<1> DEFINE t == Append(s, u)
<1>1. Len(s) \in Nat /\ DOMAIN s = 1..Len(s)
  BY LenProperties
<1>2. /\ t \in Seq(Users)
      /\ Len(t) = Len(s) + 1
      /\ \A i \in 1..Len(s) : t[i] = s[i]
      /\ t[Len(s) + 1] = u
  BY AppendProperties
<1> HIDE DEF t
<1>3. DOMAIN t = 1..(Len(s) + 1)
  BY <1>2, LenProperties
<1>4. \A i \in 1..Len(s) : s[i] # u
  BY <1>1 DEF ToSet
<1>5. NoRepeats(t)
  BY <1>1, <1>2, <1>3, <1>4 DEF NoRepeats
<1>6. ToSet(t) = ToSet(s) \cup {u}
  BY <1>1, <1>2, <1>3 DEF ToSet
<1> QED
  BY <1>2, <1>5, <1>6 DEF t

-----------------------------------------------------------------------------
(* The inductive invariant *)

(* A step changes at most the entry of one booth, so it keeps IInv when    *)
(* that entry is again a good one.                                         *)
LEMMA OneBooth ==
    ASSUME IInv, NEW b \in Booths,
           NEW R \in Seq(Users), NEW A \in Seq(Users), NEW Q,
           NEW P \in Users \cup {NoUser}, NEW Z \in BOOLEAN, NEW M \in Seq(Message),
           NoRepeats(R), NoRepeats(A), ToSet(A) \subseteq ToSet(R),
           Len(A) <= MAX_BOOTH_CAPACITY, GoodQueue(Q),
           registered' = [registered EXCEPT ![b] = R],
           active' = [active EXCEPT ![b] = A],
           waiting' = [waiting EXCEPT ![b] = Q],
           pending' = [pending EXCEPT ![b] = P],
           quietMode' = [quietMode EXCEPT ![b] = Z],
           sent' = [sent EXCEPT ![b] = M]
    PROVE  IInv'
<1>1. TypeOK'
  BY DEF IInv, TypeOK, GoodQueue
<1>2. \A c \in Booths :
        /\ registered'[c] = IF c = b THEN R ELSE registered[c]
        /\ active'[c] = IF c = b THEN A ELSE active[c]
        /\ waiting'[c] = IF c = b THEN Q ELSE waiting[c]
  BY DEF IInv, TypeOK
<1>3. VisitOnce'
  BY <1>2 DEF IInv, VisitOnce
<1>4. QueueInOrder'
  BY <1>2 DEF IInv, QueueInOrder, GoodQueue
<1>5. WithinArrays'
  BY <1>2 DEF IInv, WithinArrays, CapacityKept, QueueFits, GoodQueue
<1> QED
  BY <1>1, <1>3, <1>4, <1>5 DEF IInv

(* What IInv says of one booth.                                            *)
LEMMA BoothAt ==
    ASSUME IInv, NEW b \in Booths
    PROVE  /\ registered[b] \in Seq(Users) /\ NoRepeats(registered[b])
           /\ active[b] \in Seq(Users) /\ NoRepeats(active[b])
           /\ ToSet(active[b]) \subseteq ToSet(registered[b])
           /\ Len(active[b]) \in Nat /\ Len(active[b]) <= MAX_BOOTH_CAPACITY
           /\ GoodQueue(waiting[b]) /\ Len(waiting[b]) \in Nat
           /\ pending[b] \in Users \cup {NoUser}
           /\ quietMode[b] \in BOOLEAN
           /\ registered = [registered EXCEPT ![b] = registered[b]]
           /\ active = [active EXCEPT ![b] = active[b]]
           /\ waiting = [waiting EXCEPT ![b] = waiting[b]]
           /\ pending = [pending EXCEPT ![b] = pending[b]]
           /\ quietMode = [quietMode EXCEPT ![b] = quietMode[b]]
<1>1. /\ registered \in [Booths -> Seq(Users)]
      /\ active \in [Booths -> Seq(Users)]
      /\ waiting \in [Booths -> Seq(QueueEntry)]
      /\ pending \in [Booths -> Users \cup {NoUser}]
      /\ quietMode \in [Booths -> BOOLEAN]
  BY DEF IInv, TypeOK
<1>2. Len(active[b]) \in Nat /\ Len(waiting[b]) \in Nat
  BY <1>1, LenProperties
<1>3. GoodQueue(waiting[b])
  BY <1>1 DEF IInv, QueueInOrder, WithinArrays, QueueFits, GoodQueue
<1>4. /\ NoRepeats(registered[b]) /\ NoRepeats(active[b])
      /\ ToSet(active[b]) \subseteq ToSet(registered[b])
      /\ Len(active[b]) <= MAX_BOOTH_CAPACITY
  BY DEF IInv, VisitOnce, WithinArrays, CapacityKept
<1>5. /\ registered = [registered EXCEPT ![b] = registered[b]]
      /\ active = [active EXCEPT ![b] = active[b]]
      /\ waiting = [waiting EXCEPT ![b] = waiting[b]]
      /\ pending = [pending EXCEPT ![b] = pending[b]]
      /\ quietMode = [quietMode EXCEPT ![b] = quietMode[b]]
  BY <1>1
<1> QED
  BY <1>1, <1>2, <1>3, <1>4, <1>5

(* The empty lists of L3_initFSM are good.                                 *)
LEMMA InitIInv == Init => IInv
<1> SUFFICES ASSUME Init PROVE IInv
  OBVIOUS
<1>1. DOMAIN <<>> = {} /\ Len(<<>>) = 0
  OBVIOUS
<1>2. TypeOK
  BY DEF Init, TypeOK, Message
<1>3. VisitOnce
  BY <1>1 DEF Init, VisitOnce, NoRepeats, ToSet
<1>4. QueueInOrder
  BY <1>1 DEF Init, QueueInOrder, Ordered
<1>5. WithinArrays
  BY <1>1, CapacityAssumption, MaxUsersAssumption DEF Init, WithinArrays, CapacityKept, QueueFits
<1> QED
  BY <1>2, <1>3, <1>4, <1>5 DEF IInv

(* The handlers that only answer: they change sent and the quiet mode.     *)
LEMMA AnswersKeepIInv ==
    ASSUME IInv, NEW b \in Booths, NEW M \in Seq(Message), NEW Z \in BOOLEAN,
           Send(b, M), quietMode' = [quietMode EXCEPT ![b] = Z],
           UNCHANGED <<registered, active, waiting, pending>>
    PROVE  IInv'
<1>1. sent' = [sent EXCEPT ![b] = M]
  BY DEF Send
<1> QED
  BY <1>1, BoothAt, OneBooth

(* Every handler that changes no list keeps IInv: its messages are well    *)
(* formed.                                                                 *)
LEMMA ReplyStep ==
    ASSUME IInv, NEW b \in Booths,
           \/ AutoAnnounce(b) \/ AnnounceKey(b) \/ QuietKey(b) \/ AdminMessage(b)
           \/ \E u \in Users : \/ BoothScan(b, u) \/ ConnectRequest(b, u)
                               \/ OnlyLogged(b, u) \/ ChatMessage(b, u)
                               \/ RegisterRejected(b, u) \/ RegisterStillQueued(b, u)
    PROVE  IInv'
<1>0. /\ active[b] \in Seq(Users) /\ Len(active[b]) \in Nat
      /\ GoodQueue(waiting[b]) /\ Len(waiting[b]) \in Nat
      /\ quietMode[b] \in BOOLEAN
      /\ quietMode = [quietMode EXCEPT ![b] = quietMode[b]]
  BY BoothAt
<1>1. ASSUME NEW d \in Users \cup {Broadcast}, NEW t \in {"BOOTH_ANNOUNCE", "BOOTH_INFO"}
      PROVE  <<BoothStatus(t, b, d)>> \in Seq(Message)
  BY <1>0 DEF BoothStatus, Message
<1>2. CASE AutoAnnounce(b) \/ AnnounceKey(b)
  BY <1>0, <1>1, <1>2, AnswersKeepIInv DEF AutoAnnounce, AnnounceKey
<1>3. CASE QuietKey(b)
  <2>1. Send(b, <<>>) /\ <<>> \in Seq(Message)
    BY <1>3 DEF QuietKey
  <2>2. CASE quietMode[b] = TRUE
    <3>1. quietMode' = [quietMode EXCEPT ![b] = FALSE]
      BY <1>3, <2>2 DEF QuietKey
    <3> QED
      BY <1>3, <2>1, <3>1, AnswersKeepIInv DEF QuietKey
  <2>3. CASE quietMode[b] = FALSE
    <3>1. quietMode' = [quietMode EXCEPT ![b] = TRUE]
      BY <1>3, <2>3 DEF QuietKey
    <3> QED
      BY <1>3, <2>1, <3>1, AnswersKeepIInv DEF QuietKey
  <2> QED
    BY <1>0, <2>2, <2>3
<1>4. CASE AdminMessage(b)
  <2> DEFINE M == [i \in DOMAIN active[b] |-> Notice("ADMIN_MESSAGE", active[b][i])]
  <2>1. DOMAIN active[b] = 1..Len(active[b]) /\ \A i \in 1..Len(active[b]) : active[b][i] \in Users
    BY <1>0, LenProperties, ElementOfSeq
  <2>2. \A i \in 1..Len(active[b]) : Notice("ADMIN_MESSAGE", active[b][i]) \in Message
    BY <2>1 DEF Notice, Message
  <2>3. M \in [1..Len(active[b]) -> Message]
    BY <2>1, <2>2
  <2>4. M \in Seq(Message)
    BY <1>0, <2>3, IsASeq
  <2> QED
    BY <1>0, <1>4, <2>4, AnswersKeepIInv DEF AdminMessage
<1>5. ASSUME NEW u \in Users, BoothScan(b, u) \/ ConnectRequest(b, u) \/ OnlyLogged(b, u)
      PROVE  IInv'
  <2>1. <<>> \in Seq(Message)
    OBVIOUS
  <2> QED
    BY <1>0, <1>1, <1>5, <2>1, AnswersKeepIInv DEF BoothScan, ConnectRequest, OnlyLogged
<1>6. ASSUME NEW u \in Users, ChatMessage(b, u)
      PROVE  IInv'
  <2> DEFINE others == RemoveActive(active[b], u)
             M == [i \in DOMAIN others |->
                     [type |-> "CHAT_MESSAGE", dest |-> others[i], sender |-> u]]
  <2>1. others \in Seq(Users)
    BY BoothAt, RemoveActiveFact
  <2> HIDE DEF others
  <2>2. Len(others) \in Nat /\ DOMAIN others = 1..Len(others)
        /\ \A i \in 1..Len(others) : others[i] \in Users
    BY <2>1, LenProperties, ElementOfSeq
  <2>3. M \in [1..Len(others) -> Message]
    BY <2>2 DEF Message
  <2>4. M \in Seq(Message) /\ <<>> \in Seq(Message)
    BY <2>2, <2>3, IsASeq
  <2>5. Send(b, M) \/ Send(b, <<>>)
    BY <1>6 DEF ChatMessage, others
  <2> QED
    BY <1>0, <1>6, <2>4, <2>5, AnswersKeepIInv DEF ChatMessage
<1>7. ASSUME NEW u \in Users, RegisterRejected(b, u)
      PROVE  IInv'
  <2>1. <<RegisterResponse(u, "ALREADY_USED")>> \in Seq(Message)
    BY DEF RegisterResponse, Message
  <2> QED
    BY <1>0, <1>7, <2>1, AnswersKeepIInv DEF RegisterRejected
<1>8. ASSUME NEW u \in Users, RegisterStillQueued(b, u)
      PROVE  IInv'
  <2> DEFINE k == IndexOf(waiting[b], u)
             M == <<RegisterResponse(u, "FULL_WAITING"),
                    QueueMessage("QUEUE_INFO", u, k, Len(waiting[b]))>>
  <2>1. k \in Nat
    BY <1>0, <1>8, IndexOfFact DEF RegisterStillQueued
  <2> HIDE DEF k
  <2>2. M \in Seq(Message)
    <3>1. RegisterResponse(u, "FULL_WAITING") \in Message
      BY DEF RegisterResponse, Message
    <3>2. QueueMessage("QUEUE_INFO", u, k, Len(waiting[b])) \in Message
      BY <1>0, <2>1 DEF QueueMessage, Message
    <3> QED
      BY <3>1, <3>2
  <2> QED
    BY <1>0, <1>8, <2>2, AnswersKeepIInv DEF RegisterStillQueued, k
<1> QED
  BY <1>2, <1>3, <1>4, <1>5, <1>6, <1>7, <1>8

(* A session that ends leaves good lists, whatever then happens to the     *)
(* queue.                                                                  *)
LEMMA DepartureKeepsIInv ==
    ASSUME IInv, NEW b \in Booths, NEW u \in Users,
           NEW Q, GoodQueue(Q), NEW P \in Users \cup {NoUser}, NEW M \in Seq(Message),
           active' = [active EXCEPT ![b] = RemoveActive(active[b], u)],
           waiting' = [waiting EXCEPT ![b] = Q],
           pending' = [pending EXCEPT ![b] = P],
           Send(b, M),
           UNCHANGED <<registered, quietMode>>
    PROVE  IInv'
<1> DEFINE A == RemoveActive(active[b], u)
<1>1. /\ A \in Seq(Users) /\ NoRepeats(A)
      /\ ToSet(A) \subseteq ToSet(registered[b])
      /\ Len(A) <= MAX_BOOTH_CAPACITY
  <2>1. /\ A \in Seq(Users) /\ NoRepeats(A) /\ ToSet(A) = ToSet(active[b]) \ {u}
        /\ Len(A) <= Len(active[b])
    BY BoothAt, RemoveActiveFact
  <2>2. Len(A) \in Nat
    BY <2>1, LenProperties
  <2>3. /\ Len(active[b]) \in Nat /\ Len(active[b]) <= MAX_BOOTH_CAPACITY
        /\ ToSet(active[b]) \subseteq ToSet(registered[b])
    BY BoothAt
  <2> HIDE DEF A
  <2>4. Len(A) <= MAX_BOOTH_CAPACITY
    BY <2>1, <2>2, <2>3, CapacityAssumption
  <2> QED
    BY <2>1, <2>3, <2>4
<1>2. sent' = [sent EXCEPT ![b] = M]
  BY DEF Send
<1> HIDE DEF A
<1>3. active' = [active EXCEPT ![b] = A]
  BY DEF A
<1>4. /\ registered' = [registered EXCEPT ![b] = registered[b]]
      /\ quietMode' = [quietMode EXCEPT ![b] = quietMode[b]]
      /\ registered[b] \in Seq(Users) /\ NoRepeats(registered[b])
      /\ quietMode[b] \in BOOLEAN
  BY BoothAt
<1> QED
  BY <1>1, <1>2, <1>3, <1>4, OneBooth

(* A change of the queue and the call alone.                               *)
LEMMA QueueKeepsIInv ==
    ASSUME IInv, NEW b \in Booths,
           NEW Q, GoodQueue(Q), NEW P \in Users \cup {NoUser}, NEW M \in Seq(Message),
           waiting' = [waiting EXCEPT ![b] = Q],
           pending' = [pending EXCEPT ![b] = P],
           Send(b, M),
           UNCHANGED <<registered, active, quietMode>>
    PROVE  IInv'
<1>1. sent' = [sent EXCEPT ![b] = M]
  BY DEF Send
<1> QED
  BY <1>1, BoothAt, OneBooth

(* Decline, departure from the queue, and the request that finds it full.  *)
LEMMA QueueStep ==
    ASSUME IInv, NEW b \in Booths, NEW u \in Users,
           UserResponseNo(b, u) \/ QueueLeave(b, u) \/ RegisterQueued(b, u)
    PROVE  IInv'
<1>0. /\ GoodQueue(waiting[b])
      /\ pending[b] \in Users \cup {NoUser}
      /\ pending = [pending EXCEPT ![b] = pending[b]]
  BY BoothAt
<1> DEFINE rest == RemoveWaiting(waiting[b], u)
<1>1. GoodQueue(rest) /\ UpdateAll(rest) \in Seq(Message)
  BY <1>0, RemoveWaitingFact, UpdateAllFact
<1>2. CASE UserResponseNo(b, u)
  <2>1. /\ waiting' = [waiting EXCEPT ![b] = rest]
        /\ pending' = [pending EXCEPT ![b] = NoUser]
        /\ Send(b, UpdateAll(rest))
        /\ UNCHANGED <<registered, active, quietMode>>
    BY <1>2 DEF UserResponseNo
  <2> HIDE DEF rest
  <2> QED
    BY <1>1, <2>1, QueueKeepsIInv
<1>3. CASE QueueLeave(b, u)
  <2>1. /\ waiting' = [waiting EXCEPT ![b] = rest]
        /\ pending' = pending
        /\ Send(b, UpdateAll(rest))
        /\ UNCHANGED <<registered, active, quietMode>>
    BY <1>3 DEF QueueLeave
  <2> HIDE DEF rest
  <2>2. pending' = [pending EXCEPT ![b] = pending[b]]
    BY <1>0, <2>1
  <2> QED
    BY <1>0, <1>1, <2>1, <2>2, QueueKeepsIInv
<1>4. CASE RegisterQueued(b, u)
  <2> DEFINE q == AddWaiting(waiting[b], u)
             M == <<RegisterResponse(u, "FULL_WAITING"),
                    QueueMessage("QUEUE_INFO", u, q[Len(q)].waitingNumber, Len(q))>>
  <2>1. GoodQueue(q) /\ q # <<>>
    BY <1>0, <1>4, AddWaitingFact DEF RegisterQueued
  <2>2. /\ waiting' = [waiting EXCEPT ![b] = q]
        /\ pending' = [pending EXCEPT ![b] = pending[b]]
        /\ Send(b, M)
        /\ UNCHANGED <<registered, active, quietMode>>
    BY <1>0, <1>4 DEF RegisterQueued
  <2> HIDE DEF q
  <2>3. M \in Seq(Message)
    <3>1. Len(q) \in Nat /\ DOMAIN q = 1..Len(q) /\ q \in Seq(QueueEntry)
      BY <2>1, LenProperties DEF GoodQueue
    <3>2. Len(q) \in 1..Len(q)
      BY <2>1, <3>1, EmptySeq
    <3>3. q[Len(q)].waitingNumber \in Nat
      BY <2>1, <3>1, <3>2 DEF GoodQueue, Ordered
    <3>4. RegisterResponse(u, "FULL_WAITING") \in Message
      BY DEF RegisterResponse, Message
    <3>5. QueueMessage("QUEUE_INFO", u, q[Len(q)].waitingNumber, Len(q)) \in Message
      BY <3>1, <3>3 DEF QueueMessage, Message
    <3> QED
      BY <3>4, <3>5
  <2> HIDE DEF M
  <2> QED
    BY <1>0, <2>1, <2>2, <2>3, QueueKeepsIInv
<1> QED
  BY <1>2, <1>3, <1>4

(* The end of a session, at the user's request or at its time, and of a    *)
(* call.                                                                   *)
LEMMA EndStep ==
    ASSUME IInv, NEW b \in Booths,
           \/ QueueReadyTimeout(b)
           \/ \E u \in Users : ExitRequest(b, u) \/ SessionTimeout(b, u) \/ BothTimeouts(b, u)
    PROVE  IInv'
<1>0. GoodQueue(waiting[b]) /\ pending[b] \in Users \cup {NoUser}
  BY BoothAt
<1> DEFINE next == AdmitNext(waiting[b], pending[b])
           late == CallExpired(waiting[b], pending[b])
<1>1. /\ GoodQueue(next.queue)
      /\ next.pending \in Users \cup {NoUser}
      /\ next.msgs \in Seq(Message)
  BY <1>0, AdmitNextFact
<1>2. ASSUME pending[b] # NoUser
      PROVE  /\ GoodQueue(late.queue)
             /\ late.pending \in Users \cup {NoUser}
             /\ late.msgs \in Seq(Message)
  BY <1>0, <1>2, CallExpiredFact
<1>3. ASSUME NEW u \in Users, NEW M \in Seq(Message)
      PROVE  /\ <<Notice("EXIT_RESPONSE", u)>> \o M \in Seq(Message)
             /\ <<Notice("TIMEOUT_ALERT", u)>> \o M \in Seq(Message)
  <2>1. /\ <<Notice("EXIT_RESPONSE", u)>> \in Seq(Message)
        /\ <<Notice("TIMEOUT_ALERT", u)>> \in Seq(Message)
    BY DEF Notice, Message
  <2> QED
    BY <2>1, ConcatProperties
<1>4. CASE QueueReadyTimeout(b)
  <2>1. /\ pending[b] # NoUser
        /\ waiting' = [waiting EXCEPT ![b] = late.queue]
        /\ pending' = [pending EXCEPT ![b] = late.pending]
        /\ Send(b, late.msgs)
        /\ UNCHANGED <<registered, active, quietMode>>
    BY <1>4 DEF QueueReadyTimeout, SetQueue
  <2> HIDE DEF late
  <2> QED
    BY <1>2, <2>1, QueueKeepsIInv
<1>5. ASSUME NEW u \in Users, ExitRequest(b, u)
      PROVE  IInv'
  <2>1. /\ active' = [active EXCEPT ![b] = RemoveActive(active[b], u)]
        /\ waiting' = [waiting EXCEPT ![b] = next.queue]
        /\ pending' = [pending EXCEPT ![b] = next.pending]
        /\ Send(b, <<Notice("EXIT_RESPONSE", u)>> \o next.msgs)
        /\ UNCHANGED <<registered, quietMode>>
    BY <1>5 DEF ExitRequest, SetQueue
  <2> HIDE DEF next
  <2> QED
    BY <1>1, <1>3, <2>1, DepartureKeepsIInv
<1>6. ASSUME NEW u \in Users, SessionTimeout(b, u)
      PROVE  IInv'
  <2>1. /\ active' = [active EXCEPT ![b] = RemoveActive(active[b], u)]
        /\ waiting' = [waiting EXCEPT ![b] = next.queue]
        /\ pending' = [pending EXCEPT ![b] = next.pending]
        /\ Send(b, <<Notice("TIMEOUT_ALERT", u)>> \o next.msgs)
        /\ UNCHANGED <<registered, quietMode>>
    BY <1>6 DEF SessionTimeout, SetQueue
  <2> HIDE DEF next
  <2> QED
    BY <1>1, <1>3, <2>1, DepartureKeepsIInv
<1>7. ASSUME NEW u \in Users, BothTimeouts(b, u)
      PROVE  IInv'
  <2>1. /\ pending[b] # NoUser
        /\ active' = [active EXCEPT ![b] = RemoveActive(active[b], u)]
        /\ waiting' = [waiting EXCEPT ![b] = late.queue]
        /\ pending' = [pending EXCEPT ![b] = late.pending]
        /\ Send(b, <<Notice("TIMEOUT_ALERT", u)>> \o late.msgs)
        /\ UNCHANGED <<registered, quietMode>>
    BY <1>7 DEF BothTimeouts, SetQueue
  <2> HIDE DEF late
  <2> QED
    BY <1>2, <1>3, <2>1, DepartureKeepsIInv
<1> QED
  BY <1>4, <1>5, <1>6, <1>7

(* An admission appends to both lists a user who is in neither, and there  *)
(* is room for him.                                                        *)
LEMMA AdmissionStep ==
    ASSUME IInv, NEW b \in Booths, NEW u \in Users, RegisterAdmitted(b, u)
    PROVE  /\ IInv'
           /\ u \notin ToSet(registered[b])
           /\ Len(active[b]) < MAX_BOOTH_CAPACITY
           /\ active' = [active EXCEPT ![b] = Append(active[b], u)]
           /\ registered' = [registered EXCEPT ![b] = Append(registered[b], u)]
<1> DEFINE R == Append(registered[b], u)
           A == Append(active[b], u)
           rest == RemoveWaiting(waiting[b], u)
           answer == <<RegisterResponse(u, "SUCCESS")>>
<1>1. u \notin ToSet(registered[b]) /\ u \notin ToSet(active[b])
  BY BoothAt DEF RegisterAdmitted
<1>2. Len(active[b]) \in Nat /\ Len(active[b]) < MAX_BOOTH_CAPACITY
  BY BoothAt, CapacityAssumption DEF RegisterAdmitted, Full
<1>3. AddActive(active[b], u) = A
  <2>1. Len(active[b]) < MAX_USERS
    BY <1>2, CapacityAssumption, MaxUsersAssumption
  <2> QED
    BY <1>1, <2>1 DEF AddActive
<1>4. /\ registered' = [registered EXCEPT ![b] = R]
      /\ active' = [active EXCEPT ![b] = A]
      /\ quietMode' = quietMode
  BY <1>3 DEF RegisterAdmitted
<1>5. /\ R \in Seq(Users) /\ NoRepeats(R) /\ A \in Seq(Users) /\ NoRepeats(A)
      /\ ToSet(A) \subseteq ToSet(R) /\ Len(A) <= MAX_BOOTH_CAPACITY
  <2>1. /\ R \in Seq(Users) /\ NoRepeats(R) /\ ToSet(R) = ToSet(registered[b]) \cup {u}
    BY <1>1, BoothAt, AppendFact
  <2>2. /\ A \in Seq(Users) /\ NoRepeats(A) /\ ToSet(A) = ToSet(active[b]) \cup {u}
        /\ Len(A) = Len(active[b]) + 1
    BY <1>1, BoothAt, AppendFact
  <2>3. Len(A) <= MAX_BOOTH_CAPACITY
    BY <1>2, <2>2, CapacityAssumption
  <2> HIDE DEF R, A
  <2> QED
    BY <2>1, <2>2, <2>3, BoothAt
<1>6. GoodQueue(rest) /\ UpdateAll(rest) \in Seq(Message) /\ answer \in Seq(Message)
  <2>1. answer \in Seq(Message)
    BY DEF RegisterResponse, Message
  <2> QED
    BY <2>1, BoothAt, RemoveWaitingFact, UpdateAllFact
<1>7. \E Q, P, M : /\ GoodQueue(Q) /\ P \in Users \cup {NoUser} /\ M \in Seq(Message)
                   /\ waiting' = [waiting EXCEPT ![b] = Q]
                   /\ pending' = [pending EXCEPT ![b] = P]
                   /\ sent' = [sent EXCEPT ![b] = M]
  <2>1. CASE pending[b] = u
    <3>1. /\ waiting' = [waiting EXCEPT ![b] = rest]
          /\ pending' = [pending EXCEPT ![b] = NoUser]
          /\ sent' = [sent EXCEPT ![b] = UpdateAll(rest) \o answer]
      BY <2>1 DEF RegisterAdmitted, SetQueue, Send
    <3> HIDE DEF rest, answer
    <3>2. UpdateAll(rest) \o answer \in Seq(Message)
      BY <1>6, ConcatProperties
    <3> QED
      BY <1>6, <3>1, <3>2
  <2>2. CASE pending[b] # u
    <3>1. /\ UNCHANGED <<waiting, pending>>
          /\ sent' = [sent EXCEPT ![b] = answer]
      BY <2>2 DEF RegisterAdmitted, SetQueue, Send
    <3> HIDE DEF rest, answer
    <3>2. /\ waiting' = [waiting EXCEPT ![b] = waiting[b]] /\ GoodQueue(waiting[b])
          /\ pending' = [pending EXCEPT ![b] = pending[b]]
          /\ pending[b] \in Users \cup {NoUser}
      BY <3>1, BoothAt
    <3> QED
      BY <1>6, <3>1, <3>2
  <2> QED
    BY <2>1, <2>2
<1>8. quietMode' = [quietMode EXCEPT ![b] = quietMode[b]] /\ quietMode[b] \in BOOLEAN
  BY <1>4, BoothAt
<1> HIDE DEF R, A
<1>9. IInv'
  BY <1>4, <1>5, <1>7, <1>8, OneBooth
<1> QED
  BY <1>1, <1>2, <1>4, <1>9 DEF R, A

(* IInv is inductive.                                                      *)
LEMMA NextIInv == IInv /\ [Next]_vars => IInv'
<1> SUFFICES ASSUME IInv, [Next]_vars PROVE IInv'
  OBVIOUS
<1>1. CASE UNCHANGED vars
  BY <1>1 DEF vars, IInv, TypeOK, VisitOnce, QueueInOrder, WithinArrays, CapacityKept,
                   QueueFits
<1>2. ASSUME NEW b \in Booths, NEW u \in Users, Receive(b, u)
      PROVE  IInv'
  BY <1>2, ReplyStep, QueueStep, EndStep, AdmissionStep DEF Receive
<1>3. ASSUME NEW b \in Booths, NEW u \in Users, SessionTimeout(b, u) \/ BothTimeouts(b, u)
      PROVE  IInv'
  BY <1>3, EndStep
<1>4. ASSUME NEW b \in Booths,
             \/ QueueReadyTimeout(b) \/ AutoAnnounce(b)
             \/ AnnounceKey(b) \/ QuietKey(b) \/ AdminMessage(b)
      PROVE  IInv'
  BY <1>4, ReplyStep, EndStep
<1> QED
  BY <1>1, <1>2, <1>3, <1>4 DEF Next

(* Type correctness and the safety of the lists, for every number of       *)
(* booths and users and every capacity.                                    *)
THEOREM InductiveInvariant == Spec => []IInv
<1> QED
  BY InitIInv, NextIInv, PTL DEF Spec

-----------------------------------------------------------------------------
(* The safety properties that the runs check *)

(* Every variable always has its type: the handlers never put anything but *)
(* a user's ID into a list, nor anything but a message into L2's hands.    *)
THEOREM TypeCorrect == Spec => []TypeOK
<1>1. IInv => TypeOK
  BY DEF IInv
<1> QED
  BY <1>1, InductiveInvariant, PTL

(* Nobody is ever registered or inside twice (README.md, one visit each).  *)
THEOREM OneVisitEach == Spec => []VisitOnce
<1>1. IInv => VisitOnce
  BY DEF IInv
<1> QED
  BY <1>1, InductiveInvariant, PTL

(* The queue holds each user once and its stored numbers are the places.   *)
THEOREM QueueAlwaysInOrder == Spec => []QueueInOrder
<1>1. IInv => QueueInOrder
  BY DEF IInv
<1> QED
  BY <1>1, InductiveInvariant, PTL

(* activeList and waitingQueue are never written past their end, whatever  *)
(* the number of users: the test of the REGISTER_REQUEST handler keeps the *)
(* one, and the untold refusal of L3_addUserToList the other.              *)
THEOREM ArraysSuffice == Spec => []WithinArrays
<1>1. IInv => WithinArrays
  BY DEF IInv
<1> QED
  BY <1>1, InductiveInvariant, PTL

-----------------------------------------------------------------------------
(* The booth implements module Visit *)

(* A list has at least as many places as elements.                         *)
LEMMA ToSetCardinality ==
    ASSUME NEW s \in Seq(Users)
    PROVE  Cardinality(ToSet(s)) \in Nat /\ Cardinality(ToSet(s)) <= Len(s)
<1>1. Len(s) \in Nat /\ DOMAIN s = 1..Len(s) /\ s \in [1..Len(s) -> Users]
  BY LenProperties
<1>2. s \in Surjection(1..Len(s), ToSet(s))
  BY <1>1 DEF Surjection, ToSet
<1>3. IsFiniteSet(1..Len(s)) /\ Cardinality(1..Len(s)) = Len(s)
  <2>1. 1 \in Int /\ Len(s) \in Int
    BY <1>1
  <2>2. /\ IsFiniteSet(1..Len(s))
        /\ Cardinality(1..Len(s)) = IF 1 > Len(s) THEN 0 ELSE Len(s) - 1 + 1
    BY <2>1, FS_Interval
  <2> QED
    BY <1>1, <2>2
<1>4. IsFiniteSet(ToSet(s)) /\ Cardinality(ToSet(s)) <= Cardinality(1..Len(s))
  BY <1>2, <1>3, FS_Surjection
<1>5. Cardinality(ToSet(s)) \in Nat
  BY <1>4, FS_CardinalityType
<1> QED
  BY <1>3, <1>4, <1>5

Inside == [b \in Booths |-> ToSet(active[b])]
Visited == [b \in Booths |-> ToSet(registered[b])]

(* An admission is an Enter of Visit. *)
LEMMA AdmissionEnters ==
    ASSUME IInv, NEW b \in Booths, NEW u \in Users, RegisterAdmitted(b, u)
    PROVE  Visits!Enter(b, u)
<1>1. /\ u \notin ToSet(registered[b])
      /\ Len(active[b]) < MAX_BOOTH_CAPACITY
      /\ active' = [active EXCEPT ![b] = Append(active[b], u)]
      /\ registered' = [registered EXCEPT ![b] = Append(registered[b], u)]
  BY AdmissionStep
<1>2. /\ active \in [Booths -> Seq(Users)] /\ registered \in [Booths -> Seq(Users)]
  BY DEF IInv, TypeOK
<1>3. ToSet(Append(active[b], u)) = ToSet(active[b]) \cup {u}
  BY <1>1, BoothAt, AppendFact
<1>4. ToSet(Append(registered[b], u)) = ToSet(registered[b]) \cup {u}
  BY <1>1, BoothAt, AppendFact
<1>5. Inside' = [Inside EXCEPT ![b] = Inside[b] \cup {u}]
  BY <1>1, <1>2, <1>3 DEF Inside
<1>6. Visited' = [Visited EXCEPT ![b] = Visited[b] \cup {u}]
  BY <1>1, <1>2, <1>4 DEF Visited
<1>7. u \notin Visited[b]
  BY <1>1 DEF Visited
<1>8. Cardinality(Inside[b]) < MAX_BOOTH_CAPACITY
  <2>1. Cardinality(ToSet(active[b])) \in Nat
        /\ Cardinality(ToSet(active[b])) <= Len(active[b]) /\ Len(active[b]) \in Nat
    BY BoothAt, ToSetCardinality
  <2>2. Inside[b] = ToSet(active[b])
    BY DEF Inside
  <2> QED
    BY <1>1, <2>1, <2>2, CapacityAssumption
<1>9. Visits!Cardinality(Inside[b]) = Cardinality(Inside[b])
  BY DEF Visits!Cardinality, Cardinality
<1> QED
  BY <1>5, <1>6, <1>7, <1>8, <1>9 DEF Visits!Enter, Inside, Visited

(* An exit or an expiry is a Leave of Visit. *)
LEMMA DepartureLeaves ==
    ASSUME IInv, NEW b \in Booths, NEW u \in Users,
           ExitRequest(b, u) \/ SessionTimeout(b, u) \/ BothTimeouts(b, u)
    PROVE  Visits!Leave(b, u)
<1>1. /\ u \in ToSet(active[b])
      /\ active' = [active EXCEPT ![b] = RemoveActive(active[b], u)]
      /\ UNCHANGED registered
  BY DEF ExitRequest, SessionTimeout, BothTimeouts
<1>2. active \in [Booths -> Seq(Users)]
  BY DEF IInv, TypeOK
<1>3. ToSet(RemoveActive(active[b], u)) = ToSet(active[b]) \ {u}
  BY BoothAt, RemoveActiveFact
<1>4. Inside' = [Inside EXCEPT ![b] = Inside[b] \ {u}]
  BY <1>1, <1>2, <1>3 DEF Inside
<1>5. UNCHANGED Visited /\ u \in Inside[b]
  BY <1>1 DEF Inside, Visited
<1> QED
  BY <1>4, <1>5 DEF Visits!Leave, Inside, Visited

(* What the booth does is what Visit allows: whatever happens to queue,    *)
(* calls and messages, users enter once, into a free place, and leave.     *)
THEOREM BoothImplementsVisit == Spec => Visits!Spec
<1>1. Init => Visits!Init
  <2>1. ToSet(<<>>) = {}
    BY DEF ToSet
  <2> QED
    BY <2>1 DEF Init, Visits!Init
<1>2. IInv /\ [Next]_vars => [Visits!Next]_(Visits!vars)
  <2> SUFFICES ASSUME IInv, [Next]_vars PROVE [Visits!Next]_(Visits!vars)
    OBVIOUS
  <2>1. ASSUME UNCHANGED <<active, registered>>
        PROVE  UNCHANGED Visits!vars
    BY <2>1 DEF Visits!vars
  <2>2. CASE UNCHANGED vars
    BY <2>1, <2>2 DEF vars
  <2>3. ASSUME NEW b \in Booths, NEW u \in Users, Receive(b, u)
        PROVE  [Visits!Next]_(Visits!vars)
    <3>1. CASE RegisterAdmitted(b, u)
      BY <3>1, AdmissionEnters DEF Visits!Next
    <3>2. CASE ExitRequest(b, u)
      BY <3>2, DepartureLeaves DEF Visits!Next
    <3>3. CASE ~RegisterAdmitted(b, u) /\ ~ExitRequest(b, u)
      <4>1. UNCHANGED <<active, registered>>
        BY <2>3, <3>3 DEF Receive, BoothScan, ConnectRequest, UserResponseNo, OnlyLogged,
              QueueLeave, ChatMessage, RegisterRejected, RegisterQueued, RegisterStillQueued
      <4> QED
        BY <2>1, <4>1
    <3> QED
      BY <3>1, <3>2, <3>3
  <2>4. ASSUME NEW b \in Booths, NEW u \in Users,
               SessionTimeout(b, u) \/ BothTimeouts(b, u)
        PROVE  [Visits!Next]_(Visits!vars)
    BY <2>4, DepartureLeaves DEF Visits!Next
  <2>5. ASSUME NEW b \in Booths,
               \/ QueueReadyTimeout(b) \/ AutoAnnounce(b)
               \/ AnnounceKey(b) \/ QuietKey(b) \/ AdminMessage(b)
        PROVE  [Visits!Next]_(Visits!vars)
    <3>1. UNCHANGED <<active, registered>>
      BY <2>5 DEF QueueReadyTimeout, AutoAnnounce, AnnounceKey, QuietKey, AdminMessage
    <3> QED
      BY <2>1, <3>1
  <2> QED
    BY <2>2, <2>3, <2>4, <2>5 DEF Next
<1> QED
  BY <1>1, <1>2, InductiveInvariant, PTL DEF Spec, Visits!Spec
-----------------------------------------------------------------------------
(* The queue: the order of the calls, the only way in which it comes to a  *)
(* stop, and what its users are told.                                      *)

(* The users of t are users of q, in the order of q.                       *)
IsPart(q, t) ==
    \E f \in [1 .. Len(t) -> 1 .. Len(q)] :
        /\ \A i \in 1 .. Len(t) : t[i].userId = q[f[i]].userId
        /\ \A i, j \in 1 .. Len(t) : i < j => f[i] < f[j]

(* Renumber keeps everybody's place.                                       *)
LEMMA RenumberPlaces ==
    ASSUME NEW q \in Seq(QueueEntry)
    PROVE  /\ Len(Renumber(q)) = Len(q)
           /\ \A i \in 1 .. Len(q) : Renumber(q)[i].userId = q[i].userId
<1>1. ASSUME NEW i \in 1 .. Len(q)
      PROVE  Renumber(q)[i].userId = q[i].userId
  <2>1. Renumber(q)[i] = [userId |-> q[i].userId, waitingNumber |-> i]
    BY RenumberFact
  <2> QED BY <2>1
<1> QED BY <1>1, RenumberFact

(* A good queue as a function on its places.                               *)
LEMMA GoodFact ==
    ASSUME NEW q, GoodQueue(q)
    PROVE  /\ Len(q) \in Nat /\ DOMAIN q = 1 .. Len(q) /\ q \in Seq(QueueEntry)
           /\ \A i \in 1 .. Len(q) : q[i] \in QueueEntry /\ q[i].userId \in Users
           /\ \A i, j \in 1 .. Len(q) : q[i].userId = q[j].userId => i = j
           /\ \A u : InQueue(q, u) <=> \E i \in 1 .. Len(q) : q[i].userId = u
<1>1. Len(q) \in Nat /\ DOMAIN q = 1 .. Len(q) /\ q \in Seq(QueueEntry)
  BY LenProperties DEF GoodQueue
<1>2. \A i \in 1 .. Len(q) : q[i] \in QueueEntry
  BY <1>1, ElementOfSeq
<1>3. \A i \in 1 .. Len(q) : q[i].userId \in Users
  BY <1>2 DEF QueueEntry
<1>4. \A i, j \in 1 .. Len(q) : q[i].userId = q[j].userId => i = j
  BY <1>1 DEF GoodQueue, Ordered
<1>5. \A u : InQueue(q, u) <=> \E i \in 1 .. Len(q) : q[i].userId = u
  BY <1>1 DEF InQueue, Positions
<1> QED BY <1>1, <1>2, <1>3, <1>4, <1>5

(* A queue that stays as it is.                                            *)
LEMMA SameIsPart ==
    ASSUME NEW q, GoodQueue(q)
    PROVE  IsPart(q, q)
<1>1. Len(q) \in Nat
  BY GoodFact
<1> DEFINE f == [i \in 1 .. Len(q) |-> i]
<1>2. f \in [1 .. Len(q) -> 1 .. Len(q)] /\ \A i \in 1 .. Len(q) : f[i] = i
  OBVIOUS
<1> HIDE DEF f
<1> QED BY <1>1, <1>2 DEF IsPart

(* Who keeps the order twice keeps it.                                     *)
LEMMA PartOfPart ==
    ASSUME NEW q, NEW r, NEW t, GoodQueue(q), GoodQueue(r), GoodQueue(t),
           IsPart(q, r), IsPart(r, t)
    PROVE  IsPart(q, t)
<1>1. PICK f \in [1 .. Len(r) -> 1 .. Len(q)] :
        /\ \A i \in 1 .. Len(r) : r[i].userId = q[f[i]].userId
        /\ \A i, j \in 1 .. Len(r) : i < j => f[i] < f[j]
  BY DEF IsPart
<1>2. PICK g \in [1 .. Len(t) -> 1 .. Len(r)] :
        /\ \A i \in 1 .. Len(t) : t[i].userId = r[g[i]].userId
        /\ \A i, j \in 1 .. Len(t) : i < j => g[i] < g[j]
  BY DEF IsPart
<1> DEFINE h == [i \in 1 .. Len(t) |-> f[g[i]]]
<1>3. h \in [1 .. Len(t) -> 1 .. Len(q)] /\ \A i \in 1 .. Len(t) : h[i] = f[g[i]]
  BY <1>1, <1>2
<1> HIDE DEF h
<1>4. \A i \in 1 .. Len(t) : t[i].userId = q[h[i]].userId
  BY <1>1, <1>2, <1>3
<1>5. ASSUME NEW i \in 1 .. Len(t), NEW j \in 1 .. Len(t), i < j
      PROVE  h[i] < h[j]
  <2>1. g[i] \in 1 .. Len(r) /\ g[j] \in 1 .. Len(r) /\ g[i] < g[j]
    BY <1>2, <1>5
  <2> QED BY <1>1, <1>3, <2>1
<1> QED BY <1>3, <1>4, <1>5 DEF IsPart

(* Who is removed leaves a gap that closes.                                *)
LEMMA RemovedPlaces ==
    ASSUME NEW q, GoodQueue(q), NEW u, InQueue(q, u)
    PROVE  \E k \in 1 .. Len(q) :
             /\ q[k].userId = u
             /\ Len(RemoveWaiting(q, u)) = Len(q) - 1
             /\ \A i \in 1 .. Len(q) - 1 :
                  RemoveWaiting(q, u)[i].userId = q[IF i < k THEN i ELSE i + 1].userId
<1> DEFINE k == IndexOf(q, u)
           r == RemoveAt(q, k)
<1>1. k \in 1 .. Len(q) /\ q[k].userId = u
  BY IndexOfFact
<1>2. Len(q) \in Nat /\ q \in Seq(QueueEntry)
  BY GoodFact
<1> HIDE DEF k
<1>3. /\ r \in Seq(QueueEntry) /\ Len(r) = Len(q) - 1
      /\ \A i \in 1 .. (Len(q) - 1) : r[i] = IF i < k THEN q[i] ELSE q[i + 1]
  BY <1>1, <1>2, RemoveAtFact
<1>4. RemoveWaiting(q, u) = Renumber(r)
  BY DEF RemoveWaiting, k
<1> HIDE DEF r
<1>5. /\ Len(Renumber(r)) = Len(r)
      /\ \A i \in 1 .. Len(r) : Renumber(r)[i].userId = r[i].userId
  BY <1>3, RenumberPlaces
<1>6. ASSUME NEW i \in 1 .. Len(q) - 1
      PROVE  RemoveWaiting(q, u)[i].userId = q[IF i < k THEN i ELSE i + 1].userId
  <2>1. RemoveWaiting(q, u)[i].userId = r[i].userId
    <3>1. i \in 1 .. Len(r)
      BY <1>3
    <3>2. Renumber(r)[i].userId = r[i].userId
      BY <1>5, <3>1
    <3> QED BY <1>4, <3>2
  <2>2. r[i] = q[IF i < k THEN i ELSE i + 1]
    BY <1>3
  <2> QED BY <2>1, <2>2
<1>7. Len(RemoveWaiting(q, u)) = Len(q) - 1
  BY <1>3, <1>4, <1>5
<1> QED BY <1>1, <1>6, <1>7

(* A removal from the middle keeps the order of the others.                *)
LEMMA RemovedIsPart ==
    ASSUME NEW q, GoodQueue(q), NEW u
    PROVE  IsPart(q, RemoveWaiting(q, u))
<1>1. CASE ~InQueue(q, u)
  BY <1>1, SameIsPart DEF RemoveWaiting
<1>2. CASE InQueue(q, u)
  <2> DEFINE rest == RemoveWaiting(q, u)
  <2>1. PICK k \in 1 .. Len(q) :
          /\ Len(rest) = Len(q) - 1
          /\ \A i \in 1 .. Len(q) - 1 : rest[i].userId = q[IF i < k THEN i ELSE i + 1].userId
    BY <1>2, RemovedPlaces
  <2>2. Len(q) \in Nat
    BY GoodFact
  <2> HIDE DEF rest
  <2> DEFINE f == [i \in 1 .. Len(rest) |-> IF i < k THEN i ELSE i + 1]
  <2>3. f \in [1 .. Len(rest) -> 1 .. Len(q)]
    BY <2>1, <2>2
  <2>4. \A i \in 1 .. Len(rest) : f[i] = IF i < k THEN i ELSE i + 1
    OBVIOUS
  <2> HIDE DEF f
  <2>5. \A i \in 1 .. Len(rest) : rest[i].userId = q[f[i]].userId
    BY <2>1, <2>4
  <2>6. \A i, j \in 1 .. Len(rest) : i < j => f[i] < f[j]
    BY <2>1, <2>2, <2>4
  <2> QED BY <2>3, <2>5, <2>6 DEF IsPart, rest
<1> QED BY <1>1, <1>2

(* The head is called, and everybody else moves up.                        *)
LEMMA TailPlaces ==
    ASSUME NEW q, GoodQueue(q), q # <<>>
    PROVE  /\ Len(Renumber(Tail(q))) = Len(q) - 1
           /\ \A i \in 1 .. Len(q) - 1 : Renumber(Tail(q))[i].userId = q[i + 1].userId
           /\ Head(q) = q[1] /\ Len(q) >= 1
<1>1. Len(q) \in Nat /\ q \in Seq(QueueEntry)
  BY GoodFact
<1> DEFINE s == Tail(q)
<1>2. /\ s \in Seq(QueueEntry) /\ Len(s) = Len(q) - 1
      /\ \A i \in 1 .. Len(s) : s[i] = q[i + 1]
      /\ Head(q) = q[1]
  BY <1>1, HeadTailProperties
<1>3. Len(s) \in Nat
  BY <1>2, LenProperties
<1> HIDE DEF s
<1>4. /\ Len(Renumber(s)) = Len(s)
      /\ \A i \in 1 .. Len(s) : Renumber(s)[i].userId = s[i].userId
  BY <1>2, RenumberPlaces
<1>5. ASSUME NEW i \in 1 .. Len(q) - 1
      PROVE  Renumber(s)[i].userId = q[i + 1].userId
  <2>1. Renumber(s)[i].userId = s[i].userId /\ s[i] = q[i + 1]
    BY <1>2, <1>4
  <2> QED BY <2>1
<1>6. Len(Renumber(s)) = Len(q) - 1 /\ Len(q) >= 1
  BY <1>1, <1>2, <1>3, <1>4
<1> QED BY <1>2, <1>5, <1>6 DEF s

(* So does the call of the head.                                           *)
LEMMA TailIsPart ==
    ASSUME NEW q, GoodQueue(q), q # <<>>
    PROVE  IsPart(q, Renumber(Tail(q)))
<1> DEFINE t == Renumber(Tail(q))
<1>1. /\ Len(t) = Len(q) - 1 /\ Len(q) \in Nat
      /\ \A i \in 1 .. Len(q) - 1 : t[i].userId = q[i + 1].userId
  BY TailPlaces, GoodFact
<1> HIDE DEF t
<1> DEFINE f == [i \in 1 .. Len(t) |-> i + 1]
<1>2. \A i \in 1 .. Len(t) : f[i] = i + 1
  OBVIOUS
<1>3. \A i \in 1 .. Len(t) : i + 1 \in 1 .. Len(q)
  BY <1>1
<1>4. f \in [1 .. Len(t) -> 1 .. Len(q)]
  BY <1>3
<1> HIDE DEF f
<1>5. \A i \in 1 .. Len(t) : t[i].userId = q[f[i]].userId
  BY <1>1, <1>2
<1>6. ASSUME NEW i \in 1 .. Len(t), NEW j \in 1 .. Len(t), i < j
      PROVE  f[i] < f[j]
  <2>1. f[i] = i + 1 /\ f[j] = j + 1 /\ i \in Int /\ j \in Int
    BY <1>2
  <2> QED BY <1>6, <2>1
<1> QED BY <1>4, <1>5, <1>6 DEF IsPart, t

(* Who joins stands behind everybody else, if there is a place.            *)
LEMMA AddedPlaces ==
    ASSUME NEW q, GoodQueue(q), NEW u \in Users, ~InQueue(q, u)
    PROVE  \/ AddWaiting(q, u) = q
           \/ /\ Len(AddWaiting(q, u)) = Len(q) + 1
              /\ \A i \in 1 .. Len(q) : AddWaiting(q, u)[i] = q[i]
              /\ AddWaiting(q, u)[Len(q) + 1].userId = u
<1>1. Len(q) \in Nat /\ q \in Seq(QueueEntry) /\ DOMAIN q = 1 .. Len(q)
  BY GoodFact
<1>2. CASE Len(q) < MAX_USERS
  <2> DEFINE e == [userId |-> u, waitingNumber |-> 0]
             a == Append(q, e)
             last == [userId |-> u, waitingNumber |-> Len(q) + 1]
  <2>1. e \in QueueEntry /\ last \in QueueEntry
    BY <1>1 DEF QueueEntry
  <2>2. /\ a \in Seq(QueueEntry) /\ Len(a) = Len(q) + 1
        /\ \A i \in 1 .. Len(q) : a[i] = q[i]
        /\ a[Len(q) + 1] = e
    BY <1>1, <2>1, AppendProperties
  <2>3. AddWaiting(q, u) = [a EXCEPT ![Len(q) + 1] = last]
    BY <1>2, <2>2 DEF AddWaiting
  <2>4. last.userId = u
    OBVIOUS
  <2> HIDE DEF a, e, last
  <2>5. DOMAIN a = 1 .. Len(q) + 1
    BY <2>2, LenProperties
  <2>6. /\ AddWaiting(q, u)[Len(q) + 1] = last
        /\ \A i \in 1 .. Len(q) : AddWaiting(q, u)[i] = q[i]
    BY <1>1, <2>2, <2>3, <2>5
  <2>7. Len(AddWaiting(q, u)) = Len(q) + 1
    <3>1. [a EXCEPT ![Len(q) + 1] = last] \in Seq(QueueEntry)
          /\ Len([a EXCEPT ![Len(q) + 1] = last]) = Len(a)
      BY <1>1, <2>1, <2>2, ExceptSeq
    <3> QED BY <2>2, <2>3, <3>1
  <2> QED BY <2>4, <2>6, <2>7
<1>3. CASE ~(Len(q) < MAX_USERS)
  <2>1. Len(q) \in 1 .. Len(q)
    BY <1>1, <1>3, MaxUsersAssumption
  <2>2. AddWaiting(q, u) = [q EXCEPT ![Len(q)].waitingNumber = Len(q)]
    BY <1>3 DEF AddWaiting
  <2>3. q[Len(q)] \in QueueEntry /\ q[Len(q)].waitingNumber = Len(q)
    BY <1>1, <2>1, GoodFact DEF GoodQueue, Ordered
  <2>4. [q[Len(q)] EXCEPT !.waitingNumber = Len(q)] = q[Len(q)]
    BY <2>3 DEF QueueEntry
  <2>5. [q EXCEPT ![Len(q)].waitingNumber = Len(q)]
          = [q EXCEPT ![Len(q)] = q[Len(q)]]
    BY <1>1, <2>1, <2>4
  <2>6. AddWaiting(q, u) = q
    BY <1>1, <2>1, <2>2, <2>5, ElementOfSeq
  <2> QED BY <2>6
<1> QED BY <1>2, <1>3

-----------------------------------------------------------------------------
(* First come, first called *)

(* Order kept, and nobody called out of turn, is all there is to it.       *)
LEMMA PartIsFifo ==
    ASSUME NEW q, NEW t, NEW p, NEW r, GoodQueue(q), GoodQueue(t), IsPart(q, t),
           r \notin {p, NoUser} => \A i \in DOMAIN q : i < IndexOf(q, r) => q[i].userId = p
    PROVE  Fifo(q, p, t, r)
<1>1. PICK f \in [1 .. Len(t) -> 1 .. Len(q)] :
        /\ \A i \in 1 .. Len(t) : t[i].userId = q[f[i]].userId
        /\ \A i, j \in 1 .. Len(t) : i < j => f[i] < f[j]
  BY DEF IsPart
<1>2. /\ Len(q) \in Nat /\ DOMAIN q = 1 .. Len(q)
      /\ Len(t) \in Nat /\ DOMAIN t = 1 .. Len(t)
      /\ \A i, j \in 1 .. Len(q) : q[i].userId = q[j].userId => i = j
      /\ \A u : InQueue(q, u) <=> \E i \in 1 .. Len(q) : q[i].userId = u
  BY GoodFact
<1>3. ASSUME NEW i \in DOMAIN q, NEW j \in DOMAIN q, i < j,
             InQueue(t, q[i].userId), InQueue(t, q[j].userId)
      PROVE  IndexOf(t, q[i].userId) < IndexOf(t, q[j].userId)
  <2>1. PICK x, y \in 1 .. Len(t) :
          /\ x = IndexOf(t, q[i].userId) /\ t[x].userId = q[i].userId
          /\ y = IndexOf(t, q[j].userId) /\ t[y].userId = q[j].userId
    BY <1>3, IndexOfFact
  <2>2. f[x] = i /\ f[y] = j
    <3>1. f[x] \in 1 .. Len(q) /\ f[y] \in 1 .. Len(q)
      BY <1>1
    <3>2. q[f[x]].userId = q[i].userId /\ q[f[y]].userId = q[j].userId
      BY <1>1, <2>1
    <3> QED BY <1>2, <3>1, <3>2
  <2>3. x \in Int /\ y \in Int /\ i \in Int /\ j \in Int
    BY <1>2
  <2>4. x # y
    BY <1>3, <2>2, <2>3
  <2>5. y < x => f[y] < f[x]
    BY <1>1
  <2> QED BY <1>3, <2>1, <2>2, <2>3, <2>4, <2>5
<1>4. ASSUME NEW j \in DOMAIN t
      PROVE  InQueue(q, t[j].userId)
  BY <1>1, <1>2
<1> QED BY <1>3, <1>4 DEF Fifo

(* Who joins overtakes nobody.                                             *)
LEMMA AddIsFifo ==
    ASSUME NEW q, GoodQueue(q), NEW u \in Users, ~InQueue(q, u), NEW p
    PROVE  Fifo(q, p, AddWaiting(q, u), p)
<1> DEFINE t == AddWaiting(q, u)
<1>1. GoodQueue(t)
  BY AddWaitingFact
<1>2. CASE t = q
  BY <1>2, SameIsPart, PartIsFifo
<1>3. CASE /\ Len(t) = Len(q) + 1 /\ \A i \in 1 .. Len(q) : t[i] = q[i]
           /\ t[Len(q) + 1].userId = u
  <2> HIDE DEF t
  <2>1. /\ Len(q) \in Nat /\ DOMAIN q = 1 .. Len(q) /\ DOMAIN t = 1 .. Len(t)
        /\ \A v : InQueue(q, v) <=> \E i \in 1 .. Len(q) : q[i].userId = v
    BY <1>1, GoodFact
  <2>2. ASSUME NEW i \in 1 .. Len(q)
        PROVE  InQueue(t, q[i].userId) => IndexOf(t, q[i].userId) = i
    <3>1. i \in 1 .. Len(t) /\ t[i].userId = q[i].userId
      BY <1>3, <2>1
    <3> QED BY <1>1, <3>1, IndexOfFact
  <2>3. \A i, j \in DOMAIN q :
          i < j /\ InQueue(t, q[i].userId) /\ InQueue(t, q[j].userId)
          => IndexOf(t, q[i].userId) < IndexOf(t, q[j].userId)
    BY <2>1, <2>2
  <2>4. ASSUME NEW i \in DOMAIN q, NEW j \in DOMAIN t,
               InQueue(t, q[i].userId), ~InQueue(q, t[j].userId)
        PROVE  IndexOf(t, q[i].userId) < j
    <3>1. j = Len(q) + 1
      <4>1. j \in 1 .. Len(q) => InQueue(q, t[j].userId)
        BY <1>3, <2>1
      <4> QED BY <1>3, <2>1, <2>4, <4>1
    <3>2. i \in 1 .. Len(q) /\ IndexOf(t, q[i].userId) = i
      BY <2>1, <2>2, <2>4
    <3> QED BY <2>1, <3>1, <3>2
  <2> QED BY <2>3, <2>4 DEF Fifo, t
<1> QED BY <1>2, <1>3, AddedPlaces

(* A call to the head of the queue, or none.                               *)
LEMMA AdmitNextFifo ==
    ASSUME NEW q, GoodQueue(q), NEW p \in Users \cup {NoUser}
    PROVE  Fifo(q, p, AdmitNext(q, p).queue, AdmitNext(q, p).pending)
<1>1. CASE q # <<>> /\ p = NoUser
  <2> DEFINE t == Renumber(Tail(q))
             r == Head(q).userId
  <2>1. AdmitNext(q, p).queue = t /\ AdmitNext(q, p).pending = r
    BY <1>1 DEF AdmitNext
  <2>2. GoodQueue(t) /\ IsPart(q, t)
    BY <1>1, TailFact, TailIsPart
  <2>3. r = q[1].userId /\ 1 \in 1 .. Len(q)
    BY <1>1, TailPlaces, GoodFact
  <2> HIDE DEF t, r
  <2>4. InQueue(q, r) /\ IndexOf(q, r) = 1
    BY <2>3, GoodFact, IndexOfFact
  <2>5. \A i \in DOMAIN q : ~(i < 1)
    BY GoodFact
  <2> QED BY <2>1, <2>2, <2>4, <2>5, PartIsFifo
<1>2. CASE ~(q # <<>> /\ p = NoUser)
  <2>1. AdmitNext(q, p).queue = q /\ AdmitNext(q, p).pending = p
    BY <1>2 DEF AdmitNext
  <2> QED BY <2>1, SameIsPart, PartIsFifo
<1> QED BY <1>1, <1>2

(* What a call that expires makes of the queue and of the call.            *)
LEMMA CallExpiredParts ==
    ASSUME NEW q, NEW p
    PROVE  /\ CallExpired(q, p).queue = AdmitNext(RemoveWaiting(q, p), NoUser).queue
           /\ CallExpired(q, p).pending = AdmitNext(RemoveWaiting(q, p), NoUser).pending
<1> QED BY DEF CallExpired, AdmitNext

(* Nor does a call that expires: the next in the queue is called.          *)
LEMMA CallExpiredFifo ==
    ASSUME NEW q, GoodQueue(q), NEW p \in Users
    PROVE  Fifo(q, p, CallExpired(q, p).queue, CallExpired(q, p).pending)
<1> DEFINE rest == RemoveWaiting(q, p)
           t == AdmitNext(rest, NoUser).queue
           r == AdmitNext(rest, NoUser).pending
<1>1. GoodQueue(rest) /\ IsPart(q, rest)
  BY RemoveWaitingFact, RemovedIsPart
<1>2. CallExpired(q, p).queue = t /\ CallExpired(q, p).pending = r
  BY CallExpiredParts
<1>3. CASE rest = <<>>
  <2>1. t = rest /\ r = NoUser
    BY <1>3 DEF AdmitNext
  <2> HIDE DEF rest, t, r
  <2> QED BY <1>1, <1>2, <2>1, PartIsFifo
<1>4. CASE rest # <<>>
  <2>1. t = Renumber(Tail(rest)) /\ r = Head(rest).userId
    BY <1>4 DEF AdmitNext
  <2>2. GoodQueue(t) /\ IsPart(rest, t)
    BY <1>1, <1>4, <2>1, TailFact, TailIsPart
  <2>3. r = rest[1].userId /\ 1 \in 1 .. Len(rest)
    BY <1>1, <1>4, <2>1, TailPlaces, GoodFact
  <2>4. ASSUME NEW i \in DOMAIN q, i < IndexOf(q, r)
        PROVE  q[i].userId = p
    <3>1. /\ Len(q) \in Nat /\ DOMAIN q = 1 .. Len(q)
          /\ \A v : InQueue(q, v) <=> \E x \in 1 .. Len(q) : q[x].userId = v
      BY GoodFact
    <3>2. CASE ~InQueue(q, p)
      <4>1. rest = q
        BY <3>2 DEF RemoveWaiting
      <4> HIDE DEF rest, r
      <4>2. InQueue(q, r) /\ IndexOf(q, r) = 1
        BY <2>3, <3>1, <4>1, IndexOfFact
      <4> QED BY <2>4, <3>1, <4>2
    <3>3. CASE InQueue(q, p)
      <4>1. PICK k \in 1 .. Len(q) :
              /\ q[k].userId = p
              /\ Len(rest) = Len(q) - 1
              /\ \A x \in 1 .. Len(q) - 1 : rest[x].userId = q[IF x < k THEN x ELSE x + 1].userId
        BY <3>3, RemovedPlaces
      <4> HIDE DEF rest, r
      <4>2. CASE k = 1
        <5>1. 2 \in 1 .. Len(q) /\ q[2].userId = r
          BY <2>3, <3>1, <4>1, <4>2
        <5>2. IndexOf(q, r) = 2
          BY <3>1, <5>1, IndexOfFact
        <5>3. i = 1
          BY <2>4, <3>1, <5>2
        <5> QED BY <4>1, <4>2, <5>3
      <4>3. CASE k # 1
        <5>1. 1 \in 1 .. Len(q) /\ q[1].userId = r
          BY <2>3, <3>1, <4>1, <4>3
        <5>2. IndexOf(q, r) = 1
          BY <3>1, <5>1, IndexOfFact
        <5> QED BY <2>4, <3>1, <5>2
      <4> QED BY <4>2, <4>3
    <3> QED BY <3>2, <3>3
  <2>5. GoodQueue(t) /\ IsPart(q, t)
    BY <1>1, <2>2, PartOfPart
  <2> HIDE DEF rest, t, r
  <2> QED BY <1>2, <2>4, <2>5, PartIsFifo
<1> QED BY <1>3, <1>4

(* The step of booth b leaves the others as they are.                      *)
LEMMA OnlyOneMoves ==
    ASSUME IInv, NEW b \in Booths, NEW Q, NEW P,
           waiting' = [waiting EXCEPT ![b] = Q],
           pending' = [pending EXCEPT ![b] = P],
           Fifo(waiting[b], pending[b], Q, P)
    PROVE  \A c \in Booths : Fifo(waiting[c], pending[c], waiting'[c], pending'[c])
<1> SUFFICES ASSUME NEW c \in Booths
             PROVE  Fifo(waiting[c], pending[c], waiting'[c], pending'[c])
  OBVIOUS
<1>1. CASE c = b
  <2>1. waiting'[c] = Q /\ pending'[c] = P
    BY <1>1 DEF IInv, TypeOK
  <2> QED BY <1>1, <2>1
<1>2. CASE c # b
  <2>1. waiting'[c] = waiting[c] /\ pending'[c] = pending[c]
    BY <1>2 DEF IInv, TypeOK
  <2>2. GoodQueue(waiting[c])
    BY BoothAt
  <2> QED BY <2>1, <2>2, SameIsPart, PartIsFifo
<1> QED BY <1>1, <1>2

(* Nor does a step that leaves queues and calls alone.                     *)
LEMMA NobodyMoves ==
    ASSUME IInv, UNCHANGED <<waiting, pending>>
    PROVE  \A c \in Booths : Fifo(waiting[c], pending[c], waiting'[c], pending'[c])
<1> QED BY BoothAt, SameIsPart, PartIsFifo

(* No request of a user lets anybody overtake.                             *)
LEMMA ReceiveFifo ==
    ASSUME IInv, NEW b \in Booths, NEW u \in Users, Receive(b, u)
    PROVE  \A c \in Booths : Fifo(waiting[c], pending[c], waiting'[c], pending'[c])
<1> DEFINE q == waiting[b]
           p == pending[b]
           rest == RemoveWaiting(q, u)
           next == AdmitNext(q, p)
<1>0. /\ GoodQueue(q) /\ p \in Users \cup {NoUser}
      /\ waiting = [waiting EXCEPT ![b] = q] /\ pending = [pending EXCEPT ![b] = p]
  BY BoothAt
<1>1. Fifo(q, p, rest, NoUser) /\ Fifo(q, p, rest, p)
  BY <1>0, RemoveWaitingFact, RemovedIsPart, PartIsFifo
<1>2. CASE UserResponseNo(b, u)
  <2>1. waiting' = [waiting EXCEPT ![b] = rest] /\ pending' = [pending EXCEPT ![b] = NoUser]
    BY <1>2 DEF UserResponseNo
  <2> HIDE DEF rest
  <2> QED BY <1>1, <2>1, OnlyOneMoves
<1>3. CASE QueueLeave(b, u)
  <2>1. waiting' = [waiting EXCEPT ![b] = rest] /\ pending' = [pending EXCEPT ![b] = p]
    BY <1>0, <1>3 DEF QueueLeave
  <2> HIDE DEF rest
  <2> QED BY <1>1, <2>1, OnlyOneMoves
<1>4. CASE ExitRequest(b, u)
  <2>1. /\ waiting' = [waiting EXCEPT ![b] = next.queue]
        /\ pending' = [pending EXCEPT ![b] = next.pending]
    BY <1>4 DEF ExitRequest, SetQueue
  <2>2. Fifo(q, p, next.queue, next.pending)
    BY <1>0, AdmitNextFifo
  <2> HIDE DEF next
  <2> QED BY <2>1, <2>2, OnlyOneMoves
<1>5. CASE RegisterQueued(b, u)
  <2> DEFINE t == AddWaiting(q, u)
  <2>1. waiting' = [waiting EXCEPT ![b] = t] /\ pending' = [pending EXCEPT ![b] = p]
    BY <1>0, <1>5 DEF RegisterQueued
  <2>2. Fifo(q, p, t, p)
    BY <1>0, <1>5, AddIsFifo DEF RegisterQueued
  <2> HIDE DEF t
  <2> QED BY <2>1, <2>2, OnlyOneMoves
<1>6. CASE RegisterAdmitted(b, u)
  <2>1. CASE pending[b] = u
    <3>1. waiting' = [waiting EXCEPT ![b] = rest] /\ pending' = [pending EXCEPT ![b] = NoUser]
      BY <1>6, <2>1 DEF RegisterAdmitted, SetQueue
    <3> HIDE DEF rest
    <3> QED BY <1>1, <3>1, OnlyOneMoves
  <2>2. CASE pending[b] # u
    BY <1>6, <2>2, NobodyMoves DEF RegisterAdmitted
  <2> QED BY <2>1, <2>2
<1>7. CASE \/ BoothScan(b, u) \/ ConnectRequest(b, u) \/ OnlyLogged(b, u) \/ ChatMessage(b, u)
           \/ RegisterRejected(b, u) \/ RegisterStillQueued(b, u)
  BY <1>7, NobodyMoves DEF BoothScan, ConnectRequest, OnlyLogged, ChatMessage,
                           RegisterRejected, RegisterStillQueued
<1> QED BY <1>2, <1>3, <1>4, <1>5, <1>6, <1>7 DEF Receive

(* Nor does the end of a session or of a call.                             *)
LEMMA TimersFifo ==
    ASSUME IInv, NEW b \in Booths,
           \/ QueueReadyTimeout(b)
           \/ \E u \in Users : SessionTimeout(b, u) \/ BothTimeouts(b, u)
    PROVE  \A c \in Booths : Fifo(waiting[c], pending[c], waiting'[c], pending'[c])
<1> DEFINE next == AdmitNext(waiting[b], pending[b])
           late == CallExpired(waiting[b], pending[b])
<1>0. GoodQueue(waiting[b]) /\ pending[b] \in Users \cup {NoUser}
  BY BoothAt
<1>1. Fifo(waiting[b], pending[b], next.queue, next.pending)
  BY <1>0, AdmitNextFifo
<1>2. pending[b] # NoUser => Fifo(waiting[b], pending[b], late.queue, late.pending)
  BY <1>0, CallExpiredFifo
<1>3. \/ /\ waiting' = [waiting EXCEPT ![b] = next.queue]
         /\ pending' = [pending EXCEPT ![b] = next.pending]
      \/ /\ pending[b] # NoUser
         /\ waiting' = [waiting EXCEPT ![b] = late.queue]
         /\ pending' = [pending EXCEPT ![b] = late.pending]
  BY DEF QueueReadyTimeout, SessionTimeout, BothTimeouts, SetQueue
<1> HIDE DEF next, late
<1> QED BY <1>1, <1>2, <1>3, OnlyOneMoves

(* Calls go out in the order in which users came, whatever users leave,    *)
(* decline, time out and ask again.                                        *)
THEOREM CalledInOrder == Spec => FirstComeFirstCalled
<1>1. ASSUME IInv, [Next]_vars
      PROVE  [\A b \in Booths : Fifo(waiting[b], pending[b], waiting'[b], pending'[b])]_vars
  <2>1. ASSUME NEW b \in Booths, NEW u \in Users, Receive(b, u)
        PROVE  \A c \in Booths : Fifo(waiting[c], pending[c], waiting'[c], pending'[c])
    BY <1>1, <2>1, ReceiveFifo
  <2>2. ASSUME NEW b \in Booths, NEW u \in Users, SessionTimeout(b, u) \/ BothTimeouts(b, u)
        PROVE  \A c \in Booths : Fifo(waiting[c], pending[c], waiting'[c], pending'[c])
    BY <1>1, <2>2, TimersFifo
  <2>3. ASSUME NEW b \in Booths, QueueReadyTimeout(b)
        PROVE  \A c \in Booths : Fifo(waiting[c], pending[c], waiting'[c], pending'[c])
    BY <1>1, <2>3, TimersFifo
  <2>4. ASSUME NEW b \in Booths,
               AutoAnnounce(b) \/ AnnounceKey(b) \/ QuietKey(b) \/ AdminMessage(b)
        PROVE  UNCHANGED <<waiting, pending>>
    BY <2>4 DEF AutoAnnounce, AnnounceKey, QuietKey, AdminMessage
  <2>5. CASE UNCHANGED vars
    BY <2>5
  <2> QED BY <1>1, <2>1, <2>2, <2>3, <2>4, <2>5, NobodyMoves DEF Next
<1> QED BY <1>1, InductiveInvariant, PTL DEF Spec, FirstComeFirstCalled

-----------------------------------------------------------------------------
(* A queue that nothing moves *)

(* Who looks at the queue when nobody is called leaves a call, or nobody.  *)
LEMMA AdmitNextCalls ==
    ASSUME NEW q, GoodQueue(q), NEW p
    PROVE  AdmitNext(q, p).queue = <<>> \/ AdmitNext(q, p).pending # NoUser
<1>1. CASE q # <<>> /\ p = NoUser
  <2>1. AdmitNext(q, p).pending = Head(q).userId
    BY <1>1 DEF AdmitNext
  <2>2. Head(q).userId \in Users
    BY <1>1, TailFact
  <2> QED BY <2>1, <2>2, NoUserAssumption
<1>2. CASE ~(q # <<>> /\ p = NoUser)
  <2>1. AdmitNext(q, p).queue = q /\ AdmitNext(q, p).pending = p
    BY <1>2 DEF AdmitNext
  <2> QED BY <1>2, <2>1
<1> QED BY <1>1, <1>2

(* The exits and the expiries: each looks at the queue, or finds a call.   *)
LEMMA EndDoesNotStall ==
    ASSUME IInv, NEW b \in Booths,
           \/ QueueReadyTimeout(b)
           \/ \E u \in Users : SessionTimeout(b, u) \/ BothTimeouts(b, u) \/ ExitRequest(b, u)
    PROVE  waiting'[b] = <<>> \/ pending'[b] # NoUser
<1> DEFINE next == AdmitNext(waiting[b], pending[b])
           late == CallExpired(waiting[b], pending[b])
<1>0. GoodQueue(waiting[b])
  BY BoothAt
<1>1. next.queue = <<>> \/ next.pending # NoUser
  BY <1>0, AdmitNextCalls
<1>2. late.queue = <<>> \/ late.pending # NoUser
  BY <1>0, RemoveWaitingFact, AdmitNextCalls, CallExpiredParts
<1>3. \/ /\ waiting' = [waiting EXCEPT ![b] = next.queue]
         /\ pending' = [pending EXCEPT ![b] = next.pending]
      \/ /\ waiting' = [waiting EXCEPT ![b] = late.queue]
         /\ pending' = [pending EXCEPT ![b] = late.pending]
  BY DEF QueueReadyTimeout, SessionTimeout, BothTimeouts, ExitRequest, SetQueue
<1>4. waiting \in [Booths -> Seq(QueueEntry)] /\ pending \in [Booths -> Users \cup {NoUser}]
  BY DEF IInv, TypeOK
<1> HIDE DEF next, late
<1> QED BY <1>1, <1>2, <1>3, <1>4

(* A request, other than the answer NO, does not stall its booth.          *)
LEMMA RequestDoesNotStall ==
    ASSUME IInv, MAX_BOOTH_CAPACITY = 1, NEW b \in Booths, NEW u \in Users,
           Receive(b, u), ~UserResponseNo(b, u), ~Stalled(b)
    PROVE  ~Stalled(b)'
<1>0. /\ waiting \in [Booths -> Seq(QueueEntry)] /\ pending \in [Booths -> Users \cup {NoUser}]
      /\ active \in [Booths -> Seq(Users)]
  BY DEF IInv, TypeOK
<1>1. CASE ExitRequest(b, u)
  <2>1. waiting'[b] = <<>> \/ pending'[b] # NoUser
    BY <1>1, EndDoesNotStall
  <2> QED BY <2>1 DEF Stalled
<1>2. CASE QueueLeave(b, u)
  <2>1. waiting'[b] = RemoveWaiting(waiting[b], u) /\ UNCHANGED <<active, pending>>
    BY <1>0, <1>2 DEF QueueLeave
  <2>2. waiting[b] = <<>> => RemoveWaiting(waiting[b], u) = <<>>
    BY DEF RemoveWaiting, InQueue, Positions
  <2> QED BY <2>1, <2>2 DEF Stalled, Full
<1>3. CASE RegisterQueued(b, u)
  BY <1>3 DEF RegisterQueued, Stalled, Full
<1>4. CASE RegisterAdmitted(b, u)
  <2>1. /\ active' = [active EXCEPT ![b] = Append(active[b], u)]
        /\ active[b] \in Seq(Users)
    BY <1>4, AdmissionStep, BoothAt
  <2>2. active'[b] = Append(active[b], u)
    BY <1>0, <2>1
  <2>3. Len(active'[b]) = Len(active[b]) + 1 /\ Len(active[b]) \in Nat
    BY <2>1, <2>2, AppendProperties, LenProperties
  <2> QED BY <2>3 DEF Stalled, Full
<1>5. CASE \/ BoothScan(b, u) \/ ConnectRequest(b, u) \/ OnlyLogged(b, u) \/ ChatMessage(b, u)
           \/ RegisterRejected(b, u) \/ RegisterStillQueued(b, u)
  <2>1. UNCHANGED <<active, waiting, pending>>
    BY <1>5 DEF BoothScan, ConnectRequest, OnlyLogged, ChatMessage,
                RegisterRejected, RegisterStillQueued
  <2> QED BY <2>1 DEF Stalled, Full
<1> QED BY <1>1, <1>2, <1>3, <1>4, <1>5 DEF Receive

(* The handlers of one booth leave the lists of the others alone.          *)
LEMMA OthersKeepLists ==
    ASSUME IInv, NEW b \in Booths, NEW c \in Booths, c # b,
           \/ QueueReadyTimeout(b)
           \/ \E u \in Users : Receive(b, u) \/ SessionTimeout(b, u) \/ BothTimeouts(b, u)
    PROVE  Stalled(c)' <=> Stalled(c)
<1> DEFINE Kept == active'[c] = active[c] /\ waiting'[c] = waiting[c] /\ pending'[c] = pending[c]
<1>0. /\ waiting \in [Booths -> Seq(QueueEntry)] /\ pending \in [Booths -> Users \cup {NoUser}]
      /\ active \in [Booths -> Seq(Users)]
  BY DEF IInv, TypeOK
<1>2. ASSUME NEW u \in Users, SessionTimeout(b, u) \/ BothTimeouts(b, u) \/ ExitRequest(b, u)
      PROVE  Kept
  BY <1>0, <1>2 DEF SessionTimeout, BothTimeouts, ExitRequest, SetQueue
<1>3. ASSUME NEW u \in Users, UserResponseNo(b, u) \/ QueueLeave(b, u) \/ RegisterQueued(b, u)
      PROVE  Kept
  BY <1>0, <1>3 DEF UserResponseNo, QueueLeave, RegisterQueued
<1>4. ASSUME NEW u \in Users, RegisterAdmitted(b, u)
      PROVE  Kept
  <2>1. active'[c] = active[c]
    BY <1>0, <1>4 DEF RegisterAdmitted
  <2>2. waiting'[c] = waiting[c] /\ pending'[c] = pending[c]
    BY <1>0, <1>4 DEF RegisterAdmitted, SetQueue
  <2> QED BY <2>1, <2>2
<1>5. ASSUME NEW u \in Users,
             \/ BoothScan(b, u) \/ ConnectRequest(b, u) \/ OnlyLogged(b, u) \/ ChatMessage(b, u)
             \/ RegisterRejected(b, u) \/ RegisterStillQueued(b, u)
      PROVE  Kept
  BY <1>5 DEF BoothScan, ConnectRequest, OnlyLogged, ChatMessage,
              RegisterRejected, RegisterStillQueued
<1>6. Kept
  <2>1. ASSUME QueueReadyTimeout(b) PROVE Kept
    BY <1>0, <2>1 DEF QueueReadyTimeout, SetQueue
  <2> HIDE DEF Kept
  <2> QED BY <1>2, <1>3, <1>4, <1>5, <2>1 DEF Receive
<1> QED BY <1>6 DEF Stalled, Full

(* With one place per booth, as L3_msg.h has it, only the called user's    *)
(* answer NO leaves people in the queue with nobody inside or called.      *)
THEOREM OnlyDeclineStalls ==
    ASSUME MAX_BOOTH_CAPACITY = 1
    PROVE  Spec => StallsOnlyByDecline
<1> DEFINE Declined(b) == ~Stalled(b) /\ Stalled(b)' => \E u \in Users : UserResponseNo(b, u)
<1>1. ASSUME IInv, [Next]_vars
      PROVE  [\A b \in Booths : Declined(b)]_vars
  <2> SUFFICES ASSUME NEW c \in Booths, Next, ~Stalled(c), Stalled(c)'
               PROVE  \E u \in Users : UserResponseNo(c, u)
    BY <1>1
  <2>1. PICK b \in Booths :
          \/ \E u \in Users : Receive(b, u) \/ SessionTimeout(b, u) \/ BothTimeouts(b, u)
          \/ QueueReadyTimeout(b)
          \/ AutoAnnounce(b) \/ AnnounceKey(b) \/ QuietKey(b) \/ AdminMessage(b)
    BY DEF Next
  <2>2. ~(AutoAnnounce(b) \/ AnnounceKey(b) \/ QuietKey(b) \/ AdminMessage(b))
    BY DEF AutoAnnounce, AnnounceKey, QuietKey, AdminMessage, Stalled, Full
  <2>3. b = c
    BY <1>1, <2>1, <2>2, OthersKeepLists
  <2>4. ~(waiting'[c] = <<>> \/ pending'[c] # NoUser)
    BY DEF Stalled
  <2>5. PICK u \in Users : Receive(c, u)
    BY <1>1, <2>1, <2>2, <2>3, <2>4, EndDoesNotStall
  <2>6. UserResponseNo(c, u)
    BY <1>1, <2>5, RequestDoesNotStall
  <2> QED BY <2>6
<1> QED BY <1>1, InductiveInvariant, PTL DEF Spec, StallsOnlyByDecline

-----------------------------------------------------------------------------
(* What users are told of their places *)

(* The updates among these messages promise nobody a better place than he  *)
(* has in queue q, with user p called.                                     *)
Honest(msgs, q, p) ==
    \A i \in DOMAIN msgs :
        (msgs[i].type = "QUEUE_UPDATE" /\ msgs[i].pos > 0) =>
            \/ msgs[i].dest = p
            \/ InQueue(q, msgs[i].dest) /\ IndexOf(q, msgs[i].dest) <= msgs[i].pos

(* What stands in two lists one after the other stands in one of them.     *)
LEMMA ConcatParts ==
    ASSUME NEW s \in Seq(Message), NEW t \in Seq(Message), NEW i \in DOMAIN (s \o t)
    PROVE  (\E j \in DOMAIN s : (s \o t)[i] = s[j]) \/ (\E j \in DOMAIN t : (s \o t)[i] = t[j])
<1> DEFINE c == s \o t
<1>1. /\ c \in Seq(Message) /\ Len(c) = Len(s) + Len(t)
      /\ \A k \in 1 .. Len(s) + Len(t) : c[k] = IF k <= Len(s) THEN s[k] ELSE t[k - Len(s)]
  BY ConcatProperties
<1>2. /\ Len(s) \in Nat /\ DOMAIN s = 1 .. Len(s)
      /\ Len(t) \in Nat /\ DOMAIN t = 1 .. Len(t)
      /\ i \in DOMAIN c
  BY LenProperties
<1> HIDE DEF c
<1>3. DOMAIN c = 1 .. Len(s) + Len(t)
  BY <1>1, LenProperties
<1>4. CASE i <= Len(s)
  <2>1. i \in DOMAIN s /\ c[i] = s[i]
    BY <1>1, <1>2, <1>3, <1>4
  <2> QED BY <2>1 DEF c
<1>5. CASE ~(i <= Len(s))
  <2>1. i - Len(s) \in DOMAIN t /\ c[i] = t[i - Len(s)]
    BY <1>1, <1>2, <1>3, <1>5
  <2> QED BY <2>1 DEF c
<1> QED BY <1>4, <1>5

(* One list of honest messages after another.                              *)
LEMMA HonestConcat ==
    ASSUME NEW s \in Seq(Message), NEW t \in Seq(Message), NEW q, NEW p,
           Honest(s, q, p), Honest(t, q, p)
    PROVE  s \o t \in Seq(Message) /\ Honest(s \o t, q, p)
<1>1. s \o t \in Seq(Message)
  BY ConcatProperties
<1>2. Honest(s \o t, q, p)
  BY ConcatParts DEF Honest
<1> QED BY <1>1, <1>2

(* Updates sent for the queue as it is.                                    *)
LEMMA UpdateAllHonest ==
    ASSUME NEW q, GoodQueue(q), NEW p
    PROVE  Honest(UpdateAll(q), q, p)
<1>1. Len(q) \in Nat /\ DOMAIN q = 1 .. Len(q)
  BY GoodFact
<1>2. ASSUME NEW i \in 1 .. Len(q)
      PROVE  /\ UpdateAll(q)[i].dest = q[i].userId /\ UpdateAll(q)[i].pos = i
             /\ InQueue(q, q[i].userId) /\ IndexOf(q, q[i].userId) = i
  <2>1. UpdateAll(q)[i] = QueueMessage("QUEUE_UPDATE", q[i].userId, i, Len(q))
    BY <1>1 DEF UpdateAll
  <2>2. UpdateAll(q)[i].dest = q[i].userId /\ UpdateAll(q)[i].pos = i
    BY <2>1 DEF QueueMessage
  <2>3. InQueue(q, q[i].userId)
    BY <1>1, GoodFact
  <2>4. IndexOf(q, q[i].userId) = i
    BY <2>3, IndexOfFact
  <2> QED BY <2>2, <2>3, <2>4
<1>3. DOMAIN UpdateAll(q) = 1 .. Len(q)
  BY <1>1 DEF UpdateAll
<1> QED BY <1>1, <1>2, <1>3 DEF Honest

(* Updates sent before the head is called: everybody then stands one place *)
(* further ahead than he was told, and the head is called.                 *)
LEMMA UpdateThenCallHonest ==
    ASSUME NEW q, GoodQueue(q)
    PROVE  Honest(UpdateAll(q), AdmitNext(q, NoUser).queue, AdmitNext(q, NoUser).pending)
<1>1. CASE q = <<>>
  <2>1. UpdateAll(q) = <<>>
    BY <1>1 DEF UpdateAll
  <2> QED BY <2>1 DEF Honest
<1>2. CASE q # <<>>
  <2> DEFINE t == Renumber(Tail(q))
             r == Head(q).userId
  <2>1. AdmitNext(q, NoUser).queue = t /\ AdmitNext(q, NoUser).pending = r
    BY <1>2 DEF AdmitNext
  <2>2. /\ Len(t) = Len(q) - 1 /\ r = q[1].userId
        /\ \A i \in 1 .. Len(q) - 1 : t[i].userId = q[i + 1].userId
    BY <1>2, TailPlaces
  <2>3. GoodQueue(t)
    BY <1>2, TailFact
  <2>4. /\ Len(q) \in Nat /\ DOMAIN q = 1 .. Len(q)
        /\ \A v : InQueue(t, v) <=> \E i \in 1 .. Len(t) : t[i].userId = v
    BY <2>3, GoodFact
  <2> HIDE DEF t, r
  <2>5. ASSUME NEW i \in 1 .. Len(q)
        PROVE  /\ UpdateAll(q)[i].dest = q[i].userId /\ UpdateAll(q)[i].pos = i
               /\ q[i].userId # r => InQueue(t, q[i].userId) /\ IndexOf(t, q[i].userId) <= i
    <3>1. UpdateAll(q)[i] = QueueMessage("QUEUE_UPDATE", q[i].userId, i, Len(q))
      BY <2>4 DEF UpdateAll
    <3>2. UpdateAll(q)[i].dest = q[i].userId /\ UpdateAll(q)[i].pos = i
      BY <3>1 DEF QueueMessage
    <3>3. CASE i = 1
      <4>1. q[i].userId = r
        BY <2>2, <3>3
      <4> QED BY <3>2, <4>1
    <3>4. CASE i # 1
      <4>1. PICK k \in 1 .. Len(t) : k = i - 1 /\ t[k].userId = q[i].userId
        <5>1. i - 1 \in 1 .. Len(q) - 1 /\ (i - 1) + 1 = i
          BY <2>4, <3>4
        <5> QED BY <2>2, <5>1
      <4>2. InQueue(t, q[i].userId)
        BY <2>4, <4>1
      <4>3. IndexOf(t, q[i].userId) = k
        BY <2>3, <4>1, <4>2, IndexOfFact
      <4>4. k <= i
        BY <2>4, <4>1
      <4> QED BY <3>2, <4>2, <4>3, <4>4
    <3> QED BY <3>3, <3>4
  <2>6. DOMAIN UpdateAll(q) = 1 .. Len(q)
    BY <2>4 DEF UpdateAll
  <2> QED BY <2>1, <2>5, <2>6 DEF Honest
<1> QED BY <1>1, <1>2

(* The call itself carries no place.                                       *)
LEMMA CallHonest ==
    ASSUME NEW q, NEW c, NEW t, NEW p
    PROVE  Honest(AdmitNext(q, c).msgs, t, p)
<1>1. CASE q # <<>> /\ c = NoUser
  <2>1. AdmitNext(q, c).msgs = <<Notice("QUEUE_READY", Head(q).userId)>>
    BY <1>1 DEF AdmitNext
  <2>2. Notice("QUEUE_READY", Head(q).userId).type # "QUEUE_UPDATE"
    BY DEF Notice
  <2> QED BY <2>1, <2>2 DEF Honest
<1>2. CASE ~(q # <<>> /\ c = NoUser)
  <2>1. AdmitNext(q, c).msgs = <<>>
    BY <1>2 DEF AdmitNext
  <2> QED BY <2>1 DEF Honest
<1> QED BY <1>1, <1>2

(* The messages of a call that expires: its user's good-bye has place 0.   *)
LEMMA CallExpiredHonest ==
    ASSUME NEW q, GoodQueue(q), NEW p \in Users
    PROVE  Honest(CallExpired(q, p).msgs, CallExpired(q, p).queue, CallExpired(q, p).pending)
<1> DEFINE rest == RemoveWaiting(q, p)
           next == AdmitNext(rest, NoUser)
           bye == <<QueueMessage("QUEUE_UPDATE", p, 0, 0)>>
<1>1. GoodQueue(rest) /\ UpdateAll(rest) \in Seq(Message)
  BY RemoveWaitingFact, UpdateAllFact
<1>2. next.msgs \in Seq(Message) /\ Honest(next.msgs, next.queue, next.pending)
  BY <1>1, AdmitNextFact, CallHonest
<1>3. Honest(UpdateAll(rest), next.queue, next.pending)
  BY <1>1, UpdateThenCallHonest
<1>4. bye \in Seq(Message) /\ Honest(bye, next.queue, next.pending)
  <2>1. QueueMessage("QUEUE_UPDATE", p, 0, 0) \in Message
    BY DEF QueueMessage, Message
  <2>2. QueueMessage("QUEUE_UPDATE", p, 0, 0).pos = 0
    BY DEF QueueMessage
  <2> HIDE DEF rest, next
  <2> QED BY <2>1, <2>2 DEF Honest
<1>5. CallExpired(q, p).msgs = bye \o UpdateAll(rest) \o next.msgs
  BY DEF CallExpired, AdmitNext
<1>6. CallExpired(q, p).queue = next.queue /\ CallExpired(q, p).pending = next.pending
  BY CallExpiredParts
<1> HIDE DEF rest, next, bye
<1>7. /\ bye \o UpdateAll(rest) \in Seq(Message)
      /\ Honest(bye \o UpdateAll(rest), next.queue, next.pending)
  BY <1>1, <1>3, <1>4, HonestConcat
<1>8. Honest(bye \o UpdateAll(rest) \o next.msgs, next.queue, next.pending)
  BY <1>2, <1>7, HonestConcat
<1> QED BY <1>5, <1>6, <1>8

(* Messages that are no updates.                                           *)
LEMMA OtherHonest ==
    ASSUME NEW msgs, \A i \in DOMAIN msgs : msgs[i].type # "QUEUE_UPDATE", NEW q, NEW p
    PROVE  Honest(msgs, q, p)
<1> QED BY DEF Honest

(* The handlers that neither move the queue nor send an update.            *)
LEMMA ReplyHonest ==
    ASSUME IInv, NEW b \in Booths,
           \/ AutoAnnounce(b) \/ AnnounceKey(b) \/ QuietKey(b) \/ AdminMessage(b)
           \/ \E u \in Users : \/ BoothScan(b, u) \/ ConnectRequest(b, u)
                               \/ OnlyLogged(b, u) \/ ChatMessage(b, u)
                               \/ RegisterRejected(b, u) \/ RegisterStillQueued(b, u)
    PROVE  /\ UNCHANGED <<waiting, pending>>
           /\ \E M : sent' = [sent EXCEPT ![b] = M] /\ \A q, p : Honest(M, q, p)
<1>1. ASSUME NEW d, NEW t \in {"BOOTH_ANNOUNCE", "BOOTH_INFO"}
      PROVE  \A q, p : Honest(<<BoothStatus(t, b, d)>>, q, p)
  <2>1. BoothStatus(t, b, d).type # "QUEUE_UPDATE"
    BY DEF BoothStatus
  <2> QED BY <2>1 DEF Honest
<1>2. \A q, p : Honest(<<>>, q, p)
  BY DEF Honest
<1>3. CASE AutoAnnounce(b) \/ AnnounceKey(b)
  BY <1>1, <1>3 DEF AutoAnnounce, AnnounceKey, Send
<1>4. CASE QuietKey(b)
  BY <1>2, <1>4 DEF QuietKey, Send
<1>5. CASE AdminMessage(b)
  <2> DEFINE M == [i \in DOMAIN active[b] |-> Notice("ADMIN_MESSAGE", active[b][i])]
  <2>1. \A i \in DOMAIN M : M[i].type # "QUEUE_UPDATE"
    BY DEF Notice
  <2>2. UNCHANGED <<waiting, pending>> /\ sent' = [sent EXCEPT ![b] = M]
    BY <1>5 DEF AdminMessage, Send
  <2> HIDE DEF M
  <2> QED BY <2>1, <2>2, OtherHonest
<1>6. ASSUME NEW u \in Users, BoothScan(b, u) \/ ConnectRequest(b, u) \/ OnlyLogged(b, u)
      PROVE  /\ UNCHANGED <<waiting, pending>>
             /\ \E M : sent' = [sent EXCEPT ![b] = M] /\ \A q, p : Honest(M, q, p)
  BY <1>1, <1>2, <1>6 DEF BoothScan, ConnectRequest, OnlyLogged, Send
<1>7. ASSUME NEW u \in Users, ChatMessage(b, u)
      PROVE  /\ UNCHANGED <<waiting, pending>>
             /\ \E M : sent' = [sent EXCEPT ![b] = M] /\ \A q, p : Honest(M, q, p)
  <2> DEFINE others == RemoveActive(active[b], u)
             M == [i \in DOMAIN others |->
                     [type |-> "CHAT_MESSAGE", dest |-> others[i], sender |-> u]]
  <2>1. \A i \in DOMAIN M : M[i].type # "QUEUE_UPDATE"
    OBVIOUS
  <2>2. /\ UNCHANGED <<waiting, pending>>
        /\ sent' = [sent EXCEPT ![b] = M] \/ sent' = [sent EXCEPT ![b] = <<>>]
    BY <1>7 DEF ChatMessage, Send
  <2> HIDE DEF M
  <2> QED BY <1>2, <2>1, <2>2, OtherHonest
<1>8. ASSUME NEW u \in Users, RegisterRejected(b, u)
      PROVE  /\ UNCHANGED <<waiting, pending>>
             /\ \E M : sent' = [sent EXCEPT ![b] = M] /\ \A q, p : Honest(M, q, p)
  <2>1. RegisterResponse(u, "ALREADY_USED").type # "QUEUE_UPDATE"
    BY DEF RegisterResponse
  <2>2. \A q, p : Honest(<<RegisterResponse(u, "ALREADY_USED")>>, q, p)
    BY <2>1 DEF Honest
  <2> QED BY <1>8, <2>2 DEF RegisterRejected, Send
<1>9. ASSUME NEW u \in Users, RegisterStillQueued(b, u)
      PROVE  /\ UNCHANGED <<waiting, pending>>
             /\ \E M : sent' = [sent EXCEPT ![b] = M] /\ \A q, p : Honest(M, q, p)
  <2> DEFINE full == RegisterResponse(u, "FULL_WAITING")
             info == QueueMessage("QUEUE_INFO", u, IndexOf(waiting[b], u), Len(waiting[b]))
  <2>1. full.type # "QUEUE_UPDATE" /\ info.type # "QUEUE_UPDATE"
    BY DEF RegisterResponse, QueueMessage
  <2>2. UNCHANGED <<waiting, pending>> /\ sent' = [sent EXCEPT ![b] = <<full, info>>]
    BY <1>9 DEF RegisterStillQueued, Send
  <2> HIDE DEF full, info
  <2>3. \A q, p : Honest(<<full, info>>, q, p)
    BY <2>1 DEF Honest
  <2> QED BY <2>2, <2>3
<1> QED BY <1>3, <1>4, <1>5, <1>6, <1>7, <1>8, <1>9

(* The handlers that move the queue.                                       *)
LEMMA MoveHonest ==
    ASSUME IInv, NEW b \in Booths,
           \/ QueueReadyTimeout(b)
           \/ \E u \in Users : \/ UserResponseNo(b, u) \/ QueueLeave(b, u) \/ ExitRequest(b, u)
                               \/ RegisterQueued(b, u) \/ RegisterAdmitted(b, u)
                               \/ SessionTimeout(b, u) \/ BothTimeouts(b, u)
    PROVE  \E M, Q, P : /\ sent' = [sent EXCEPT ![b] = M] /\ Honest(M, Q, P)
                        /\ waiting' = [waiting EXCEPT ![b] = Q]
                        /\ pending' = [pending EXCEPT ![b] = P]
<1> DEFINE Goal == \E M, Q, P : /\ sent' = [sent EXCEPT ![b] = M] /\ Honest(M, Q, P)
                                /\ waiting' = [waiting EXCEPT ![b] = Q]
                                /\ pending' = [pending EXCEPT ![b] = P]
           q == waiting[b]
           next == AdmitNext(q, pending[b])
           late == CallExpired(q, pending[b])
<1>0. /\ GoodQueue(q) /\ pending[b] \in Users \cup {NoUser}
      /\ waiting = [waiting EXCEPT ![b] = q] /\ pending = [pending EXCEPT ![b] = pending[b]]
  BY BoothAt
<1>1. next.msgs \in Seq(Message) /\ Honest(next.msgs, next.queue, next.pending)
  BY <1>0, AdmitNextFact, CallHonest
<1>2. pending[b] # NoUser =>
        late.msgs \in Seq(Message) /\ Honest(late.msgs, late.queue, late.pending)
  BY <1>0, CallExpiredFact, CallExpiredHonest
<1>3. ASSUME NEW t \in {"EXIT_RESPONSE", "TIMEOUT_ALERT"}, NEW u \in Users,
             NEW M \in Seq(Message), NEW Q, NEW P, Honest(M, Q, P)
      PROVE  Honest(<<Notice(t, u)>> \o M, Q, P)
  <2>1. Notice(t, u) \in Message /\ Notice(t, u).type # "QUEUE_UPDATE"
    BY DEF Notice, Message
  <2>2. <<Notice(t, u)>> \in Seq(Message) /\ Honest(<<Notice(t, u)>>, Q, P)
    BY <2>1 DEF Honest
  <2> QED BY <1>3, <2>2, HonestConcat
<1>4. ASSUME NEW u \in Users
      PROVE  /\ UpdateAll(RemoveWaiting(q, u)) \in Seq(Message)
             /\ \A P : Honest(UpdateAll(RemoveWaiting(q, u)), RemoveWaiting(q, u), P)
  BY <1>0, RemoveWaitingFact, UpdateAllFact, UpdateAllHonest
<1>5. CASE QueueReadyTimeout(b)
  <2>1. /\ pending[b] # NoUser /\ sent' = [sent EXCEPT ![b] = late.msgs]
        /\ waiting' = [waiting EXCEPT ![b] = late.queue]
        /\ pending' = [pending EXCEPT ![b] = late.pending]
    BY <1>5 DEF QueueReadyTimeout, SetQueue, Send
  <2> HIDE DEF late
  <2> QED BY <1>2, <2>1
<1>6. ASSUME NEW u \in Users, ExitRequest(b, u) \/ SessionTimeout(b, u)
      PROVE  Goal
  <2>1. \E t \in {"EXIT_RESPONSE", "TIMEOUT_ALERT"} :
          sent' = [sent EXCEPT ![b] = <<Notice(t, u)>> \o next.msgs]
    BY <1>6 DEF ExitRequest, SessionTimeout, Send
  <2>2. /\ waiting' = [waiting EXCEPT ![b] = next.queue]
        /\ pending' = [pending EXCEPT ![b] = next.pending]
    BY <1>6 DEF ExitRequest, SessionTimeout, SetQueue
  <2> HIDE DEF next
  <2> QED BY <1>1, <1>3, <2>1, <2>2
<1>7. ASSUME NEW u \in Users, BothTimeouts(b, u)
      PROVE  Goal
  <2>1. /\ pending[b] # NoUser
        /\ sent' = [sent EXCEPT ![b] = <<Notice("TIMEOUT_ALERT", u)>> \o late.msgs]
    BY <1>7 DEF BothTimeouts, Send
  <2>2. /\ waiting' = [waiting EXCEPT ![b] = late.queue]
        /\ pending' = [pending EXCEPT ![b] = late.pending]
    BY <1>7 DEF BothTimeouts, SetQueue
  <2> HIDE DEF late
  <2>3. Honest(<<Notice("TIMEOUT_ALERT", u)>> \o late.msgs, late.queue, late.pending)
    BY <1>2, <1>3, <2>1
  <2> QED BY <2>1, <2>2, <2>3
<1>8. ASSUME NEW u \in Users, UserResponseNo(b, u) \/ QueueLeave(b, u)
      PROVE  Goal
  <2> DEFINE rest == RemoveWaiting(q, u)
  <2>1. /\ waiting' = [waiting EXCEPT ![b] = rest] /\ sent' = [sent EXCEPT ![b] = UpdateAll(rest)]
        /\ \E P : pending' = [pending EXCEPT ![b] = P]
    BY <1>0, <1>8 DEF UserResponseNo, QueueLeave, Send
  <2>2. \A P : Honest(UpdateAll(rest), rest, P)
    BY <1>4
  <2> HIDE DEF rest
  <2> QED BY <2>1, <2>2
<1>9. ASSUME NEW u \in Users, RegisterQueued(b, u)
      PROVE  Goal
  <2> DEFINE t == AddWaiting(q, u)
             full == RegisterResponse(u, "FULL_WAITING")
             info == QueueMessage("QUEUE_INFO", u, t[Len(t)].waitingNumber, Len(t))
  <2>1. full.type # "QUEUE_UPDATE" /\ info.type # "QUEUE_UPDATE"
    BY DEF RegisterResponse, QueueMessage
  <2>2. /\ waiting' = [waiting EXCEPT ![b] = t] /\ sent' = [sent EXCEPT ![b] = <<full, info>>]
        /\ pending' = [pending EXCEPT ![b] = pending[b]]
    BY <1>0, <1>9 DEF RegisterQueued, Send
  <2> HIDE DEF full, info, t
  <2>3. Honest(<<full, info>>, t, pending[b])
    BY <2>1 DEF Honest
  <2> QED BY <2>2, <2>3
<1>10. ASSUME NEW u \in Users, RegisterAdmitted(b, u)
       PROVE  Goal
  <2> DEFINE rest == RemoveWaiting(q, u)
             answer == <<RegisterResponse(u, "SUCCESS")>>
  <2>1. answer \in Seq(Message) /\ \A t, p : Honest(answer, t, p)
    <3>1. /\ RegisterResponse(u, "SUCCESS") \in Message
          /\ RegisterResponse(u, "SUCCESS").type # "QUEUE_UPDATE"
      BY DEF RegisterResponse, Message
    <3> QED BY <3>1 DEF Honest
  <2>2. UpdateAll(rest) \in Seq(Message) /\ Honest(UpdateAll(rest), rest, NoUser)
    BY <1>4
  <2>3. \/ /\ sent' = [sent EXCEPT ![b] = UpdateAll(rest) \o answer]
           /\ waiting' = [waiting EXCEPT ![b] = rest]
           /\ pending' = [pending EXCEPT ![b] = NoUser]
        \/ sent' = [sent EXCEPT ![b] = answer] /\ UNCHANGED <<waiting, pending>>
    BY <1>10 DEF RegisterAdmitted, SetQueue, Send
  <2> HIDE DEF rest, answer
  <2>4. Honest(UpdateAll(rest) \o answer, rest, NoUser)
    BY <2>1, <2>2, HonestConcat
  <2>5. CASE /\ sent' = [sent EXCEPT ![b] = UpdateAll(rest) \o answer]
             /\ waiting' = [waiting EXCEPT ![b] = rest]
             /\ pending' = [pending EXCEPT ![b] = NoUser]
    BY <2>4, <2>5
  <2>6. CASE sent' = [sent EXCEPT ![b] = answer] /\ UNCHANGED <<waiting, pending>>
    <3>1. Honest(answer, q, pending[b])
      BY <2>1
    <3>2. /\ waiting' = [waiting EXCEPT ![b] = q]
          /\ pending' = [pending EXCEPT ![b] = pending[b]]
      BY <1>0, <2>6
    <3> HIDE DEF q
    <3> QED BY <2>6, <3>1, <3>2
  <2> QED BY <2>3, <2>5, <2>6
<1> QED BY <1>5, <1>6, <1>7, <1>8, <1>9, <1>10

(* A user is never told a better place than he has, although the places    *)
(* are sent before the next user is called.                                *)
THEOREM NoFalseHope == Spec => []UpdatesNotOptimistic
<1> DEFINE Told(b) == Honest(sent[b], waiting[b], pending[b])
           Inv == \A b \in Booths : Told(b)
<1>1. Init => Inv
  <2> SUFFICES ASSUME Init, NEW b \in Booths PROVE Told(b)
    OBVIOUS
  <2> DEFINE first == [type |-> "BOOTH_ANNOUNCE", dest |-> Broadcast, count |-> 0, waiting |-> 0]
  <2>1. sent[b] = <<first>>
    BY DEF Init
  <2>2. first.type # "QUEUE_UPDATE"
    OBVIOUS
  <2> HIDE DEF first
  <2> QED BY <2>1, <2>2 DEF Honest
<1>2. IInv /\ Inv /\ [Next]_vars => Inv'
  <2> SUFFICES ASSUME IInv, Inv, [Next]_vars, NEW c \in Booths
               PROVE  Honest(sent'[c], waiting'[c], pending'[c])
    OBVIOUS
  <2>0. /\ waiting \in [Booths -> Seq(QueueEntry)] /\ pending \in [Booths -> Users \cup {NoUser}]
        /\ sent \in [Booths -> Seq(Message)] /\ Told(c)
    BY DEF IInv, TypeOK
  <2>1. CASE UNCHANGED vars
    BY <2>0, <2>1 DEF vars
  <2>2. ASSUME NEW b \in Booths, NEW M, sent' = [sent EXCEPT ![b] = M],
               UNCHANGED <<waiting, pending>>, \A q, p : Honest(M, q, p)
        PROVE  Honest(sent'[c], waiting'[c], pending'[c])
    <3>1. CASE c = b
      <4>1. sent'[c] = M
        BY <2>0, <2>2, <3>1
      <4> QED BY <2>2, <4>1
    <3>2. CASE c # b
      <4>1. sent'[c] = sent[c]
        BY <2>0, <2>2, <3>2
      <4> QED BY <2>0, <2>2, <4>1
    <3> QED BY <3>1, <3>2
  <2>3. ASSUME NEW b \in Booths, NEW M, NEW Q, NEW P, Honest(M, Q, P),
               sent' = [sent EXCEPT ![b] = M],
               waiting' = [waiting EXCEPT ![b] = Q], pending' = [pending EXCEPT ![b] = P]
        PROVE  Honest(sent'[c], waiting'[c], pending'[c])
    <3>1. CASE c = b
      <4>1. sent'[c] = M /\ waiting'[c] = Q /\ pending'[c] = P
        BY <2>0, <2>3, <3>1
      <4> QED BY <2>3, <4>1
    <3>2. CASE c # b
      <4>1. sent'[c] = sent[c] /\ waiting'[c] = waiting[c] /\ pending'[c] = pending[c]
        BY <2>0, <2>3, <3>2
      <4> QED BY <2>0, <4>1
    <3> QED BY <3>1, <3>2
  <2>4. CASE Next
    <3>1. ASSUME NEW b \in Booths, NEW u \in Users, Receive(b, u)
          PROVE  Honest(sent'[c], waiting'[c], pending'[c])
      BY <2>2, <2>3, <3>1, ReplyHonest, MoveHonest DEF Receive
    <3>2. ASSUME NEW b \in Booths, NEW u \in Users, SessionTimeout(b, u) \/ BothTimeouts(b, u)
          PROVE  Honest(sent'[c], waiting'[c], pending'[c])
      BY <2>3, <3>2, MoveHonest
    <3>3. ASSUME NEW b \in Booths, QueueReadyTimeout(b)
          PROVE  Honest(sent'[c], waiting'[c], pending'[c])
      BY <2>3, <3>3, MoveHonest
    <3>4. ASSUME NEW b \in Booths,
                 AutoAnnounce(b) \/ AnnounceKey(b) \/ QuietKey(b) \/ AdminMessage(b)
          PROVE  Honest(sent'[c], waiting'[c], pending'[c])
      BY <2>2, <3>4, ReplyHonest
    <3> QED BY <2>4, <3>1, <3>2, <3>3, <3>4 DEF Next
  <2> QED BY <2>1, <2>4
<1>3. IInv /\ Inv => UpdatesNotOptimistic
  BY DEF UpdatesNotOptimistic, Honest
<1> HIDE DEF Inv
<1> QED BY <1>1, <1>2, <1>3, InductiveInvariant, PTL DEF Spec

-----------------------------------------------------------------------------
(* What users are told of their requests *)

IsSuccess(m) == m.type = "REGISTER_RESPONSE" /\ m.reason = "SUCCESS"

NoSuccess(msgs) == \A i \in DOMAIN msgs : ~IsSuccess(msgs[i])

(* Who is told that he is in has been registered.                          *)
Recorded(msgs, list) == \A i \in DOMAIN msgs : IsSuccess(msgs[i]) => msgs[i].dest \in ToSet(list)

(* The messages of the queue admit nobody.                                 *)
LEMMA QueueSaysNothing ==
    ASSUME NEW q, GoodQueue(q), NEW p \in Users \cup {NoUser}
    PROVE  /\ NoSuccess(UpdateAll(q))
           /\ NoSuccess(AdmitNext(q, p).msgs)
           /\ p # NoUser => NoSuccess(CallExpired(q, p).msgs)
<1>1. ASSUME NEW t
      PROVE  NoSuccess(UpdateAll(t))
  <2>1. \A i \in DOMAIN t : UpdateAll(t)[i].type = "QUEUE_UPDATE"
    BY DEF UpdateAll, QueueMessage
  <2>2. DOMAIN UpdateAll(t) = DOMAIN t
    BY DEF UpdateAll
  <2> QED BY <2>1, <2>2 DEF NoSuccess, IsSuccess
<1>2. ASSUME NEW t, NEW c
      PROVE  NoSuccess(AdmitNext(t, c).msgs)
  <2>1. Notice("QUEUE_READY", Head(t).userId).type # "REGISTER_RESPONSE"
    BY DEF Notice
  <2>2. \/ AdmitNext(t, c).msgs = <<Notice("QUEUE_READY", Head(t).userId)>>
        \/ AdmitNext(t, c).msgs = <<>>
    BY DEF AdmitNext
  <2> QED BY <2>1, <2>2 DEF NoSuccess, IsSuccess
<1>3. ASSUME p # NoUser
      PROVE  NoSuccess(CallExpired(q, p).msgs)
  <2> DEFINE rest == RemoveWaiting(q, p)
             msgs == AdmitNext(rest, NoUser).msgs
             bye == <<QueueMessage("QUEUE_UPDATE", p, 0, 0)>>
  <2>1. GoodQueue(rest) /\ UpdateAll(rest) \in Seq(Message) /\ NoSuccess(UpdateAll(rest))
    BY <1>1, RemoveWaitingFact, UpdateAllFact
  <2>2. msgs \in Seq(Message) /\ NoSuccess(msgs)
    BY <1>2, <2>1, AdmitNextFact
  <2>3. bye \in Seq(Message) /\ NoSuccess(bye)
    <3>1. QueueMessage("QUEUE_UPDATE", p, 0, 0) \in Message
      BY <1>3 DEF QueueMessage, Message
    <3>2. QueueMessage("QUEUE_UPDATE", p, 0, 0).type # "REGISTER_RESPONSE"
      BY DEF QueueMessage
    <3> HIDE DEF rest, msgs
    <3> QED BY <3>1, <3>2 DEF NoSuccess, IsSuccess
  <2>4. CallExpired(q, p).msgs = bye \o UpdateAll(rest) \o msgs
    BY DEF CallExpired, AdmitNext
  <2> HIDE DEF rest, msgs, bye
  <2>5. bye \o UpdateAll(rest) \in Seq(Message) /\ NoSuccess(bye \o UpdateAll(rest))
    BY <2>1, <2>3, ConcatParts, ConcatProperties DEF NoSuccess
  <2>6. NoSuccess(bye \o UpdateAll(rest) \o msgs)
    BY <2>2, <2>5, ConcatParts DEF NoSuccess
  <2> QED BY <2>4, <2>6
<1> QED BY <1>1, <1>2, <1>3

(* Handlers other than that of an admission tell nobody that he is in.     *)
LEMMA OnlyAdmissionSays ==
    ASSUME IInv, NEW b \in Booths,
           \/ QueueReadyTimeout(b)
           \/ AutoAnnounce(b) \/ AnnounceKey(b) \/ QuietKey(b) \/ AdminMessage(b)
           \/ \E u \in Users : SessionTimeout(b, u) \/ BothTimeouts(b, u)
           \/ \E u \in Users : Receive(b, u) /\ ~RegisterAdmitted(b, u)
    PROVE  /\ registered' = registered
           /\ \E M : NoSuccess(M) /\ sent' = [sent EXCEPT ![b] = M]
<1> DEFINE Says(M) == sent' = [sent EXCEPT ![b] = M]
           Quiet == registered' = registered /\ \E M : NoSuccess(M) /\ Says(M)
           q == waiting[b]
           next == AdmitNext(q, pending[b])
           late == CallExpired(q, pending[b])
<1>0. GoodQueue(q) /\ pending[b] \in Users \cup {NoUser}
  BY BoothAt
<1>1. /\ next.msgs \in Seq(Message) /\ NoSuccess(next.msgs)
      /\ pending[b] # NoUser => late.msgs \in Seq(Message) /\ NoSuccess(late.msgs)
  BY <1>0, AdmitNextFact, CallExpiredFact, QueueSaysNothing
<1>2. ASSUME NEW t \in {"EXIT_RESPONSE", "TIMEOUT_ALERT"}, NEW u \in Users,
             NEW M \in Seq(Message), NoSuccess(M)
      PROVE  NoSuccess(<<Notice(t, u)>> \o M)
  <2>1. Notice(t, u) \in Message /\ Notice(t, u).type # "REGISTER_RESPONSE"
    BY DEF Notice, Message
  <2>2. <<Notice(t, u)>> \in Seq(Message) /\ NoSuccess(<<Notice(t, u)>>)
    BY <2>1 DEF NoSuccess, IsSuccess
  <2> QED BY <1>2, <2>2, ConcatParts DEF NoSuccess
<1>3. CASE QueueReadyTimeout(b)
  <2>1. pending[b] # NoUser /\ Says(late.msgs) /\ registered' = registered
    BY <1>3 DEF QueueReadyTimeout, Send
  <2> HIDE DEF late
  <2> QED BY <1>1, <2>1
<1>4. ASSUME NEW u \in Users, BothTimeouts(b, u)
      PROVE  Quiet
  <2>1. /\ pending[b] # NoUser /\ registered' = registered
        /\ Says(<<Notice("TIMEOUT_ALERT", u)>> \o late.msgs)
    BY <1>4 DEF BothTimeouts, Send
  <2> HIDE DEF late, Says
  <2>2. NoSuccess(<<Notice("TIMEOUT_ALERT", u)>> \o late.msgs)
    BY <1>1, <1>2, <2>1
  <2> QED BY <2>1, <2>2
<1>5. ASSUME NEW u \in Users, ExitRequest(b, u) \/ SessionTimeout(b, u)
      PROVE  Quiet
  <2>1. /\ registered' = registered
        /\ \E t \in {"EXIT_RESPONSE", "TIMEOUT_ALERT"} : Says(<<Notice(t, u)>> \o next.msgs)
    BY <1>5 DEF ExitRequest, SessionTimeout, Send
  <2> HIDE DEF next, Says
  <2> QED BY <1>1, <1>2, <2>1
<1>6. ASSUME NEW u \in Users, UserResponseNo(b, u) \/ QueueLeave(b, u)
      PROVE  Quiet
  <2> DEFINE rest == RemoveWaiting(q, u)
  <2>1. registered' = registered /\ Says(UpdateAll(rest))
    BY <1>6 DEF UserResponseNo, QueueLeave, Send
  <2>2. NoSuccess(UpdateAll(rest))
    BY <1>0, RemoveWaitingFact, QueueSaysNothing
  <2> HIDE DEF rest, Says
  <2> QED BY <2>1, <2>2
<1>7. ASSUME NEW d, NEW t \in {"BOOTH_ANNOUNCE", "BOOTH_INFO"}
      PROVE  NoSuccess(<<BoothStatus(t, b, d)>>)
  <2>1. BoothStatus(t, b, d).type # "REGISTER_RESPONSE"
    BY DEF BoothStatus
  <2> QED BY <2>1 DEF NoSuccess, IsSuccess
<1>8. NoSuccess(<<>>)
  BY DEF NoSuccess
<1>9. CASE AutoAnnounce(b) \/ AnnounceKey(b) \/ QuietKey(b)
  BY <1>7, <1>8, <1>9 DEF AutoAnnounce, AnnounceKey, QuietKey, Send
<1>10. CASE AdminMessage(b)
  <2> DEFINE M == [i \in DOMAIN active[b] |-> Notice("ADMIN_MESSAGE", active[b][i])]
  <2>1. \A i \in DOMAIN M : M[i].type # "REGISTER_RESPONSE"
    BY DEF Notice
  <2>2. registered' = registered /\ Says(M)
    BY <1>10 DEF AdminMessage, Send
  <2> HIDE DEF M, Says
  <2>3. NoSuccess(M)
    BY <2>1 DEF NoSuccess, IsSuccess
  <2> QED BY <2>2, <2>3 DEF Says
<1>11. ASSUME NEW u \in Users, ChatMessage(b, u)
       PROVE  Quiet
  <2> DEFINE others == RemoveActive(active[b], u)
             M == [i \in DOMAIN others |->
                     [type |-> "CHAT_MESSAGE", dest |-> others[i], sender |-> u]]
  <2>1. \A i \in DOMAIN M : M[i].type # "REGISTER_RESPONSE"
    OBVIOUS
  <2>2. registered' = registered /\ (Says(M) \/ Says(<<>>))
    BY <1>11 DEF ChatMessage, Send
  <2> HIDE DEF M, Says
  <2>3. NoSuccess(M)
    BY <2>1 DEF NoSuccess, IsSuccess
  <2> QED BY <1>8, <2>2, <2>3
<1>12. ASSUME NEW u \in Users,
              BoothScan(b, u) \/ ConnectRequest(b, u) \/ OnlyLogged(b, u) \/ RegisterRejected(b, u)
       PROVE  Quiet
  <2>1. NoSuccess(<<RegisterResponse(u, "ALREADY_USED")>>)
    <3>1. RegisterResponse(u, "ALREADY_USED").reason # "SUCCESS"
      BY DEF RegisterResponse
    <3> QED BY <3>1 DEF NoSuccess, IsSuccess
  <2> QED BY <1>7, <1>8, <1>12, <2>1
        DEF BoothScan, ConnectRequest, OnlyLogged, RegisterRejected, Send
<1>13. ASSUME NEW u \in Users, RegisterQueued(b, u) \/ RegisterStillQueued(b, u)
       PROVE  Quiet
  <2> DEFINE full == RegisterResponse(u, "FULL_WAITING")
             info(place, total) == QueueMessage("QUEUE_INFO", u, place, total)
  <2>1. full.reason # "SUCCESS" /\ \A x, y : info(x, y).type # "REGISTER_RESPONSE"
    BY DEF RegisterResponse, QueueMessage
  <2>2. registered' = registered /\ \E x, y : Says(<<full, info(x, y)>>)
    BY <1>13 DEF RegisterQueued, RegisterStillQueued, Send
  <2> HIDE DEF full, info, Says
  <2>3. \A x, y : NoSuccess(<<full, info(x, y)>>)
    BY <2>1 DEF NoSuccess, IsSuccess
  <2> QED BY <2>2, <2>3
<1> HIDE DEF Says
<1> QED BY <1>3, <1>4, <1>5, <1>6, <1>9, <1>10, <1>11, <1>12, <1>13 DEF Receive, Says

(* A step of the booths keeps whom it registered, and records whom it      *)
(* tells that he is in.                                                    *)
LEMMA StepRecords ==
    ASSUME IInv, [Next]_vars, \A b \in Booths : Recorded(sent[b], registered[b])
    PROVE  \A b \in Booths : /\ Recorded(sent'[b], registered'[b])
                             /\ ToSet(registered[b]) \subseteq ToSet(registered'[b])
<1> SUFFICES ASSUME NEW c \in Booths
             PROVE  /\ Recorded(sent'[c], registered'[c])
                    /\ ToSet(registered[c]) \subseteq ToSet(registered'[c])
  OBVIOUS
<1>0. sent \in [Booths -> Seq(Message)] /\ registered \in [Booths -> Seq(Users)]
  BY DEF IInv, TypeOK
<1>1. CASE UNCHANGED vars
  BY <1>1 DEF vars
<1>2. ASSUME NEW b \in Booths, registered' = registered,
             NEW M, NoSuccess(M), sent' = [sent EXCEPT ![b] = M]
      PROVE  Recorded(sent'[c], registered'[c])
  <2>1. sent'[c] = M \/ sent'[c] = sent[c]
    BY <1>0, <1>2
  <2> QED BY <1>2, <2>1 DEF Recorded, NoSuccess
<1>3. ASSUME NEW b \in Booths, NEW u \in Users, RegisterAdmitted(b, u)
      PROVE  /\ Recorded(sent'[c], registered'[c])
             /\ ToSet(registered[c]) \subseteq ToSet(registered'[c])
  <2> DEFINE rest == RemoveWaiting(waiting[b], u)
             answer == <<RegisterResponse(u, "SUCCESS")>>
  <2>1. registered' = [registered EXCEPT ![b] = Append(registered[b], u)]
    BY <1>3, AdmissionStep
  <2>2. ToSet(Append(registered[b], u)) = ToSet(registered[b]) \cup {u}
    BY <1>3, AdmissionStep, BoothAt, AppendFact
  <2>3. \/ sent' = [sent EXCEPT ![b] = UpdateAll(rest) \o answer]
        \/ sent' = [sent EXCEPT ![b] = answer]
    BY <1>3 DEF RegisterAdmitted, Send
  <2>4. UpdateAll(rest) \in Seq(Message) /\ NoSuccess(UpdateAll(rest))
    BY BoothAt, RemoveWaitingFact, UpdateAllFact, QueueSaysNothing, NoUserAssumption
  <2>5. /\ answer \in Seq(Message)
        /\ \A i \in DOMAIN answer : answer[i].dest = u
    BY DEF RegisterResponse, Message
  <2> HIDE DEF rest, answer
  <2>6. \A i \in DOMAIN (UpdateAll(rest) \o answer) :
          IsSuccess((UpdateAll(rest) \o answer)[i]) => (UpdateAll(rest) \o answer)[i].dest = u
    BY <2>4, <2>5, ConcatParts DEF NoSuccess
  <2>7. CASE c = b
    <3>1. ToSet(registered'[c]) = ToSet(registered[c]) \cup {u}
      BY <1>0, <2>1, <2>2, <2>7
    <3>2. sent'[c] = UpdateAll(rest) \o answer \/ sent'[c] = answer
      BY <1>0, <2>3, <2>7
    <3> QED BY <2>5, <2>6, <3>1, <3>2 DEF Recorded
  <2>8. CASE c # b
    <3>1. registered'[c] = registered[c] /\ sent'[c] = sent[c]
      BY <1>0, <2>1, <2>3, <2>8
    <3> QED BY <3>1
  <2> QED BY <2>7, <2>8
<1>4. CASE Next
  <2>1. PICK b \in Booths :
          \/ \E u \in Users : Receive(b, u) \/ SessionTimeout(b, u) \/ BothTimeouts(b, u)
          \/ QueueReadyTimeout(b)
          \/ AutoAnnounce(b) \/ AnnounceKey(b) \/ QuietKey(b) \/ AdminMessage(b)
    BY <1>4 DEF Next
  <2>2. CASE \E u \in Users : RegisterAdmitted(b, u)
    BY <1>3, <2>2
  <2>3. CASE ~\E u \in Users : RegisterAdmitted(b, u)
    <3>1. /\ registered' = registered
          /\ \E M : NoSuccess(M) /\ sent' = [sent EXCEPT ![b] = M]
      BY <2>1, <2>3, OnlyAdmissionSays
    <3> QED BY <1>2, <3>1
  <2> QED BY <2>2, <2>3
<1> QED BY <1>1, <1>4

-----------------------------------------------------------------------------
(* What a booth tells a user last *)

(* A message by what it means to its receiver.                             *)
Kind(m) ==
    IF m.type = "REGISTER_RESPONSE" THEN m.reason
    ELSE IF m.type = "QUEUE_UPDATE" /\ (m.pos = 0 \/ m.total = 0) THEN "REMOVED"
    ELSE m.type

Asides == {"BOOTH_ANNOUNCE", "BOOTH_INFO", "QUEUE_UPDATE", "ADMIN_MESSAGE", "CHAT_MESSAGE"}
Answers == {"SUCCESS", "ALREADY_USED", "FULL_WAITING", "QUEUE_INFO"}
Farewells == {"EXIT_RESPONSE", "TIMEOUT_ALERT"}

(* The user stands in the queue of the booth, or is called from it.        *)
Bound(b, u) == InQueue(waiting[b], u) \/ pending[b] = u

(* Layer 2 keeps the last request of a handler: u is told k.               *)
Tells(b, u, k) == sent'[b] # <<>> /\ Last(sent'[b]).dest = u /\ Kind(Last(sent'[b])) = k

(* What a step of booth b may do with user u, where r is the request of u  *)
(* that is handled, if any, and idle says that nothing to or from u is     *)
(* under way.                                                              *)
Treats(b, u, r, idle) ==
    /\ ToSet(registered[b]) \subseteq ToSet(registered'[b])
    /\ u \in ToSet(active'[b]) \ ToSet(active[b]) =>
         r = "REGISTER_REQUEST" /\ Tells(b, u, "SUCCESS")
    /\ u \in ToSet(active[b]) \ ToSet(active'[b]) => r = "EXIT_REQUEST" \/ idle
    /\ Bound(b, u)' => Bound(b, u) \/ r = "REGISTER_REQUEST"
    /\ pending[b] = u /\ pending'[b] # u =>
         \/ idle
         \/ r = "USER_RESPONSE_NO"
         \/ r = "REGISTER_REQUEST" /\ Tells(b, u, "SUCCESS") /\ ~Bound(b, u)'
    /\ Tells(b, u, "QUEUE_READY") =>
         InQueue(waiting[b], u) /\ pending[b] # u /\ pending'[b] = u
    /\ Tells(b, u, "REMOVED") => idle /\ pending[b] = u /\ ~Bound(b, u)'
    /\ \A k \in Answers : Tells(b, u, k) => r = "REGISTER_REQUEST"
    /\ Tells(b, u, "SUCCESS") => u \in ToSet(active'[b])
    /\ \A k \in Farewells :
         Tells(b, u, k) => u \in ToSet(active[b]) \ ToSet(active'[b])

(* The last of a list that is not empty.                                   *)
LEMMA LastFact ==
    ASSUME NEW S, NEW s \in Seq(S), s # <<>>
    PROVE  Len(s) \in DOMAIN s /\ Last(s) = s[Len(s)] /\ Last(s) \in S
<1>1. Len(s) \in Nat \ {0} /\ DOMAIN s = 1 .. Len(s)
  BY EmptySeq, LenProperties
<1>2. Len(s) \in 1 .. Len(s)
  BY <1>1
<1> QED BY <1>1, <1>2, ElementOfSeq DEF Last

(* The last of two lists is the last of the second.                        *)
LEMMA LastOfTwo ==
    ASSUME NEW S, NEW s \in Seq(S), NEW t \in Seq(S), t # <<>>
    PROVE  s \o t # <<>> /\ Last(s \o t) = Last(t)
<1>1. Len(s) \in Nat /\ Len(t) \in Nat \ {0}
  BY EmptySeq, LenProperties
<1>2. s \o t \in Seq(S) /\ Len(s \o t) = Len(s) + Len(t)
  BY ConcatProperties
<1>3. Len(s) + Len(t) \in 1 .. (Len(s) + Len(t))
  BY <1>1
<1>4. (s \o t)[Len(s) + Len(t)] = t[Len(s) + Len(t) - Len(s)]
  <2>1. ~(Len(s) + Len(t) <= Len(s))
    BY <1>1
  <2> QED BY <1>3, <2>1, ConcatProperties
<1>5. Len(s) + Len(t) - Len(s) = Len(t)
  BY <1>1
<1>6. s \o t # <<>>
  BY <1>1, <1>2
<1> QED BY <1>2, <1>4, <1>5, <1>6 DEF Last

(* A step that changes no list and tells nothing that matters.             *)
LEMMA AsidesTreat ==
    ASSUME NEW b \in Booths, NEW u, NEW r, NEW idle \in BOOLEAN,
           UNCHANGED <<registered, active, waiting, pending>>,
           sent'[b] \in Seq(Message),
           \A i \in DOMAIN sent'[b] : Kind(sent'[b][i]) \in Asides
    PROVE  Treats(b, u, r, idle)
<1>1. sent'[b] # <<>> => Kind(Last(sent'[b])) \in Asides
  BY LastFact
<1>2. \A k : Tells(b, u, k) => k \in Asides
  BY <1>1 DEF Tells
<1>3. ~Tells(b, u, "QUEUE_READY") /\ ~Tells(b, u, "REMOVED") /\ ~Tells(b, u, "SUCCESS")
      /\ \A k \in Answers \cup Farewells : ~Tells(b, u, k)
  BY <1>2 DEF Asides, Answers, Farewells
<1>4. Bound(b, u)' <=> Bound(b, u)
  BY DEF Bound, InQueue, Positions
<1> QED BY <1>3, <1>4 DEF Treats

(* Announcements, information, chat and what is only logged.               *)
LEMMA SpeechTreats ==
    ASSUME IInv, NEW b \in Booths, NEW u, NEW r, NEW idle \in BOOLEAN,
           \/ AutoAnnounce(b) \/ AnnounceKey(b) \/ QuietKey(b) \/ AdminMessage(b)
           \/ \E w \in Users : \/ BoothScan(b, w) \/ ConnectRequest(b, w)
                               \/ OnlyLogged(b, w) \/ ChatMessage(b, w)
    PROVE  Treats(b, u, r, idle)
<1>1. IInv'
  BY ReplyStep
<1>2. sent'[b] \in Seq(Message)
  BY <1>1 DEF IInv, TypeOK
<1>3. UNCHANGED <<registered, active, waiting, pending>>
  BY DEF AutoAnnounce, AnnounceKey, QuietKey, AdminMessage, BoothScan, ConnectRequest,
         OnlyLogged, ChatMessage
<1>4. sent \in [Booths -> Seq(Message)]
  BY DEF IInv, TypeOK
<1>5. ASSUME NEW M, Send(b, M), \A i \in DOMAIN M : Kind(M[i]) \in Asides
      PROVE  \A i \in DOMAIN sent'[b] : Kind(sent'[b][i]) \in Asides
  BY <1>4, <1>5 DEF Send
<1>6. ASSUME NEW d, NEW t \in {"BOOTH_ANNOUNCE", "BOOTH_INFO"}, Send(b, <<BoothStatus(t, b, d)>>)
      PROVE  \A i \in DOMAIN sent'[b] : Kind(sent'[b][i]) \in Asides
  <2>1. Kind(BoothStatus(t, b, d)) \in Asides
    BY DEF Kind, BoothStatus, Asides
  <2> QED BY <1>5, <1>6, <2>1
<1>7. Send(b, <<>>) => \A i \in DOMAIN sent'[b] : Kind(sent'[b][i]) \in Asides
  BY <1>5
<1>8. AdminMessage(b) => \A i \in DOMAIN sent'[b] : Kind(sent'[b][i]) \in Asides
  <2> DEFINE M == [i \in DOMAIN active[b] |-> Notice("ADMIN_MESSAGE", active[b][i])]
  <2>1. \A i \in DOMAIN M : Kind(M[i]) \in Asides
    BY DEF Notice, Kind, Asides
  <2>2. AdminMessage(b) => Send(b, M)
    BY DEF AdminMessage
  <2> HIDE DEF M
  <2> QED BY <1>5, <2>1, <2>2
<1>9. ASSUME NEW w \in Users, ChatMessage(b, w)
      PROVE  \A i \in DOMAIN sent'[b] : Kind(sent'[b][i]) \in Asides
  <2> DEFINE others == RemoveActive(active[b], w)
             M == [i \in DOMAIN others |->
                     [type |-> "CHAT_MESSAGE", dest |-> others[i], sender |-> w]]
  <2>1. \A i \in DOMAIN M : Kind(M[i]) \in Asides
    BY DEF Kind, Asides
  <2>2. Send(b, M) \/ Send(b, <<>>)
    BY <1>9 DEF ChatMessage
  <2> HIDE DEF M
  <2> QED BY <1>5, <1>7, <2>1, <2>2
<1>10. ASSUME AutoAnnounce(b) \/ AnnounceKey(b) \/ QuietKey(b)
       PROVE  \A i \in DOMAIN sent'[b] : Kind(sent'[b][i]) \in Asides
  BY <1>6, <1>7, <1>10 DEF AutoAnnounce, AnnounceKey, QuietKey
<1>11. ASSUME NEW w \in Users, BoothScan(b, w) \/ ConnectRequest(b, w) \/ OnlyLogged(b, w)
       PROVE  \A i \in DOMAIN sent'[b] : Kind(sent'[b][i]) \in Asides
  BY <1>6, <1>7, <1>11 DEF BoothScan, ConnectRequest, OnlyLogged
<1>12. \A i \in DOMAIN sent'[b] : Kind(sent'[b][i]) \in Asides
  BY <1>8, <1>9, <1>10, <1>11
<1> QED BY <1>2, <1>3, <1>12, AsidesTreat

(* Places of the queue that are told are aside: none is 0.                 *)
LEMMA PlacesAreAside ==
    ASSUME NEW q, GoodQueue(q)
    PROVE  /\ UpdateAll(q) \in Seq(Message)
           /\ \A i \in DOMAIN UpdateAll(q) : Kind(UpdateAll(q)[i]) \in Asides
<1>1. Len(q) \in Nat /\ DOMAIN q = 1 .. Len(q)
  BY GoodFact
<1>2. ASSUME NEW i \in 1 .. Len(q)
      PROVE  Kind(QueueMessage("QUEUE_UPDATE", q[i].userId, i, Len(q))) \in Asides
  <2>1. i # 0 /\ Len(q) # 0
    BY <1>1
  <2> QED BY <2>1 DEF Kind, QueueMessage, Asides
<1> QED BY <1>1, <1>2, UpdateAllFact DEF UpdateAll

(* A queue that has lost a user, or its head, has gained nobody.           *)
LEMMA RemovedWaits ==
    ASSUME NEW q, GoodQueue(q), NEW w, NEW u, InQueue(RemoveWaiting(q, w), u)
    PROVE  InQueue(q, u) /\ u # w
<1>1. u # w
  BY RemoveWaitingFact
<1>2. CASE ~InQueue(q, w)
  BY <1>2 DEF RemoveWaiting
<1>3. CASE InQueue(q, w)
  <2>0. Len(q) \in Nat
    BY GoodFact
  <2>1. PICK k \in 1 .. Len(q) :
          /\ Len(RemoveWaiting(q, w)) = Len(q) - 1
          /\ \A i \in 1 .. Len(q) - 1 :
               RemoveWaiting(q, w)[i].userId = q[IF i < k THEN i ELSE i + 1].userId
    BY <1>3, RemovedPlaces
  <2>2. GoodQueue(RemoveWaiting(q, w))
    BY RemoveWaitingFact
  <2>3. PICK i \in 1 .. Len(q) - 1 : RemoveWaiting(q, w)[i].userId = u
    BY <2>1, <2>2, GoodFact
  <2>4. (IF i < k THEN i ELSE i + 1) \in 1 .. Len(q)
    BY <2>0
  <2> QED BY <1>1, <2>1, <2>3, <2>4, GoodFact
<1> QED BY <1>1, <1>2, <1>3

(* Who still waits when the first is called has waited before.             *)
LEMMA TailWaits ==
    ASSUME NEW q, GoodQueue(q), q # <<>>, NEW u, InQueue(Renumber(Tail(q)), u)
    PROVE  InQueue(q, u) /\ u # Head(q).userId
<1>0. Len(q) \in Nat \ {0} /\ Head(q) = q[1] /\ 1 \in 1 .. Len(q)
  <2>1. Len(q) \in Nat \ {0}
    BY GoodFact, EmptySeq
  <2>2. Head(q) = q[1]
    BY GoodFact, HeadTailProperties
  <2> QED BY <2>1, <2>2
<1>1. GoodQueue(Renumber(Tail(q)))
  BY TailFact
<1>2. PICK i \in 1 .. Len(q) - 1 : Renumber(Tail(q))[i].userId = u
  BY <1>1, GoodFact, TailPlaces
<1>3. i + 1 \in 1 .. Len(q) /\ i + 1 # 1 /\ q[i + 1].userId = u
  BY <1>0, <1>2, TailPlaces
<1> QED BY <1>0, <1>3, GoodFact

(* After a session the head of the queue is called, or the user who leaves *)
(* hears last.                                                             *)
LEMMA NextIsTold ==
    ASSUME NEW q, GoodQueue(q), NEW p \in Users \cup {NoUser}, NEW m \in Message
    PROVE  /\ <<m>> \o AdmitNext(q, p).msgs # <<>>
           /\ \/ /\ AdmitNext(q, p).queue = q /\ AdmitNext(q, p).pending = p
                 /\ Last(<<m>> \o AdmitNext(q, p).msgs) = m
              \/ /\ q # <<>> /\ p = NoUser
                 /\ AdmitNext(q, p).queue = Renumber(Tail(q))
                 /\ AdmitNext(q, p).pending = Head(q).userId
                 /\ Last(<<m>> \o AdmitNext(q, p).msgs) = Notice("QUEUE_READY", Head(q).userId)
<1> DEFINE next == AdmitNext(q, p)
<1>1. CASE q # <<>> /\ p = NoUser
  <2> DEFINE call == Notice("QUEUE_READY", Head(q).userId)
  <2>1. /\ next.queue = Renumber(Tail(q)) /\ next.pending = Head(q).userId
        /\ next.msgs = <<call>>
    BY <1>1 DEF AdmitNext
  <2>2. call \in Message
    BY <1>1, TailFact DEF Notice, Message
  <2> HIDE DEF next, call
  <2>3. Last(<<call>>) = call /\ <<call>> # <<>> /\ <<call>> \in Seq(Message) /\ <<m>> \in Seq(Message)
    BY <2>2 DEF Last
  <2>4. <<m>> \o <<call>> # <<>> /\ Last(<<m>> \o <<call>>) = call
    BY <2>3, LastOfTwo
  <2> QED BY <1>1, <2>1, <2>4 DEF call, next
<1>2. CASE ~(q # <<>> /\ p = NoUser)
  <2>1. next.queue = q /\ next.pending = p /\ next.msgs = <<>>
    BY <1>2 DEF AdmitNext
  <2>2. <<m>> \o <<>> = <<m>> /\ Last(<<m>>) = m /\ <<m>> # <<>>
    BY DEF Last
  <2> QED BY <2>1, <2>2
<1> QED BY <1>1, <1>2

(* When a call has expired the head of the rest is called, or the user who *)
(* did not answer hears last, whatever was said before.                    *)
LEMMA ExpiryIsTold ==
    ASSUME NEW q, GoodQueue(q), NEW p \in Users, NEW s \in Seq(Message)
    PROVE  LET rest == RemoveWaiting(q, p)
               next == CallExpired(q, p)
           IN  /\ s \o next.msgs # <<>>
               /\ \/ /\ rest = <<>> /\ next.queue = rest /\ next.pending = NoUser
                     /\ Last(s \o next.msgs) = QueueMessage("QUEUE_UPDATE", p, 0, 0)
                  \/ /\ rest # <<>>
                     /\ next.queue = Renumber(Tail(rest)) /\ next.pending = Head(rest).userId
                     /\ Last(s \o next.msgs) = Notice("QUEUE_READY", Head(rest).userId)
<1> DEFINE rest == RemoveWaiting(q, p)
           next == CallExpired(q, p)
           after == AdmitNext(rest, NoUser)
           out == QueueMessage("QUEUE_UPDATE", p, 0, 0)
<1>1. /\ next.queue = after.queue /\ next.pending = after.pending
      /\ next.msgs = <<out>> \o UpdateAll(rest) \o after.msgs
  BY DEF CallExpired, AdmitNext
<1>2. GoodQueue(rest) /\ out \in Message
  BY RemoveWaitingFact DEF QueueMessage, Message
<1> HIDE DEF next, out
<1>3. UpdateAll(rest) \in Seq(Message) /\ <<out>> \in Seq(Message) /\ <<>> \in Seq(Message)
  BY <1>2, UpdateAllFact
<1>4. CASE rest # <<>>
  <2> DEFINE call == Notice("QUEUE_READY", Head(rest).userId)
  <2>1. /\ after.queue = Renumber(Tail(rest)) /\ after.pending = Head(rest).userId
        /\ after.msgs = <<call>>
    BY <1>4 DEF AdmitNext
  <2>2. call \in Message
    BY <1>2, <1>4, TailFact DEF Notice, Message
  <2> HIDE DEF rest, after, call
  <2>3. Last(<<call>>) = call /\ <<call>> # <<>> /\ <<call>> \in Seq(Message)
    BY <2>2 DEF Last
  <2> DEFINE first == <<out>> \o UpdateAll(rest)
  <2>4. first \in Seq(Message)
    BY <1>3, ConcatProperties
  <2> HIDE DEF first
  <2>5. /\ first \o <<call>> \in Seq(Message) /\ first \o <<call>> # <<>>
        /\ Last(first \o <<call>>) = call
    BY <2>3, <2>4, LastOfTwo, ConcatProperties
  <2>6. s \o (first \o <<call>>) # <<>> /\ Last(s \o (first \o <<call>>)) = call
    BY <2>5, LastOfTwo
  <2>7. next.msgs = first \o <<call>>
    BY <1>1, <2>1 DEF first
  <2> QED BY <1>1, <1>4, <2>1, <2>6, <2>7 DEF next, rest, call
<1>5. CASE rest = <<>>
  <2>1. after.queue = rest /\ after.pending = NoUser /\ after.msgs = <<>>
    BY <1>5 DEF AdmitNext
  <2>2. UpdateAll(rest) = <<>>
    BY <1>5 DEF UpdateAll
  <2>3. Last(<<out>>) = out /\ <<out>> # <<>>
    BY DEF Last
  <2> HIDE DEF rest, after
  <2>4. <<out>> \o <<>> \o <<>> = <<out>>
    BY <1>3
  <2>5. next.msgs = <<out>>
    BY <1>1, <2>1, <2>2, <2>4
  <2>6. s \o <<out>> # <<>> /\ Last(s \o <<out>>) = out
    BY <1>3, <2>3, LastOfTwo
  <2> QED BY <1>1, <1>5, <2>1, <2>5, <2>6 DEF next, rest, out
<1> QED BY <1>4, <1>5

(* A session that ends, by the user's wish or by the timer.                *)
LEMMA EndTreats ==
    ASSUME IInv, NEW b \in Booths, NEW w \in Users,
           ExitRequest(b, w) \/ SessionTimeout(b, w),
           NEW u \in Users, NEW r, NEW idle \in BOOLEAN,
           w = u => r = "EXIT_REQUEST" \/ idle
    PROVE  Treats(b, u, r, idle)
<1> DEFINE q == waiting[b]
           p == pending[b]
           next == AdmitNext(q, p)
<1>0. /\ sent \in [Booths -> Seq(Message)] /\ waiting \in [Booths -> Seq(QueueEntry)]
      /\ pending \in [Booths -> Users \cup {NoUser}] /\ active \in [Booths -> Seq(Users)]
      /\ GoodQueue(q) /\ p \in Users \cup {NoUser}
  BY BoothAt DEF IInv, TypeOK
<1>1. PICK t \in Farewells :
        /\ w \in ToSet(active[b])
        /\ active' = [active EXCEPT ![b] = RemoveActive(active[b], w)]
        /\ SetQueue(b, next)
        /\ Send(b, <<Notice(t, w)>> \o next.msgs)
        /\ UNCHANGED registered
  BY DEF ExitRequest, SessionTimeout, Farewells
<1>2. ToSet(active'[b]) = ToSet(active[b]) \ {w}
  BY <1>0, <1>1, BoothAt, RemoveActiveFact
<1>3. Notice(t, w) \in Message /\ Kind(Notice(t, w)) = t /\ Notice(t, w).dest = w
  BY DEF Notice, Message, Kind, Farewells
<1>4. /\ waiting'[b] = next.queue /\ pending'[b] = next.pending
      /\ sent'[b] = <<Notice(t, w)>> \o next.msgs
  BY <1>0, <1>1 DEF SetQueue, Send
<1>5. CASE next.queue = q /\ next.pending = p /\ Last(<<Notice(t, w)>> \o next.msgs) = Notice(t, w)
  <2>1. \A k : Tells(b, u, k) => k = t /\ u = w
    BY <1>3, <1>4, <1>5 DEF Tells
  <2>2. waiting'[b] = waiting[b] /\ pending'[b] = pending[b]
    BY <1>4, <1>5
  <2>3. Bound(b, u)' <=> Bound(b, u)
    BY <2>2 DEF Bound, InQueue, Positions
  <2>4. ~Tells(b, u, "QUEUE_READY") /\ ~Tells(b, u, "REMOVED")
        /\ \A k \in Answers : ~Tells(b, u, k)
    BY <2>1 DEF Farewells, Answers
  <2>5. ~Tells(b, u, "SUCCESS")
    BY <2>4 DEF Answers
  <2> HIDE DEF next, q, p
  <2> QED BY <1>1, <1>2, <2>1, <2>2, <2>3, <2>4, <2>5 DEF Treats
<1>6. CASE /\ q # <<>> /\ p = NoUser
           /\ next.queue = Renumber(Tail(q)) /\ next.pending = Head(q).userId
           /\ Last(<<Notice(t, w)>> \o next.msgs) = Notice("QUEUE_READY", Head(q).userId)
  <2>1. \A k : Tells(b, u, k) => k = "QUEUE_READY" /\ u = Head(q).userId
    BY <1>4, <1>6 DEF Tells, Notice, Kind
  <2>2. InQueue(q, Head(q).userId)
    <3>1. Head(q) = q[1] /\ 1 \in 1 .. Len(q)
      BY <1>0, <1>6, GoodFact, EmptySeq, HeadTailProperties
    <3> QED BY <1>0, <3>1, GoodFact
  <2>3. Bound(b, u)' => InQueue(q, u)
    <3>1. InQueue(waiting'[b], u) => InQueue(q, u)
      BY <1>0, <1>4, <1>6, TailWaits
    <3>2. Bound(b, u)' => InQueue(waiting'[b], u) \/ pending'[b] = u
      BY DEF Bound, InQueue, Positions
    <3> QED BY <1>4, <1>6, <2>2, <3>1, <3>2
  <2>4. pending[b] # u
    BY <1>6, NoUserAssumption
  <2>5. ~Tells(b, u, "REMOVED") /\ \A k \in Answers \cup Farewells : ~Tells(b, u, k)
    BY <2>1 DEF Farewells, Answers
  <2>6. ~Tells(b, u, "SUCCESS")
    BY <2>5 DEF Answers
  <2>7. Tells(b, u, "QUEUE_READY") => InQueue(q, u) /\ pending'[b] = u
    BY <1>4, <1>6, <2>1, <2>2
  <2> HIDE DEF next
  <2> QED BY <1>1, <1>2, <2>3, <2>4, <2>5, <2>6, <2>7 DEF Treats, Bound
<1>7. \/ next.queue = q /\ next.pending = p /\ Last(<<Notice(t, w)>> \o next.msgs) = Notice(t, w)
      \/ /\ q # <<>> /\ p = NoUser
         /\ next.queue = Renumber(Tail(q)) /\ next.pending = Head(q).userId
         /\ Last(<<Notice(t, w)>> \o next.msgs) = Notice("QUEUE_READY", Head(q).userId)
  <2> HIDE DEF q, p
  <2> QED BY <1>0, <1>3, NextIsTold
<1> QED BY <1>5, <1>6, <1>7

(* A call that has expired, alone or together with a session.              *)
LEMMA ExpiryTreats ==
    ASSUME IInv, NEW b \in Booths, NEW u \in Users, NEW r, NEW idle \in BOOLEAN,
           pending[b] = u => idle,
           \/ QueueReadyTimeout(b)
           \/ \E w \in Users : BothTimeouts(b, w) /\ (w = u => idle)
    PROVE  Treats(b, u, r, idle)
<1> DEFINE q == waiting[b]
           p == pending[b]
           rest == RemoveWaiting(q, p)
           next == CallExpired(q, p)
<1>0. /\ sent \in [Booths -> Seq(Message)] /\ waiting \in [Booths -> Seq(QueueEntry)]
      /\ pending \in [Booths -> Users \cup {NoUser}] /\ active \in [Booths -> Seq(Users)]
      /\ GoodQueue(q) /\ p \in Users \cup {NoUser}
  BY BoothAt DEF IInv, TypeOK
<1>1. /\ p # NoUser
      /\ SetQueue(b, next)
      /\ UNCHANGED registered
  BY DEF QueueReadyTimeout, BothTimeouts
<1>2. /\ ToSet(active'[b]) \subseteq ToSet(active[b])
      /\ u \in ToSet(active[b]) \ ToSet(active'[b]) => idle
  <2>1. CASE QueueReadyTimeout(b)
    BY <2>1 DEF QueueReadyTimeout
  <2>2. ASSUME NEW w \in Users, BothTimeouts(b, w), w = u => idle
        PROVE  /\ ToSet(active'[b]) \subseteq ToSet(active[b])
               /\ u \in ToSet(active[b]) \ ToSet(active'[b]) => idle
    <3>1. active' = [active EXCEPT ![b] = RemoveActive(active[b], w)]
      BY <2>2 DEF BothTimeouts
    <3>2. ToSet(active'[b]) = ToSet(active[b]) \ {w}
      BY <1>0, <3>1, BoothAt, RemoveActiveFact
    <3> QED BY <2>2, <3>2
  <2> QED BY <2>1, <2>2
<1>3. PICK s \in Seq(Message) : sent'[b] = s \o next.msgs
  <2>1. next.msgs \in Seq(Message)
    BY <1>0, <1>1, CallExpiredFact
  <2>2. CASE QueueReadyTimeout(b)
    <3>1. sent'[b] = next.msgs
      BY <1>0, <2>2 DEF QueueReadyTimeout, Send
    <3>2. <<>> \in Seq(Message) /\ <<>> \o next.msgs = next.msgs
      BY <2>1
    <3> QED BY <3>1, <3>2
  <2>3. ASSUME NEW w \in Users, BothTimeouts(b, w)
        PROVE  \E s \in Seq(Message) : sent'[b] = s \o next.msgs
    <3>1. Notice("TIMEOUT_ALERT", w) \in Message
      BY DEF Notice, Message
    <3>2. <<Notice("TIMEOUT_ALERT", w)>> \in Seq(Message)
      BY <3>1
    <3>3. sent'[b] = <<Notice("TIMEOUT_ALERT", w)>> \o next.msgs
      BY <1>0, <2>3 DEF BothTimeouts, Send
    <3> QED BY <3>2, <3>3
  <2> QED BY <2>2, <2>3
<1>4. waiting'[b] = next.queue /\ pending'[b] = next.pending
  BY <1>0, <1>1 DEF SetQueue
<1>5. GoodQueue(rest)
  BY <1>0, RemoveWaitingFact
<1>6. Bound(b, u)' => InQueue(waiting'[b], u) \/ pending'[b] = u
  BY DEF Bound, InQueue, Positions
<1>7. CASE /\ rest = <<>> /\ next.queue = rest /\ next.pending = NoUser
           /\ Last(s \o next.msgs) = QueueMessage("QUEUE_UPDATE", p, 0, 0)
  <2>1. \A k : Tells(b, u, k) => k = "REMOVED" /\ u = p
    BY <1>3, <1>7 DEF Tells, QueueMessage, Kind
  <2>2. ~InQueue(rest, u)
    BY <1>7 DEF InQueue, Positions
  <2>3. ~Bound(b, u)'
    BY <1>4, <1>6, <1>7, <2>2, NoUserAssumption
  <2>4. ~Tells(b, u, "QUEUE_READY") /\ \A k \in Answers \cup Farewells : ~Tells(b, u, k)
    BY <2>1 DEF Farewells, Answers
  <2>5. ~Tells(b, u, "SUCCESS")
    BY <2>4 DEF Answers
  <2> HIDE DEF next, rest, q
  <2> QED BY <1>1, <1>2, <2>1, <2>3, <2>4, <2>5 DEF Treats
<1>8. CASE /\ rest # <<>>
           /\ next.queue = Renumber(Tail(rest)) /\ next.pending = Head(rest).userId
           /\ Last(s \o next.msgs) = Notice("QUEUE_READY", Head(rest).userId)
  <2>1. \A k : Tells(b, u, k) => k = "QUEUE_READY" /\ u = Head(rest).userId
    BY <1>3, <1>8 DEF Tells, Notice, Kind
  <2>2. InQueue(rest, Head(rest).userId)
    <3>1. Head(rest) = rest[1] /\ 1 \in 1 .. Len(rest)
      BY <1>5, <1>8, GoodFact, EmptySeq, HeadTailProperties
    <3> QED BY <1>5, <3>1, GoodFact
  <2>3. Bound(b, u)' => InQueue(rest, u)
    <3>1. InQueue(waiting'[b], u) => InQueue(rest, u)
      BY <1>4, <1>5, <1>8, TailWaits
    <3> QED BY <1>4, <1>6, <1>8, <2>2, <3>1
  <2>4. InQueue(rest, u) => InQueue(q, u) /\ u # p
    BY <1>0, RemovedWaits
  <2>5. ~Tells(b, u, "REMOVED") /\ \A k \in Answers \cup Farewells : ~Tells(b, u, k)
    BY <2>1 DEF Farewells, Answers
  <2>6. ~Tells(b, u, "SUCCESS")
    BY <2>5 DEF Answers
  <2>7. Tells(b, u, "QUEUE_READY") => InQueue(q, u) /\ u # p /\ pending'[b] = u
    BY <1>4, <1>8, <2>1, <2>2, <2>4
  <2> HIDE DEF next, rest
  <2> QED BY <1>1, <1>2, <2>3, <2>4, <2>5, <2>6, <2>7 DEF Treats, Bound
<1>9. \/ /\ rest = <<>> /\ next.queue = rest /\ next.pending = NoUser
         /\ Last(s \o next.msgs) = QueueMessage("QUEUE_UPDATE", p, 0, 0)
      \/ /\ rest # <<>>
         /\ next.queue = Renumber(Tail(rest)) /\ next.pending = Head(rest).userId
         /\ Last(s \o next.msgs) = Notice("QUEUE_READY", Head(rest).userId)
  <2>1. p \in Users
    BY <1>0, <1>1
  <2> HIDE DEF q, p
  <2> QED BY <1>0, <2>1, ExpiryIsTold
<1> QED BY <1>7, <1>8, <1>9

(* A decline and a departure from the queue.                               *)
LEMMA DepartureTreats ==
    ASSUME IInv, NEW b \in Booths, NEW w \in Users,
           UserResponseNo(b, w) \/ QueueLeave(b, w),
           NEW u \in Users, NEW r, NEW idle \in BOOLEAN,
           UserResponseNo(b, w) /\ w = u => r = "USER_RESPONSE_NO"
    PROVE  Treats(b, u, r, idle)
<1> DEFINE q == waiting[b]
           rest == RemoveWaiting(q, w)
<1>0. /\ sent \in [Booths -> Seq(Message)] /\ waiting \in [Booths -> Seq(QueueEntry)]
      /\ pending \in [Booths -> Users \cup {NoUser}]
      /\ GoodQueue(q)
  BY BoothAt DEF IInv, TypeOK
<1>1. /\ waiting'[b] = rest /\ sent'[b] = UpdateAll(rest)
      /\ UNCHANGED <<registered, active>>
  BY <1>0 DEF UserResponseNo, QueueLeave, Send
<1>2. \/ pending'[b] = pending[b]
      \/ UserResponseNo(b, w) /\ pending[b] = w /\ pending'[b] = NoUser
  BY <1>0 DEF UserResponseNo, QueueLeave
<1>3. UpdateAll(rest) \in Seq(Message)
      /\ \A i \in DOMAIN UpdateAll(rest) : Kind(UpdateAll(rest)[i]) \in Asides
  BY <1>0, RemoveWaitingFact, PlacesAreAside
<1>4. InQueue(rest, u) => InQueue(q, u)
  BY <1>0, RemovedWaits
<1> HIDE DEF rest
<1>5. \A k : Tells(b, u, k) => k \in Asides
  BY <1>1, <1>3, LastFact DEF Tells
<1>6. ~Tells(b, u, "QUEUE_READY") /\ ~Tells(b, u, "REMOVED") /\ ~Tells(b, u, "SUCCESS")
      /\ \A k \in Answers \cup Farewells : ~Tells(b, u, k)
  BY <1>5 DEF Asides, Answers, Farewells
<1>7. Bound(b, u)' => Bound(b, u)
  <2>1. Bound(b, u)' => InQueue(waiting'[b], u) \/ pending'[b] = u
    BY DEF Bound, InQueue, Positions
  <2> QED BY <1>1, <1>2, <1>4, <2>1, NoUserAssumption DEF Bound
<1> QED BY <1>1, <1>2, <1>6, <1>7 DEF Treats

(* Who is found in a queue that somebody has joined.                       *)
LEMMA AddedWaits ==
    ASSUME NEW q, GoodQueue(q), NEW w \in Users, ~InQueue(q, w),
           NEW u, InQueue(AddWaiting(q, w), u)
    PROVE  InQueue(q, u) \/ u = w
<1> DEFINE t == AddWaiting(q, w)
<1>0. GoodQueue(t) /\ Len(q) \in Nat
  BY AddWaitingFact, GoodFact
<1>1. PICK i \in 1 .. Len(t) : t[i].userId = u
  BY <1>0, GoodFact
<1>2. CASE t = q
  BY <1>2
<1>3. CASE /\ Len(t) = Len(q) + 1
           /\ \A j \in 1 .. Len(q) : t[j] = q[j]
           /\ t[Len(q) + 1].userId = w
  <2>1. u = w \/ i \in 1 .. Len(q)
    BY <1>0, <1>1, <1>3
  <2>2. i \in 1 .. Len(q) => q[i].userId = u
    BY <1>1, <1>3
  <2> QED BY <2>1, <2>2, GoodFact
<1> QED BY <1>2, <1>3, AddedPlaces

(* An answer that is the last request of its handler.                      *)
LEMMA AnswerIsTold ==
    ASSUME NEW b \in Booths, NEW s \in Seq(Message), NEW m \in Message,
           sent'[b] = s \o <<m>>, NEW u, NEW k
    PROVE  Tells(b, u, k) <=> m.dest = u /\ Kind(m) = k
<1>1. <<m>> \in Seq(Message) /\ <<m>> # <<>> /\ Last(<<m>>) = m
  BY DEF Last
<1>2. s \o <<m>> # <<>> /\ Last(s \o <<m>>) = m
  BY <1>1, LastOfTwo
<1> QED BY <1>2 DEF Tells

(* A registration, with each of its outcomes.                              *)
LEMMA RegisterTreats ==
    ASSUME IInv, NEW b \in Booths, NEW w \in Users,
           \/ RegisterRejected(b, w) \/ RegisterQueued(b, w)
           \/ RegisterStillQueued(b, w) \/ RegisterAdmitted(b, w),
           NEW u \in Users, NEW r, NEW idle \in BOOLEAN,
           w = u => r = "REGISTER_REQUEST"
    PROVE  Treats(b, u, r, idle)
<1> DEFINE q == waiting[b]
<1>0. /\ sent \in [Booths -> Seq(Message)] /\ waiting \in [Booths -> Seq(QueueEntry)]
      /\ pending \in [Booths -> Users \cup {NoUser}] /\ active \in [Booths -> Seq(Users)]
      /\ registered \in [Booths -> Seq(Users)]
      /\ GoodQueue(q) /\ Len(q) \in Nat
  BY BoothAt DEF IInv, TypeOK
<1>1. /\ \A k : RegisterResponse(w, "SUCCESS").dest = w
      /\ RegisterResponse(w, "SUCCESS") \in Message /\ Kind(RegisterResponse(w, "SUCCESS")) = "SUCCESS"
      /\ RegisterResponse(w, "ALREADY_USED") \in Message /\ RegisterResponse(w, "ALREADY_USED").dest = w
      /\ Kind(RegisterResponse(w, "ALREADY_USED")) = "ALREADY_USED"
      /\ RegisterResponse(w, "FULL_WAITING") \in Message
  BY DEF RegisterResponse, Message, Kind
<1>2. \A x, y \in Nat : /\ QueueMessage("QUEUE_INFO", w, x, y) \in Message
                        /\ QueueMessage("QUEUE_INFO", w, x, y).dest = w
                        /\ Kind(QueueMessage("QUEUE_INFO", w, x, y)) = "QUEUE_INFO"
  BY DEF QueueMessage, Message, Kind
<1>3. ASSUME NEW k \in Answers \ {"SUCCESS"}, \A j : Tells(b, u, j) => j = k /\ u = w,
             UNCHANGED <<registered, active, pending>>,
             InQueue(waiting'[b], u) => InQueue(q, u) \/ u = w
      PROVE  Treats(b, u, r, idle)
  <2>1. Bound(b, u)' => Bound(b, u) \/ u = w
    <3>1. Bound(b, u)' => InQueue(waiting'[b], u) \/ pending'[b] = u
      BY DEF Bound, InQueue, Positions
    <3> QED BY <1>3, <3>1 DEF Bound
  <2>2. /\ ~Tells(b, u, "QUEUE_READY") /\ ~Tells(b, u, "REMOVED") /\ ~Tells(b, u, "SUCCESS")
        /\ \A j \in Farewells : ~Tells(b, u, j)
    BY <1>3 DEF Farewells, Answers
  <2> QED BY <1>3, <2>1, <2>2 DEF Treats
<1>4. CASE RegisterRejected(b, w)
  <2>1. sent'[b] = <<>> \o <<RegisterResponse(w, "ALREADY_USED")>>
    BY <1>0, <1>1, <1>4 DEF RegisterRejected, Send
  <2>2. \A j : Tells(b, u, j) => j = "ALREADY_USED" /\ u = w
    <3> DEFINE none == RegisterResponse(w, "ALREADY_USED")
    <3>1. none \in Message /\ none.dest = w /\ Kind(none) = "ALREADY_USED"
      BY <1>1
    <3>2. <<>> \in Seq(Message) /\ sent'[b] = <<>> \o <<none>>
      BY <2>1
    <3> HIDE DEF none
    <3> QED BY <3>1, <3>2, AnswerIsTold
  <2>3. UNCHANGED <<registered, active, waiting, pending>>
    BY <1>4 DEF RegisterRejected
  <2> QED BY <1>3, <2>2, <2>3 DEF Answers
<1>5. ASSUME NEW x \in Nat, NEW y \in Nat,
             sent'[b] = <<RegisterResponse(w, "FULL_WAITING"), QueueMessage("QUEUE_INFO", w, x, y)>>
      PROVE  \A j : Tells(b, u, j) => j = "QUEUE_INFO" /\ u = w
  <2> DEFINE full == RegisterResponse(w, "FULL_WAITING")
             info == QueueMessage("QUEUE_INFO", w, x, y)
  <2>1. full \in Message /\ info \in Message /\ info.dest = w /\ Kind(info) = "QUEUE_INFO"
    BY <1>1, <1>2
  <2> HIDE DEF full, info
  <2>2. <<full>> \in Seq(Message) /\ <<full, info>> = <<full>> \o <<info>>
    <3>1. <<full>> \in Seq(Message)
      BY <2>1
    <3>2. /\ <<full>> \o <<info>> \in Seq(Message) /\ Len(<<full>> \o <<info>>) = 2
          /\ (<<full>> \o <<info>>)[1] = full /\ (<<full>> \o <<info>>)[2] = info
      BY <2>1, <3>1, ConcatProperties
    <3> DEFINE s == <<full, info>>
               t == <<full>> \o <<info>>
    <3>3. s \in Seq(Message) /\ Len(s) = 2 /\ s[1] = full /\ s[2] = info
      BY <2>1
    <3> HIDE DEF s
    <3>4. \A i \in 1 .. Len(s) : i = 1 \/ i = 2
      BY <3>3
    <3>5. \A i \in 1 .. Len(s) : s[i] = t[i]
      BY <3>2, <3>3, <3>4
    <3> HIDE DEF t
    <3>6. s = t
      BY <3>2, <3>3, <3>5, SeqEqual DEF t
    <3> QED BY <3>1, <3>6 DEF s, t
  <2>3. sent'[b] = <<full>> \o <<info>>
    BY <1>5, <2>2 DEF full, info
  <2> QED BY <2>1, <2>2, <2>3, AnswerIsTold
<1>6. CASE RegisterStillQueued(b, w)
  <2>1. IndexOf(q, w) \in Nat
    BY <1>0, <1>6, IndexOfFact DEF RegisterStillQueued
  <2>2. sent'[b] = <<RegisterResponse(w, "FULL_WAITING"),
                     QueueMessage("QUEUE_INFO", w, IndexOf(q, w), Len(q))>>
    BY <1>0, <1>6 DEF RegisterStillQueued, Send
  <2>3. \A j : Tells(b, u, j) => j = "QUEUE_INFO" /\ u = w
    BY <1>0, <1>5, <2>1, <2>2
  <2>4. UNCHANGED <<registered, active, waiting, pending>>
    BY <1>6 DEF RegisterStillQueued
  <2> QED BY <1>3, <2>3, <2>4 DEF Answers
<1>7. CASE RegisterQueued(b, w)
  <2> DEFINE t == AddWaiting(q, w)
  <2>1. ~InQueue(q, w) /\ UNCHANGED <<registered, active, pending>> /\ waiting'[b] = t
    BY <1>0, <1>7 DEF RegisterQueued
  <2>2. GoodQueue(t) /\ t # <<>>
    BY <1>0, <2>1, AddWaitingFact
  <2>3. Len(t) \in Nat /\ t[Len(t)].waitingNumber \in Nat
    <3>1. Len(t) \in 1 .. Len(t) /\ Len(t) \in Nat
      BY <2>2, GoodFact, EmptySeq
    <3> QED BY <2>2, <3>1, GoodFact DEF QueueEntry
  <2>4. sent'[b] = <<RegisterResponse(w, "FULL_WAITING"),
                     QueueMessage("QUEUE_INFO", w, t[Len(t)].waitingNumber, Len(t))>>
    BY <1>0, <1>7 DEF RegisterQueued, Send
  <2>5. \A j : Tells(b, u, j) => j = "QUEUE_INFO" /\ u = w
    <3> HIDE DEF t
    <3> QED BY <1>5, <2>3, <2>4
  <2>6. InQueue(t, u) => InQueue(q, u) \/ u = w
    BY <1>0, <2>1, AddedWaits
  <2> HIDE DEF t
  <2> QED BY <1>3, <2>1, <2>5, <2>6 DEF Answers
<1>8. CASE RegisterAdmitted(b, w)
  <2> DEFINE rest == RemoveWaiting(q, w)
             answer == RegisterResponse(w, "SUCCESS")
  <2>1. /\ w \notin ToSet(registered[b])
        /\ active' = [active EXCEPT ![b] = Append(active[b], w)]
        /\ registered' = [registered EXCEPT ![b] = Append(registered[b], w)]
    BY <1>8, AdmissionStep
  <2>2. /\ ToSet(registered'[b]) = ToSet(registered[b]) \cup {w}
        /\ ToSet(active'[b]) = ToSet(active[b]) \cup {w}
    BY <1>0, <2>1, BoothAt, AppendFact
  <2>3. UpdateAll(rest) \in Seq(Message) /\ <<>> \in Seq(Message)
    BY <1>0, RemoveWaitingFact, UpdateAllFact
  <2>4. answer \in Message /\ answer.dest = w /\ Kind(answer) = "SUCCESS"
    BY <1>1
  <2>5. /\ sent'[b] = UpdateAll(rest) \o <<answer>> \/ sent'[b] = <<answer>>
        /\ \/ pending[b] = w /\ waiting'[b] = rest /\ pending'[b] = NoUser
           \/ pending[b] # w /\ waiting'[b] = q /\ pending'[b] = pending[b]
    BY <1>0, <1>8 DEF RegisterAdmitted, SetQueue, Send
  <2> HIDE DEF answer
  <2>6. <<answer>> = <<>> \o <<answer>>
    OBVIOUS
  <2>7. \A j : Tells(b, u, j) <=> u = w /\ j = "SUCCESS"
    <3>1. PICK s \in Seq(Message) : sent'[b] = s \o <<answer>>
      BY <2>3, <2>5, <2>6
    <3>2. \A j : Tells(b, u, j) <=> answer.dest = u /\ Kind(answer) = j
      BY <2>4, <3>1, AnswerIsTold
    <3> QED BY <2>4, <3>2
  <2>8. InQueue(rest, u) => InQueue(q, u) /\ u # w
    BY <1>0, RemovedWaits
  <2>9. Bound(b, u)' => InQueue(waiting'[b], u) \/ pending'[b] = u
    BY DEF Bound, InQueue, Positions
  <2>10. /\ Bound(b, u)' => Bound(b, u)
         /\ pending[b] = u /\ pending'[b] # u => ~Bound(b, u)' /\ u = w
    <3> HIDE DEF rest
    <3> QED BY <2>5, <2>8, <2>9, NoUserAssumption DEF Bound
  <2>11. "SUCCESS" \in Answers /\ "SUCCESS" \notin Farewells
    BY DEF Answers, Farewells
  <2> HIDE DEF rest, q
  <2> QED BY <2>2, <2>7, <2>10, <2>11 DEF Treats
<1> QED BY <1>4, <1>6, <1>7, <1>8

(* A step of one booth leaves the lists of the others alone.               *)
LEMMA OthersKept ==
    ASSUME IInv, NEW b \in Booths, NEW c \in Booths, c # b,
           \/ \E u \in Users : Receive(b, u) \/ SessionTimeout(b, u) \/ BothTimeouts(b, u)
           \/ QueueReadyTimeout(b) \/ AutoAnnounce(b) \/ AnnounceKey(b) \/ QuietKey(b)
           \/ AdminMessage(b)
    PROVE  /\ registered'[c] = registered[c] /\ active'[c] = active[c]
           /\ waiting'[c] = waiting[c] /\ pending'[c] = pending[c]
<1> DEFINE Kept == /\ registered'[c] = registered[c] /\ active'[c] = active[c]
                   /\ waiting'[c] = waiting[c] /\ pending'[c] = pending[c]
<1>0. /\ registered \in [Booths -> Seq(Users)] /\ active \in [Booths -> Seq(Users)]
      /\ waiting \in [Booths -> Seq(QueueEntry)] /\ pending \in [Booths -> Users \cup {NoUser}]
  BY DEF IInv, TypeOK
<1>1. ASSUME NEW u \in Users,
             SessionTimeout(b, u) \/ BothTimeouts(b, u) \/ ExitRequest(b, u)
      PROVE  Kept
  BY <1>0, <1>1 DEF SessionTimeout, BothTimeouts, ExitRequest, SetQueue
<1>2. QueueReadyTimeout(b) => Kept
  BY <1>0 DEF QueueReadyTimeout, SetQueue
<1>3. ASSUME NEW u \in Users,
             \/ UserResponseNo(b, u) \/ QueueLeave(b, u) \/ RegisterQueued(b, u)
             \/ RegisterAdmitted(b, u)
      PROVE  Kept
  BY <1>0, <1>3 DEF UserResponseNo, QueueLeave, RegisterQueued, RegisterAdmitted, SetQueue
<1>4. ASSUME NEW u \in Users,
             \/ BoothScan(b, u) \/ ConnectRequest(b, u) \/ OnlyLogged(b, u) \/ ChatMessage(b, u)
             \/ RegisterRejected(b, u) \/ RegisterStillQueued(b, u)
      PROVE  Kept
  BY <1>4 DEF BoothScan, ConnectRequest, OnlyLogged, ChatMessage, RegisterRejected,
              RegisterStillQueued
<1>5. AutoAnnounce(b) \/ AnnounceKey(b) \/ QuietKey(b) \/ AdminMessage(b) => Kept
  BY DEF AutoAnnounce, AnnounceKey, QuietKey, AdminMessage
<1> HIDE DEF Kept
<1>6. Kept
  BY <1>1, <1>2, <1>3, <1>4, <1>5 DEF Receive
<1> QED BY <1>6 DEF Kept

-----------------------------------------------------------------------------
(* Two users at a booth *)

Two == \A u, v, w \in Users : u = v \/ v = w \/ u = w

(* With two users, one who waits at a booth waits for the other, who has   *)
(* been there: it is inside while somebody stands in the queue, and out    *)
(* when a call is outstanding.                                             *)
Waits(b) ==
    /\ \A u \in Users : Bound(b, u) =>
         u \notin ToSet(registered[b]) /\ \E v \in ToSet(registered[b]) : v # u
    /\ \A u \in Users : InQueue(waiting[b], u) => pending[b] = NoUser /\ Full(b)
    /\ pending[b] # NoUser => active[b] = <<>>

(* A step that keeps this, and after which a visitor who somebody waits    *)
(* for is inside, or was waited for before and has not been told to leave. *)
KeepsWaits(b) ==
    /\ Waits(b)'
    /\ \A u, v \in Users : Bound(b, u)' /\ v \in ToSet(registered'[b]) =>
         \/ v \in ToSet(active'[b])
         \/ /\ Bound(b, u) /\ v \in ToSet(registered[b])
            /\ \A k \in Farewells : ~Tells(b, v, k)

(* It is kept when nobody waits any more,                                  *)
LEMMA NobodyLeft ==
    ASSUME NEW b \in Booths, pending'[b] = NoUser,
           \A u \in Users : ~InQueue(waiting'[b], u)
    PROVE  KeepsWaits(b)
<1>1. \A u \in Users : ~Bound(b, u)'
  <2>1. \A u : Bound(b, u)' => InQueue(waiting'[b], u) \/ pending'[b] = u
    BY DEF Bound, InQueue, Positions
  <2> QED BY <2>1, NoUserAssumption
<1>2. \A u \in Users : ~InQueue(waiting[b], u)'
  BY DEF InQueue, Positions
<1> QED BY <1>1, <1>2 DEF KeepsWaits, Waits

(* and when nobody comes, goes, or is told to leave.                       *)
LEMMA NobodyNew ==
    ASSUME NEW b \in Booths, Waits(b), UNCHANGED <<registered, active, pending>>,
           \A u \in Users : InQueue(waiting'[b], u) => InQueue(waiting[b], u),
           \A v \in Users : Treats(b, v, "none", TRUE) \/ Treats(b, v, "REGISTER_REQUEST", TRUE)
    PROVE  KeepsWaits(b)
<1>1. \A u \in Users : Bound(b, u)' => Bound(b, u)
  <2>1. \A u : Bound(b, u)' => InQueue(waiting'[b], u) \/ pending'[b] = u
    BY DEF Bound, InQueue, Positions
  <2> QED BY <2>1 DEF Bound
<1>2. \A u \in Users : InQueue(waiting[b], u)' => InQueue(waiting[b], u)
  BY DEF InQueue, Positions
<1>3. \A v \in Users : \A k \in Farewells : ~Tells(b, v, k)
  BY DEF Treats
<1>4. Waits(b)'
  BY <1>1, <1>2 DEF Waits, Full, ToSet
<1> QED BY <1>1, <1>3, <1>4 DEF KeepsWaits

(* Who has left: the only one who waits is called.                         *)
LEMMA EndOfTwo ==
    ASSUME Two, IInv, NEW b \in Booths, Waits(b), NEW w \in Users,
           ExitRequest(b, w) \/ SessionTimeout(b, w)
    PROVE  KeepsWaits(b)
<1> DEFINE q == waiting[b]
           next == AdmitNext(q, pending[b])
<1>0. /\ waiting \in [Booths -> Seq(QueueEntry)] /\ pending \in [Booths -> Users \cup {NoUser}]
      /\ active \in [Booths -> Seq(Users)] /\ sent \in [Booths -> Seq(Message)]
      /\ GoodQueue(q) /\ ToSet(active[b]) \subseteq ToSet(registered[b])
  BY BoothAt DEF IInv, TypeOK
<1>1. PICK t \in Farewells :
        /\ w \in ToSet(active[b])
        /\ active' = [active EXCEPT ![b] = RemoveActive(active[b], w)]
        /\ SetQueue(b, next)
        /\ Send(b, <<Notice(t, w)>> \o next.msgs)
        /\ UNCHANGED registered
  BY DEF ExitRequest, SessionTimeout, Farewells
<1>2. ToSet(active'[b]) = ToSet(active[b]) \ {w} /\ active'[b] \in Seq(Users)
  BY <1>0, <1>1, BoothAt, RemoveActiveFact
<1>3. pending[b] = NoUser
  <2>1. active[b] # <<>>
    BY <1>1 DEF ToSet
  <2> QED BY <2>1 DEF Waits
<1>4. /\ waiting'[b] = next.queue /\ pending'[b] = next.pending
      /\ sent'[b] = <<Notice(t, w)>> \o next.msgs
  BY <1>0, <1>1 DEF SetQueue, Send
<1>5. CASE q = <<>>
  <2>1. next.queue = <<>> /\ next.pending = NoUser
    BY <1>3, <1>5 DEF AdmitNext
  <2>2. \A u : ~InQueue(<<>>, u)
    BY DEF InQueue, Positions
  <2> HIDE DEF next, q
  <2> QED BY <1>4, <2>1, <2>2, NobodyLeft
<1>6. CASE q # <<>>
  <2> DEFINE z == Head(q).userId
             msg == Notice("QUEUE_READY", z)
  <2>1. next = [queue |-> Renumber(Tail(q)), pending |-> z, msgs |-> <<msg>>]
    BY <1>3, <1>6 DEF AdmitNext
  <2>2. z \in Users /\ InQueue(q, z)
    <3>1. Head(q) = q[1] /\ 1 \in 1 .. Len(q)
      BY <1>0, <1>6, GoodFact, EmptySeq, HeadTailProperties
    <3> QED BY <1>0, <3>1, GoodFact
  <2>3. w \in ToSet(registered[b])
    BY <1>0, <1>1
  <2>4. \A u \in Users : InQueue(q, u) => Bound(b, u)
    BY DEF Bound
  <2>5. z \notin ToSet(registered[b])
    BY <2>2, <2>4 DEF Waits
  <2>6. w # z /\ \A u \in Users : u = z \/ u = w
    BY <2>2, <2>3, <2>5 DEF Two
  <2>7. \A u \in Users : ~InQueue(waiting'[b], u)
    <3>1. \A u : InQueue(waiting'[b], u) => InQueue(q, u) /\ u # z
      BY <1>0, <1>4, <1>6, <2>1, TailWaits
    <3> QED BY <2>3, <2>4, <2>6, <3>1 DEF Waits
  <2>8. active'[b] = <<>>
    <3>1. ToSet(active'[b]) \subseteq Users
      BY <1>2, ToSetFact
    <3>2. ToSet(active'[b]) = {}
      BY <1>0, <1>2, <2>5, <2>6, <3>1
    <3>3. \A i \in 1 .. Len(active'[b]) : active'[b][i] \in ToSet(active'[b])
      BY <1>2, ToSetFact
    <3>4. active'[b] # <<>> => 1 \in 1 .. Len(active'[b])
      BY <1>2, EmptySeq, LenProperties
    <3> QED BY <3>2, <3>3, <3>4
  <2>9. \A u \in Users : Bound(b, u)' => u = z
    <3>1. \A u : Bound(b, u)' => InQueue(waiting'[b], u) \/ pending'[b] = u
      BY DEF Bound, InQueue, Positions
    <3> QED BY <1>4, <2>1, <2>7, <3>1
  <2>10. \A v : \A k \in Farewells : ~Tells(b, v, k)
    <3>1. Last(<<Notice(t, w)>> \o <<msg>>) = msg
      <4>1. Notice(t, w) \in Message /\ msg \in Message
        BY <2>2 DEF Notice, Message, Farewells
      <4> DEFINE far == Notice(t, w)
      <4> HIDE DEF msg, far
      <4>2. <<far>> \in Seq(Message) /\ <<msg>> \in Seq(Message) /\ <<msg>> # <<>>
            /\ Last(<<msg>>) = msg
        BY <4>1 DEF Last, far
      <4>3. Last(<<far>> \o <<msg>>) = msg
        BY <4>2, LastOfTwo
      <4> QED BY <4>3 DEF far
    <3>2. Kind(msg) = "QUEUE_READY" /\ "QUEUE_READY" \notin Farewells
      BY DEF Notice, Kind, Farewells
    <3>3. next.msgs = <<msg>>
      BY <2>1
    <3> HIDE DEF msg, next
    <3> QED BY <1>4, <3>1, <3>2, <3>3 DEF Tells
  <2>11. pending'[b] = z
    BY <1>4, <2>1
  <2> HIDE DEF z, next, q
  <2>12. /\ \A u \in Users : Bound(b, u)' => u = z /\ Bound(b, u)
         /\ \A u \in Users : ~InQueue(waiting[b], u)'
         /\ registered' = registered
    BY <1>1, <2>2, <2>4, <2>7, <2>9 DEF InQueue, Positions, q
  <2>13. Waits(b)'
    BY <2>3, <2>5, <2>6, <2>8, <2>12 DEF Waits
  <2> QED BY <2>10, <2>12, <2>13 DEF KeepsWaits
<1> QED BY <1>5, <1>6

(* A call that is over: it was the only one.                               *)
LEMMA CallOverOfTwo ==
    ASSUME IInv, NEW b \in Booths, Waits(b),
           \/ QueueReadyTimeout(b)
           \/ \E w \in Users : BothTimeouts(b, w) \/ UserResponseNo(b, w)
    PROVE  KeepsWaits(b)
<1> DEFINE q == waiting[b]
           p == pending[b]
           rest == RemoveWaiting(q, p)
           next == CallExpired(q, p)
<1>0. /\ waiting \in [Booths -> Seq(QueueEntry)] /\ pending \in [Booths -> Users \cup {NoUser}]
      /\ GoodQueue(q)
  BY BoothAt DEF IInv, TypeOK
<1>1. p \in Users /\ p # NoUser
  BY <1>0, NoUserAssumption DEF QueueReadyTimeout, BothTimeouts, UserResponseNo
<1>2. \A u \in Users : ~InQueue(q, u)
  BY <1>1 DEF Waits
<1>3. GoodQueue(rest) /\ \A u \in Users : ~InQueue(rest, u)
  BY <1>0, <1>2, RemoveWaitingFact, RemovedWaits
<1>4. rest = <<>>
  <2> HIDE DEF rest
  <2>1. rest # <<>> => 1 \in 1 .. Len(rest)
    BY <1>3, GoodFact, EmptySeq
  <2> QED BY <1>3, <2>1, GoodFact
<1>5. ASSUME NEW w \in Users, UserResponseNo(b, w)
      PROVE  waiting'[b] = <<>> /\ pending'[b] = NoUser
  BY <1>0, <1>4, <1>5 DEF UserResponseNo
<1>6. ASSUME QueueReadyTimeout(b) \/ \E w \in Users : BothTimeouts(b, w)
      PROVE  waiting'[b] = <<>> /\ pending'[b] = NoUser
  <2>1. waiting'[b] = next.queue /\ pending'[b] = next.pending
    BY <1>0, <1>6 DEF QueueReadyTimeout, BothTimeouts, SetQueue
  <2>2. next.queue = <<>> /\ next.pending = NoUser
    <3> DEFINE n == AdmitNext(rest, NoUser)
    <3>1. n = [queue |-> <<>>, pending |-> NoUser, msgs |-> <<>>]
      BY <1>4 DEF AdmitNext
    <3>2. next.queue = n.queue /\ next.pending = n.pending
      BY CallExpiredParts
    <3> HIDE DEF n, next
    <3> QED BY <3>1, <3>2
  <2> QED BY <2>1, <2>2
<1>7. \A u : ~InQueue(<<>>, u)
  BY DEF InQueue, Positions
<1> QED BY <1>5, <1>6, <1>7, NobodyLeft

(* A registration: who is admitted ends the waiting, who joins the queue   *)
(* waits for the one inside.                                               *)
LEMMA RegisterOfTwo ==
    ASSUME Two, IInv, NEW b \in Booths, Waits(b), NEW w \in Users,
           RegisterQueued(b, w) \/ RegisterAdmitted(b, w)
    PROVE  KeepsWaits(b)
<1> DEFINE q == waiting[b]
<1>0. /\ waiting \in [Booths -> Seq(QueueEntry)] /\ pending \in [Booths -> Users \cup {NoUser}]
      /\ active[b] \in Seq(Users) /\ Len(active[b]) \in Nat
      /\ GoodQueue(q) /\ ToSet(active[b]) \subseteq ToSet(registered[b])
  BY BoothAt DEF IInv, TypeOK
<1>1. w \notin ToSet(registered[b])
  BY DEF RegisterQueued, RegisterAdmitted
<1>2. CASE RegisterAdmitted(b, w)
  <2>1. ~Full(b)
    BY <1>2 DEF RegisterAdmitted
  <2>2. \A u \in Users : ~InQueue(q, u)
    BY <2>1 DEF Waits
  <2>3. \/ waiting'[b] = RemoveWaiting(q, w) /\ pending'[b] = NoUser
        \/ waiting'[b] = q /\ pending'[b] = pending[b] /\ pending[b] # w
    BY <1>0, <1>2 DEF RegisterAdmitted, SetQueue
  <2>4. \A u \in Users : ~InQueue(waiting'[b], u)
    BY <1>0, <2>2, <2>3, RemovedWaits
  <2>5. pending[b] \in Users => pending[b] = w
    <3> SUFFICES ASSUME pending[b] \in Users, pending[b] # w PROVE FALSE
      OBVIOUS
    <3>1. Bound(b, pending[b])
      BY DEF Bound
    <3>2. PICK v \in ToSet(registered[b]) : v # pending[b]
      BY <3>1 DEF Waits
    <3>3. v \in Users
      BY BoothAt, ToSetFact
    <3> QED BY <1>1, <3>2, <3>3 DEF Two
  <2>6. pending'[b] = NoUser
    BY <1>0, <2>3, <2>5
  <2> QED BY <2>4, <2>6, NobodyLeft
<1>3. CASE RegisterQueued(b, w)
  <2>1. /\ Full(b) /\ ~InQueue(q, w) /\ UNCHANGED <<registered, active, pending>>
        /\ waiting'[b] = AddWaiting(q, w)
    BY <1>0, <1>3 DEF RegisterQueued
  <2>2. PICK x \in Users : x \in ToSet(active[b])
    <3>1. 1 \in 1 .. Len(active[b])
      BY <1>0, <2>1, CapacityAssumption DEF Full
    <3> QED BY <1>0, <3>1, ElementOfSeq, ToSetFact
  <2>3. pending[b] = NoUser
    <3>1. active[b] # <<>>
      BY <2>2 DEF ToSet
    <3> QED BY <3>1 DEF Waits
  <2>4. \A u : InQueue(waiting'[b], u) => InQueue(q, u) \/ u = w
    BY <1>0, <2>1, AddedWaits
  <2>5. \A u \in Users : Bound(b, u)' => Bound(b, u) \/ u = w
    <3>1. \A u : Bound(b, u)' => InQueue(waiting'[b], u) \/ pending'[b] = u
      BY DEF Bound, InQueue, Positions
    <3> QED BY <2>1, <2>4, <3>1 DEF Bound
  <2>6. x \in ToSet(registered[b]) /\ x # w
    BY <1>0, <1>1, <2>2
  <2>7. Waits(b)'
    <3>1. Full(b)' /\ pending'[b] = NoUser /\ registered' = registered /\ active' = active
      BY <2>1, <2>3 DEF Full
    <3> QED BY <1>1, <2>5, <2>6, <3>1 DEF Waits
  <2>8. \A v \in Users : \A k \in Farewells : ~Tells(b, v, k)
    <3>1. \A v \in Users : Treats(b, v, "REGISTER_REQUEST", TRUE)
      BY <1>3, RegisterTreats
    <3> QED BY <2>1, <3>1 DEF Treats
  <2>9. \A v \in Users : v \in ToSet(registered[b]) => v \in ToSet(active[b]) \/ v = w
    BY <2>2, <2>6 DEF Two
  <2>10. ASSUME NEW u \in Users, NEW v \in Users, Bound(b, u)', v \in ToSet(registered[b])
         PROVE  v \in ToSet(active[b]) \/ (Bound(b, u) /\ \A k \in Farewells : ~Tells(b, v, k))
    BY <1>1, <2>8, <2>9, <2>10
  <2> QED BY <2>1, <2>7, <2>10 DEF KeepsWaits
<1> QED BY <1>2, <1>3

(* Every step of a booth with two users.                                   *)
LEMMA TwoAtBooth ==
    ASSUME Two, IInv, NEW b \in Booths, Waits(b),
           \/ \E u \in Users : Receive(b, u) \/ SessionTimeout(b, u) \/ BothTimeouts(b, u)
           \/ QueueReadyTimeout(b) \/ AutoAnnounce(b) \/ AnnounceKey(b) \/ QuietKey(b)
           \/ AdminMessage(b)
    PROVE  KeepsWaits(b)
<1>0. waiting \in [Booths -> Seq(QueueEntry)] /\ GoodQueue(waiting[b])
  BY BoothAt DEF IInv, TypeOK
<1>1. ASSUME \/ AutoAnnounce(b) \/ AnnounceKey(b) \/ QuietKey(b) \/ AdminMessage(b)
             \/ \E w \in Users : \/ BoothScan(b, w) \/ ConnectRequest(b, w)
                                 \/ OnlyLogged(b, w) \/ ChatMessage(b, w)
      PROVE  KeepsWaits(b)
  <2>1. UNCHANGED <<registered, active, waiting, pending>>
    BY <1>1 DEF AutoAnnounce, AnnounceKey, QuietKey, AdminMessage, BoothScan, ConnectRequest,
                OnlyLogged, ChatMessage
  <2>2. \A v \in Users : Treats(b, v, "none", TRUE)
    BY <1>1, SpeechTreats
  <2> QED BY <2>1, <2>2, NobodyNew
<1>2. ASSUME NEW w \in Users, RegisterRejected(b, w) \/ RegisterStillQueued(b, w)
      PROVE  KeepsWaits(b)
  <2>1. UNCHANGED <<registered, active, waiting, pending>>
    BY <1>2 DEF RegisterRejected, RegisterStillQueued
  <2>2. \A v \in Users : Treats(b, v, "REGISTER_REQUEST", TRUE)
    BY <1>2, RegisterTreats
  <2> QED BY <2>1, <2>2, NobodyNew
<1>3. ASSUME NEW w \in Users, QueueLeave(b, w), ~UserResponseNo(b, w)
      PROVE  KeepsWaits(b)
  <2>1. /\ UNCHANGED <<registered, active, pending>>
        /\ waiting'[b] = RemoveWaiting(waiting[b], w)
    BY <1>0, <1>3 DEF QueueLeave
  <2>2. \A u \in Users : InQueue(waiting'[b], u) => InQueue(waiting[b], u)
    BY <1>0, <2>1, RemovedWaits
  <2>3. \A v \in Users : Treats(b, v, "none", TRUE)
    BY <1>3, DepartureTreats
  <2> QED BY <2>1, <2>2, <2>3, NobodyNew
<1> QED BY <1>1, <1>2, <1>3, EndOfTwo, CallOverOfTwo, RegisterOfTwo DEF Receive

=============================================================================
