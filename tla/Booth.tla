-------------------------------- MODULE Booth --------------------------------
(***************************************************************************)
(* The administrator ("booth") side of layer 3, L3_FSMmain.cpp: who has    *)
(* registered, who is inside, who is in the queue, and which user has been *)
(* called from the queue and has not answered.                             *)
(*                                                                         *)
(* Every board with ID 1..3 runs one booth; nothing is shared between      *)
(* booths, so each variable is a function of the booth.  One action is one *)
(* pass through a handler of L3_FSMrun (or of the keyboard handler),       *)
(* together with everything that the handler calls.                        *)
(*                                                                         *)
(* Requests of the users are inputs: any user may send any request at any  *)
(* moment, which covers delayed, repeated and lost ones.  Time is          *)
(* abstracted: a session, or a call from the queue, may expire at any      *)
(* check.  Chat and announcement texts are left out.                       *)
(***************************************************************************)
EXTENDS Naturals, FiniteSets, Sequences, SequencesExt

CONSTANTS
    Booths,               \* boards that run in administrator mode
    Users,                \* boards with an ID >= 4
    MAX_BOOTH_CAPACITY,   \* L3_msg.h: users inside at the same time
    MAX_USERS,            \* L3_msg.h: entries of registeredList, waitingQueue
    NoUser,               \* pendingUserId = 0: nobody is called
    Broadcast             \* BROADCAST_ID

ASSUME CapacityAssumption == MAX_BOOTH_CAPACITY \in Nat \ {0}
ASSUME MaxUsersAssumption ==
    /\ MAX_USERS \in Nat \ {0}
    /\ MAX_BOOTH_CAPACITY <= MAX_USERS
ASSUME NoUserAssumption == NoUser \notin Users

VARIABLES
    registered,   \* registered[b]: registeredUserIds, in order of admission
    active,       \* active[b]: activeList, the users inside
    waiting,      \* waiting[b]: waitingQueue, entries [userId, waitingNumber]
    pending,      \* pending[b]: pendingUserId while the queue-ready timer runs
    quietMode,    \* quietMode[b]: no periodic announcement
    sent          \* sent[b]: the data requests the latest handler made to L2

vars == <<registered, active, waiting, pending, quietMode, sent>>

-----------------------------------------------------------------------------
(* Lists of users. *)

QueueEntry == [userId : Users, waitingNumber : Nat]

Positions(q, u) == {i \in DOMAIN q : q[i].userId = u}

(* L3_getUserWaitingPosition: the first position of u, 0 when it has none. *)
IndexOf(q, u) == IF Positions(q, u) = {} THEN 0 ELSE Min(Positions(q, u))

InQueue(q, u) == Positions(q, u) # {}

(* The waitingNumber of every entry becomes its place. *)
Renumber(q) == [i \in DOMAIN q |-> [q[i] EXCEPT !.waitingNumber = i]]

(* Wrong: removes the entry and leaves the numbers of the others.          *)
RemoveWaitingUnnumbered(q, u) ==
    IF InQueue(q, u) THEN RemoveAt(q, IndexOf(q, u)) ELSE q

(* removeFromWaitingQueue *)
RemoveWaiting(q, u) ==
    IF InQueue(q, u) THEN Renumber(RemoveAt(q, IndexOf(q, u))) ELSE q

(* L3_addUserToList on the queue, and the caller's numbering of the last   *)
(* entry.  A full queue is left as it is and the caller is not told.       *)
AddWaiting(q, u) ==
    LET added == IF Len(q) < MAX_USERS
                 THEN Append(q, [userId |-> u, waitingNumber |-> 0])
                 ELSE q
    IN  [added EXCEPT ![Len(added)].waitingNumber = Len(added)]

(* L3_addUserToList on activeList *)
AddActive(list, u) ==
    IF u \notin ToSet(list) /\ Len(list) < MAX_USERS THEN Append(list, u) ELSE list

(* L3_removeUserFromList *)
RemoveActive(list, u) == RemoveFirst(list, u)

(* Wrong: one user too many.                                               *)
FullOffByOne(b) == Len(active[b]) > MAX_BOOTH_CAPACITY

Full(b) == Len(active[b]) >= MAX_BOOTH_CAPACITY

-----------------------------------------------------------------------------
(* Messages of a booth. *)

Message ==
    [type : {"BOOTH_ANNOUNCE", "BOOTH_INFO"}, dest : Users \cup {Broadcast},
     count : Nat, waiting : Nat]
    \cup [type : {"REGISTER_RESPONSE"}, dest : Users,
          reason : {"SUCCESS", "ALREADY_USED", "FULL_WAITING"}]
    \cup [type : {"QUEUE_INFO", "QUEUE_UPDATE"}, dest : Users, pos : Nat, total : Nat]
    \cup [type : {"QUEUE_READY", "EXIT_RESPONSE", "TIMEOUT_ALERT", "ADMIN_MESSAGE"},
          dest : Users]
    \cup [type : {"CHAT_MESSAGE"}, dest : Users, sender : Users]

BoothStatus(type, b, dest) ==
    [type |-> type, dest |-> dest, count |-> Len(active[b]), waiting |-> Len(waiting[b])]

RegisterResponse(u, reason) == [type |-> "REGISTER_RESPONSE", dest |-> u, reason |-> reason]

QueueMessage(type, u, pos, total) ==
    [type |-> type, dest |-> u, pos |-> pos, total |-> total]

Notice(type, u) == [type |-> type, dest |-> u]

(* Wrong: tells the index into the array.                                  *)
UpdateAllFromZero(q) ==
    [i \in DOMAIN q |-> QueueMessage("QUEUE_UPDATE", q[i].userId, i - 1, Len(q))]

(* updateAllWaitingUsers *)
UpdateAll(q) ==
    [i \in DOMAIN q |-> QueueMessage("QUEUE_UPDATE", q[i].userId, i, Len(q))]

Send(b, msgs) == sent' = [sent EXCEPT ![b] = msgs]

-----------------------------------------------------------------------------
(* Calls from the queue.  Each operator gives the queue, the called user   *)
(* and the data requests that a call of the function leaves behind.        *)

(* Wrong: reads the pending user before the timer is started.              *)
AdmitNextReadsPendingEarly(q, called) ==
    IF q # <<>> /\ called = NoUser
    THEN [queue   |-> Renumber(Tail(q)),
          pending |-> Head(q).userId,
          msgs    |-> <<Notice("QUEUE_READY", called)>>]
    ELSE [queue |-> q, pending |-> called, msgs |-> <<>>]

(* Wrong: calls the user who came last.                                    *)
AdmitNextNewest(q, called) ==
    IF q # <<>> /\ called = NoUser
    THEN [queue   |-> Renumber(Front(q)),
          pending |-> Last(q).userId,
          msgs    |-> <<Notice("QUEUE_READY", Last(q).userId)>>]
    ELSE [queue |-> q, pending |-> called, msgs |-> <<>>]

(* admitNextWaitingUser: call the head, unless a call is outstanding.      *)
AdmitNext(q, called) ==
    IF q # <<>> /\ called = NoUser
    THEN [queue   |-> Renumber(Tail(q)),
          pending |-> Head(q).userId,
          msgs    |-> <<Notice("QUEUE_READY", Head(q).userId)>>]
    ELSE [queue |-> q, pending |-> called, msgs |-> <<>>]

(* Wrong: the queue-ready timer is not stopped.                            *)
CallExpiredNotStopped(q, called) ==
    LET rest == RemoveWaiting(q, called)
        next == AdmitNext(rest, called)
    IN  [next EXCEPT !.msgs =
            <<QueueMessage("QUEUE_UPDATE", called, 0, 0)>> \o UpdateAll(rest) \o @]

(* handleQueueReadyTimeout: the called user did not answer in time.        *)
CallExpired(q, called) ==
    LET rest == RemoveWaiting(q, called)
        next == AdmitNext(rest, NoUser)
    IN  [next EXCEPT !.msgs =
            <<QueueMessage("QUEUE_UPDATE", called, 0, 0)>> \o UpdateAll(rest) \o @]

SetQueue(b, r) ==
    /\ waiting' = [waiting EXCEPT ![b] = r.queue]
    /\ pending' = [pending EXCEPT ![b] = r.pending]

-----------------------------------------------------------------------------
(* L3_initFSM in administrator mode: empty lists and a first announcement. *)
Init ==
    /\ registered = [b \in Booths |-> <<>>]
    /\ active = [b \in Booths |-> <<>>]
    /\ waiting = [b \in Booths |-> <<>>]
    /\ pending = [b \in Booths |-> NoUser]
    /\ quietMode = [b \in Booths |-> FALSE]
    /\ sent = [b \in Booths |->
                 <<[type |-> "BOOTH_ANNOUNCE", dest |-> Broadcast, count |-> 0, waiting |-> 0]>>]

-----------------------------------------------------------------------------
(* Messages received from user u. *)

BoothScan(b, u) ==
    /\ Send(b, <<BoothStatus("BOOTH_ANNOUNCE", b, u)>>)
    /\ UNCHANGED <<registered, active, waiting, pending, quietMode>>

ConnectRequest(b, u) ==
    /\ Send(b, <<BoothStatus("BOOTH_INFO", b, u)>>)
    /\ UNCHANGED <<registered, active, waiting, pending, quietMode>>

(* USER_RESPONSE NO of the called user gives the call up; the next user is *)
(* not called.                                                             *)
UserResponseNo(b, u) ==
    /\ pending[b] = u
    /\ LET rest == RemoveWaiting(waiting[b], u)
       IN  /\ waiting' = [waiting EXCEPT ![b] = rest]
           /\ Send(b, UpdateAll(rest))
    /\ pending' = [pending EXCEPT ![b] = NoUser]
    /\ UNCHANGED <<registered, active, quietMode>>

QueueLeave(b, u) ==
    /\ LET rest == RemoveWaiting(waiting[b], u)
       IN  /\ waiting' = [waiting EXCEPT ![b] = rest]
           /\ Send(b, UpdateAll(rest))
    /\ UNCHANGED <<registered, active, pending, quietMode>>

(* Wrong: nobody is called to the place that became free.                  *)
ExitRequestNoCall(b, u) ==
    /\ u \in ToSet(active[b])
    /\ active' = [active EXCEPT ![b] = RemoveActive(@, u)]
    /\ Send(b, <<Notice("EXIT_RESPONSE", u)>>)
    /\ UNCHANGED <<registered, waiting, pending, quietMode>>

(* Wrong: the user is told good-bye, but stays in the list.                *)
ExitRequestStillInside(b, u) ==
    /\ u \in ToSet(active[b])
    /\ Send(b, <<Notice("EXIT_RESPONSE", u)>>)
    /\ UNCHANGED <<registered, active, waiting, pending, quietMode>>

ExitRequest(b, u) ==
    /\ u \in ToSet(active[b])
    /\ active' = [active EXCEPT ![b] = RemoveActive(@, u)]
    /\ LET next == AdmitNext(waiting[b], pending[b])
       IN  /\ SetQueue(b, next)
           /\ Send(b, <<Notice("EXIT_RESPONSE", u)>> \o next.msgs)
    /\ UNCHANGED <<registered, quietMode>>

(* USER_RESPONSE YES, NO from a user who is not called, EXIT_REQUEST from  *)
(* one who is not inside: the handler only prints.                         *)
OnlyLogged(b, u) ==
    /\ Send(b, <<>>)
    /\ UNCHANGED <<registered, active, waiting, pending, quietMode>>

(* A chat message of a user inside goes to everybody else inside.          *)
ChatMessage(b, u) ==
    /\ LET others == RemoveActive(active[b], u)
       IN  Send(b, IF u \in ToSet(active[b])
                   THEN [i \in DOMAIN others |->
                           [type |-> "CHAT_MESSAGE", dest |-> others[i], sender |-> u]]
                   ELSE <<>>)
    /\ UNCHANGED <<registered, active, waiting, pending, quietMode>>

-----------------------------------------------------------------------------
(* REGISTER_REQUEST, one action per outcome. *)

(* Wrong: a user who has been here gets no answer.                         *)
RegisterRejectedSilent(b, u) ==
    /\ u \in ToSet(registered[b])
    /\ Send(b, <<>>)
    /\ UNCHANGED <<registered, active, waiting, pending, quietMode>>

RegisterRejected(b, u) ==
    /\ u \in ToSet(registered[b])
    /\ Send(b, <<RegisterResponse(u, "ALREADY_USED")>>)
    /\ UNCHANGED <<registered, active, waiting, pending, quietMode>>

RegisterQueued(b, u) ==
    /\ u \notin ToSet(registered[b])
    /\ Full(b)
    /\ ~InQueue(waiting[b], u)
    /\ LET q == AddWaiting(waiting[b], u)
       IN  /\ waiting' = [waiting EXCEPT ![b] = q]
           /\ Send(b, <<RegisterResponse(u, "FULL_WAITING"),
                        QueueMessage("QUEUE_INFO", u, q[Len(q)].waitingNumber, Len(q))>>)
    /\ UNCHANGED <<registered, active, pending, quietMode>>

RegisterStillQueued(b, u) ==
    /\ u \notin ToSet(registered[b])
    /\ Full(b)
    /\ InQueue(waiting[b], u)
    /\ Send(b, <<RegisterResponse(u, "FULL_WAITING"),
                 QueueMessage("QUEUE_INFO", u, IndexOf(waiting[b], u), Len(waiting[b]))>>)
    /\ UNCHANGED <<registered, active, waiting, pending, quietMode>>

(* Wrong: does not look whether the user has been here.                    *)
RegisterAdmittedUnchecked(b, u) ==
    /\ ~Full(b)
    /\ registered' = [registered EXCEPT ![b] = Append(@, u)]
    /\ active' = [active EXCEPT ![b] = AddActive(@, u)]
    /\ Send(b, <<RegisterResponse(u, "SUCCESS")>>)
    /\ UNCHANGED <<waiting, pending, quietMode>>

(* Wrong: the visit is not recorded.                                       *)
RegisterAdmittedUnrecorded(b, u) ==
    /\ u \notin ToSet(registered[b])
    /\ ~Full(b)
    /\ active' = [active EXCEPT ![b] = AddActive(@, u)]
    /\ Send(b, <<RegisterResponse(u, "SUCCESS")>>)
    /\ UNCHANGED <<registered, waiting, pending, quietMode>>

(* Room inside: whoever asks first is admitted.  Only the called user's    *)
(* entry and call are taken back.                                          *)
RegisterAdmitted(b, u) ==
    /\ u \notin ToSet(registered[b])
    /\ ~Full(b)
    /\ registered' = [registered EXCEPT ![b] = Append(@, u)]
    /\ active' = [active EXCEPT ![b] = AddActive(@, u)]
    /\ LET rest    == RemoveWaiting(waiting[b], u)
           answer  == <<RegisterResponse(u, "SUCCESS")>>
       IN  \/ /\ pending[b] = u
              /\ SetQueue(b, [queue |-> rest, pending |-> NoUser])
              /\ Send(b, UpdateAll(rest) \o answer)
           \/ /\ pending[b] # u
              /\ Send(b, answer)
              /\ UNCHANGED <<waiting, pending>>
    /\ UNCHANGED quietMode

-----------------------------------------------------------------------------
(* The periodic checks at the head of L3_FSMrun. *)

(* Wrong: the user is told, but stays in the list.                         *)
SessionTimeoutAlertOnly(b, u) ==
    /\ u \in ToSet(active[b])
    /\ Send(b, <<Notice("TIMEOUT_ALERT", u)>>)
    /\ UNCHANGED <<registered, active, waiting, pending, quietMode>>

(* Wrong: the session is ended, and the user is not told.                  *)
SessionTimeoutSilent(b, u) ==
    /\ u \in ToSet(active[b])
    /\ active' = [active EXCEPT ![b] = RemoveActive(@, u)]
    /\ LET next == AdmitNext(waiting[b], pending[b])
       IN  /\ SetQueue(b, next)
           /\ Send(b, next.msgs)
    /\ UNCHANGED <<registered, quietMode>>

(* checkSessionTimer finds the session of u over; no call is overdue.      *)
SessionTimeout(b, u) ==
    /\ u \in ToSet(active[b])
    /\ active' = [active EXCEPT ![b] = RemoveActive(@, u)]
    /\ LET next == AdmitNext(waiting[b], pending[b])
       IN  /\ SetQueue(b, next)
           /\ Send(b, <<Notice("TIMEOUT_ALERT", u)>> \o next.msgs)
    /\ UNCHANGED <<registered, quietMode>>

(* checkQueueReadyTimeout finds the call overdue; no session is over.      *)
QueueReadyTimeout(b) ==
    /\ pending[b] # NoUser
    /\ LET next == CallExpired(waiting[b], pending[b])
       IN  /\ SetQueue(b, next)
           /\ Send(b, next.msgs)
    /\ UNCHANGED <<registered, active, quietMode>>

(* The same pass finds both: admitNextWaitingUser after the session does   *)
(* nothing, since the call is still outstanding.                           *)
BothTimeouts(b, u) ==
    /\ u \in ToSet(active[b])
    /\ pending[b] # NoUser
    /\ active' = [active EXCEPT ![b] = RemoveActive(@, u)]
    /\ LET next == CallExpired(waiting[b], pending[b])
       IN  /\ SetQueue(b, next)
           /\ Send(b, <<Notice("TIMEOUT_ALERT", u)>> \o next.msgs)
    /\ UNCHANGED <<registered, quietMode>>

AutoAnnounce(b) ==
    /\ ~quietMode[b]
    /\ Send(b, <<BoothStatus("BOOTH_ANNOUNCE", b, Broadcast)>>)
    /\ UNCHANGED <<registered, active, waiting, pending, quietMode>>

-----------------------------------------------------------------------------
(* The keys of L3admin_processKeyboardInput that do more than print. *)

AnnounceKey(b) ==
    /\ Send(b, <<BoothStatus("BOOTH_ANNOUNCE", b, Broadcast)>>)
    /\ UNCHANGED <<registered, active, waiting, pending, quietMode>>

QuietKey(b) ==
    /\ quietMode' = [quietMode EXCEPT ![b] = ~@]
    /\ Send(b, <<>>)
    /\ UNCHANGED <<registered, active, waiting, pending>>

(* Enter after a text that was started with 'm'. *)
AdminMessage(b) ==
    /\ Send(b, [i \in DOMAIN active[b] |-> Notice("ADMIN_MESSAGE", active[b][i])])
    /\ UNCHANGED <<registered, active, waiting, pending, quietMode>>

-----------------------------------------------------------------------------

Receive(b, u) ==
    \/ BoothScan(b, u)
    \/ ConnectRequest(b, u)
    \/ UserResponseNo(b, u)
    \/ QueueLeave(b, u)
    \/ ExitRequest(b, u)
    \/ OnlyLogged(b, u)
    \/ ChatMessage(b, u)
    \/ RegisterRejected(b, u)
    \/ RegisterQueued(b, u)
    \/ RegisterStillQueued(b, u)
    \/ RegisterAdmitted(b, u)

Next ==
    \E b \in Booths :
        \/ \E u \in Users : Receive(b, u) \/ SessionTimeout(b, u) \/ BothTimeouts(b, u)
        \/ QueueReadyTimeout(b)
        \/ AutoAnnounce(b)
        \/ AnnounceKey(b)
        \/ QuietKey(b)
        \/ AdminMessage(b)

Spec == Init /\ [][Next]_vars

(* L3_FSMrun compares both timers again and again for as long as the board *)
(* runs, so a session or a call that stays outstanding expires.            *)
FairSpec ==
    /\ Spec
    /\ \A b \in Booths :
         /\ WF_vars(QueueReadyTimeout(b))
         /\ \A u \in Users : WF_vars(SessionTimeout(b, u))

-----------------------------------------------------------------------------
(* Types *)

(* Every variable holds what its C object can hold.                        *)
TypeOK ==
    /\ registered \in [Booths -> Seq(Users)]
    /\ active \in [Booths -> Seq(Users)]
    /\ waiting \in [Booths -> Seq(QueueEntry)]
    /\ pending \in [Booths -> Users \cup {NoUser}]
    /\ quietMode \in [Booths -> BOOLEAN]
    /\ sent \in [Booths -> Seq(Message)]

-----------------------------------------------------------------------------
(* Safety *)

NoRepeats(s) == \A i, j \in DOMAIN s : s[i] = s[j] => i = j

(* A visit is a user's only one: nobody is registered twice, and the list  *)
(* of users inside holds each of them once, all of them registered         *)
(* (checkUserInRegisteredList before every admission).                     *)
VisitOnce ==
    \A b \in Booths :
        /\ NoRepeats(registered[b])
        /\ NoRepeats(active[b])
        /\ ToSet(active[b]) \subseteq ToSet(registered[b])

Ordered(q) ==
    /\ \A i, j \in DOMAIN q : q[i].userId = q[j].userId => i = j
    /\ \A i \in DOMAIN q : q[i].waitingNumber = i

(* The queue is a queue: each user stands in it once, and the number       *)
(* stored with an entry is its place, after every removal from the middle, *)
(* every call of the head and every repeated request.                      *)
QueueInOrder == \A b \in Booths : Ordered(waiting[b])

(* activeList has MAX_BOOTH_CAPACITY entries, and L3_addUserToList tests   *)
(* MAX_USERS: only the test of the REGISTER_REQUEST handler keeps it.      *)
CapacityKept == \A b \in Booths : Len(active[b]) <= MAX_BOOTH_CAPACITY

(* waitingQueue has MAX_USERS entries; AddWaiting numbers the last one of  *)
(* a full queue again.                                                     *)
QueueFits == \A b \in Booths : Len(waiting[b]) <= MAX_USERS

(* No handler writes past the end of activeList or of waitingQueue,        *)
(* however many users there are.                                           *)
WithinArrays == CapacityKept /\ QueueFits

(* The inductive invariant of the proofs. *)
IInv == TypeOK /\ VisitOnce /\ QueueInOrder /\ WithinArrays

(* An update of the queue never promises a better place than the user has, *)
(* although updateAllWaitingUsers runs before the next user is called.     *)
UpdatesNotOptimistic ==
    \A b \in Booths : \A i \in DOMAIN sent[b] :
        LET m == sent[b][i]
        IN  (m.type = "QUEUE_UPDATE" /\ m.pos > 0) =>
                \/ m.dest = pending[b]
                \/ InQueue(waiting[b], m.dest) /\ IndexOf(waiting[b], m.dest) <= m.pos

(* A step of one booth from queue q and call p to queue t and call r in    *)
(* which nobody overtakes: users who stay keep their order, a user who     *)
(* joins stands last, and a user who is newly called had nobody in front   *)
(* but the one whose call has just ended.                                  *)
Fifo(q, p, t, r) ==
    /\ \A i, j \in DOMAIN q :
         i < j /\ InQueue(t, q[i].userId) /\ InQueue(t, q[j].userId)
         => IndexOf(t, q[i].userId) < IndexOf(t, q[j].userId)
    /\ \A i \in DOMAIN q, j \in DOMAIN t :
         InQueue(t, q[i].userId) /\ ~InQueue(q, t[j].userId) => IndexOf(t, q[i].userId) < j
    /\ r \notin {p, NoUser} =>
         \A i \in DOMAIN q : i < IndexOf(q, r) => q[i].userId = p

(* Calls go out first come, first called (L3_FSMmain.cpp:944, FIFO).       *)
FirstComeFirstCalled ==
    [][\A b \in Booths : Fifo(waiting[b], pending[b], waiting'[b], pending'[b])]_vars

-----------------------------------------------------------------------------
(* A queue that nothing moves *)

(* Somebody waits, there is room, and nobody is called.  Only the next     *)
(* exit or expiry could call again, and with nobody inside none comes.     *)
Stalled(b) == waiting[b] # <<>> /\ ~Full(b) /\ pending[b] = NoUser

(* With one place, as MAX_BOOTH_CAPACITY has it, the queue is left in that *)
(* state by one handler only: the answer NO of the called user.            *)
StallsOnlyByDecline ==
    [][\A b \in Booths :
        ~Stalled(b) /\ Stalled(b)' => \E u \in Users : UserResponseNo(b, u)]_vars

(* The claim README.md makes of the queue: when the called user does not   *)
(* take the place, the next one gets the call (README.md, pull queue).     *)
NeverStalled == \A b \in Booths : ~Stalled(b)

-----------------------------------------------------------------------------
(* Claims of the documentation that the handlers do not keep *)

(* "Queue management (control of the order of entry)": a user enters when  *)
(* called, or when nobody is called and nobody waits.                      *)
EntryInOrder ==
    [][\A b \in Booths, u \in Users :
        (u \in ToSet(active'[b]) /\ u \notin ToSet(active[b]))
        => \/ pending[b] = u
           \/ pending[b] = NoUser /\ waiting[b] = <<>>]_vars

(* "QUEUE_READY when the administrator can let a user in": a user is told  *)
(* to enter only when there is room.                                       *)
CalledWhenRoom ==
    \A b \in Booths : \A i \in DOMAIN sent[b] :
        sent[b][i].type = "QUEUE_READY" => ~Full(b)

(* "Real-time queue ... managing the place": a place a user is told in a   *)
(* queue update is the user's place.                                       *)
UpdatesExact ==
    \A b \in Booths : \A i \in DOMAIN sent[b] :
        LET m == sent[b][i]
        IN  (m.type = "QUEUE_UPDATE" /\ m.pos > 0) =>
                m.pos = IndexOf(waiting[b], m.dest) /\ m.total = Len(waiting[b])

(* "The maximum number of users" (L3_msg.h:45): the record of the visitors *)
(* has an entry for each.  Nothing limits the users that may come, nobody  *)
(* is taken out of the record, and RegisterAdmitted appends untested.  The *)
(* code then writes past the array; here the list grows, so the properties *)
(* of this module are about the code while this claim still holds.         *)
RegisteredFits == \A b \in Booths : Len(registered[b]) <= MAX_USERS

(* "REGISTER_REASON_FULL_WAITING: registered in the queue, since full"     *)
(* (L3_msg.h:36).                                                          *)
FullMeansQueued ==
    \A b \in Booths : \A i \in DOMAIN sent[b] :
        LET m == sent[b][i]
        IN  (m.type = "REGISTER_RESPONSE" /\ m.reason = "FULL_WAITING")
            => InQueue(waiting[b], m.dest)

-----------------------------------------------------------------------------
(* Liveness, under FairSpec *)

(* Every call ends: the user registers, declines, or the call expires.     *)
CallsEnd ==
    \A b \in Booths, u \in Users : pending[b] = u ~> pending[b] # u

(* A user does not wait for ever in a queue that never stalls: users in    *)
(* front leave, are admitted or lose their call, one after the other.      *)
QueueMoves ==
    \A b \in Booths, u \in Users :
        InQueue(waiting[b], u) ~> (~InQueue(waiting[b], u) \/ Stalled(b))

-----------------------------------------------------------------------------
(* The booth keeps the promise of module Visit. *)
Visits == INSTANCE Visit WITH
    Capacity <- MAX_BOOTH_CAPACITY,
    inside   <- [b \in Booths |-> ToSet(active[b])],
    visited  <- [b \in Booths |-> ToSet(registered[b])]

(* Every step of the booth is an entry, an end of a visit, or neither; and *)
(* under FairSpec every visit ends.                                        *)
KeepsVisits == Visits!FairSpec
=============================================================================
