--------------------------------- MODULE Popin ---------------------------------
(***************************************************************************)
(* Booths and users together: the administrator side (Booth) and the user  *)
(* side (User) of layer 3, over what layer 2 leaves of their data          *)
(* requests.                                                               *)
(*                                                                         *)
(* A board has one place for an outgoing message: L2_LLI_handleDataReq     *)
(* copies each request over the one before (sduIn, destL2ID), and layer 2  *)
(* takes it only in its own turn of the main loop, when it is idle.  So of *)
(* the requests of one handler only the last survives, and a later handler *)
(* of the same pass replaces that.  Else, when layer 2 keeps up, the       *)
(* messages of a board arrive one by one.  When it is late, a new          *)
(* request replaces one that layer 2 has not taken, and it redirects the   *)
(* message that layer 2 is repeating, since that is sent to destL2ID, too. *)
(* With Lossy layer 2 may give a message up, or discard it on arrival (see *)
(* Arq).  A second arrival of the same message is left out.                *)
(***************************************************************************)
EXTENDS Naturals, FiniteSets, Sequences, SequencesExt

CONSTANTS
    Booths, Users, NoBooth, NoUser, Broadcast, ScanOrder,
    MAX_BOOTH_CAPACITY, MAX_USERS, CONNECT_RETRY_MAX,
    Lossy,    \* layer 2 may give a message up (10 retransmissions)
    Late,     \* messages may take longer than the timers of layer 3 (3 .. 120 s)
    Talks     \* boards announce, administrators write, users chat

VARIABLES
    registered, active, waiting, pending, quietMode, sent,
    state, booth, scanning, seen, waitInfo, retries, asking, waitReg,
    lastPlace, sessionOn, typing, out,
    link      \* link[n]: the messages board n has not yet got delivered

boothVars == <<registered, active, waiting, pending, quietMode, sent>>
userVars == <<state, booth, scanning, seen, waitInfo, retries, asking, waitReg,
              lastPlace, sessionOn, typing, out>>
vars == <<boothVars, userVars, link>>

B == INSTANCE Booth
U == INSTANCE User

Boards == Booths \cup Users

(* An ID is an administrator's (1..3), a user's (4..), or the broadcast's. *)
ASSUME BoardsAssumption ==
    /\ Booths \cap Users = {}
    /\ {NoBooth, Broadcast} \cap Boards = {}
    /\ U!ScanOrderAssumption
ASSUME BoothAssumption ==
    B!CapacityAssumption /\ B!MaxUsersAssumption /\ B!NoUserAssumption

-----------------------------------------------------------------------------

(* The same message for another receiver. *)
Redirect(m, dest) == [m EXCEPT !.dest = dest]

(* What booth b was last asked to send waits as its last message.          *)
JustMade(b) == sent[b] # <<>> /\ link[b] # <<>> /\ Last(link[b]) = Last(sent[b])

(* One L3_FSMrun checks the timers, announces, and handles a message       *)
(* (L3_FSMmain.cpp:159-173, 175-188, 228-686) before layer 2 has its turn. *)
(* The check begins with the news for the one whose time is over, and ends *)
(* with it or with the call of the next.                                   *)
JustChecked(b) ==
    /\ JustMade(b)
    /\ Last(link[b]).type \in {"TIMEOUT_ALERT", "QUEUE_UPDATE", "QUEUE_READY"}
    /\ \/ Head(sent[b]).type = "TIMEOUT_ALERT"
       \/ Head(sent[b]).type = "QUEUE_UPDATE" /\ Head(sent[b]).pos = 0

JustAnnounced(b) ==
    /\ JustMade(b)
    /\ Last(link[b]).type = "BOOTH_ANNOUNCE"
    /\ Last(link[b]).dest = Broadcast

(* What layer 2 of board n may have to deliver after a handler has made    *)
(* its requests, of which the last counts.  If the board's last message    *)
(* was made earlier in the same pass, it may be replaced even when layer 2 *)
(* keeps up.                                                               *)
Handed(n, msgs, samePass) ==
    IF msgs = <<>> THEN {link[n]}
    ELSE IF Late /\ link[n] # <<>>
    THEN {<<Redirect(Head(link[n]), Last(msgs).dest), Last(msgs)>>}
         \cup {<<Last(msgs)>> : i \in {1} \cap {Len(link[n])}}
    ELSE {Append(link[n], Last(msgs))}
         \cup (IF samePass THEN {Append(Front(link[n]), Last(msgs))} ELSE {})

Hand(n, msgs, samePass) ==
    \E l \in Handed(n, msgs, samePass) : link' = [link EXCEPT ![n] = l]

(* The first message of board n has arrived at m, whose handler has made   *)
(* its requests.                                                           *)
TakeAndHand(n, m, msgs, samePass) ==
    \E l \in Handed(m, msgs, samePass) : link' = [link EXCEPT ![n] = Tail(@), ![m] = l]

Init ==
    /\ B!Init
    /\ U!Init
    /\ link = [n \in Boards |-> <<Last(IF n \in Booths THEN sent[n] ELSE out[n])>>]

(* No message to or from u is under way. *)
Answered(u) ==
    /\ link[u] = <<>>
    /\ \A b \in Booths : \A i \in DOMAIN link[b] : link[b][i].dest # u

(* When messages are not late, timers and keys find u's messages arrived,  *)
(* those that its own board has made in the same pass, too.                *)
InTime(u) == Late \/ Answered(u)

(* What booth b does on its own: timers, announcements, keys.              *)
BoothTimers(b) ==
    \/ \E u \in Users : InTime(u) /\ B!SessionTimeout(b, u)
    \/ \E u \in Users :
         B!BothTimeouts(b, u) /\ InTime(u) /\ InTime(pending[b])
    \/ B!QueueReadyTimeout(b) /\ InTime(pending[b])

BoothTalks(b) ==
    \/ B!AutoAnnounce(b)
    \/ B!AnnounceKey(b)
    \/ B!QuietKey(b)
    \/ B!AdminMessage(b)

BoothActs(b) ==
    /\ BoothTimers(b) \/ (Talks /\ BoothTalks(b))
    /\ Hand(b, sent'[b], B!AutoAnnounce(b) /\ JustChecked(b))
    /\ UNCHANGED userVars

UserTimers(u) == U!Scans(u) \/ U!Retries(u) \/ U!SessionOver(u)

UserActs(u) ==
    /\ InTime(u)
    /\ \/ UserTimers(u)
       \/ U!AnswerKeys(u)
       \/ (Talks /\ U!ChatKeys(u))
    /\ Hand(u, out'[u], FALSE)
    /\ UNCHANGED boothVars

(* The switch of L3_FSMrun on a message of user u, in administrator mode.  *)
BoothHandles(b, u, m) ==
    \/ m.type = "BOOTH_SCAN" /\ B!BoothScan(b, u)
    \/ m.type = "CONNECT_REQUEST" /\ B!ConnectRequest(b, u)
    \/ m.type = "USER_RESPONSE_YES" /\ B!OnlyLogged(b, u)
    \/ m.type = "USER_RESPONSE_NO" /\ B!UserResponseNo(b, u)
    \/ m.type = "USER_RESPONSE_NO" /\ pending[b] # u /\ B!OnlyLogged(b, u)
    \/ /\ m.type = "REGISTER_REQUEST"
       /\ \/ B!RegisterRejected(b, u)
          \/ B!RegisterQueued(b, u)
          \/ B!RegisterStillQueued(b, u)
          \/ B!RegisterAdmitted(b, u)
    \/ m.type = "QUEUE_LEAVE" /\ B!QueueLeave(b, u)
    \/ m.type = "EXIT_REQUEST" /\ B!ExitRequest(b, u)
    \/ m.type = "EXIT_REQUEST" /\ u \notin ToSet(active[b]) /\ B!OnlyLogged(b, u)
    \/ m.type = "CHAT_MESSAGE" /\ B!ChatMessage(b, u)

(* The same switch on a message of booth b, in user mode. *)
NotTaken(u, m) ==
    \/ m.type \in {"CHAT_MESSAGE", "ADMIN_MESSAGE"}
    \/ m.type = "BOOTH_ANNOUNCE" /\ ~(state[u] = "SCANNING" /\ scanning[u])
    \/ m.type = "BOOTH_INFO" /\ state[u] # "CONNECTED"
    \/ m.type = "QUEUE_INFO" /\ [pos |-> m.pos, total |-> m.total] = lastPlace[u]
    \/ m.type = "QUEUE_READY" /\ state[u] # "WAITING"
    \/ /\ m.type = "QUEUE_UPDATE"
       /\ ~(state[u] = "WAITING" /\ (m.pos = 0 \/ m.total = 0))

UserHandles(u, b, m) ==
    \/ m.type = "BOOTH_ANNOUNCE" /\ U!AnnounceArrives(u, b)
    \/ m.type = "BOOTH_INFO" /\ U!InfoArrives(u)
    \/ /\ m.type = "REGISTER_RESPONSE"
       /\ \/ m.reason = "SUCCESS" /\ U!RegisterSucceeds(u)
          \/ m.reason = "ALREADY_USED" /\ U!AlreadyUsed(u)
          \/ m.reason = "FULL_WAITING" /\ U!FullWaiting(u)
    \/ m.type = "QUEUE_INFO" /\ U!QueueInfoArrives(u, [pos |-> m.pos, total |-> m.total])
    \/ m.type = "QUEUE_READY" /\ U!QueueReadyArrives(u)
    \/ m.type = "QUEUE_UPDATE" /\ (m.pos = 0 \/ m.total = 0) /\ U!RemovedFromQueue(u)
    \/ m.type = "EXIT_RESPONSE" /\ U!ExitResponseArrives(u)
    \/ m.type = "TIMEOUT_ALERT" /\ U!TimeoutAlertArrives(u)
    \/ NotTaken(u, m) /\ U!OnlyShown(u)

(* A message arrives, and its handler runs before anything else arrives.   *)
DeliverToBooth(u, b) ==
    /\ link[u] # <<>>
    /\ Head(link[u]).dest = b
    /\ BoothHandles(b, u, Head(link[u]))
    /\ TakeAndHand(u, b, sent'[b], JustChecked(b) \/ JustAnnounced(b))
    /\ UNCHANGED userVars

DeliverToUser(b, u) ==
    /\ link[b] # <<>>
    /\ Head(link[b]).dest = u
    /\ UserHandles(u, b, Head(link[b]))
    /\ TakeAndHand(b, u, out'[u], FALSE)
    /\ UNCHANGED boothVars

(* A broadcast, also of a redirected message, reaches some users; it is    *)
(* over with Drop.                                                         *)
BroadcastReaches(b, u) ==
    /\ link[b] # <<>>
    /\ Head(link[b]).dest = Broadcast
    /\ UserHandles(u, b, Head(link[b]))
    /\ Hand(u, out'[u], FALSE)
    /\ UNCHANGED boothVars

Drop(n) ==
    /\ link[n] # <<>>
    /\ Lossy \/ Head(link[n]).dest \in {NoBooth, Broadcast}
    /\ link' = [link EXCEPT ![n] = Tail(@)]
    /\ UNCHANGED <<boothVars, userVars>>

Next ==
    \/ \E b \in Booths : BoothActs(b)
    \/ \E u \in Users : UserActs(u)
    \/ \E b \in Booths, u \in Users :
         DeliverToBooth(u, b) \/ DeliverToUser(b, u) \/ BroadcastReaches(b, u)
    \/ \E n \in Boards : Drop(n)

Spec == Init /\ [][Next]_vars

(* Layer 2 goes on delivering, and both main loops go on comparing timers. *)
FairSpec ==
    /\ Spec
    /\ \A n \in Boards : WF_vars(Drop(n))
    /\ \A u \in Users :
         /\ WF_vars(\E b \in Booths : DeliverToBooth(u, b))
         /\ WF_vars(UserActs(u) /\ U!Scans(u))
         /\ WF_vars(UserActs(u) /\ U!Retries(u))
    /\ \A b \in Booths :
         /\ WF_vars(\E u \in Users : DeliverToUser(b, u))
         /\ WF_vars(BoothActs(b) /\ B!QueueReadyTimeout(b))
         /\ \A u \in Users : WF_vars(BoothActs(b) /\ B!SessionTimeout(b, u))

-----------------------------------------------------------------------------
(* Safety *)

Inside(b, u) == u \in ToSet(active[b])

UnderWay(b, u) == \E i \in DOMAIN link[b] : link[b][i].dest = u

(* Whatever is lost, late or replaced, nobody takes itself for inside who  *)
(* was never admitted by a booth.  It holds of a user alone; a message of  *)
(* somebody else that is redirected breaks it.                             *)
InUseWasAdmitted ==
    \A u \in Users :
        state[u] = "IN_USE" => \E b \in Booths : u \in ToSet(registered[b])

(* A user inside knows where: the booth it would send its exit request and *)
(* its chat to is one that admitted it.                                    *)
KnowsItsBooth ==
    \A u \in Users :
        state[u] = "IN_USE" => \E b \in Booths : b = booth[u] /\ u \in ToSet(registered[b])

(* A user inside stays: it leaves IN_USE only when the booth has ended the *)
(* session (README.md: "IN_USE --> SCANNING: session over / early exit").  *)
StaysInside ==
    [][\A b \in Booths, u \in Users :
        state[u] = "IN_USE" /\ Inside(b, u) /\ Inside(b, u)' => state'[u] = "IN_USE"]_vars

(* Booth and user agree who is inside where, or the user is being told:    *)
(* nobody holds a place without knowing it, and nobody takes itself for    *)
(* inside a booth that has ended its session.                              *)
AgreeWhoIsInside ==
    \A b \in Booths, u \in Users :
        UnderWay(b, u) \/ (Inside(b, u) <=> state[u] = "IN_USE" /\ booth[u] = b)

(* A user takes a place in one booth only, although each booth knows only  *)
(* its own lists and a user may turn to the next booth at any time.        *)
InsideOnce ==
    \A u \in Users : \A b, c \in Booths : Inside(b, u) /\ Inside(c, u) => b = c

Queued(b, u) == \E i \in DOMAIN waiting[b] : waiting[b][i].userId = u

(* It stands in the queue of booth b, or has been called from it.          *)
Bound(b, u) == Queued(b, u) \/ pending[b] = u

(* Nobody waits at two booths.  Two users never come to; of three one may, *)
(* since a queue that a user has left unknowing keeps it.                  *)
QueuedAtOne ==
    \A u \in Users : \A b, c \in Booths : Bound(b, u) /\ Bound(c, u) => b = c

(* "WAITING --> IN_USE, WAITING --> SCANNING" (README.md): a booth knows   *)
(* of who waits, or has a message for it.  Else the user waits for ever:   *)
(* no timer of its own ends WAITING.  Four users are enough to break it:   *)
(* the 0/0 that ends a call (L3_FSMmain.cpp:1060) is replaced by the       *)
(* QUEUE_READY to the next in the queue.                                   *)
WaitingIsKnown ==
    \A u \in Users : state[u] = "WAITING" /\ Answered(u) => \E b \in Booths : Bound(b, u)

(* "QUEUE_INFO means: you are in the queue.  WAITING, whatever the state   *)
(* is" (L3_FSMmain.cpp:674-676): a user in the queue knows it when no      *)
(* message to or from it is under way.                                     *)
QueuedKnowsIt ==
    \A b \in Booths, u \in Users :
        Queued(b, u) /\ Answered(u) => state[u] = "WAITING"

(* "CONNECTED: the booth's information is read, then y/n" (README.md): the *)
(* request to register does not run ahead of the information.              *)
RegistersAfterInfo ==
    \A u \in Users : state[u] = "CONNECTED" /\ waitInfo[u] => ~waitReg[u]

(* The transitions of the diagram in README.md, and no others.             *)
Diagram ==
    {<<"SCANNING", "CONNECTED">>, <<"CONNECTED", "SCANNING">>, <<"CONNECTED", "IN_USE">>,
     <<"CONNECTED", "WAITING">>, <<"WAITING", "IN_USE">>, <<"WAITING", "SCANNING">>,
     <<"IN_USE", "SCANNING">>}

FollowsDiagram ==
    [][\A u \in Users :
        state'[u] = state[u] \/ <<state[u], state'[u]>> \in Diagram]_vars

(* "Announcements of all booths are received" (README.md): when a scan is  *)
(* over, every booth has been seen.                                        *)
SeesAllBooths ==
    [][\A u \in Users : scanning[u] /\ ~scanning'[u] => seen[u] = Booths]_vars

-----------------------------------------------------------------------------
(* Liveness, under FairSpec *)

(* "IN_USE --> SCANNING": a session comes to its end for the user, too.    *)
SessionReturns == \A u \in Users : state[u] = "IN_USE" ~> state[u] # "IN_USE"

(* "CONNECTED --> WAITING | IN_USE | SCANNING": a user who has asked to     *)
(* register does not stay in front of the booth for ever, although its     *)
(* request is repeated without end and a QUEUE_INFO with the place of its  *)
(* last visit is ignored.                                                  *)
RegistrationReturns ==
    \A u \in Users :
        state[u] = "CONNECTED" /\ waitReg[u] ~> ~(state[u] = "CONNECTED" /\ waitReg[u])
=============================================================================
