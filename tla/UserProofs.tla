------------------------------- MODULE UserProofs -------------------------------
(***************************************************************************)
(* Proofs about User and UserScan, for any numbers of booths and users, any *)
(* scan order, any number of retries and any announcements.                *)
(*                                                                         *)
(* Of User: what the variables hold, and that a user who is connected      *)
(* knows the booth it is connected to.  Both hold together: the            *)
(* destination of a request has the type of a destination only because     *)
(* booth has its type, and a retry goes to a booth only because a user who *)
(* is CONNECTED has one, or to none, in the pass that takes it away.       *)
(*                                                                         *)
(* Of UserScan: that it implements User, whose choice of a booth it        *)
(* decides; that the table is what was heard; and that the booth it picks  *)
(* is the one the README describes.                                        *)
(***************************************************************************)
EXTENDS UserScan, ListFacts

(* What the actions of another user leave alone of user v. *)
Others(u) ==
    \A v \in Users \ {u} : state'[v] = state[v] /\ waitReg'[v] = waitReg[v]

(* Requests that belong to a connection go to a booth. *)
WellAddressed(msgs) ==
    \A i \in DOMAIN msgs :
        msgs[i].type \in {"CONNECT_REQUEST", "USER_RESPONSE_YES", "USER_RESPONSE_NO"}
        => msgs[i].dest \in Booths

(* TypeOK of all variables but out. *)
ControlTypeOK ==
    /\ state \in [Users -> States]
    /\ booth \in [Users -> Booths \cup {NoBooth}]
    /\ scanning \in [Users -> BOOLEAN]
    /\ seen \in [Users -> SUBSET Booths]
    /\ waitInfo \in [Users -> BOOLEAN]
    /\ retries \in [Users -> 0 .. CONNECT_RETRY_MAX]
    /\ asking \in [Users -> BOOLEAN]
    /\ waitReg \in [Users -> BOOLEAN]
    /\ lastPlace \in [Users -> Places]
    /\ sessionOn \in [Users -> BOOLEAN]
    /\ typing \in [Users -> BOOLEAN]

(* What BoothKnown says of state and booth. *)
BoothFitsState ==
    \A u \in Users :
        /\ state[u] = "SCANNING" => booth[u] = NoBooth
        /\ state[u] = "CONNECTED" => booth[u] \in Booths

(* User u gave its connection up and still asks to register. *)
AsksNobody(u) == state[u] = "SCANNING" /\ waitReg[u]

(* What BoothKnown says of the requests of user u. *)
Addressed(u) ==
    \A i \in DOMAIN out[u] :
        out[u][i].type \in {"CONNECT_REQUEST", "USER_RESPONSE_YES", "USER_RESPONSE_NO"}
        => \/ out[u][i].dest \in Booths
           \/ out[u][i].type = "USER_RESPONSE_YES" /\ AsksNobody(u)

(* What TypeOK and BoothKnown say of out. *)
OutFits == out \in [Users -> Seq(Request)] /\ \A u \in Users : Addressed(u)

(* The inductive invariant. *)
IInv == ControlTypeOK /\ BoothFitsState /\ OutFits

(* The parts of the invariant are the two checked invariants. *)
LEMMA Parts == IInv <=> TypeOK /\ BoothKnown
BY DEF IInv, TypeOK, BoothKnown, ControlTypeOK, BoothFitsState, OutFits, Addressed, AsksNobody

-----------------------------------------------------------------------------
(* What the handlers send *)

(* No message, one and two messages are sequences of requests. *)
LEMMA FewRequests ==
    /\ <<>> \in Seq(Request)
    /\ \A m \in Request : <<m>> \in Seq(Request)
    /\ \A m, n \in Request : <<m, n>> \in Seq(Request)
OBVIOUS

(* A request is a type and a destination. *)
LEMMA ToIsRequest ==
    ASSUME NEW b \in Booths \cup {NoBooth},
           NEW type \in {"BOOTH_SCAN", "CONNECT_REQUEST", "USER_RESPONSE_YES",
                         "USER_RESPONSE_NO", "REGISTER_REQUEST", "QUEUE_LEAVE",
                         "EXIT_REQUEST", "CHAT_MESSAGE"}
    PROVE  To(b, type) \in Request
BY DEF To, Request

(* Sending nothing is well addressed. *)
LEMMA NothingFits == <<>> \in Seq(Request) /\ WellAddressed(<<>>)
BY FewRequests DEF WellAddressed

(* One request, to a booth if it belongs to a connection, is well addressed. *)
LEMMA OneFits ==
    ASSUME NEW b \in Booths \cup {NoBooth},
           NEW type \in {"BOOTH_SCAN", "CONNECT_REQUEST", "USER_RESPONSE_YES",
                         "USER_RESPONSE_NO", "REGISTER_REQUEST", "QUEUE_LEAVE",
                         "EXIT_REQUEST", "CHAT_MESSAGE"},
           type \in {"CONNECT_REQUEST", "USER_RESPONSE_YES", "USER_RESPONSE_NO"}
               => b \in Booths
    PROVE  <<To(b, type)>> \in Seq(Request) /\ WellAddressed(<<To(b, type)>>)
<1>1. <<To(b, type)>> \in Seq(Request)
  BY ToIsRequest, FewRequests
<1>2. WellAddressed(<<To(b, type)>>)
  BY DEF WellAddressed, To
<1> QED BY <1>1, <1>2

(* The two requests of a registration, to a booth, are well addressed. *)
LEMMA AskFits ==
    ASSUME NEW b \in Booths
    PROVE  AskToRegister(b) \in Seq(Request) /\ WellAddressed(AskToRegister(b))
<1>1. AskToRegister(b) \in Seq(Request)
  BY ToIsRequest, FewRequests DEF AskToRegister
<1>2. WellAddressed(AskToRegister(b))
  BY DEF WellAddressed, AskToRegister, To
<1> QED BY <1>1, <1>2

(* A scan is well addressed: it belongs to no connection. *)
LEMMA ScanFits == ScanAll \in Seq(Request) /\ WellAddressed(ScanAll)
<1>1. /\ DOMAIN ScanOrder = 1 .. Len(ScanOrder)
      /\ Len(ScanOrder) \in Nat
      /\ \A i \in 1 .. Len(ScanOrder) : ScanOrder[i] \in Booths
  BY ScanOrderAssumption
<1>2. \A i \in 1 .. Len(ScanOrder) : To(ScanOrder[i], "BOOTH_SCAN") \in Request
  BY <1>1, ToIsRequest
<1>3. ScanAll \in Seq(Request)
  BY <1>1, <1>2 DEF ScanAll
<1>4. WellAddressed(ScanAll)
  BY <1>1 DEF WellAddressed, ScanAll, To
<1> QED BY <1>3, <1>4

(* The three requests of both retries, to a booth, are well addressed. *)
LEMMA BothFit ==
    ASSUME NEW b \in Booths
    PROVE  /\ <<To(b, "CONNECT_REQUEST")>> \o AskToRegister(b) \in Seq(Request)
           /\ WellAddressed(<<To(b, "CONNECT_REQUEST")>> \o AskToRegister(b))
<1> DEFINE m == To(b, "CONNECT_REQUEST")
           asks == AskToRegister(b)
<1>1. /\ m \in Request /\ m.dest \in Booths
      /\ asks \in Seq(Request) /\ WellAddressed(asks)
  BY ToIsRequest, AskFits DEF To
<1> HIDE DEF m, asks
<1>2. <<m>> \o asks \in Seq(Request)
  BY <1>1
<1>3. WellAddressed(<<m>> \o asks)
  BY <1>1 DEF WellAddressed
<1> QED BY <1>2, <1>3 DEF m, asks

(* Requests that fit the user that made them fit, all users' do. *)
LEMMA SendFits ==
    ASSUME NEW u \in Users, NEW msgs \in Seq(Request), OutFits, Others(u),
           Send(u, msgs), out'[u] = msgs => Addressed(u)'
    PROVE  OutFits'
<1>1. out' \in [Users -> Seq(Request)]
  BY DEF OutFits, Send
<1>2. ASSUME NEW v \in Users PROVE Addressed(v)'
  <2>1. CASE v = u
    <3>1. out'[v] = msgs
      BY <2>1 DEF OutFits, Send
    <3> QED BY <2>1, <3>1
  <2>2. CASE v # u
    <3>1. out'[v] = out[v] /\ state'[v] = state[v] /\ waitReg'[v] = waitReg[v]
      BY <2>2 DEF OutFits, Send, Others
    <3> QED BY <3>1 DEF OutFits, Addressed, AsksNobody
  <2> QED BY <2>1, <2>2
<1> QED BY <1>1, <1>2 DEF OutFits

(* A handler that sends well addressed requests keeps those of all users so. *)
LEMMA SendKeepsFit ==
    ASSUME NEW u \in Users, NEW msgs \in Seq(Request), WellAddressed(msgs),
           OutFits, Others(u), Send(u, msgs)
    PROVE  OutFits'
<1>1. out'[u] = msgs => Addressed(u)'
  BY DEF WellAddressed, Addressed
<1> QED BY <1>1, SendFits

(* Only the state and the wait of the user that acts change. *)
LEMMA OwnOnly ==
    ASSUME IInv, NEW u \in Users,
           \/ Scans(u) \/ Retries(u) \/ SessionOver(u) \/ AnswerKeys(u)
           \/ ChatKeys(u) \/ Announced(u) \/ Messages(u)
    PROVE  Others(u)
<1>1. state \in [Users -> States] /\ waitReg \in [Users -> BOOLEAN]
  BY DEF IInv, ControlTypeOK
<1>2. /\ state' = state \/ \E s : state' = [state EXCEPT ![u] = s]
      /\ waitReg' = waitReg \/ \E w : waitReg' = [waitReg EXCEPT ![u] = w]
  <2>1. CASE Scans(u) \/ Announced(u)
    BY <2>1 DEF Scans, NoBoothFound, ScanAgain, SelectBooth, Announced, AnnounceArrives
  <2>2. CASE Retries(u) \/ SessionOver(u)
    BY <2>2 DEF Retries, ConnectOver, RegisterOver, ConnectRetry, ConnectGiveUp, RegisterRetry,
                BothRetries, GiveUpAndRegister, SessionOver, ToScanning, control
  <2>3. CASE AnswerKeys(u) \/ ChatKeys(u)
    BY <2>3 DEF AnswerKeys, PressYes, PressNo, PressExit, PressLeave, ToScanning,
                ChatKeys, PressChat, EndChat, control
  <2>4. CASE Messages(u)
    BY <2>4 DEF Messages, InfoArrives, RegisterSucceeds, AlreadyUsed, FullWaiting,
                QueueInfoArrives, QueueReadyArrives, RemovedFromQueue, ExitResponseArrives,
                TimeoutAlertArrives, OnlyShown, ToScanning, control
  <2> QED BY <2>1, <2>2, <2>3, <2>4
<1> QED BY <1>1, <1>2 DEF Others

-----------------------------------------------------------------------------
(* One step of each kind *)

(* The scans and the choice of a booth keep the invariant. *)
LEMMA ScansKeep ==
    ASSUME IInv, NEW u \in Users, Scans(u)
    PROVE  IInv'
<1> USE DEF IInv
<1>0. Others(u)
  BY OwnOnly
<1>1. CASE NoBoothFound(u)
  <2>1. OutFits'
    BY <1>1, NothingFits, <1>0, SendKeepsFit DEF NoBoothFound
  <2>2. ControlTypeOK' /\ BoothFitsState'
    BY <1>1 DEF NoBoothFound, ControlTypeOK, BoothFitsState
  <2> QED BY <2>1, <2>2
<1>2. CASE ScanAgain(u)
  <2>1. OutFits'
    BY <1>2, ScanFits, <1>0, SendKeepsFit DEF ScanAgain
  <2>2. ControlTypeOK' /\ BoothFitsState'
    BY <1>2 DEF ScanAgain, ControlTypeOK, BoothFitsState
  <2> QED BY <2>1, <2>2
<1>3. ASSUME NEW b \in Booths, SelectBooth(u, b)
      PROVE  IInv'
  <2>1. OutFits'
    BY <1>3, OneFits, <1>0, SendKeepsFit DEF SelectBooth
  <2>2. ControlTypeOK'
    BY <1>3, RetryAssumption DEF SelectBooth, ControlTypeOK, States
  <2>3. BoothFitsState'
    BY <1>3 DEF SelectBooth, ControlTypeOK, BoothFitsState
  <2> QED BY <2>1, <2>2, <2>3
<1> QED BY <1>1, <1>2, <1>3 DEF Scans

(* So do the retries: who retries is CONNECTED and has a booth to ask. *)
LEMMA RetriesKeep ==
    ASSUME IInv, NEW u \in Users, Retries(u)
    PROVE  IInv'
<1> USE DEF IInv
<1>0. Others(u)
  BY OwnOnly
<1>1. CASE ConnectRetry(u)
  <2>1. booth[u] \in Booths
    BY <1>1 DEF ConnectRetry, BoothFitsState
  <2>2. OutFits'
    BY <1>1, <2>1, OneFits, <1>0, SendKeepsFit DEF ConnectRetry
  <2>3. ControlTypeOK'
    BY <1>1, RetryAssumption DEF ConnectRetry, ControlTypeOK
  <2>4. BoothFitsState'
    BY <1>1 DEF ConnectRetry, BoothFitsState
  <2> QED BY <2>2, <2>3, <2>4
<1>2. CASE ConnectGiveUp(u)
  <2>1. OutFits'
    BY <1>2, NothingFits, <1>0, SendKeepsFit DEF ConnectGiveUp
  <2>2. ControlTypeOK'
    BY <1>2, RetryAssumption DEF ConnectGiveUp, ToScanning, ControlTypeOK, States
  <2>3. BoothFitsState'
    BY <1>2 DEF ConnectGiveUp, ToScanning, ControlTypeOK, BoothFitsState
  <2> QED BY <2>1, <2>2, <2>3
<1>3. CASE RegisterRetry(u)
  <2>1. booth[u] \in Booths
    BY <1>3 DEF RegisterRetry, BoothFitsState
  <2>2. OutFits'
    BY <1>3, <2>1, AskFits, <1>0, SendKeepsFit DEF RegisterRetry
  <2>3. ControlTypeOK' /\ BoothFitsState'
    BY <1>3 DEF RegisterRetry, control, ControlTypeOK, BoothFitsState
  <2> QED BY <2>2, <2>3
<1>4. CASE BothRetries(u)
  <2>1. booth[u] \in Booths
    BY <1>4 DEF BothRetries, BoothFitsState
  <2>2. OutFits'
    BY <1>0, <1>4, <2>1, BothFit, SendKeepsFit DEF BothRetries
  <2>3. ControlTypeOK'
    BY <1>4, RetryAssumption DEF BothRetries, ControlTypeOK
  <2>4. BoothFitsState'
    BY <1>4 DEF BothRetries, BoothFitsState
  <2> QED BY <2>2, <2>3, <2>4
<1>5. CASE GiveUpAndRegister(u)
  <2>1. state'[u] = "SCANNING" /\ waitReg'[u]
    BY <1>5 DEF GiveUpAndRegister, ToScanning, ControlTypeOK
  <2>2. Send(u, AskToRegister(NoBooth))
    BY <1>5 DEF GiveUpAndRegister
  <2>3. AskToRegister(NoBooth) \in Seq(Request)
    BY ToIsRequest, FewRequests DEF AskToRegister
  <2>4. out'[u] = AskToRegister(NoBooth) => Addressed(u)'
    BY <2>1 DEF Addressed, AsksNobody, AskToRegister, To
  <2>5. OutFits'
    BY <1>0, <2>2, <2>3, <2>4, SendFits
  <2>6. ControlTypeOK'
    BY <1>5, RetryAssumption DEF GiveUpAndRegister, ToScanning, ControlTypeOK, States
  <2>7. BoothFitsState'
    BY <1>5 DEF GiveUpAndRegister, ToScanning, ControlTypeOK, BoothFitsState
  <2> QED BY <2>5, <2>6, <2>7
<1> QED BY <1>1, <1>2, <1>3, <1>4, <1>5 DEF Retries, ConnectOver, RegisterOver

(* So do the keys: 'y' and 'n' are taken only when CONNECTED, and a key    *)
(* that leaves the connection clears the booth together with the state.    *)
LEMMA AnswerKeysKeep ==
    ASSUME IInv, NEW u \in Users, AnswerKeys(u)
    PROVE  IInv'
<1> USE DEF IInv
<1>0. Others(u)
  BY OwnOnly
<1>1. CASE PressYes(u)
  <2>1. booth[u] \in Booths
    BY <1>1 DEF PressYes, Answering, BoothFitsState
  <2>2. OutFits'
    BY <1>1, <2>1, AskFits, <1>0, SendKeepsFit DEF PressYes
  <2>3. ControlTypeOK' /\ BoothFitsState'
    BY <1>1 DEF PressYes, ControlTypeOK, BoothFitsState
  <2> QED BY <2>2, <2>3
<1>2. CASE PressNo(u)
  <2>1. booth[u] \in Booths
    BY <1>2 DEF PressNo, Answering, BoothFitsState
  <2>2. OutFits'
    BY <1>2, <2>1, OneFits, <1>0, SendKeepsFit DEF PressNo
  <2>3. ControlTypeOK'
    BY <1>2 DEF PressNo, ToScanning, ControlTypeOK, States
  <2>4. BoothFitsState'
    BY <1>2 DEF PressNo, ToScanning, ControlTypeOK, BoothFitsState
  <2> QED BY <2>2, <2>3, <2>4
<1>3. CASE PressExit(u)
  <2>1. booth[u] \in Booths \cup {NoBooth}
    BY DEF ControlTypeOK
  <2>2. OutFits'
    BY <1>3, <2>1, OneFits, <1>0, SendKeepsFit DEF PressExit
  <2>3. ControlTypeOK' /\ BoothFitsState'
    BY <1>3 DEF PressExit, ControlTypeOK, BoothFitsState
  <2> QED BY <2>2, <2>3
<1>4. CASE PressLeave(u)
  <2>1. booth[u] \in Booths \cup {NoBooth}
    BY DEF ControlTypeOK
  <2>2. OutFits'
    BY <1>4, <2>1, OneFits, <1>0, SendKeepsFit DEF PressLeave
  <2>3. ControlTypeOK'
    BY <1>4 DEF PressLeave, ToScanning, ControlTypeOK, States
  <2>4. BoothFitsState'
    BY <1>4 DEF PressLeave, ToScanning, ControlTypeOK, BoothFitsState
  <2> QED BY <2>2, <2>3, <2>4
<1> QED BY <1>1, <1>2, <1>3, <1>4 DEF AnswerKeys

(* The keys of the chat keep it: a text may go to booth 0, since it        *)
(* belongs to a session and not to a connection.                           *)
LEMMA ChatKeysKeep ==
    ASSUME IInv, NEW u \in Users, ChatKeys(u)
    PROVE  IInv'
<1> USE DEF IInv
<1>0. Others(u)
  BY OwnOnly
<1>1. CASE PressChat(u)
  <2>1. OutFits'
    BY <1>1, NothingFits, <1>0, SendKeepsFit DEF PressChat
  <2>2. ControlTypeOK' /\ BoothFitsState'
    BY <1>1 DEF PressChat, control, ControlTypeOK, BoothFitsState
  <2> QED BY <2>1, <2>2
<1>2. CASE EndChat(u)
  <2>1. booth[u] \in Booths \cup {NoBooth}
    BY DEF ControlTypeOK
  <2>2. OutFits'
    <3>1. CASE Send(u, <<>>)
      BY <3>1, NothingFits, <1>0, SendKeepsFit
    <3>2. CASE Send(u, <<To(booth[u], "CHAT_MESSAGE")>>)
      BY <2>1, <3>2, OneFits, <1>0, SendKeepsFit
    <3> QED BY <1>2, <3>1, <3>2 DEF EndChat
  <2>3. ControlTypeOK' /\ BoothFitsState'
    BY <1>2 DEF EndChat, control, ControlTypeOK, BoothFitsState
  <2> QED BY <2>2, <2>3
<1> QED BY <1>1, <1>2 DEF ChatKeys

(* A handler of a message sends nothing, but for the one of QUEUE_READY,   *)
(* whose request may go to booth 0.                                        *)
LEMMA MessagesKeepOut ==
    ASSUME IInv, NEW u \in Users, Messages(u)
    PROVE  OutFits'
<1>0. Others(u)
  BY OwnOnly
<1>1. CASE Send(u, <<>>)
  BY <1>0, <1>1, NothingFits, SendKeepsFit DEF IInv
<1>2. CASE Send(u, <<To(booth[u], "REGISTER_REQUEST")>>)
  <2>1. booth[u] \in Booths \cup {NoBooth}
    BY DEF IInv, ControlTypeOK
  <2> QED BY <1>0, <1>2, <2>1, OneFits, SendKeepsFit DEF IInv
<1>3. Send(u, <<>>) \/ Send(u, <<To(booth[u], "REGISTER_REQUEST")>>)
  BY DEF Messages, InfoArrives, RegisterSucceeds, AlreadyUsed,
         FullWaiting, QueueInfoArrives, QueueReadyArrives, RemovedFromQueue,
         ExitResponseArrives, TimeoutAlertArrives, OnlyShown
<1> QED BY <1>1, <1>2, <1>3

(* An announcement touches nothing but the booths that were seen.          *)
LEMMA AnnouncedKeeps ==
    ASSUME IInv, NEW u \in Users, Announced(u)
    PROVE  IInv'
<1>1. PICK b \in Booths : AnnounceArrives(u, b)
  BY DEF Announced
<1>2. OutFits'
  BY <1>1, NothingFits, OwnOnly, SendKeepsFit DEF AnnounceArrives, IInv
<1>3. ControlTypeOK' /\ BoothFitsState'
  BY <1>1 DEF AnnounceArrives, IInv, ControlTypeOK, BoothFitsState
<1> QED BY <1>2, <1>3 DEF IInv

(* A message in any state, however late, keeps the invariant: each handler *)
(* either leaves CONNECTED and SCANNING alone or goes to a state together  *)
(* with the booth that belongs to it.                                      *)
LEMMA MessagesKeep ==
    ASSUME IInv, NEW u \in Users, Messages(u)
    PROVE  IInv'
<1> USE DEF IInv
<1>0. OutFits'
  BY MessagesKeepOut
<1>1. CASE InfoArrives(u)
  <2>1. ControlTypeOK'
    BY <1>1, RetryAssumption DEF InfoArrives, ControlTypeOK
  <2>2. BoothFitsState'
    BY <1>1 DEF InfoArrives, BoothFitsState
  <2> QED BY <1>0, <2>1, <2>2
<1>2. CASE RegisterSucceeds(u) \/ FullWaiting(u)
  <2>1. ControlTypeOK'
    BY <1>2 DEF RegisterSucceeds, FullWaiting, ControlTypeOK, States
  <2>2. BoothFitsState'
    BY <1>2 DEF RegisterSucceeds, FullWaiting, ControlTypeOK, BoothFitsState
  <2> QED BY <1>0, <2>1, <2>2
<1>3. ASSUME NEW place \in Places, QueueInfoArrives(u, place)
      PROVE  ControlTypeOK' /\ BoothFitsState'
  <2>1. ControlTypeOK'
    BY <1>3 DEF QueueInfoArrives, ControlTypeOK, States
  <2>2. BoothFitsState'
    BY <1>3 DEF QueueInfoArrives, ControlTypeOK, BoothFitsState
  <2> QED BY <2>1, <2>2
<1>4. CASE QueueReadyArrives(u) \/ OnlyShown(u)
  <2>1. ControlTypeOK' /\ BoothFitsState'
    BY <1>4 DEF QueueReadyArrives, OnlyShown, control, ControlTypeOK, BoothFitsState
  <2> QED BY <1>0, <2>1
<1>5. CASE \/ AlreadyUsed(u) \/ RemovedFromQueue(u)
           \/ ExitResponseArrives(u) \/ TimeoutAlertArrives(u)
  <2>1. ToScanning(u)
    BY <1>5 DEF AlreadyUsed, RemovedFromQueue, ExitResponseArrives, TimeoutAlertArrives
  <2>2. ControlTypeOK'
    BY <1>5 DEF AlreadyUsed, RemovedFromQueue, ExitResponseArrives, TimeoutAlertArrives,
                ToScanning, ControlTypeOK, States
  <2>3. BoothFitsState'
    BY <2>1 DEF ToScanning, ControlTypeOK, BoothFitsState
  <2> QED BY <1>0, <2>2, <2>3
<1> QED BY <1>0, <1>1, <1>2, <1>3, <1>4, <1>5 DEF Messages

-----------------------------------------------------------------------------

(* A user that starts satisfies the invariant. *)
LEMMA InitIInv == Init => IInv
<1> SUFFICES ASSUME Init PROVE IInv
  OBVIOUS
<1>1. ControlTypeOK
  BY RetryAssumption DEF Init, ControlTypeOK, States, Places
<1>2. BoothFitsState
  BY DEF Init, BoothFitsState
<1>3. OutFits
  BY ScanFits DEF Init, OutFits, WellAddressed, Addressed
<1> QED BY <1>1, <1>2, <1>3 DEF IInv

(* Every step of any user keeps the invariant. *)
LEMMA NextIInv == IInv /\ [Next]_vars => IInv'
<1> SUFFICES ASSUME IInv, [Next]_vars PROVE IInv'
  OBVIOUS
<1>1. CASE UNCHANGED vars
  BY <1>1 DEF vars, IInv, ControlTypeOK, BoothFitsState, OutFits, Addressed, AsksNobody
<1>2. ASSUME NEW u \in Users, SessionOver(u)
      PROVE  IInv'
  <2>1. OutFits'
    BY <1>2, NothingFits, OwnOnly, SendKeepsFit DEF SessionOver, IInv
  <2>2. ControlTypeOK' /\ BoothFitsState'
    BY <1>2 DEF SessionOver, control, IInv, ControlTypeOK, BoothFitsState
  <2> QED BY <2>1, <2>2 DEF IInv
<1> QED
  BY <1>1, <1>2, ScansKeep, RetriesKeep, AnswerKeysKeep, ChatKeysKeep,
     AnnouncedKeeps, MessagesKeep DEF Next

(* The invariant holds of every execution, of any user and any booths.     *)
THEOREM InductiveInvariant == Spec => []IInv
BY InitIInv, NextIInv, PTL DEF Spec

(* Every variable keeps the range of its C object, and the retries of a    *)
(* connection never pass CONNECT_RETRY_MAX.                                *)
THEOREM TypeCorrect == Spec => []TypeOK
<1>1. IInv => TypeOK
  BY Parts
<1> QED BY <1>1, InductiveInvariant, PTL

(* A user who looks for a booth has none, a connected one has one, and the *)
(* requests of a connection go to a booth, whatever late message, key or   *)
(* timer moves the state, but for the pass that gives a connection up and  *)
(* asks to register in one.                                                *)
THEOREM BoothAlwaysKnown == Spec => []BoothKnown
<1>1. IInv => BoothKnown
  BY Parts
<1> QED BY <1>1, InductiveInvariant, PTL

-----------------------------------------------------------------------------
(* The table of a scan (ScanSelect) *)

(* What a booth may announce, and what stands for a booth not heard yet. *)
Sayings == {ann \in T!Announcement : ann.current <= CAPACITY /\ ann.waiting <= MAX_USERS}

Entries == [id : Nat, isValid : BOOLEAN, is : Sayings]

(* The first n entries are those of the booths of ids, one each, with the  *)
(* latest announcement; the others are empty.                              *)
Lists(list, n, ids, latest) ==
    /\ n \in 0 .. MAX_BOOTHS
    /\ list \in [1 .. MAX_BOOTHS -> Entries]
    /\ \A i \in 1 .. n :
         /\ list[i].isValid
         /\ list[i].id \in ids
         /\ list[i].is = latest[list[i].id]
    /\ \A i \in (n + 1) .. MAX_BOOTHS : list[i] = T!Invalid
    /\ \A b \in ids : \E i \in 1 .. n : list[i].id = b
    /\ \A i, j \in 1 .. n : list[i].id = list[j].id => i = j
    /\ Cardinality(ids) = n

(* ScanSelect's Min is the least element, too. *)
LEMMA TMinFact ==
    ASSUME NEW S \in SUBSET Nat, NEW m \in S, \A x \in S : m <= x
    PROVE  T!Min(S) = m
<1>1. \A x \in S : (\A y \in S : x =< y) => x = m
  OBVIOUS
<1> QED BY <1>1 DEF T!Min

(* The empty table lists no booth. *)
LEMMA EmptyLists ==
    ASSUME NEW latest
    PROVE  Lists(T!EmptyList, 0, {}, latest)
<1>1. T!Silent \in Sayings
  BY TableAssumption, RetryAssumption DEF Sayings, T!Silent, T!Announcement
<1>2. T!Invalid \in Entries
  BY <1>1 DEF T!Invalid, Entries
<1>3. Cardinality({}) = 0
  BY FS_EmptySet
<1> QED BY <1>2, <1>3, TableAssumption DEF Lists, T!EmptyList

(* An announcement goes to the entry of its booth, or to the first empty   *)
(* one, which exists as long as not all booths have been heard.            *)
LEMMA UpdatedLists ==
    ASSUME NEW ids \in SUBSET Booths, NEW latest \in [Booths -> Sayings],
           NEW list, NEW n, Lists(list, n, ids, latest),
           NEW b \in Booths, NEW ann \in Sayings
    PROVE  \E m : Lists(T!Updated(list, b, ann), m, ids \cup {b}, [latest EXCEPT ![b] = ann])
<1> DEFINE fits == {i \in DOMAIN list : list[i].id = b \/ ~list[i].isValid}
           new  == [id |-> b, isValid |-> TRUE, is |-> ann]
           now  == [latest EXCEPT ![b] = ann]
<1>1. /\ MAX_BOOTHS \in Nat /\ n \in Nat /\ n <= MAX_BOOTHS
      /\ DOMAIN list = 1 .. MAX_BOOTHS
      /\ Booths \subseteq Nat /\ 0 \notin Booths
  BY TableAssumption, BoothIdsAssumption DEF Lists
<1>2. IsFiniteSet(ids) /\ Cardinality(ids) = n
  BY RoomAssumption, FS_Subset DEF Lists
<1>3. new \in Entries
  BY <1>1 DEF Entries
<1>4. \A i \in (n + 1) .. MAX_BOOTHS : list[i].id = 0 /\ ~list[i].isValid
  BY DEF Lists, T!Invalid
<1>5. CASE b \in ids
  <2>1. PICK k \in 1 .. n : list[k].id = b
    BY <1>5 DEF Lists
  <2>2. \A i \in 1 .. n : list[i].isValid /\ (list[i].id = b => i = k)
    BY <2>1 DEF Lists
  <2>3. fits \in SUBSET Nat /\ k \in fits
    BY <1>1, <2>1
  <2>4. \A i \in fits : k <= i
    BY <1>1, <2>1, <2>2
  <2>5. T!Updated(list, b, ann) = [list EXCEPT ![k] = new]
    BY <2>3, <2>4, TMinFact DEF T!Updated
  <2>6. ids \cup {b} = ids
    BY <1>5
  <2>7. Lists([list EXCEPT ![k] = new], n, ids, now)
    BY <1>1, <1>3, <1>5, <2>1, <2>2 DEF Lists
  <2> QED BY <2>5, <2>6, <2>7
<1>6. CASE b \notin ids
  <2>1. Cardinality(ids \cup {b}) = n + 1 /\ ids \cup {b} \in SUBSET Booths
    BY <1>2, <1>6, FS_AddElement
  <2>2. n + 1 <= MAX_BOOTHS
    <3>1. Cardinality(ids \cup {b}) <= Cardinality(Booths) /\ Cardinality(Booths) \in Nat
      BY <2>1, RoomAssumption, FS_Subset, FS_CardinalityType
    <3> QED BY <1>1, <2>1, <3>1, RoomAssumption
  <2>3. \A i \in 1 .. n : list[i].isValid /\ list[i].id \in ids /\ list[i].id # b
    BY <1>6 DEF Lists
  <2>4. fits \in SUBSET Nat /\ n + 1 \in fits
    BY <1>1, <1>4, <2>2
  <2>5. \A i \in fits : n + 1 <= i
    BY <1>1, <2>3
  <2>6. T!Updated(list, b, ann) = [list EXCEPT ![n + 1] = new]
    BY <2>4, <2>5, TMinFact DEF T!Updated
  <2>7. Lists([list EXCEPT ![n + 1] = new], n + 1, ids \cup {b}, now)
    <3> DEFINE l == [list EXCEPT ![n + 1] = new]
    <3>1. l \in [1 .. MAX_BOOTHS -> Entries] /\ n + 1 \in 0 .. MAX_BOOTHS
      BY <1>1, <1>3, <2>2 DEF Lists
    <3>2. l[n + 1] = new /\ \A i \in (1 .. MAX_BOOTHS) \ {n + 1} : l[i] = list[i]
      BY <1>1, <2>2 DEF Lists
    <3>3. \A i \in 1 .. (n + 1) : i = n + 1 \/ i \in 1 .. n
      BY <1>1
    <3>4. \A i \in 1 .. n : l[i] = list[i] /\ i # n + 1
      BY <1>1, <3>2
    <3>5. now[b] = ann /\ \A c \in ids : now[c] = latest[c]
      BY <1>6
    <3> HIDE DEF l, now
    <3>6. \A i \in 1 .. (n + 1) : l[i].isValid /\ l[i].id \in ids \cup {b} /\ l[i].is = now[l[i].id]
      BY <2>3, <3>2, <3>3, <3>4, <3>5 DEF Lists
    <3>7. \A i \in ((n + 1) + 1) .. MAX_BOOTHS : l[i] = T!Invalid
      BY <1>1, <3>2 DEF Lists
    <3>8. \A c \in ids \cup {b} : \E i \in 1 .. (n + 1) : l[i].id = c
      <4>1. \A c \in ids : \E i \in 1 .. n : list[i].id = c
        BY DEF Lists
      <4>2. 1 .. n \subseteq 1 .. (n + 1) /\ n + 1 \in 1 .. (n + 1)
        BY <1>1
      <4> QED BY <3>2, <3>4, <4>1, <4>2
    <3>9. \A i, j \in 1 .. (n + 1) : l[i].id = l[j].id => i = j
      BY <2>3, <3>2, <3>3, <3>4 DEF Lists
    <3>10. Lists(l, n + 1, ids \cup {b}, now)
      BY <2>1, <3>1, <3>6, <3>7, <3>8, <3>9, Zenon DEF Lists
    <3> QED BY <3>10 DEF l, now
  <2> QED BY <2>6, <2>7
<1> QED BY <1>5, <1>6

(* Of what booths may announce the score of the code is that of the        *)
(* README: the free places do not wrap.  It is between -1000 and 40.       *)
LEMMA ScoreIsDoc ==
    ASSUME NEW ann \in Sayings
    PROVE  /\ T!Score(ann) = DocScore(ann)
           /\ DocScore(ann) \in Int /\ -1000 < DocScore(ann) /\ DocScore(ann) <= 40
<1>1. /\ ann.rssi \in -127 .. 20 /\ ann.current \in 0 .. CAPACITY
      /\ ann.waiting \in Nat /\ ann.waiting <= MAX_USERS
      /\ CAPACITY \in 0 .. 255 /\ MAX_USERS \in Nat /\ MAX_USERS <= 87
  BY TableAssumption, RetryAssumption, AnnouncementsAssumption DEF Sayings, T!Announcement
<1>2. (CAPACITY - ann.current) % 256 = CAPACITY - ann.current
  BY <1>1
<1>3. (CAPACITY - ann.current) % 256 > 0 <=> ann.current < CAPACITY
  BY <1>1, <1>2
<1>4. T!Score(ann) = DocScore(ann)
  <2>1. 10 * ann.waiting = ann.waiting * 10
    BY <1>1
  <2>2. CASE ann.current < CAPACITY
    <3>1. /\ T!Score(ann) = ann.rssi + 20 - 10 * ann.waiting
          /\ DocScore(ann) = ann.rssi + 20 - ann.waiting * 10
      BY <1>3, <2>2, Zenon DEF T!Score, DocScore
    <3> QED BY <2>1, <3>1
  <2>3. CASE ~(ann.current < CAPACITY)
    <3>1. /\ T!Score(ann) = ann.rssi + 0 - 10 * ann.waiting
          /\ DocScore(ann) = ann.rssi + 0 - ann.waiting * 10
      BY <1>3, <2>3, Zenon DEF T!Score, DocScore
    <3> QED BY <2>1, <3>1
  <2> QED BY <2>2, <2>3
<1>5. DocScore(ann) \in Int /\ -1000 < DocScore(ann) /\ DocScore(ann) <= 40
  BY <1>1 DEF DocScore
<1> QED BY <1>4, <1>5

(* From a table that lists what was heard a booth is selected that was     *)
(* heard and that no other one beats; from an empty table none.            *)
LEMMA SelectedIsBest ==
    ASSUME NEW ids \in SUBSET Booths, NEW latest \in [Booths -> Sayings],
           NEW list, NEW n, Lists(list, n, ids, latest)
    PROVE  /\ ids = {} => T!Selected(list) = 0
           /\ ids # {} =>
                /\ T!Selected(list) \in ids
                /\ \A c \in ids : DocScore(latest[c]) <= DocScore(latest[T!Selected(list)])
<1> DEFINE found == {i \in DOMAIN list : list[i].isValid /\ T!Score(list[i].is) > -1000}
           best  == {i \in found : \A j \in found : T!Score(list[j].is) <= T!Score(list[i].is)}
           score(i) == DocScore(latest[list[i].id])
<1>1. /\ MAX_BOOTHS \in Nat /\ n \in Nat /\ n <= MAX_BOOTHS
      /\ DOMAIN list = 1 .. MAX_BOOTHS
  BY TableAssumption DEF Lists
<1>2. \A i \in (n + 1) .. MAX_BOOTHS : ~list[i].isValid
  BY DEF Lists, T!Invalid
<1>3. \A i \in 1 .. n : /\ list[i].isValid
                        /\ list[i].id \in ids
                        /\ list[i].is = latest[list[i].id]
                        /\ list[i].is \in Sayings
  BY DEF Lists
<1>4. \A i \in 1 .. n : /\ T!Score(list[i].is) = score(i)
                        /\ score(i) \in Int /\ -1000 < score(i) /\ score(i) <= 40
  BY <1>3, ScoreIsDoc
<1>5. found = 1 .. n
  BY <1>1, <1>2, <1>3, <1>4
<1>6. T!Selected(list) = IF found = {} THEN 0 ELSE list[T!Min(best)].id
  BY DEF T!Selected
<1> HIDE DEF found, best, score
<1>7. CASE ids = {}
  <2>1. n = 0
    BY <1>1, <1>3, <1>7
  <2> QED BY <1>5, <1>6, <1>7, <2>1
<1>8. CASE ids # {}
  <2>1. found # {}
    BY <1>5, <1>8 DEF Lists
  <2> DEFINE short == {40 - score(i) : i \in 1 .. n}
  <2>2. short \in SUBSET Nat /\ short # {}
    BY <1>1, <1>4, <1>5, <2>1
  <2>3. PICK k \in 1 .. n : \A i \in 1 .. n : 40 - score(k) <= 40 - score(i)
    <3>1. Min(short) \in short /\ \A x \in short : Min(short) <= x
      BY <2>2, MinFact
    <3> QED BY <3>1
  <2>4. k \in found /\ \A j \in found : T!Score(list[j].is) <= T!Score(list[k].is)
    BY <1>4, <1>5, <2>3
  <2>5. k \in best /\ best \in SUBSET Nat
    BY <1>1, <1>5, <2>4 DEF best
  <2>6. Min(best) \in best /\ \A x \in best : Min(best) <= x
    BY <2>5, MinFact
  <2>7. T!Min(best) = Min(best)
    BY <2>5, <2>6, TMinFact
  <2>8. PICK m \in 1 .. n : /\ T!Selected(list) = list[m].id
                            /\ \A j \in 1 .. n : score(j) <= score(m)
    <3>1. /\ Min(best) \in 1 .. n
          /\ \A j \in 1 .. n : T!Score(list[j].is) <= T!Score(list[Min(best)].is)
      BY <1>5, <2>6 DEF best
    <3>2. \A j \in 1 .. n : score(j) <= score(Min(best))
      BY <1>4, <3>1
    <3> QED BY <1>6, <2>1, <2>7, <3>1, <3>2
  <2>9. ASSUME NEW c \in ids
        PROVE  DocScore(latest[c]) <= DocScore(latest[T!Selected(list)])
    <3>1. PICK j \in 1 .. n : list[j].id = c
      BY DEF Lists
    <3> QED BY <2>8, <3>1 DEF score
  <2> QED BY <1>3, <1>8, <2>8, <2>9
<1> QED BY <1>7, <1>8

-----------------------------------------------------------------------------
(* UserScan *)

(* The table of user u lists what it heard. *)
TableFits(u) == \E n : Lists(table[u], n, seen[u], heard[u])

(* The inductive invariant of UserScan. *)
ScanInv ==
    /\ IInv
    /\ DOMAIN table = Users
    /\ heard \in [Users -> [Booths -> Sayings]]
    /\ \A u \in Users : TableFits(u)

(* Every table that lists what was heard is as TableIsLatest says. *)
LEMMA ListsIsLatest ==
    ASSUME NEW ids \in SUBSET Booths, NEW latest, NEW list, NEW n,
           Lists(list, n, ids, latest)
    PROVE  /\ T!Ids(list) = ids
           /\ \A i, j \in DOMAIN list :
                list[i].isValid =>
                    /\ list[i].is = latest[list[i].id]
                    /\ list[j].id = list[i].id => j = i
<1>1. /\ MAX_BOOTHS \in Nat /\ n \in Nat /\ n <= MAX_BOOTHS
      /\ DOMAIN list = 1 .. MAX_BOOTHS
  BY TableAssumption DEF Lists
<1>2. \A i \in 1 .. MAX_BOOTHS :
         /\ list[i].isValid <=> i \in 1 .. n
         /\ i \notin 1 .. n => list[i] = T!Invalid
  <2>1. \A i \in 1 .. MAX_BOOTHS : i \in 1 .. n \/ i \in (n + 1) .. MAX_BOOTHS
    BY <1>1
  <2> QED BY <2>1 DEF Lists, T!Invalid
<1>3. T!Ids(list) = ids
  BY <1>1, <1>2 DEF T!Ids, Lists
<1>4. ASSUME NEW i \in DOMAIN list, NEW j \in DOMAIN list, list[i].isValid
      PROVE  list[i].is = latest[list[i].id] /\ (list[j].id = list[i].id => j = i)
  <2>1. i \in 1 .. n /\ list[i].id \in ids
    BY <1>1, <1>2, <1>4 DEF Lists
  <2>2. CASE j \in 1 .. n
    BY <2>1, <2>2 DEF Lists
  <2>3. CASE j \notin 1 .. n
    BY <1>1, <1>2, <2>1, <2>3, BoothIdsAssumption DEF Lists, T!Invalid
  <2> QED BY <2>2, <2>3
<1> QED BY <1>3, <1>4

(* What a step does to the seen booths, the table and what was heard, when *)
(* it is no announcement.                                                  *)
LEMMA TableEmptiedOrKept ==
    ASSUME ScanInv, NEW u \in Users, seen' = seen \/ seen' = [seen EXCEPT ![u] = {}],
           KeepTable(u)
    PROVE  /\ DOMAIN table' = Users
           /\ heard' \in [Users -> [Booths -> Sayings]]
           /\ \A v \in Users : TableFits(v)'
<1>1. seen \in [Users -> SUBSET Booths]
  BY DEF ScanInv, IInv, ControlTypeOK
<1>2. NotHeard \in [Booths -> Sayings]
  BY TableAssumption, RetryAssumption DEF NotHeard, Sayings, T!Silent, T!Announcement
<1>3. DOMAIN table' = Users /\ heard' \in [Users -> [Booths -> Sayings]]
  BY <1>2 DEF ScanInv, KeepTable
<1>4. ASSUME NEW v \in Users
      PROVE  \E n : Lists(table'[v], n, seen'[v], heard'[v])
  <2>1. PICK n : Lists(table[v], n, seen[v], heard[v])
    BY DEF ScanInv, TableFits
  <2>2. CASE v = u /\ seen'[u] = {}
    <3>1. table'[v] = T!EmptyList /\ seen'[v] = {}
      BY <2>2 DEF ScanInv, KeepTable
    <3> QED BY <3>1, EmptyLists
  <2>3. CASE ~(v = u /\ seen'[u] = {})
    <3>1. table'[v] = table[v] /\ heard'[v] = heard[v]
      BY <2>3 DEF ScanInv, KeepTable
    <3>2. seen'[v] = seen[v]
      BY <1>1, <2>3
    <3> QED BY <2>1, <3>1, <3>2
  <2> QED BY <2>2, <2>3
<1>5. \A v \in Users : TableFits(v)'
  BY <1>4 DEF TableFits
<1> QED BY <1>3, <1>5

(* No step but an announcement adds to the booths that were seen. *)
LEMMA SeenOnlyEmptied ==
    ASSUME NEW u \in Users,
           \/ NoBoothFound(u) \/ ScanAgain(u) \/ \E b : SelectBooth(u, b)
           \/ Retries(u) \/ SessionOver(u) \/ AnswerKeys(u) \/ ChatKeys(u) \/ Messages(u)
    PROVE  seen' = seen \/ seen' = [seen EXCEPT ![u] = {}]
<1>1. CASE NoBoothFound(u) \/ ScanAgain(u) \/ \E b : SelectBooth(u, b)
  BY <1>1 DEF NoBoothFound, ScanAgain, SelectBooth
<1>2. CASE Retries(u) \/ SessionOver(u)
  BY <1>2 DEF Retries, ConnectOver, RegisterOver, ConnectRetry, ConnectGiveUp, RegisterRetry,
              BothRetries, GiveUpAndRegister, SessionOver, ToScanning, control
<1>3. CASE AnswerKeys(u) \/ ChatKeys(u)
  BY <1>3 DEF AnswerKeys, PressYes, PressNo, PressExit, PressLeave, ToScanning,
              ChatKeys, PressChat, EndChat, control
<1>4. CASE Messages(u)
  BY <1>4 DEF Messages, InfoArrives, RegisterSucceeds, AlreadyUsed, FullWaiting,
              QueueInfoArrives, QueueReadyArrives, RemovedFromQueue, ExitResponseArrives,
              TimeoutAlertArrives, OnlyShown, ToScanning, control
<1> QED BY <1>1, <1>2, <1>3, <1>4

(* Every step of UserScan is a step of User: the booth that the table      *)
(* gives is one that was seen.                                             *)
LEMMA ScanStepIsStep ==
    ASSUME ScanInv, [ScanNext]_scanVars
    PROVE  [Next]_vars
<1>1. CASE UNCHANGED scanVars
  BY <1>1 DEF scanVars
<1>2. ASSUME NEW u \in Users, Select(u)
      PROVE  Next
  <2>1. CASE NoBoothFound(u)
    BY <2>1 DEF Next, Scans
  <2>2. CASE SelectBooth(u, T!Selected(table[u]))
    <3>1. PICK b : b = T!Selected(table[u])
      OBVIOUS
    <3>2. SelectBooth(u, b)
      BY <2>2, <3>1
    <3>3. b \in seen[u] /\ seen[u] \in SUBSET Booths
      BY <3>2 DEF SelectBooth, ScanInv, IInv, ControlTypeOK
    <3> QED BY <3>2, <3>3 DEF Next, Scans
  <2> QED BY <1>2, <2>1, <2>2 DEF Select
<1>3. ASSUME NEW u \in Users, Other(u)
      PROVE  Next
  BY <1>3 DEF Other, Next, Scans
<1>4. ASSUME NEW u \in Users, NEW b \in Booths, NEW ann \in Announcements, Hear(u, b, ann)
      PROVE  Next
  BY <1>4 DEF Hear, Next, Announced
<1> QED BY <1>1, <1>2, <1>3, <1>4 DEF ScanNext

(* A scanning user starts with an empty table and nothing heard. *)
LEMMA InitScanInv == ScanInit => ScanInv
<1> SUFFICES ASSUME ScanInit PROVE ScanInv
  OBVIOUS
<1>1. IInv
  BY InitIInv DEF ScanInit
<1>2. NotHeard \in [Booths -> Sayings]
  BY TableAssumption, RetryAssumption DEF NotHeard, Sayings, T!Silent, T!Announcement
<1>3. DOMAIN table = Users /\ heard \in [Users -> [Booths -> Sayings]]
  BY <1>2 DEF ScanInit
<1>4. \A u \in Users : TableFits(u)
  BY EmptyLists DEF ScanInit, Init, TableFits
<1> QED BY <1>1, <1>3, <1>4 DEF ScanInv

(* Every step keeps the table what was heard. *)
LEMMA NextScanInv == ScanInv /\ [ScanNext]_scanVars => ScanInv'
<1> SUFFICES ASSUME ScanInv, [ScanNext]_scanVars PROVE ScanInv'
  OBVIOUS
<1>1. IInv'
  BY ScanStepIsStep, NextIInv DEF ScanInv
<1>2. CASE UNCHANGED scanVars
  BY <1>1, <1>2 DEF scanVars, vars, ScanInv, TableFits
<1>3. ASSUME NEW u \in Users, Select(u) \/ Other(u)
      PROVE  ScanInv'
  <2>1. KeepTable(u)
    BY <1>3 DEF Select, Other
  <2>2. \/ NoBoothFound(u) \/ ScanAgain(u) \/ \E b : SelectBooth(u, b)
        \/ Retries(u) \/ SessionOver(u) \/ AnswerKeys(u) \/ ChatKeys(u) \/ Messages(u)
    BY <1>3 DEF Select, Other
  <2>3. seen' = seen \/ seen' = [seen EXCEPT ![u] = {}]
    BY <2>2, SeenOnlyEmptied
  <2> QED BY <1>1, <2>1, <2>3, TableEmptiedOrKept DEF ScanInv
<1>4. ASSUME NEW u \in Users, NEW b \in Booths, NEW ann \in Announcements, Hear(u, b, ann)
      PROVE  ScanInv'
  <2>1. ann \in Sayings
    BY AnnouncementsAssumption DEF Sayings
  <2>2. /\ seen \in [Users -> SUBSET Booths]
        /\ heard \in [Users -> [Booths -> Sayings]]
        /\ DOMAIN table = Users
    BY DEF ScanInv, IInv, ControlTypeOK
  <2>3. /\ table' = [table EXCEPT ![u] = T!Updated(table[u], b, ann)]
        /\ heard' = [heard EXCEPT ![u] = [heard[u] EXCEPT ![b] = ann]]
        /\ seen' = [seen EXCEPT ![u] = seen[u] \cup {b}]
    BY <1>4, <2>2 DEF Hear, AnnounceArrives
  <2>4. DOMAIN table' = Users /\ heard' \in [Users -> [Booths -> Sayings]]
    BY <2>1, <2>2, <2>3
  <2>5. ASSUME NEW v \in Users
        PROVE  \E n : Lists(table'[v], n, seen'[v], heard'[v])
    <3>1. PICK n : Lists(table[v], n, seen[v], heard[v])
      BY DEF ScanInv, TableFits
    <3>2. CASE v = u
      <4>1. /\ table'[v] = T!Updated(table[v], b, ann)
            /\ seen'[v] = seen[v] \cup {b}
            /\ heard'[v] = [heard[v] EXCEPT ![b] = ann]
        BY <2>2, <2>3, <3>2
      <4>2. seen[v] \in SUBSET Booths /\ heard[v] \in [Booths -> Sayings]
        BY <2>2
      <4>3. \E m : Lists(T!Updated(table[v], b, ann), m, seen[v] \cup {b},
                         [heard[v] EXCEPT ![b] = ann])
        <5>1. PICK list, ids, latest : list = table[v] /\ ids = seen[v] /\ latest = heard[v]
          OBVIOUS
        <5>2. \E m : Lists(T!Updated(list, b, ann), m, ids \cup {b}, [latest EXCEPT ![b] = ann])
          BY <2>1, <3>1, <4>2, <5>1, UpdatedLists
        <5> QED BY <5>1, <5>2
      <4> QED BY <4>1, <4>3
    <3>3. CASE v # u
      BY <2>2, <2>3, <3>1, <3>3
    <3> QED BY <3>2, <3>3
  <2>6. \A v \in Users : TableFits(v)'
    BY <2>5 DEF TableFits
  <2> QED BY <1>1, <2>4, <2>6 DEF ScanInv
<1> QED BY <1>2, <1>3, <1>4 DEF ScanNext

(* UserScan implements User: what is checked and proved of a user whose    *)
(* choice is left open holds of one that chooses by the table.             *)
THEOREM ScanImplementsUser == ScanSpec => Spec
<1>1. ScanInit => Init
  BY DEF ScanInit
<1>2. ScanInv /\ [ScanNext]_scanVars => [Next]_vars
  BY ScanStepIsStep
<1> QED BY <1>1, <1>2, InitScanInv, NextScanInv, PTL DEF ScanSpec, Spec

(* The table has exactly one entry for each booth that was seen since the  *)
(* last reset, with its latest announcement.                               *)
THEOREM TableAlwaysLatest == ScanSpec => []TableIsLatest
<1>1. ScanInv => TableIsLatest
  <2> SUFFICES ASSUME ScanInv, NEW u \in Users
               PROVE  /\ T!Ids(table[u]) = seen[u]
                      /\ \A i, j \in DOMAIN table[u] :
                           table[u][i].isValid =>
                               /\ table[u][i].is = heard[u][table[u][i].id]
                               /\ table[u][j].id = table[u][i].id => j = i
    BY DEF TableIsLatest
  <2>1. PICK n : Lists(table[u], n, seen[u], heard[u])
    BY DEF ScanInv, TableFits
  <2>2. seen[u] \in SUBSET Booths
    BY DEF ScanInv, IInv, ControlTypeOK
  <2> QED BY <2>1, <2>2, ListsIsLatest
<1> QED BY <1>1, InitScanInv, NextScanInv, PTL DEF ScanSpec

(* Only the selection timer ends a scan. *)
LEMMA OnlySelectEndsScan ==
    ASSUME ScanInv, [ScanNext]_scanVars, NEW u \in Users, scanning[u], ~scanning'[u]
    PROVE  Select(u)
<1>1. scanning \in [Users -> BOOLEAN]
  BY DEF ScanInv, IInv, ControlTypeOK
<1>2. ScanNext
  BY DEF scanVars, vars
<1>3. ASSUME NEW v \in Users, Select(v)
      PROVE  v = u
  BY <1>1, <1>3 DEF Select, NoBoothFound, SelectBooth
<1>4. ASSUME NEW v \in Users, Other(v)
      PROVE  FALSE
  <2>1. CASE ScanAgain(v)
    BY <1>1, <2>1 DEF ScanAgain
  <2>2. CASE Retries(v) \/ SessionOver(v)
    BY <2>2 DEF Retries, ConnectOver, RegisterOver, ConnectRetry, ConnectGiveUp, RegisterRetry,
                BothRetries, GiveUpAndRegister, SessionOver, ToScanning, control
  <2>3. CASE AnswerKeys(v) \/ ChatKeys(v)
    BY <2>3 DEF AnswerKeys, PressYes, PressNo, PressExit, PressLeave,
                ChatKeys, PressChat, EndChat, control
  <2>4. CASE Messages(v)
    BY <2>4 DEF Messages, InfoArrives, RegisterSucceeds, AlreadyUsed, FullWaiting,
                QueueInfoArrives, QueueReadyArrives, RemovedFromQueue, ExitResponseArrives,
                TimeoutAlertArrives, OnlyShown, control
  <2> QED BY <1>4, <2>1, <2>2, <2>3, <2>4 DEF Other
<1>5. ASSUME NEW v \in Users, NEW b \in Booths, NEW ann \in Announcements, Hear(v, b, ann)
      PROVE  FALSE
  BY <1>5 DEF Hear, AnnounceArrives
<1> QED BY <1>2, <1>3, <1>4, <1>5 DEF ScanNext

(* A scan that heard a booth ends with the choice of one that no other     *)
(* booth beats, by the score of the README and the latest announcements.   *)
THEOREM BestAlwaysChosen == ScanSpec => BestIsChosen
<1> DEFINE Best(u) == {b \in seen[u] : \A c \in seen[u] :
                           DocScore(heard[u][c]) <= DocScore(heard[u][b])}
<1>1. ASSUME ScanInv, [ScanNext]_scanVars, NEW u \in Users,
             scanning[u], ~scanning'[u], seen[u] # {}
      PROVE  booth'[u] \in Best(u)
  <2>1. Select(u)
    BY <1>1, OnlySelectEndsScan
  <2>2. SelectBooth(u, T!Selected(table[u]))
    BY <1>1, <2>1 DEF Select, NoBoothFound
  <2>3. booth'[u] = T!Selected(table[u])
    BY <1>1, <2>2 DEF SelectBooth, ScanInv, IInv, ControlTypeOK
  <2>4. PICK n : Lists(table[u], n, seen[u], heard[u])
    BY <1>1 DEF ScanInv, TableFits
  <2>5. seen[u] \in SUBSET Booths /\ heard[u] \in [Booths -> Sayings]
    BY <1>1 DEF ScanInv, IInv, ControlTypeOK
  <2>6. /\ T!Selected(table[u]) \in seen[u]
        /\ \A c \in seen[u] : DocScore(heard[u][c]) <= DocScore(heard[u][T!Selected(table[u])])
    BY <1>1, <2>4, <2>5, SelectedIsBest
  <2> QED BY <2>3, <2>6
<1>2. ScanInv /\ [ScanNext]_scanVars
      => [\A u \in Users : scanning[u] /\ ~scanning'[u] /\ seen[u] # {}
                           => booth'[u] \in Best(u)]_scanVars
  BY <1>1
<1> QED BY <1>2, InitScanInv, NextScanInv, PTL DEF ScanSpec, BestIsChosen
=============================================================================
