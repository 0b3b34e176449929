--------------------------------- MODULE User ---------------------------------
(***************************************************************************)
(* The user side of layer 3, L3_FSMmain.cpp: the machine SCANNING ->       *)
(* CONNECTED -> WAITING -> IN_USE, its retries, and the keyboard handler,  *)
(* which runs as an interrupt and changes the same variables.              *)
(*                                                                         *)
(* Every board with an ID >= 4 runs one; each variable is a function of    *)
(* the user.  The handlers of messages look at the state and the payload,  *)
(* never at the sender, and any message may come at any moment.  Time is   *)
(* abstracted: a counter may reach its limit at any pass.  What is only    *)
(* shown (myWaitingNumber, the booth's description, texts) is left out.    *)
(* Which of the booths that were seen is picked is left open; UserScan     *)
(* adds the table and the score that decide it.                            *)
(***************************************************************************)
EXTENDS Naturals, Sequences

CONSTANTS
    Booths,             \* boards that run in administrator mode
    Users,              \* boards with an ID >= 4
    NoBooth,            \* currentBoothId = 0
    ScanOrder,          \* the IDs a scan asks, in order (ADMIN_ID_START .. _END)
    MAX_USERS,          \* L3_msg.h: the largest place and queue length
    CONNECT_RETRY_MAX   \* L3_FSMmain.cpp

ASSUME NoBoothAssumption == NoBooth \notin Booths
ASSUME ScanOrderAssumption == ScanOrder \in Seq(Booths) /\ ScanOrder # <<>>
ASSUME RetryAssumption == MAX_USERS \in Nat /\ CONNECT_RETRY_MAX \in Nat

VARIABLES
    state,       \* state[u]: main_state
    booth,       \* booth[u]: currentBoothId
    scanning,    \* scanning[u]: isScanning, while the selection timer runs
    seen,        \* seen[u]: the valid entries of scannedBooths
    waitInfo,    \* waitInfo[u]: isWaitingForBoothInfo
    retries,     \* retries[u]: connectRetryCount
    asking,      \* asking[u]: the event flag keyboardInput, "y/n" is on the screen
    waitReg,     \* waitReg[u]: isWaitingForRegisterResponse
    lastPlace,   \* lastPlace[u]: lastQueuePosition and lastTotalWaiting
    sessionOn,   \* sessionOn[u]: isSessionActive
    typing,      \* typing[u]: isTypingChat
    out          \* out[u]: the data requests the latest handler made to L2

control == <<state, booth, scanning, seen, waitInfo, retries, asking, waitReg>>
vars == <<state, booth, scanning, seen, waitInfo, retries, asking, waitReg,
          lastPlace, sessionOn, typing, out>>

-----------------------------------------------------------------------------

States == {"SCANNING", "CONNECTED", "WAITING", "IN_USE"}

Places == [pos : 0 .. MAX_USERS, total : 0 .. MAX_USERS]

Request ==
    [type : {"BOOTH_SCAN", "CONNECT_REQUEST", "USER_RESPONSE_YES", "USER_RESPONSE_NO",
             "REGISTER_REQUEST", "QUEUE_LEAVE", "EXIT_REQUEST", "CHAT_MESSAGE"},
     dest : Booths \cup {NoBooth}]

To(b, type) == [type |-> type, dest |-> b]

Send(u, msgs) == out' = [out EXCEPT ![u] = msgs]

(* BOOTH_SCAN to every administrator. *)
ScanAll == [i \in DOMAIN ScanOrder |-> To(ScanOrder[i], "BOOTH_SCAN")]

(* The registration request, as 'y' and the register retry send it. *)
AskToRegister(b) == <<To(b, "USER_RESPONSE_YES"), To(b, "REGISTER_REQUEST")>>

(* Back to SCANNING: no booth, L3_initBoothScanList.                       *)
ToScanning(u) ==
    /\ state' = [state EXCEPT ![u] = "SCANNING"]
    /\ booth' = [booth EXCEPT ![u] = NoBooth]
    /\ seen' = [seen EXCEPT ![u] = {}]

-----------------------------------------------------------------------------
(* L3_initFSM in user mode: a first scan is under way. *)
Init ==
    /\ state = [u \in Users |-> "SCANNING"]
    /\ booth = [u \in Users |-> NoBooth]
    /\ scanning = [u \in Users |-> TRUE]
    /\ seen = [u \in Users |-> {}]
    /\ waitInfo = [u \in Users |-> FALSE]
    /\ retries = [u \in Users |-> 0]
    /\ asking = [u \in Users |-> FALSE]
    /\ waitReg = [u \in Users |-> FALSE]
    /\ lastPlace = [u \in Users |-> [pos |-> 0, total |-> 0]]
    /\ sessionOn = [u \in Users |-> FALSE]
    /\ typing = [u \in Users |-> FALSE]
    /\ out = [u \in Users |-> ScanAll]

-----------------------------------------------------------------------------
(* Timers and counters of L3_FSMrun. *)

(* The booth selection timer found booth b best.  Whether the user is      *)
(* still SCANNING is not asked.                                            *)
SelectBooth(u, b) ==
    /\ scanning[u]
    /\ b \in seen[u]
    /\ scanning' = [scanning EXCEPT ![u] = FALSE]
    /\ booth' = [booth EXCEPT ![u] = b]
    /\ retries' = [retries EXCEPT ![u] = 0]
    /\ waitInfo' = [waitInfo EXCEPT ![u] = TRUE]
    /\ state' = [state EXCEPT ![u] = "CONNECTED"]
    /\ Send(u, <<To(b, "CONNECT_REQUEST")>>)
    /\ UNCHANGED <<seen, asking, waitReg, lastPlace, sessionOn, typing>>

(* Wrong: the timer of a scan without result is not marked as over.        *)
NoBoothFoundStillScanning(u) ==
    /\ scanning[u]
    /\ seen[u] = {}
    /\ Send(u, <<>>)
    /\ UNCHANGED <<control, lastPlace, sessionOn, typing>>

NoBoothFound(u) ==
    /\ scanning[u]
    /\ seen[u] = {}
    /\ scanning' = [scanning EXCEPT ![u] = FALSE]
    /\ Send(u, <<>>)
    /\ UNCHANGED <<state, booth, seen, waitInfo, retries, asking, waitReg,
                   lastPlace, sessionOn, typing>>

ScanAgain(u) ==
    /\ state[u] = "SCANNING"
    /\ ~scanning[u]
    /\ scanning' = [scanning EXCEPT ![u] = TRUE]
    /\ seen' = [seen EXCEPT ![u] = {}]
    /\ Send(u, ScanAll)
    /\ UNCHANGED <<state, booth, waitInfo, retries, asking, waitReg,
                   lastPlace, sessionOn, typing>>

(* Wrong: the retries are never counted.                                   *)
ConnectRetryUncounted(u) ==
    /\ state[u] = "CONNECTED"
    /\ waitInfo[u]
    /\ retries[u] < CONNECT_RETRY_MAX
    /\ Send(u, <<To(booth[u], "CONNECT_REQUEST")>>)
    /\ UNCHANGED <<control, lastPlace, sessionOn, typing>>

(* Wrong: one retry too many is counted.                                   *)
ConnectRetryOnceMore(u) ==
    /\ state[u] = "CONNECTED"
    /\ waitInfo[u]
    /\ retries[u] <= CONNECT_RETRY_MAX
    /\ retries' = [retries EXCEPT ![u] = @ + 1]
    /\ Send(u, <<To(booth[u], "CONNECT_REQUEST")>>)
    /\ UNCHANGED <<state, booth, scanning, seen, waitInfo, asking, waitReg,
                   lastPlace, sessionOn, typing>>

ConnectRetry(u) ==
    /\ state[u] = "CONNECTED"
    /\ waitInfo[u]
    /\ retries[u] < CONNECT_RETRY_MAX
    /\ retries' = [retries EXCEPT ![u] = @ + 1]
    /\ Send(u, <<To(booth[u], "CONNECT_REQUEST")>>)
    /\ UNCHANGED <<state, booth, scanning, seen, waitInfo, asking, waitReg,
                   lastPlace, sessionOn, typing>>

ConnectGiveUp(u) ==
    /\ state[u] = "CONNECTED"
    /\ waitInfo[u]
    /\ retries[u] >= CONNECT_RETRY_MAX
    /\ ToScanning(u)
    /\ waitInfo' = [waitInfo EXCEPT ![u] = FALSE]
    /\ retries' = [retries EXCEPT ![u] = 0]
    /\ Send(u, <<>>)
    /\ UNCHANGED <<scanning, asking, waitReg, lastPlace, sessionOn, typing>>

(* The retry of the registration.  L3_timer_resetRegisterRetry stands in   *)
(* front of the test of the retry count, in every pass, so the count is    *)
(* always 0 and the branch that gives up is never taken.                   *)
RegisterRetry(u) ==
    /\ state[u] = "CONNECTED"
    /\ waitReg[u]
    /\ Send(u, AskToRegister(booth[u]))
    /\ UNCHANGED <<control, lastPlace, sessionOn, typing>>

(* The actions above are the passes in which one counter of CONNECTED is   *)
(* over.  When both are, one pass serves both, the connection first.       *)
BothRetries(u) ==
    /\ state[u] = "CONNECTED"
    /\ waitInfo[u] /\ waitReg[u]
    /\ retries[u] < CONNECT_RETRY_MAX
    /\ retries' = [retries EXCEPT ![u] = @ + 1]
    /\ Send(u, <<To(booth[u], "CONNECT_REQUEST")>> \o AskToRegister(booth[u]))
    /\ UNCHANGED <<state, booth, scanning, seen, waitInfo, asking, waitReg,
                   lastPlace, sessionOn, typing>>

(* The state is not looked at again after the connection has been given    *)
(* up: the registration is asked of booth 0.                               *)
GiveUpAndRegister(u) ==
    /\ state[u] = "CONNECTED"
    /\ waitInfo[u] /\ waitReg[u]
    /\ retries[u] >= CONNECT_RETRY_MAX
    /\ ToScanning(u)
    /\ waitInfo' = [waitInfo EXCEPT ![u] = FALSE]
    /\ retries' = [retries EXCEPT ![u] = 0]
    /\ Send(u, AskToRegister(NoBooth))
    /\ UNCHANGED <<scanning, asking, waitReg, lastPlace, sessionOn, typing>>

(* The display of the remaining time finds the session over.  What follows *)
(* it, the backup that leaves IN_USE, needs a session that is not active   *)
(* and an elapsed time, which is 0 for such a session: it does nothing.    *)
SessionOver(u) ==
    /\ state[u] = "IN_USE"
    /\ sessionOn[u]
    /\ sessionOn' = [sessionOn EXCEPT ![u] = FALSE]
    /\ Send(u, <<>>)
    /\ UNCHANGED <<control, lastPlace, typing>>

-----------------------------------------------------------------------------
(* Messages received, one action per type of message and outcome. *)

AnnounceArrives(u, b) ==
    /\ state[u] = "SCANNING"
    /\ scanning[u]
    /\ seen' = [seen EXCEPT ![u] = @ \cup {b}]
    /\ Send(u, <<>>)
    /\ UNCHANGED <<state, booth, scanning, waitInfo, retries, asking, waitReg,
                   lastPlace, sessionOn, typing>>

InfoArrives(u) ==
    /\ state[u] = "CONNECTED"
    /\ waitInfo' = [waitInfo EXCEPT ![u] = FALSE]
    /\ retries' = [retries EXCEPT ![u] = 0]
    /\ asking' = [asking EXCEPT ![u] = TRUE]
    /\ Send(u, <<>>)
    /\ UNCHANGED <<state, booth, scanning, seen, waitReg, lastPlace, sessionOn, typing>>

(* REGISTER_RESPONSE is taken in every state. *)
RegisterSucceeds(u) ==
    /\ state' = [state EXCEPT ![u] = "IN_USE"]
    /\ waitReg' = [waitReg EXCEPT ![u] = FALSE]
    /\ sessionOn' = [sessionOn EXCEPT ![u] = TRUE]
    /\ Send(u, <<>>)
    /\ UNCHANGED <<booth, scanning, seen, waitInfo, retries, asking, lastPlace, typing>>

AlreadyUsed(u) ==
    /\ ToScanning(u)
    /\ waitReg' = [waitReg EXCEPT ![u] = FALSE]
    /\ Send(u, <<>>)
    /\ UNCHANGED <<scanning, waitInfo, retries, asking, lastPlace, sessionOn, typing>>

FullWaiting(u) ==
    /\ state' = [state EXCEPT ![u] = "WAITING"]
    /\ waitReg' = [waitReg EXCEPT ![u] = FALSE]
    /\ Send(u, <<>>)
    /\ UNCHANGED <<booth, scanning, seen, waitInfo, retries, asking,
                   lastPlace, sessionOn, typing>>

(* QUEUE_INFO is taken in every state, unless it repeats the last one.     *)
QueueInfoArrives(u, place) ==
    /\ place # lastPlace[u]
    /\ lastPlace' = [lastPlace EXCEPT ![u] = place]
    /\ state' = [state EXCEPT ![u] = "WAITING"]
    /\ Send(u, <<>>)
    /\ UNCHANGED <<booth, scanning, seen, waitInfo, retries, asking, waitReg,
                   sessionOn, typing>>

(* The called user asks to register without being asked for a 'y'.         *)
QueueReadyArrives(u) ==
    /\ state[u] = "WAITING"
    /\ Send(u, <<To(booth[u], "REGISTER_REQUEST")>>)
    /\ UNCHANGED <<control, lastPlace, sessionOn, typing>>

RemovedFromQueue(u) ==
    /\ state[u] = "WAITING"
    /\ ToScanning(u)
    /\ Send(u, <<>>)
    /\ UNCHANGED <<scanning, waitInfo, retries, asking, waitReg, lastPlace, sessionOn, typing>>

ExitResponseArrives(u) ==
    /\ ToScanning(u)
    /\ Send(u, <<>>)
    /\ UNCHANGED <<scanning, waitInfo, retries, asking, waitReg, lastPlace, sessionOn, typing>>

TimeoutAlertArrives(u) ==
    /\ ToScanning(u)
    /\ sessionOn' = [sessionOn EXCEPT ![u] = FALSE]
    /\ Send(u, <<>>)
    /\ UNCHANGED <<scanning, waitInfo, retries, asking, waitReg, lastPlace, typing>>

(* Chat, announcements of the administrator, places in the queue, and what *)
(* comes in a state that does not take it: at most shown.                  *)
OnlyShown(u) ==
    /\ Send(u, <<>>)
    /\ UNCHANGED <<control, lastPlace, sessionOn, typing>>

-----------------------------------------------------------------------------
(* L3service_processKeyboardInput.  While a chat text is typed every key   *)
(* belongs to the text, whatever state the user has come to meanwhile.     *)

Answering(u) == ~typing[u] /\ asking[u] /\ state[u] = "CONNECTED"

PressYes(u) ==
    /\ Answering(u)
    /\ asking' = [asking EXCEPT ![u] = FALSE]
    /\ waitReg' = [waitReg EXCEPT ![u] = TRUE]
    /\ Send(u, AskToRegister(booth[u]))
    /\ UNCHANGED <<state, booth, scanning, seen, waitInfo, retries,
                   lastPlace, sessionOn, typing>>

PressNo(u) ==
    /\ Answering(u)
    /\ asking' = [asking EXCEPT ![u] = FALSE]
    /\ ToScanning(u)
    /\ Send(u, <<To(booth[u], "USER_RESPONSE_NO")>>)
    /\ UNCHANGED <<scanning, waitInfo, retries, waitReg, lastPlace, sessionOn, typing>>

(* Wrong: forgets the booth before the booth has confirmed.                *)
PressExitForgetsBooth(u) ==
    /\ ~typing[u]
    /\ state[u] = "IN_USE"
    /\ sessionOn' = [sessionOn EXCEPT ![u] = FALSE]
    /\ seen' = [seen EXCEPT ![u] = {}]
    /\ booth' = [booth EXCEPT ![u] = NoBooth]
    /\ Send(u, <<To(booth[u], "EXIT_REQUEST")>>)
    /\ UNCHANGED <<state, scanning, waitInfo, retries, asking, waitReg, lastPlace, typing>>

(* The user stays IN_USE until the booth confirms. *)
PressExit(u) ==
    /\ ~typing[u]
    /\ state[u] = "IN_USE"
    /\ sessionOn' = [sessionOn EXCEPT ![u] = FALSE]
    /\ seen' = [seen EXCEPT ![u] = {}]
    /\ Send(u, <<To(booth[u], "EXIT_REQUEST")>>)
    /\ UNCHANGED <<state, booth, scanning, waitInfo, retries, asking, waitReg,
                   lastPlace, typing>>

(* Wrong: forgets the booth of the queue but not the state.                *)
PressLeaveStays(u) ==
    /\ ~typing[u]
    /\ state[u] = "WAITING"
    /\ booth' = [booth EXCEPT ![u] = NoBooth]
    /\ state' = [state EXCEPT ![u] = "CONNECTED"]
    /\ Send(u, <<To(booth[u], "QUEUE_LEAVE")>>)
    /\ UNCHANGED <<scanning, seen, waitInfo, retries, asking, waitReg, lastPlace, sessionOn, typing>>

PressLeave(u) ==
    /\ ~typing[u]
    /\ state[u] = "WAITING"
    /\ ToScanning(u)
    /\ Send(u, <<To(booth[u], "QUEUE_LEAVE")>>)
    /\ UNCHANGED <<scanning, waitInfo, retries, asking, waitReg, lastPlace, sessionOn, typing>>

PressChat(u) ==
    /\ ~typing[u]
    /\ state[u] = "IN_USE"
    /\ typing' = [typing EXCEPT ![u] = TRUE]
    /\ Send(u, <<>>)
    /\ UNCHANGED <<control, lastPlace, sessionOn>>

(* Enter: a text goes to the booth of now, an empty one goes nowhere.      *)
EndChat(u) ==
    /\ typing[u]
    /\ typing' = [typing EXCEPT ![u] = FALSE]
    /\ \/ Send(u, <<To(booth[u], "CHAT_MESSAGE")>>)
       \/ Send(u, <<>>)
    /\ UNCHANGED <<control, lastPlace, sessionOn>>

-----------------------------------------------------------------------------

Scans(u) == NoBoothFound(u) \/ ScanAgain(u) \/ \E b \in Booths : SelectBooth(u, b)

(* The counter of the connection is over, that of the registration is.     *)
ConnectOver(u) ==
    ConnectRetry(u) \/ ConnectGiveUp(u) \/ BothRetries(u) \/ GiveUpAndRegister(u)

RegisterOver(u) == RegisterRetry(u) \/ BothRetries(u) \/ GiveUpAndRegister(u)

Retries(u) == ConnectOver(u) \/ RegisterOver(u)

AnswerKeys(u) == PressYes(u) \/ PressNo(u) \/ PressExit(u) \/ PressLeave(u)

ChatKeys(u) == PressChat(u) \/ EndChat(u)

Announced(u) == \E b \in Booths : AnnounceArrives(u, b)

Messages(u) ==
    \/ InfoArrives(u)
    \/ RegisterSucceeds(u)
    \/ AlreadyUsed(u)
    \/ FullWaiting(u)
    \/ \E place \in Places : QueueInfoArrives(u, place)
    \/ QueueReadyArrives(u)
    \/ RemovedFromQueue(u)
    \/ ExitResponseArrives(u)
    \/ TimeoutAlertArrives(u)
    \/ OnlyShown(u)

Next ==
    \E u \in Users : Scans(u) \/ Retries(u) \/ SessionOver(u)
                     \/ AnswerKeys(u) \/ ChatKeys(u)
                     \/ Announced(u) \/ Messages(u)

Spec == Init /\ [][Next]_vars

(* L3_FSMrun runs for ever, so the selection timer is served and each      *)
(* counter reaches its limit as long as its state lasts.  Nothing is       *)
(* assumed of the keys and of the booths.                                  *)
FairSpec ==
    /\ Spec
    /\ \A u \in Users :
         /\ WF_vars(NoBoothFound(u) \/ \E b \in Booths : SelectBooth(u, b))
         /\ WF_vars(ScanAgain(u))
         /\ WF_vars(ConnectOver(u))
         /\ WF_vars(RegisterOver(u))
         /\ WF_vars(SessionOver(u))

-----------------------------------------------------------------------------

(* Every variable holds what its C object can hold; the retries never pass *)
(* CONNECT_RETRY_MAX.                                                      *)
TypeOK ==
    /\ state \in [Users -> States]
    /\ booth \in [Users -> Booths \cup {NoBooth}]
    /\ scanning \in [Users -> BOOLEAN]
    /\ seen \in [Users -> SUBSET Booths]
    /\ waitInfo \in [Users -> BOOLEAN]
    /\ retries \in [Users -> 0 .. CONNECT_RETRY_MAX]
    /\ asking \in [Users -> BOOLEAN]
    /\ waitReg \in [Users -> BOOLEAN]
    /\ lastPlace \in [Users -> Places]
    /\ sessionOn \in [Users -> BOOLEAN]
    /\ typing \in [Users -> BOOLEAN]
    /\ out \in [Users -> Seq(Request)]

(* A user who looks for a booth has none, and a user who is connected has  *)
(* one, whatever late message or key moved the state; and the requests     *)
(* that belong to a connection go to a booth.  There is one exception,     *)
(* L3_FSMmain.cpp:747-777: the pass that gives a connection up while the   *)
(* answer to a registration is awaited still asks booth 0 to register.     *)
BoothKnown ==
    \A u \in Users :
        /\ state[u] = "SCANNING" => booth[u] = NoBooth
        /\ state[u] = "CONNECTED" => booth[u] \in Booths
        /\ \A i \in DOMAIN out[u] :
             out[u][i].type \in {"CONNECT_REQUEST", "USER_RESPONSE_YES", "USER_RESPONSE_NO"}
             => \/ out[u][i].dest \in Booths
                \/ /\ out[u][i].type = "USER_RESPONSE_YES"
                   /\ state[u] = "SCANNING" /\ waitReg[u]

(* A connection is decided: a user does not wait for ever for the          *)
(* information of a booth, even if no message ever comes (CONNECT_RETRY).  *)
ConnectionDecided ==
    \A u \in Users :
        (state[u] = "CONNECTED" /\ waitInfo[u]) ~> ~(state[u] = "CONNECTED" /\ waitInfo[u])

(* Scanning goes on: a scan ends, and a user who is nowhere scans again.   *)
ScanCycles ==
    \A u \in Users :
        /\ scanning[u] ~> ~scanning[u]
        /\ (state[u] = "SCANNING" /\ ~scanning[u]) ~> (state[u] # "SCANNING" \/ scanning[u])

-----------------------------------------------------------------------------
(* Claims of documentation and comments that the code does not keep *)

(* "CONNECTED --> SCANNING: ... connection or registration timeout"        *)
(* (README.md): the wait for the answer to a registration ends.            *)
RegistrationDecided ==
    \A u \in Users :
        (state[u] = "CONNECTED" /\ waitReg[u]) ~> ~(state[u] = "CONNECTED" /\ waitReg[u])

(* "Check of the session timer on the user's side (backup mechanism)",     *)
(* L3_FSMmain.cpp:832: a session ends although no alert comes.             *)
SessionBackup ==
    \A u \in Users : state[u] = "IN_USE" ~> state[u] # "IN_USE"
=============================================================================
