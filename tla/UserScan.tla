-------------------------------- MODULE UserScan --------------------------------
(***************************************************************************)
(* The user machine (User) together with the table it chooses its booth    *)
(* from (ScanSelect).  User only knows which booths were seen; here every  *)
(* announcement carries a signal strength and the booth's numbers, and the *)
(* selection timer asks L3_selectOptimalBooth.                             *)
(***************************************************************************)
EXTENDS User, Integers, FiniteSets

CONSTANTS
    MAX_BOOTHS,       \* entries of scannedBooths
    CAPACITY,         \* announced capacity
    Announcements     \* what a booth may announce

VARIABLES
    table,    \* table[u]: scannedBooths
    heard     \* heard[u]: the latest announcement of each booth since the table was emptied

T == INSTANCE ScanSelect

ASSUME BoothIdsAssumption == Booths \subseteq Nat \ {0} /\ NoBooth = 0
ASSUME TableAssumption == MAX_BOOTHS \in Nat \ {0} /\ CAPACITY \in 0 .. 255

(* L3_msg.h: the IDs of booths are 1 .. 3 and the table has 3 entries.     *)
ASSUME RoomAssumption == IsFiniteSet(Booths) /\ Cardinality(Booths) <= MAX_BOOTHS

(* What a booth announces of itself: no more users inside than it takes,   *)
(* no more in its queue than the queue holds (20); so no score comes down  *)
(* to the -1000 that the search starts with.                               *)
ASSUME AnnouncementsAssumption ==
    /\ MAX_USERS <= 87
    /\ Announcements \subseteq
         {ann \in T!Announcement : ann.current <= CAPACITY /\ ann.waiting <= MAX_USERS}

scanVars == <<vars, table, heard>>

NotHeard == [b \in Booths |-> T!Silent]

ScanInit ==
    /\ Init
    /\ table = [u \in Users |-> T!EmptyList]
    /\ heard = [u \in Users |-> NotHeard]

Hear(u, b, ann) ==
    /\ AnnounceArrives(u, b)
    /\ table' = [table EXCEPT ![u] = T!Updated(@, b, ann)]
    /\ heard' = [heard EXCEPT ![u][b] = ann]

(* Everything else leaves the table alone or empties it.                   *)
KeepTable(u) ==
    /\ table' = [table EXCEPT ![u] = IF seen'[u] = {} THEN T!EmptyList ELSE @]
    /\ heard' = [heard EXCEPT ![u] = IF seen'[u] = {} THEN NotHeard ELSE @]

(* The selection timer asks for the best booth; 0 means none.              *)
Select(u) ==
    /\ \/ T!Selected(table[u]) = 0 /\ NoBoothFound(u)
       \/ SelectBooth(u, T!Selected(table[u]))
    /\ KeepTable(u)

Other(u) ==
    /\ ScanAgain(u) \/ Retries(u) \/ SessionOver(u) \/ AnswerKeys(u) \/ ChatKeys(u) \/ Messages(u)
    /\ KeepTable(u)

ScanNext ==
    \E u \in Users :
        Select(u) \/ Other(u) \/ \E b \in Booths, ann \in Announcements : Hear(u, b, ann)

ScanSpec == ScanInit /\ [][ScanNext]_scanVars

(* The fairness of User. *)
ScanFairSpec ==
    /\ ScanSpec
    /\ \A u \in Users :
         /\ WF_scanVars(Select(u))
         /\ WF_scanVars(ScanAgain(u) /\ KeepTable(u))
         /\ WF_scanVars(ConnectOver(u) /\ KeepTable(u))
         /\ WF_scanVars(RegisterOver(u) /\ KeepTable(u))
         /\ WF_scanVars(SessionOver(u) /\ KeepTable(u))

-----------------------------------------------------------------------------

(* The table has exactly one entry for each booth that was seen since the  *)
(* last reset, with its latest announcement: no stale one, no second one,  *)
(* no other booth's.                                                       *)
TableIsLatest ==
    \A u \in Users :
        /\ T!Ids(table[u]) = seen[u]
        /\ \A i, j \in DOMAIN table[u] :
             table[u][i].isValid =>
                 /\ table[u][i].is = heard[u][table[u][i].id]
                 /\ table[u][j].id = table[u][i].id => j = i

(* "RSSI + 20 if there is room - 10 for each waiting user" (README.md),    *)
(* said of what was heard: the user connects to a booth that no other one  *)
(* heard in the same scan beats, and a scan that heard one finds one.      *)
DocScore(ann) == ann.rssi + (IF ann.current < CAPACITY THEN 20 ELSE 0) - ann.waiting * 10

BestIsChosen ==
    [][\A u \in Users :
        scanning[u] /\ ~scanning'[u] /\ seen[u] # {}
        => booth'[u] \in {b \in seen[u] : \A c \in seen[u] :
                              DocScore(heard[u][c]) <= DocScore(heard[u][b])}]_scanVars
=============================================================================
