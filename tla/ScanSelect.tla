-------------------------------- MODULE ScanSelect ------------------------------
(***************************************************************************)
(* How a user chooses a booth: the table scannedBooths, filled by the      *)
(* announcements it hears during a scan, and the score of its entries      *)
(* (L3_FSMmain.cpp), as operators on the table; UserScan has when they are *)
(* used.                                                                   *)
(***************************************************************************)
EXTENDS Integers, Sequences, SequencesExt

CONSTANTS
    MAX_BOOTHS,    \* entries of the table
    CAPACITY       \* announced capacity

-----------------------------------------------------------------------------

(* An announcement: signal strength in dBm, users inside, users waiting.   *)
Announcement == [rssi : -127 .. 20, current : 0 .. 255, waiting : 0 .. 255]

Silent == [rssi |-> -127, current |-> 0, waiting |-> 0]

Invalid == [id |-> 0, isValid |-> FALSE, is |-> Silent]

(* L3_initBoothScanList *)
EmptyList == [i \in 1 .. MAX_BOOTHS |-> Invalid]

(* Wrong: a booth that is heard again gets a second entry.                 *)
UpdatedTwice(list, id, ann) ==
    LET fits == {i \in DOMAIN list : ~list[i].isValid}
    IN  IF fits = {} THEN list
        ELSE [list EXCEPT ![Min(fits)] = [id |-> id, isValid |-> TRUE, is |-> ann]]

(* L3_updateBoothScanInfo: the booth's entry, or the first invalid one.    *)
Updated(list, id, ann) ==
    LET fits == {i \in DOMAIN list : list[i].id = id \/ ~list[i].isValid}
    IN  IF fits = {} THEN list
        ELSE [list EXCEPT ![Min(fits)] = [id |-> id, isValid |-> TRUE, is |-> ann]]

(* Wrong: a booth that is just full has room.                              *)
ScoreFullHasRoom(ann) ==
    ann.rssi
    + (IF (CAPACITY - ann.current) % 256 >= 0 THEN 20 ELSE 0)
    - 10 * ann.waiting

(* The score of L3_selectOptimalBooth.  availableSpace is a uint8_t.       *)
Score(ann) ==
    ann.rssi
    + (IF (CAPACITY - ann.current) % 256 > 0 THEN 20 ELSE 0)
    - 10 * ann.waiting

(* L3_selectOptimalBooth: the first entry with the highest score above the *)
(* bestScore the loop starts with, 0 if there is none.                     *)
Selected(list) ==
    LET found == {i \in DOMAIN list : list[i].isValid /\ Score(list[i].is) > -1000}
        best  == {i \in found : \A j \in found : Score(list[j].is) <= Score(list[i].is)}
    IN  IF found = {} THEN 0 ELSE list[Min(best)].id

(* The booths the table knows.                                             *)
Ids(list) == {list[i].id : i \in {j \in DOMAIN list : list[j].isValid}}
=============================================================================
