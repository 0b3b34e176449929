------------------------------- MODULE MCUserScan ------------------------------
(* UserScan for TLC: two booths; the weaker the signal, the better the score. *)
EXTENDS UserScan

MCScanOrder == <<1, 2>>

MCAnnouncements ==
    {[rssi |-> -80, current |-> 0, waiting |-> 0],
     [rssi |-> -65, current |-> 1, waiting |-> 0],
     [rssi |-> -62, current |-> 1, waiting |-> 1]}
=============================================================================
