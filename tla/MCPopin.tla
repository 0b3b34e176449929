------------------------------- MODULE MCPopin -------------------------------
(* Popin for TLC: the IDs a scan asks, in order, and what the searches with *)
(* three and four users leave out, to find a violation in time.             *)
EXTENDS Popin, FiniteSetsExt, TLC

CONSTANTS b1, b2

OneBooth == <<b1>>
TwoBooths == <<b1, b2>>

-----------------------------------------------------------------------------

(* The number of messages under way. *)
Load(l) == FoldSet(LAMBDA n, total : total + Len(l[n]), 0, Boards)

(* A message is requested in answer to one, or when none is under way. *)
Serially == Load(link') <= 1 \/ Load(link') <= Load(link)

(* No retry of the connection, no chat, no words of an administrator. *)
Calm ==
    /\ \A u \in Users : retries[u] = 0 /\ ~typing[u]
    /\ \A b \in Booths :
         ~quietMode[b] /\ \A i \in DOMAIN sent[b] : sent[b][i].type # "ADMIN_MESSAGE"

Alike == Permutations(Users)
=============================================================================
