--------------------------- MODULE BlacklistView ---------------------------
(***************************************************************************)
(* What the blacklist cache promises to the code that looks channels up:   *)
(* it serves contents the table really had, in the order the table had     *)
(* them, and it serves none at all only until the first answer of RDS in   *)
(* this life of the pod.  There are no tiers, no calls and no failures     *)
(* here: BlacklistCache is shown to implement this.                        *)
(***************************************************************************)
EXTENDS Integers, Sequences

CONSTANTS Channels, MaxVersion, NoList

VARIABLES history,   \* the contents the table has had so far
          served     \* the list lookups are answered from, or NoList

viewVars == <<history, served>>

Nothing == [ids |-> {}, version |-> 0]

Init ==
    /\ \E S \in SUBSET Channels : history = <<S>>
    /\ served = NoList

TableMoves ==
    /\ Len(history) < MaxVersion
    /\ \E S \in SUBSET Channels : history' = Append(history, S)
    /\ UNCHANGED served

(* A pod begins to serve, or moves on, with a non-empty content that is no  *)
(* older than the one it serves.                                            *)
Adopt ==
    \E v \in 1..Len(history) :
        /\ history[v] # {}
        /\ served = NoList \/ v >= served.version
        /\ served' = [ids |-> history[v], version |-> v]
        /\ UNCHANGED history

(* A pod begins to serve with nothing to go by. *)
AdoptNothing ==
    /\ served = NoList
    /\ served' = Nothing
    /\ UNCHANGED history

Stop ==
    /\ served' = NoList
    /\ UNCHANGED history

Next == TableMoves \/ Adopt \/ AdoptNothing \/ Stop

Spec == Init /\ [][Next]_viewVars
=============================================================================
