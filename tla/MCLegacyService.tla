-------------------------- MODULE MCLegacyService --------------------------
(***************************************************************************)
(* Model-checking instance of LegacyService: two events in two workers     *)
(* that can load at a time, with one outlet or none; and one event with    *)
(* both outlets.                                                           *)
(***************************************************************************)
EXTENDS LegacyService

CONSTANTS w1, w2, e1, e2, c1

MCWorkers == {w1, w2}
MCEvents == {e1, e2}
MCChannels == {c1}

LookedUp == [channel |-> c1, blocked |-> FALSE, valid |-> TRUE]
Blocked == [channel |-> NoChannel, blocked |-> TRUE, valid |-> TRUE]
Invalid == [channel |-> c1, blocked |-> FALSE, valid |-> FALSE]

MCSituations ==
    [active : {{}}, debug : {FALSE}, kind : [MCEvents -> {LookedUp}]]
      \union [active : {{"evergreen"}}, debug : {FALSE},
              kind : {[e \in MCEvents |-> IF e = e1 THEN Blocked ELSE LookedUp]}]
      \union [active : {Outlets}, debug : {TRUE},
              kind : [{e1} -> {Blocked, Invalid}]]
=============================================================================
