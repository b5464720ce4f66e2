---------------------------- MODULE MCActiveUsers ----------------------------
(***************************************************************************)
(* Model-checking instance of ActiveUsers: windows of two chunks and a     *)
(* clock that runs past the window and the cached union after it.          *)
(***************************************************************************)
EXTENDS ActiveUsers

CONSTANTS u1, u2, c1

MCUsers == {u1, u2}
MCClients == {c1}
=============================================================================
