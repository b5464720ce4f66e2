---------------------------- MODULE MCUidCounter ----------------------------
(***************************************************************************)
(* Model-checking instance of UidCounter: two processes, as two suffice to *)
(* overlap, and uids for a few calls of each.                              *)
(***************************************************************************)
EXTENDS UidCounter, TLC

CONSTANTS p1, p2

MCProcs == {p1, p2}

Interchangeable == Permutations(MCProcs)
=============================================================================
