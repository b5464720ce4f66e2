---------------------------- MODULE MCReadiness ----------------------------
(***************************************************************************)
(* Model-checking instance of Readiness: two cookers that can meet on a    *)
(* key, and two jobs that can race for a watermark.                        *)
(***************************************************************************)
EXTENDS Readiness, TLC

CONSTANTS k1, k2, j1, j2, s1, s2

MCCookers == {k1, k2}
MCJobs == {j1, j2}
MCShards == {s1, s2}

(* Batches that overlap: the one that ends at 2 is the range, the one that  *)
(* ends at 1 lies within it.                                                *)
MCRanges == {<<0, 2>>}

(* A range of its own for the batch that ends at 1. *)
ShortRange == {<<0, 1>>}

Actors == Permutations(MCCookers) \union Permutations(MCJobs) \union Permutations(MCShards)
=============================================================================
