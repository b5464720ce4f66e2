---------------------------- MODULE MCOpsSurface ----------------------------
(***************************************************************************)
(* Model-checking instances of OpsSurface: three requests, each for any    *)
(* endpoint with any body, so that every pair of handlers can overlap; of  *)
(* the log levels one, and of the bodies without one the unknown level.    *)
(***************************************************************************)
EXTENDS OpsSurface, TLC

CONSTANTS r1, r2, r3

MCRequests == {r1, r2, r3}

MCCalls == AllCalls \ [path : {"/ops/loglevel"}, body : {"bad_json", "ERROR"}]

RequestSymmetry == Permutations(Requests)
=============================================================================
