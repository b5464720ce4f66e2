-------------------------- MODULE MCConsulServices --------------------------
(***************************************************************************)
(* Model-checking instance of ConsulServices: two processes of one         *)
(* application on one host, which announce two versions of a service.      *)
(***************************************************************************)
EXTENDS ConsulServices, TLC

CONSTANTS a1, a2, l1, l2

MCApps == {a1, a2}
MCLocks == {l1}
MCNames == {l1, l2}
MCPorts == {33333, 33334}

MCOffers == {[name |-> "api", zone |-> "z", tag |-> "t", version |-> v] : v \in {9, 10}}

AppSymmetry == Permutations(MCApps)
=============================================================================
