-------------------------- MODULE MCUserDirectory --------------------------
(***************************************************************************)
(* Model-checking instance of UserDirectory: two clients, two zoos, and    *)
(* one token more than a scan visits at a time.                            *)
(***************************************************************************)
EXTENDS UserDirectory, TLC

CONSTANTS k1, k2, t1, t2, z1, z2

MCClients == {k1, k2}
MCTokens == {t1, t2}
MCZoos == {z1, z2}

Names == Permutations(MCClients) \union Permutations(MCTokens) \union Permutations(MCZoos)
=============================================================================
