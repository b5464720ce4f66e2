------------------------- MODULE MCBlacklistCache -------------------------
(***************************************************************************)
(* Model-checking instance of BlacklistCache: two channels, so that lists  *)
(* can overlap, differ and be empty.                                       *)
(***************************************************************************)
EXTENDS BlacklistCache, TLC

CONSTANTS c1, c2

MCChannels == {c1, c2}

ChannelSymmetry == Permutations(MCChannels)
=============================================================================
