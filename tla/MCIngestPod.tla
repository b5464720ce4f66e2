---------------------------- MODULE MCIngestPod ----------------------------
(***************************************************************************)
(* Model-checking instance of IngestPod: one event on the one channel that *)
(* can be blacklisted, posted twice at most, to both topics.               *)
(***************************************************************************)
EXTENDS IngestPod

CONSTANTS e1, c1

MCEvents == {e1}
MCChannels == {c1}
MCKinds == {[channel |-> c1, blocked |-> FALSE, defect |-> "none"]}
MCEnvs == {[evergreen |-> TRUE, legacy |-> TRUE, debug |-> FALSE]}
=============================================================================
