-------------------------- MODULE MCEventDelivery --------------------------
(***************************************************************************)
(* Model-checking instance of EventDelivery: the payloads that take every  *)
(* path of the handler.                                                    *)
(***************************************************************************)
EXTENDS EventDelivery

CONSTANTS e1, c1

MCEvents == {e1}
MCChannels == {c1}

Good(channel, blocked) ==
    [channel |-> channel, blocked |-> blocked, defect |-> "none"]
Bad(defect) == [channel |-> c1, blocked |-> FALSE, defect |-> defect]

(* A channel that can come to be blacklisted, a blocked one, none at all,   *)
(* and one payload for each way to fail.                                    *)
MCKinds ==
    {Good(c1, FALSE), Good(NoChannel, TRUE), Good(NoChannel, FALSE)}
      \union {Bad(d) : d \in Defects \ {"none"}}

(* All eight settings of SEND_EVERGREEN, SEND_LEGACY and TVEVENTS_DEBUG. *)
MCEnvs == Toggles
=============================================================================
