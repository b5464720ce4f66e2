---------------------------- MODULE ActiveAnswers ----------------------------
(***************************************************************************)
(* What the answers of active_redis.py promise about the users that were   *)
(* heard of.  ActiveUsers is the machine that gives the answers.           *)
(***************************************************************************)
EXTENDS Integers

CONSTANTS Users,      \* the tokens of the TVs of one zoo
          Clients,    \* processes that ask
          Mod,        \* active_mod_seconds
          Window,     \* active_window_seconds
          CacheSecs,  \* UNIONED_ACTIVE_EXPIRY_SEC
          None        \* no answer, and no such key

VARIABLES client,     \* each client's question, and its last answer
          heard       \* ghost: when each user was added under a prefix

Prefixes == {"active", "active_allowed"}

(* modded_now *)
ChunkOf(t) == t - (t % Mod)

(* The window in whole chunks. *)
RoundedWindow == ChunkOf(Window + Mod - 1)

(* Heard of under prefix p after one time, and not after another. *)
HeardIn(p, u, after, until) == \E t \in heard[p][u] : after < t /\ t <= until

(* Who is answered to be active was heard of within the rounded window, and *)
(* whoever was, up to the length of a chunk, is answered; an answer from    *)
(* the unioned key may be older by its lifetime, and the replica's lag adds *)
(* nothing to that.                                                         *)
ActiveWithinWindow ==
    [][\A c \in Clients : client'[c].answer \notin {None, client[c].answer} =>
         LET a == client'[c].answer
             age == IF a.fresh THEN 0 ELSE CacheSecs
         IN  \A u \in Users :
               /\ u \in a.users => HeardIn(a.prefix, u, a.at - age - RoundedWindow, a.at)
               /\ HeardIn(a.prefix, u, a.at - RoundedWindow + Mod - 1, a.at - age)
                    => u \in a.users]_client
=============================================================================
