----------------------------- MODULE IngestPod -----------------------------
(***************************************************************************)
(* One pod as a whole: BlacklistCache and EventDelivery on one event loop. *)
(* The list EventDelivery looks channels up in is the memory tier of       *)
(* BlacklistCache, a call of the cache and a handler exclude each other,   *)
(* and the pod takes connections only once lifespan() has run.             *)
(***************************************************************************)
EXTENDS Integers, Sequences

CONSTANTS Channels, MaxVersion, MaxCrashes, NoList, Missing, Torn,
          Events, NoChannel, Kinds, Envs, MaxAttempts, NoTopic

VARIABLES lifespan, history, rdsUp, memory, lastRefresh, file, pc, caller,
          fetched, calledAt, wasCached,                           \* BlacklistCache
          env, kind, status, pending, log, refused,      \* EventDelivery
          crashes,     \* of the process both live in
          confirmed    \* ghost: the table's version when the last refresh
                       \* that answered "ok" in this life was called, or 0

cacheOwn == <<lifespan, history, rdsUp, memory, lastRefresh, file, pc, caller,
              fetched, calledAt, wasCached>>
deliveryOwn == <<env, kind, status, pending, log, refused>>
vars == <<cacheOwn, deliveryOwn, crashes, confirmed>>

Cache == INSTANCE BlacklistCache

(* A mistake the properties must expose: lookups read the file.             *)
ServedFromFile == IF Cache!IsList(file) THEN file.ids ELSE {}

(* What `in self.get_channel_ids()` searches. *)
Served == IF Cache!IsList(memory) THEN memory.ids ELSE {}

Delivery == INSTANCE EventDelivery WITH blacklist <- Served

(* What the parts assume of their constants. *)
ASSUME PodAssumption ==
    /\ Cache!BoundsAssumption /\ Cache!MarkersAssumption
    /\ Delivery!InputsAssumption /\ Delivery!AttemptsAssumption /\ Delivery!NoTopicAssumption

-----------------------------------------------------------------------------

(* uvicorn runs the lifespan protocol. *)
Init == Cache!Init /\ lifespan /\ Delivery!Init /\ confirmed = 0

World ==
    /\ Cache!TableChanges \/ Cache!RdsToggles
    /\ UNCHANGED <<deliveryOwn, confirmed>>

Crash ==
    /\ Cache!Crash
    /\ Delivery!LoseProcess
    /\ confirmed' = 0

(* A mistake the properties must expose: an app without its lifespan. *)
StartupWithoutLifespan ==
    /\ pc = "down"
    /\ pc' = "idle"
    /\ UNCHANGED <<lifespan, history, rdsUp, memory, lastRefresh, file, caller,
                   fetched, calledAt, wasCached, deliveryOwn, crashes, confirmed>>

Startup == Cache!Start /\ UNCHANGED <<deliveryOwn, confirmed>>

(* A mistake the properties must expose: refresh() runs in a thread while a *)
(* handler is between two sends.                                            *)
RefreshAnyTime ==
    /\ Cache!BeginRefresh
    /\ UNCHANGED <<deliveryOwn, confirmed>>

(* The refresh handler is entered when no other handler holds the loop. *)
RefreshRequest ==
    /\ Delivery!LoopFree
    /\ Cache!BeginRefresh
    /\ UNCHANGED <<deliveryOwn, confirmed>>

(* A step of the call in progress, and the answer at its end.               *)
CacheCall ==
    /\ Cache!Call
    /\ confirmed' = IF caller = "refresh" /\ pc = "store" THEN calledAt
                                                          ELSE confirmed
    /\ UNCHANGED deliveryOwn

(* uvicorn listens after lifespan startup; while a refresh holds the loop a *)
(* connection waits to be picked up.                                        *)
Accepting == pc # "down" /\ (pc # "idle" => caller # "initialize")

EventPosted ==
    /\ Accepting
    /\ UNCHANGED <<cacheOwn, confirmed>>
    /\ \E a \in Delivery!Attempts : Delivery!Post(a)

EventHandled ==
    /\ pc = "idle"
    /\ UNCHANGED <<cacheOwn, confirmed>>
    /\ \E a \in Delivery!Attempts : Delivery!Handle(a)

Next ==
    \/ World \/ Crash \/ Startup \/ RefreshRequest \/ CacheCall
    \/ EventPosted \/ EventHandled

Spec == Init /\ [][Next]_vars

-----------------------------------------------------------------------------
(* Properties *)

(* The delivery behaves in the pod as its own module says, whose list moves *)
(* only while no handler is between two sends.                              *)
ImplementsDelivery == Delivery!Spec

(* Whatever leaves the pod was looked up in a list: the startup of this     *)
(* life, or a refresh since, has put one in memory, and a channel in the    *)
(* clear is not on it.  Without a list a lookup would pass every channel    *)
(* (`in self.get_channel_ids()`), and no code asserts that there is one.    *)
SentByLoadedList ==
    [][\A t \in {"evergreen", "legacy"} :
         Len(log'[t]) > Len(log[t]) =>
           LET r == log'[t][Len(log'[t])]
           IN  /\ Cache!IsList(memory)
               /\ r.form = "clear" => Delivery!Payload(r.attempt).channel \notin memory.ids
      ]_vars

(* Once a refresh has answered "ok", a channel leaves the pod in the clear  *)
(* only if it was absent from some content the table has had since that     *)
(* refresh was called.                                                      *)
ConfirmedRefreshEnforced ==
    [][confirmed > 0 =>
         \A t \in {"evergreen", "legacy"} :
           Len(log'[t]) > Len(log[t]) =>
             LET r == log'[t][Len(log'[t])]
                 channel == Delivery!Payload(r.attempt).channel
             IN  r.form = "clear" =>
                   \E v \in confirmed..Len(history) : channel \notin history[v]]_vars
=============================================================================
