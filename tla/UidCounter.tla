----------------------------- MODULE UidCounter -----------------------------
(***************************************************************************)
(* The counter of user ids, meta:latest_uid, of cdb_redis.py (mcp_redis.py *)
(* has generate_next_uid too) on the clients base_redis.py makes for       *)
(* REDIS_CLUSTER_MODE: of one host, of a Redis cluster, or, while the      *)
(* users move from one to the other, a RedisGroup that sends each command  *)
(* to both, one after the other, and answers with what the first said.     *)
(*                                                                         *)
(* A process reads its mode when it starts.  The move copies the counter   *)
(* before any process runs in cluster_dual, which is not modelled.         *)
(***************************************************************************)
EXTENDS Integers

CONSTANTS Procs,   \* processes that use a CDBRedis
          MaxUid   \* bound: the counters, and the uids given to set_last_uid

ASSUME UidAssumption == MaxUid \in Nat \ {0}

Clusters == {"cluster_disabled", "cluster_enabled"}
Modes == Clusters \union {"cluster_dual"}
Uids == 1..MaxUid

VARIABLES deployed,   \* REDIS_CLUSTER_MODE
          mode,       \* the mode each process started with, or "down"
          counter,    \* meta:latest_uid in each cluster, 0 when there is no key
          replica,    \* what the read host of cluster_disabled tells
          readsMain,  \* that host is the write host
          retrying,   \* retry_on_timeout
          call,       \* each process's call in progress
          taken,      \* ghost: the uids handed out, or below one set as the last
          repeated,   \* ghost: a uid was handed out that was taken
          outdated,   \* ghost: set_last_uid replaced another value than it had read
          apart,      \* ghost: a command reached one cluster of two, or one twice
          mixed       \* ghost: processes of two modes ran beside each other

ghosts == <<taken, repeated, outdated, apart, mixed>>
vars == <<deployed, mode, counter, replica, readsMain, retrying, call, ghosts>>

Calls == [op : {"idle", "incr", "read", "set"}, uid : 0..MaxUid, seen : 0..MaxUid]
Idle == [op |-> "idle", uid |-> 0, seen |-> 0]

Init ==
    /\ deployed \in Modes
    /\ mode = [p \in Procs |-> "down"]
    /\ \E n \in {0, 1} : counter = [c \in Clusters |-> n]
    /\ replica = counter["cluster_disabled"]
    /\ readsMain \in BOOLEAN /\ retrying \in BOOLEAN
    /\ call = [p \in Procs |-> Idle]
    /\ taken = 1..counter["cluster_disabled"]
    /\ repeated = FALSE /\ outdated = FALSE /\ apart = FALSE /\ mixed = FALSE

-----------------------------------------------------------------------------
(* The clients *)

(* The cluster that is written first, or alone, and whose answer counts.    *)
Main(p) == IF mode[p] = "cluster_enabled" THEN "cluster_enabled" ELSE "cluster_disabled"

(* A mistake the properties must expose: the loop returns the first answer. *)
BothFirstOnly(p) == FALSE

(* run_on_objects goes on to a second client. *)
Both(p) == mode[p] = "cluster_dual"

(* What the _reader of a process sees. *)
ReadView(p) ==
    IF mode[p] = "cluster_enabled" \/ readsMain THEN counter[Main(p)] ELSE replica

Replicate ==
    /\ ~readsMain /\ replica # counter["cluster_disabled"]
    /\ replica' = counter["cluster_disabled"]
    /\ UNCHANGED <<deployed, mode, counter, readsMain, retrying, call, ghosts>>

Goes(p) == mode[p] # "down" /\ call[p].op = "idle"
Returns(p) == call' = [call EXCEPT ![p] = Idle]

(* How often one INCR may be carried out: with retry_on_timeout it is sent  *)
(* again when no answer comes, and the first may have been carried out.     *)
Times == IF retrying THEN {1, 2} ELSE {1}

-----------------------------------------------------------------------------
(* generate_next_uid *)

(* A mistake the properties must expose: one more than what _reader sees.   *)
NextUidRead(p, n) == ReadView(p) + n

(* The counter after INCR, which is what INCR answers. *)
NextUid(p, n) == counter[Main(p)] + n

GenerateNextUid(p) ==
    /\ Goes(p)
    /\ \E n \in Times :
         LET uid == NextUid(p, n)
         IN  /\ uid <= MaxUid
             /\ counter' = [counter EXCEPT ![Main(p)] = uid]
             /\ taken' = taken \union {uid}
             /\ repeated' = (repeated \/ uid \in taken)
             /\ apart' = (apart \/ (Both(p) /\ n # 1))
             /\ IF Both(p) THEN call' = [call EXCEPT ![p] = [Idle EXCEPT !.op = "incr"]]
                           ELSE UNCHANGED call
    /\ UNCHANGED <<deployed, mode, replica, readsMain, retrying, outdated, mixed>>

(* INCR in the second cluster. *)
IncrSecond(p) ==
    /\ call[p].op = "incr"
    /\ \E n \in Times :
         /\ counter["cluster_enabled"] + n <= MaxUid
         /\ counter' = [counter EXCEPT !["cluster_enabled"] = @ + n]
         /\ apart' = (apart \/ n # 1)
    /\ Returns(p)
    /\ UNCHANGED <<deployed, mode, replica, readsMain, retrying, taken, repeated, outdated, mixed>>

-----------------------------------------------------------------------------
(* set_last_uid *)

IsLater(uid, current) == uid > current

(* The counter is read, where there is none the call raises, and a uid that *)
(* is not above it is not set.                                              *)
SetLastUid(p, uid) ==
    /\ Goes(p)
    /\ LET current == ReadView(p)
       IN  /\ current # 0 /\ IsLater(uid, current)
           /\ call' = [call EXCEPT ![p] = [op |-> "read", uid |-> uid, seen |-> current]]
    /\ UNCHANGED <<deployed, mode, counter, replica, readsMain, retrying, ghosts>>

Set(p, cluster) ==
    /\ counter' = [counter EXCEPT ![cluster] = call[p].uid]
    /\ outdated' = (outdated \/ counter[cluster] # call[p].seen)

SetReturns(p) ==
    /\ Returns(p)
    /\ taken' = taken \union 1..call[p].uid

StoreUid(p) ==
    /\ call[p].op = "read"
    /\ Set(p, Main(p))
    /\ IF Both(p) THEN /\ call' = [call EXCEPT ![p].op = "set"]
                       /\ UNCHANGED taken
                  ELSE SetReturns(p)
    /\ UNCHANGED <<deployed, mode, replica, readsMain, retrying, repeated, apart, mixed>>

(* SET in the second cluster. *)
StoreSecond(p) ==
    /\ call[p].op = "set"
    /\ Set(p, "cluster_enabled")
    /\ SetReturns(p)
    /\ UNCHANGED <<deployed, mode, replica, readsMain, retrying, repeated, apart, mixed>>

-----------------------------------------------------------------------------
(* Failures and the move *)

(* The first cluster has the command, and the second does not have it yet.  *)
HalfWay(p) == call[p].op \in {"incr", "set"}

(* A command raises, and the call with it.  An INCR whose answer alone is   *)
(* lost leaves a uid nobody has, which GenerateNextUid counts as taken.     *)
Raise(p) ==
    /\ call[p].op # "idle"
    /\ Returns(p)
    /\ apart' = (apart \/ HalfWay(p))
    /\ UNCHANGED <<deployed, mode, counter, replica, readsMain, retrying,
                   taken, repeated, outdated, mixed>>

Stop(p) ==
    /\ mode[p] # "down"
    /\ mode' = [mode EXCEPT ![p] = "down"]
    /\ Returns(p)
    /\ apart' = (apart \/ HalfWay(p))
    /\ UNCHANGED <<deployed, counter, replica, readsMain, retrying,
                   taken, repeated, outdated, mixed>>

Start(p) ==
    /\ mode[p] = "down"
    /\ mode' = [mode EXCEPT ![p] = deployed]
    /\ mixed' = (mixed \/ \E q \in Procs : mode[q] \notin {"down", deployed})
    /\ UNCHANGED <<deployed, counter, replica, readsMain, retrying, call,
                   taken, repeated, outdated, apart>>

(* The users have moved. *)
Migrate ==
    /\ deployed = "cluster_dual"
    /\ deployed' = "cluster_enabled"
    /\ UNCHANGED <<mode, counter, replica, readsMain, retrying, call, ghosts>>

-----------------------------------------------------------------------------

Step(p) ==
    \/ GenerateNextUid(p) \/ IncrSecond(p)
    \/ \E uid \in Uids : SetLastUid(p, uid)
    \/ StoreUid(p) \/ StoreSecond(p)
    \/ Raise(p) \/ Stop(p) \/ Start(p)

Next == Replicate \/ Migrate \/ \E p \in Procs : Step(p)

Spec == Init /\ [][Next]_vars

-----------------------------------------------------------------------------
(* Properties *)

(* Every variable keeps its type. *)
TypeOK ==
    /\ deployed \in Modes
    /\ mode \in [Procs -> Modes \union {"down"}]
    /\ counter \in [Clusters -> 0..MaxUid] /\ replica \in 0..MaxUid
    /\ readsMain \in BOOLEAN /\ retrying \in BOOLEAN
    /\ call \in [Procs -> Calls]
    /\ taken \subseteq Uids
    /\ repeated \in BOOLEAN /\ outdated \in BOOLEAN /\ apart \in BOOLEAN /\ mixed \in BOOLEAN

(* No uid is handed out twice, nor one below a uid that was set as the      *)
(* last, by one process or several, in any mode and across the move of the  *)
(* users, unless a set_last_uid overwrote what it had not seen, a command   *)
(* reached the two clusters unequally, or processes of two modes overlapped.*)
NoUidTwice == outdated \/ apart \/ mixed \/ ~repeated

(* Under the same conditions the two clusters hold the same counter         *)
(* whenever no call of a process in cluster_dual is in progress.            *)
SettledClustersAgree ==
    deployed = "cluster_dual" /\ (\A p \in Procs : call[p].op = "idle") =>
        \/ outdated \/ apart \/ mixed
        \/ counter["cluster_disabled"] = counter["cluster_enabled"]
=============================================================================
