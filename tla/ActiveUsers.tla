----------------------------- MODULE ActiveUsers -----------------------------
(***************************************************************************)
(* Who is active in a zoo, active_redis.py of cntools_py3/cnlib.  A TV that *)
(* is heard of is added to the set of the current stretch of time, a chunk; *)
(* who asks gets the union of the chunks of the window, which is kept in a  *)
(* key of its own for a while.                                             *)
(*                                                                         *)
(* The union is looked for through _reader, perhaps a replica that lags,   *)
(* and made on the primary, which has the chunks.  The clients' clocks are *)
(* Redis' clock, and a pipeline is one transaction.                        *)
(***************************************************************************)
EXTENDS ActiveAnswers

CONSTANTS MaxNow,     \* bound: the clock
          MaxHears,   \* bound: calls of set
          MaxAsks     \* bound: questions

ASSUME ActiveBounds ==
    /\ Mod \in Nat \ {0} /\ Window \in Nat \ {0} /\ CacheSecs \in Nat \ {0}
    /\ MaxNow \in Nat /\ MaxHears \in Nat /\ MaxAsks \in Nat
    /\ None \notin [users : SUBSET Users, expires : Nat]

VARIABLES now,        \* the clock
          oneClient,  \* Clusters.rw_equal(write_host, read_host)
          chunks,     \* the primary's chunk keys: [users, expires]
          union,      \* the primary's unioned keys
          replica,    \* ... and the replica's
          calls       \* calls so far: [hears |-> ..., asks |-> ...]

vars == <<now, oneClient, chunks, union, replica, client, calls, heard>>

Starts == {ChunkOf(t) : t \in 0..MaxNow}

Init ==
    /\ now = 0
    /\ oneClient \in BOOLEAN
    /\ chunks = [k \in Prefixes \X Starts |-> None]
    /\ union = [p \in Prefixes |-> None] /\ replica = union
    /\ client = [c \in Clients |-> [pc |-> "idle", answer |-> None]]
    /\ calls = [hears |-> 0, asks |-> 0]
    /\ heard = [p \in Prefixes |-> [u \in Users |-> {}]]

-----------------------------------------------------------------------------

(* A key whose time has come is not there any more. *)
Exists(key) == key # None /\ now < key.expires
Members(key) == IF Exists(key) THEN key.users ELSE {}

Tick ==
    /\ now < MaxNow
    /\ now' = now + 1
    /\ UNCHANGED <<oneClient, chunks, union, replica, client, calls, heard>>

(* The replica catches up. *)
Replicate ==
    /\ ~oneClient /\ replica # union
    /\ replica' = union
    /\ UNCHANGED <<now, oneClient, chunks, union, client, calls, heard>>

(* Each add renews it. *)
Lifetime == Window

(* set: the token goes to the chunk of now under "active", and if the user  *)
(* is allowed under "active_allowed" too; each add renews the expiry.       *)
Hear(u, allowed) ==
    LET prefixes == IF allowed THEN Prefixes ELSE {"active"}
        start == ChunkOf(now)
    IN  /\ calls.hears < MaxHears
        /\ calls' = [calls EXCEPT !.hears = @ + 1]
        /\ chunks' = [k \in DOMAIN chunks |->
                        IF k[1] \in prefixes /\ k[2] = start
                          THEN [users |-> Members(chunks[k]) \union {u}, expires |-> now + Lifetime]
                          ELSE chunks[k]]
        /\ heard' = [p \in Prefixes |->
                       IF p \in prefixes THEN [heard[p] EXCEPT ![u] = @ \union {now}]
                                         ELSE heard[p]]
        /\ UNCHANGED <<now, oneClient, union, replica, client>>

-----------------------------------------------------------------------------
(* get_active_user_tokens, get_active_allowed_user_tokens, and the counts   *)

ReadView == IF oneClient THEN union ELSE replica

Answer(c, p, users, fresh) ==
    client' = [client EXCEPT ![c] =
                 [pc |-> "idle", answer |-> [prefix |-> p, users |-> users,
                                             at |-> now, fresh |-> fresh]]]

(* _get_user_tokens, _get_user_count: the unioned key, if it exists. *)
Ask(c, p) ==
    /\ client[c].pc = "idle" /\ calls.asks < MaxAsks
    /\ calls' = [calls EXCEPT !.asks = @ + 1]
    /\ IF Exists(ReadView[p]) THEN Answer(c, p, ReadView[p].users, FALSE)
       ELSE client' = [client EXCEPT ![c] = [pc |-> "union", prefix |-> p, answer |-> None]]
    /\ UNCHANGED <<now, oneClient, chunks, union, replica, heard>>

(* A mistake the properties must expose: one chunk more, for the part of    *)
(* the current one that is still to come.                                   *)
ChunksBackwardOneMore == 1 + (Window + Mod - 1) \div Mod

(* chunks_backward: the window in chunks, rounded up. *)
ChunksBackward == (Window + Mod - 1) \div Mod

(* SUNIONSTORE: the union replaces the key, and no key is made for no user. *)
Union(p) ==
    UNION {Members(chunks[<<p, s>>]) :
             s \in {ChunkOf(now) - i * Mod : i \in 0..ChunksBackward - 1} \intersect Starts}

(* set_active_users: chunks, union and expiry in one transaction, in which  *)
(* now may be later than when the key was missed.                           *)
SetActiveUsers(c) ==
    /\ client[c].pc = "union"
    /\ LET p == client[c].prefix
           users == Union(p)
       IN  /\ union' = [union EXCEPT ![p] =
                          IF users = {} THEN None
                          ELSE [users |-> users, expires |-> now + CacheSecs]]
           /\ Answer(c, p, users, TRUE)
    /\ UNCHANGED <<now, oneClient, chunks, replica, calls, heard>>

Next ==
    \/ Tick \/ Replicate
    \/ \E u \in Users, allowed \in BOOLEAN : Hear(u, allowed)
    \/ \E c \in Clients : SetActiveUsers(c) \/ \E p \in Prefixes : Ask(c, p)

Spec == Init /\ [][Next]_vars

-----------------------------------------------------------------------------
(* Properties *)

Sets == [users : SUBSET Users, expires : Nat]

Answers == [prefix : Prefixes, users : SUBSET Users, at : Nat, fresh : BOOLEAN]

Questions ==
    [pc : {"idle"}, answer : Answers \union {None}]
      \union [pc : {"union"}, prefix : Prefixes, answer : {None}]

(* Every variable keeps its type. *)
TypeOK ==
    /\ now \in 0..MaxNow /\ oneClient \in BOOLEAN
    /\ calls \in [hears : 0..MaxHears, asks : 0..MaxAsks]
    /\ chunks \in [Prefixes \X Starts -> Sets \union {None}]
    /\ union \in [Prefixes -> Sets \union {None}] /\ replica \in [Prefixes -> Sets \union {None}]
    /\ client \in [Clients -> Questions]
    /\ heard \in [Prefixes -> [Users -> SUBSET (0..MaxNow)]]
=============================================================================
