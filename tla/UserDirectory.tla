--------------------------- MODULE UserDirectory ---------------------------
(***************************************************************************)
(* The directory of TVs, mcp_redis.py of cntools_py3/cnlib over the hash   *)
(* and index functions of base_redis.py: user:<token> is a hash that names *)
(* the zoo a TV is sent to, target:<zoo> the set of the tokens sent there, *)
(* and regenerate_indices rebuilds the sets from the hashes.               *)
(*                                                                         *)
(* Any number of processes call these functions, in any order; a step is   *)
(* one command to Redis.  A call that is handed a pipeline leaves its      *)
(* command to the caller, and is not told apart from one that is not.      *)
(*                                                                         *)
(* A client made with decode_responses=False, which is the default, gets   *)
(* bytes from Redis, and the name it formats from them, user:b'...', is    *)
(* nobody else's key.                                                      *)
(***************************************************************************)
EXTENDS Integers

CONSTANTS Clients,      \* processes that use an MCPRedis
          Tokens, Zoos,
          None,         \* no such key
          MaxCalls      \* bound: calls of the clients together

ASSUME DirectoryAssumption == MaxCalls \in Nat /\ None \notin Zoos

VARIABLES oneClient,   \* Clusters.rw_equal(write_host, read_host)
          decoding,    \* decode_responses
          writer,      \* the primary
          reader,      \* the replica
          call,        \* each client's call in progress
          calls,       \* the number of calls so far
          registered,  \* ghost: tokens set and then indexed, and not disturbed since
          hobbled,     \* ghost: a regeneration was limited to targets, or failed
          regenerated  \* ghost: the zoos of a regeneration nobody wrote beside or since

vars == <<oneClient, decoding, writer, reader, call, calls, registered, hobbled, regenerated>>

(* ttl: the users that an EXPIRE will remove. *)
Databases ==
    [user : [Tokens -> Zoos \union {None}], index : [Zoos -> SUBSET Tokens],
     zoos : SUBSET Zoos, ttl : SUBSET Tokens]

Idle == [op |-> "idle"]

Init ==
    /\ oneClient \in BOOLEAN /\ decoding \in BOOLEAN
    /\ writer \in {db \in Databases : /\ db.user = [t \in Tokens |-> None]
                                      /\ db.index = [z \in Zoos |-> {}]
                                      /\ db.ttl = {}}
    /\ reader = writer
    /\ call = [c \in Clients |-> Idle]
    /\ calls = 0
    /\ registered = {}
    /\ hobbled = FALSE
    /\ regenerated = {}

-----------------------------------------------------------------------------
(* Redis *)

ReadView == IF oneClient THEN writer ELSE reader

(* The replica catches up. *)
Replicate ==
    /\ ~oneClient /\ reader # writer
    /\ reader' = writer
    /\ UNCHANGED <<oneClient, decoding, writer, call, calls, registered, hobbled, regenerated>>

(* The keys that names read from Redis lead to. *)
Named(names) == IF decoding THEN names ELSE {}

Removed(db, tokens) ==
    [db EXCEPT !.user = [t \in Tokens |-> IF t \in tokens THEN None ELSE @[t]],
               !.ttl = @ \ tokens]

(* A mistake the properties must expose: the token replaces the members.   *)
IndexedAlone(db, z, t) == [db EXCEPT !.index[z] = {t}]

(* SADD. *)
Indexed(db, z, t) == [db EXCEPT !.index[z] = @ \union {t}]

(* A mistake the properties must expose: the name leads to another key.     *)
UnindexedElsewhere(db, z) == db

(* DEL of an index. *)
Unindexed(db, z) == [db EXCEPT !.index[z] = {}]

SentTo(db, z) == {t \in Tokens : db.user[t] = z}

Regenerating(c) == call[c].op \in {"clear", "scan"}

(* A write of another call: no regeneration in progress is alone any more.  *)
Disturb == [c \in Clients |-> IF Regenerating(c) THEN [call[c] EXCEPT !.alone = FALSE]
                                                 ELSE call[c]]

-----------------------------------------------------------------------------
(* The calls that send one command *)

Calling(c) ==
    /\ call[c].op = "idle" /\ calls < MaxCalls
    /\ calls' = calls + 1

Wrote(db) ==
    /\ writer' = db
    /\ call' = Disturb
    /\ regenerated' = {}
    /\ UNCHANGED <<oneClient, decoding, reader, hobbled>>

(* set: HMSET, which leaves the time to live of the key alone. *)
SetUser(c, t, z) ==
    /\ Calling(c)
    /\ Wrote([writer EXCEPT !.user[t] = z])
    /\ registered' = registered \ {t}

Delete(c, t) ==
    /\ Calling(c)
    /\ Wrote(Removed(writer, {t}))
    /\ registered' = registered \ {t}

Expire(c, t) ==
    /\ Calling(c) /\ writer.user[t] # None
    /\ Wrote([writer EXCEPT !.ttl = @ \union {t}])
    /\ UNCHANGED registered

(* The time is up. *)
Expires(t) ==
    /\ t \in writer.ttl
    /\ Wrote(Removed(writer, {t}))
    /\ registered' = registered \ {t}
    /\ UNCHANGED calls

SetIndex(c, z, t) ==
    /\ Calling(c)
    /\ Wrote(Indexed(writer, z, t))
    /\ registered' = IF writer.user[t] = z THEN registered \union {t} ELSE registered

DeleteIndex(c, z) ==
    /\ Calling(c)
    /\ Wrote(Unindexed(writer, z))
    /\ registered' = registered \ SentTo(writer, z)

(* add_zoos and remove_zoos, of one zoo. *)
ChangeZoos(c, zoos) ==
    /\ Calling(c)
    /\ \E z \in Zoos : zoos \in {writer.zoos \union {z}, writer.zoos \ {z}}
    /\ Wrote([writer EXCEPT !.zoos = zoos])
    /\ UNCHANGED registered

(* delete_from_index asks self.get for the hash, and MCPRedis.get answers   *)
(* with its target alone: indexing that raises a TypeError, which is caught.*)
DeleteFromIndex(c, t) ==
    /\ Calling(c)
    /\ UNCHANGED <<oneClient, decoding, writer, reader, call, registered, hobbled, regenerated>>

-----------------------------------------------------------------------------
(* delete_by_index *)

(* The members are read; the ones whose names lead to a user are deleted    *)
(* one after the other, and then the index.                                 *)
BeginDeleteByIndex(c, z) ==
    /\ Calling(c)
    /\ call' = [call EXCEPT ![c] = [op |-> "delete", zoo |-> z,
                                    members |-> Named(ReadView.index[z])]]
    /\ registered' = registered \ SentTo(writer, z)
    /\ UNCHANGED <<oneClient, decoding, writer, reader, hobbled, regenerated>>

DeleteMember(c) ==
    /\ call[c].op = "delete"
    /\ \E t \in call[c].members :
         /\ writer' = Removed(writer, {t})
         /\ call' = [Disturb EXCEPT ![c].members = @ \ {t}]
         /\ registered' = registered \ {t}
    /\ regenerated' = {}
    /\ UNCHANGED <<oneClient, decoding, reader, calls, hobbled>>

FinishDeleteByIndex(c) ==
    /\ call[c].op = "delete" /\ call[c].members = {}
    /\ writer' = Unindexed(writer, call[c].zoo)
    /\ call' = [Disturb EXCEPT ![c] = Idle]
    /\ registered' = registered \ SentTo(writer, call[c].zoo)
    /\ regenerated' = {}
    /\ UNCHANGED <<oneClient, decoding, reader, calls, hobbled>>

-----------------------------------------------------------------------------
(* regenerate_indices *)

Progress(c, step) == [Disturb EXCEPT ![c] = step]

(* All the indices get_zoos tells of are to go, whatever the targets; with  *)
(* no targets every user is put back, here: targets = Zoos.                 *)
BeginRegenerate(c, targets) ==
    /\ Calling(c)
    /\ LET zoos == Named(ReadView.zoos)
       IN  call' = [call EXCEPT ![c] = [op |-> "clear", zoos |-> zoos, left |-> zoos,
                                        targets |-> targets, alone |-> TRUE]]
    /\ hobbled' = (hobbled \/ targets # Zoos)
    /\ UNCHANGED <<oneClient, decoding, writer, reader, registered, regenerated>>

ClearIndex(c) ==
    /\ call[c].op = "clear"
    /\ \E z \in call[c].left :
         /\ writer' = Unindexed(writer, z)
         /\ call' = Progress(c, [call[c] EXCEPT !.left = @ \ {z}])
    /\ regenerated' = {}
    /\ UNCHANGED <<oneClient, decoding, reader, calls, registered, hobbled>>

(* The users a scan that starts now is sure to return: a key type that is   *)
(* bytes equals no string, and none is taken for a hash.                    *)
ToScan(db) == Named({t \in Tokens : db.user[t] # None})

(* The scan starts when the last index is gone. *)
BeginScan(c) ==
    /\ call[c].op = "clear" /\ call[c].left = {}
    /\ call' = [call EXCEPT ![c] = [op |-> "scan", zoos |-> call[c].zoos, adding |-> {},
                                    targets |-> call[c].targets, alone |-> call[c].alone,
                                    todo |-> ToScan(ReadView)]]
    /\ UNCHANGED <<oneClient, decoding, writer, reader, calls, registered, hobbled, regenerated>>

(* The scan returns a user, one that came meanwhile or one for the second   *)
(* time too, and its hash is read.  No hash any more is a KeyError, caught. *)
Visit(c) ==
    /\ call[c].op = "scan" /\ call[c].adding = {}
    /\ \E t \in Named(Tokens) :
         LET found == {ReadView.user[t]} \intersect call[c].targets
         IN  call' = [call EXCEPT ![c].todo = @ \ {t},
                                  ![c].adding = {[token |-> t, zoo |-> z] : z \in found}]
    /\ UNCHANGED <<oneClient, decoding, writer, reader, calls, registered, hobbled, regenerated>>

(* SADD of the user just read; where it fails that is logged, and the scan  *)
(* goes on.                                                                 *)
AddVisited(c) ==
    /\ call[c].op = "scan"
    /\ \E a \in call[c].adding : writer' = Indexed(writer, a.zoo, a.token)
    /\ call' = Progress(c, [call[c] EXCEPT !.adding = {}])
    /\ regenerated' = {}
    /\ UNCHANGED <<oneClient, decoding, reader, calls, registered, hobbled>>

AddFails(c) ==
    /\ call[c].op = "scan" /\ call[c].adding # {}
    /\ call' = [call EXCEPT ![c].adding = {}]
    /\ hobbled' = TRUE
    /\ UNCHANGED <<oneClient, decoding, writer, reader, calls, registered, regenerated>>

FinishRegenerate(c) ==
    /\ call[c].op = "scan" /\ call[c].todo = {} /\ call[c].adding = {}
    /\ regenerated' = IF call[c].alone /\ ~hobbled THEN call[c].zoos ELSE regenerated
    /\ call' = [call EXCEPT ![c] = Idle]
    /\ UNCHANGED <<oneClient, decoding, writer, reader, calls, registered, hobbled>>

(* A command fails outside the try, or the process ends: what is deleted    *)
(* stays deleted.                                                           *)
BreakOff(c) ==
    /\ call[c].op # "idle"
    /\ call' = [call EXCEPT ![c] = Idle]
    /\ hobbled' = (hobbled \/ Regenerating(c))
    /\ UNCHANGED <<oneClient, decoding, writer, reader, calls, registered, regenerated>>

-----------------------------------------------------------------------------

OneCommand(c) ==
    \/ \E t \in Tokens, z \in Zoos : SetUser(c, t, z) \/ SetIndex(c, z, t)
    \/ \E t \in Tokens : Delete(c, t) \/ Expire(c, t) \/ DeleteFromIndex(c, t)
    \/ \E z \in Zoos : DeleteIndex(c, z)
    \/ \E zoos \in SUBSET Zoos : ChangeZoos(c, zoos)

ManyCommands(c) ==
    \/ \E z \in Zoos : BeginDeleteByIndex(c, z)
    \/ DeleteMember(c) \/ FinishDeleteByIndex(c)
    \/ \E targets \in (SUBSET Zoos) \ {{}} : BeginRegenerate(c, targets)
    \/ ClearIndex(c) \/ BeginScan(c) \/ Visit(c) \/ AddVisited(c) \/ AddFails(c)
    \/ FinishRegenerate(c) \/ BreakOff(c)

Next ==
    \/ Replicate
    \/ \E t \in Tokens : Expires(t)
    \/ \E c \in Clients : OneCommand(c) \/ ManyCommands(c)

Spec == Init /\ [][Next]_vars

-----------------------------------------------------------------------------
(* Properties *)

(* Every variable keeps its type. *)
TypeOK ==
    /\ oneClient \in BOOLEAN /\ decoding \in BOOLEAN
    /\ writer \in Databases /\ reader \in Databases
    /\ DOMAIN call = Clients /\ calls \in 0..MaxCalls
    /\ registered \subseteq Tokens /\ hobbled \in BOOLEAN /\ regenerated \subseteq Zoos

(* With one client, regenerate_indices may run beside any other calls and   *)
(* beside itself: once none is in progress, every user that was set and     *)
(* then indexed, and not removed since, is in the index of its zoo, unless  *)
(* a regeneration was limited to targets or broke off.                      *)
RegisteredIsIndexed ==
    oneClient /\ ~hobbled /\ (\A c \in Clients : ~Regenerating(c)) =>
        \A t \in registered : t \in writer.index[writer.user[t]]

(* With one client, and nobody writing beside it, a regeneration leaves     *)
(* exactly the users of a zoo in the index of each zoo get_zoos tells of:   *)
(* no user is missing, and none that moved away or is deleted is left.      *)
RegenerationIsExact ==
    oneClient => \A z \in regenerated : writer.index[z] = SentTo(writer, z)

-----------------------------------------------------------------------------
(* What the tests say and the code does not do *)

(* test_delete_from_index: the token leaves the index of its target.        *)
DeletedFromIndex ==
    [][\A c \in Clients, t \in Tokens :
         oneClient /\ writer.user[t] # None /\ DeleteFromIndex(c, t)
           => t \notin writer'.index[writer.user[t]]]_vars
=============================================================================
