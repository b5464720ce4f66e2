----------------------- MODULE UserDirectory_proofs -----------------------
(***************************************************************************)
(* Machine-checked proofs about UserDirectory, for every set of clients,   *)
(* tokens and zoos and every number of calls.                              *)
(***************************************************************************)
EXTENDS UserDirectory, TLAPS

-----------------------------------------------------------------------------
(* The inductive invariant *)

Additions == [token : Tokens, zoo : Zoos]

(* How far the calls can have come. *)
CallStates ==
    {Idle}
      \union [op : {"delete"}, zoo : Zoos, members : SUBSET Tokens]
      \union [op : {"clear"}, zoos : SUBSET Zoos, left : SUBSET Zoos,
              targets : SUBSET Zoos, alone : BOOLEAN]
      \union [op : {"scan"}, zoos : SUBSET Zoos, adding : SUBSET Additions,
              targets : SUBSET Zoos, alone : BOOLEAN, todo : SUBSET Tokens]

CallsOK == call \in [Clients -> CallStates]

(* What a regeneration works on: it clears indices, and finds users, only   *)
(* where names read from Redis can be used, and it adds one user at a time. *)
WorkOf(c) ==
    /\ Regenerating(c) => /\ call[c].zoos # {} => decoding
                          /\ ~hobbled => call[c].targets = Zoos
    /\ call[c].op = "clear" => call[c].left \subseteq call[c].zoos
    /\ call[c].op = "scan" => \A a, b \in call[c].adding : a = b

(* The regeneration of c has yet to come to t. *)
WillIndex(c, t) ==
    \/ call[c].op = "clear" /\ decoding
    \/ /\ call[c].op = "scan"
       /\ \/ t \in call[c].todo
          \/ \E a \in call[c].adding : a.token = t /\ a.zoo = writer.user[t]

(* A registered user is in its index, or a regeneration will put it back.   *)
IndexedOrWillBe(t) ==
    /\ writer.user[t] # None
    /\ t \in writer.index[writer.user[t]] \/ \E c \in Clients : WillIndex(c, t)

RegisteredInv == oneClient /\ ~hobbled => \A t \in registered : IndexedOrWillBe(t)

(* Where nobody writes beside a regeneration, the indices it has cleared    *)
(* are empty until it scans; then they hold users of their zoo only, and    *)
(* lack none but those the scan has yet to come to.                         *)
AloneInv(c) ==
    /\ call[c].op = "clear" => \A z \in call[c].zoos \ call[c].left : writer.index[z] = {}
    /\ call[c].op = "scan" =>
         /\ \A a \in call[c].adding : writer.user[a.token] = a.zoo
         /\ \A z \in call[c].zoos :
              /\ writer.index[z] \subseteq SentTo(writer, z)
              /\ \A t \in SentTo(writer, z) : t \in writer.index[z] \/ WillIndex(c, t)

AloneOf(c) == oneClient /\ ~hobbled /\ Regenerating(c) /\ call[c].alone => AloneInv(c)

DirectoryInv ==
    /\ CallsOK
    /\ \A c \in Clients : WorkOf(c) /\ AloneOf(c)
    /\ RegisteredInv
    /\ RegenerationIsExact

-----------------------------------------------------------------------------
(* The databases *)

LEMMA RemovedIs ==
    ASSUME NEW db \in Databases, NEW T \in SUBSET Tokens
    PROVE  /\ Removed(db, T) \in Databases
           /\ Removed(db, T).index = db.index
           /\ \A t \in Tokens : Removed(db, T).user[t] = IF t \in T THEN None ELSE db.user[t]
BY DEF Databases, Removed

LEMMA IndexedIs ==
    ASSUME NEW db \in Databases, NEW z \in Zoos, NEW t \in Tokens
    PROVE  /\ Indexed(db, z, t) \in Databases
           /\ Indexed(db, z, t).user = db.user
           /\ Indexed(db, z, t).index[z] = db.index[z] \union {t}
           /\ \A y \in Zoos \ {z} : Indexed(db, z, t).index[y] = db.index[y]
BY DEF Databases, Indexed

LEMMA UnindexedIs ==
    ASSUME NEW db \in Databases, NEW z \in Zoos
    PROVE  /\ Unindexed(db, z) \in Databases
           /\ Unindexed(db, z).user = db.user
           /\ Unindexed(db, z).index[z] = {}
           /\ \A y \in Zoos \ {z} : Unindexed(db, z).index[y] = db.index[y]
BY DEF Databases, Unindexed

(* What each kind of call holds. *)
LEMMA CallFields ==
    ASSUME CallsOK, NEW c \in Clients
    PROVE  /\ call[c].op \in {"idle", "delete", "clear", "scan"}
           /\ call[c].op = "delete" => /\ call[c].zoo \in Zoos
                                       /\ call[c].members \subseteq Tokens
           /\ Regenerating(c) => /\ call[c].zoos \subseteq Zoos
                                 /\ call[c].targets \subseteq Zoos
                                 /\ call[c].alone \in BOOLEAN
           /\ call[c].op = "clear" => call[c].left \subseteq Zoos
           /\ call[c].op = "scan" => /\ call[c].adding \subseteq Additions
                                     /\ call[c].todo \subseteq Tokens
BY DEF CallsOK, CallStates, Idle, Regenerating

-----------------------------------------------------------------------------
(* A write beside the regenerations *)

(* A step goes on with the regeneration of c where it was. *)
Kept(c) ==
    /\ Regenerating(c)' <=> Regenerating(c)
    /\ Regenerating(c) =>
         /\ call'[c].op = call[c].op
         /\ call'[c].zoos = call[c].zoos /\ call'[c].targets = call[c].targets
    /\ call[c].op = "clear" => call'[c].left = call[c].left
    /\ call[c].op = "scan" => call'[c].adding = call[c].adding /\ call'[c].todo = call[c].todo

NotAlone(c) == Regenerating(c) => ~call[c].alone

LEMMA DisturbIs ==
    ASSUME CallsOK, NEW c \in Clients
    PROVE  /\ Disturb[c] \in CallStates
           /\ ~Regenerating(c) => Disturb[c] = call[c]
           /\ Regenerating(c) =>
                /\ Disturb[c].op = call[c].op
                /\ Disturb[c].zoos = call[c].zoos /\ Disturb[c].targets = call[c].targets
                /\ ~Disturb[c].alone
           /\ call[c].op = "clear" => Disturb[c].left = call[c].left
           /\ call[c].op = "scan" => /\ Disturb[c].adding = call[c].adding
                                     /\ Disturb[c].todo = call[c].todo
<1>1. CASE ~Regenerating(c)
  BY <1>1 DEF CallsOK, Regenerating, Disturb
<1>2. CASE Regenerating(c)
  <2>1. PICK r : r = [call[c] EXCEPT !.alone = FALSE]
    OBVIOUS
  <2>2. Disturb[c] = r
    BY <1>2, <2>1 DEF Disturb
  <2>3. CASE call[c].op = "clear"
    <3>1. call[c] \in [op : {"clear"}, zoos : SUBSET Zoos, left : SUBSET Zoos,
                       targets : SUBSET Zoos, alone : BOOLEAN]
      BY <2>3 DEF CallsOK, CallStates, Idle
    <3>2. r \in [op : {"clear"}, zoos : SUBSET Zoos, left : SUBSET Zoos,
                 targets : SUBSET Zoos, alone : BOOLEAN]
      BY <2>1, <3>1
    <3>3. /\ r.op = call[c].op /\ r.zoos = call[c].zoos /\ r.targets = call[c].targets
          /\ ~r.alone /\ r.left = call[c].left
      BY <2>1, <3>1
    <3> QED
      BY <1>2, <2>2, <2>3, <3>2, <3>3 DEF CallStates
  <2>4. CASE call[c].op = "scan"
    <3>1. call[c] \in [op : {"scan"}, zoos : SUBSET Zoos, adding : SUBSET Additions,
                       targets : SUBSET Zoos, alone : BOOLEAN, todo : SUBSET Tokens]
      BY <2>4 DEF CallsOK, CallStates, Idle
    <3>2. r \in [op : {"scan"}, zoos : SUBSET Zoos, adding : SUBSET Additions,
                 targets : SUBSET Zoos, alone : BOOLEAN, todo : SUBSET Tokens]
      BY <2>1, <3>1
    <3>3. /\ r.op = call[c].op /\ r.zoos = call[c].zoos /\ r.targets = call[c].targets
          /\ ~r.alone /\ r.adding = call[c].adding /\ r.todo = call[c].todo
      BY <2>1, <3>1
    <3> QED
      BY <1>2, <2>2, <2>4, <3>2, <3>3 DEF CallStates
  <2> QED
    BY <1>2, <2>3, <2>4 DEF Regenerating
<1> QED
  BY <1>1, <1>2

LEMMA DisturbKeeps ==
    ASSUME CallsOK, NEW c \in Clients, call'[c] = Disturb[c]
    PROVE  call'[c] \in CallStates /\ Kept(c) /\ NotAlone(c)'
BY DisturbIs DEF Kept, NotAlone, Regenerating

LEMMA KeptWork ==
    ASSUME NEW c \in Clients, WorkOf(c), Kept(c), UNCHANGED <<decoding, hobbled>>
    PROVE  WorkOf(c)'
BY DEF WorkOf, Kept, Regenerating

LEMMA KeptWillIndex ==
    ASSUME NEW c \in Clients, NEW t \in Tokens, WillIndex(c, t), Kept(c),
           UNCHANGED decoding, writer'.user[t] = writer.user[t]
    PROVE  WillIndex(c, t)'
BY DEF WillIndex, Kept, Regenerating

(* A registered token stays as registered as it was. *)
StaysIndexed(t) ==
    /\ t \in registered
    /\ writer'.user[t] = writer.user[t]
    /\ writer.user[t] # None =>
         (t \in writer.index[writer.user[t]] => t \in writer'.index[writer.user[t]])

BecomesIndexed(t) == writer'.user[t] # None /\ t \in writer'.index[writer'.user[t]]

LEMMA WriteStep ==
    ASSUME TypeOK, DirectoryInv, \A c \in Clients : Kept(c) /\ NotAlone(c)',
           CallsOK', TypeOK', regenerated' = {}, UNCHANGED <<oneClient, decoding, hobbled>>,
           \A t \in registered' : StaysIndexed(t) \/ BecomesIndexed(t)
    PROVE  DirectoryInv'
<1>1. \A c \in Clients : WorkOf(c)'
  BY KeptWork DEF DirectoryInv
<1>2. \A c \in Clients : AloneOf(c)'
  BY DEF NotAlone, AloneOf
<1>3. ASSUME oneClient', ~hobbled', NEW t \in registered' PROVE IndexedOrWillBe(t)'
  <2>1. t \in Tokens
    BY DEF TypeOK
  <2>2. CASE StaysIndexed(t)
    <3>1. IndexedOrWillBe(t)
      BY <1>3, <2>2 DEF StaysIndexed, DirectoryInv, RegisteredInv
    <3>2. \A c \in Clients : WillIndex(c, t) => WillIndex(c, t)'
      BY <2>1, <2>2, KeptWillIndex DEF StaysIndexed
    <3> QED
      BY <2>2, <3>1, <3>2 DEF StaysIndexed, IndexedOrWillBe
  <2>3. CASE BecomesIndexed(t)
    BY <2>3 DEF BecomesIndexed, IndexedOrWillBe
  <2> QED
    BY <1>3, <2>2, <2>3
<1>4. RegisteredInv'
  BY <1>3 DEF RegisteredInv
<1>5. RegenerationIsExact'
  BY DEF RegenerationIsExact
<1> QED
  BY <1>1, <1>2, <1>4, <1>5 DEF DirectoryInv

(* A command of Wrote. *)
LEMMA WroteStep ==
    ASSUME TypeOK, DirectoryInv, TypeOK', NEW db, Wrote(db),
           \A t \in registered' : StaysIndexed(t) \/ BecomesIndexed(t)
    PROVE  DirectoryInv'
<1>1. CallsOK /\ call' = Disturb
  BY DEF DirectoryInv, Wrote
<1>2. \A c \in Clients : call'[c] \in CallStates /\ Kept(c) /\ NotAlone(c)'
  BY <1>1, DisturbKeeps
<1>3. CallsOK'
  BY <1>1, <1>2 DEF CallsOK, Disturb
<1> QED
  BY <1>2, <1>3, WriteStep DEF Wrote

-----------------------------------------------------------------------------
(* Types *)

LEMMA TypeStep ==
    ASSUME TypeOK, CallsOK, [Next]_vars
    PROVE  TypeOK' /\ CallsOK'
<1>1. writer \in Databases /\ DOMAIN Disturb = Clients
  BY DEF TypeOK, Disturb
<1>2. Disturb \in [Clients -> CallStates]
  BY DisturbIs DEF Disturb
<1>3. ASSUME NEW db \in Databases, Wrote(db) PROVE /\ writer' \in Databases /\ CallsOK'
                                                   /\ DOMAIN call' = Clients
                                                   /\ hobbled' = hobbled /\ regenerated' = {}
                                                   /\ UNCHANGED <<oneClient, decoding, reader>>
  BY <1>1, <1>2, <1>3 DEF Wrote, CallsOK
<1>4. ASSUME NEW c \in Clients, Calling(c) PROVE calls' \in 0..MaxCalls
  BY <1>4, DirectoryAssumption DEF Calling, TypeOK
<1>5. ASSUME NEW c \in Clients, NEW r \in CallStates, call' = [call EXCEPT ![c] = r]
      PROVE  CallsOK' /\ DOMAIN call' = Clients
  BY <1>5 DEF CallsOK
<1>6. ASSUME NEW c \in Clients, NEW r \in CallStates, call' = [Disturb EXCEPT ![c] = r]
      PROVE  CallsOK' /\ DOMAIN call' = Clients
  BY <1>2, <1>6 DEF CallsOK
<1>7. Idle \in CallStates
  BY DEF CallStates
<1>8. ReadView \in Databases
  BY DEF ReadView, TypeOK
<1>9. CASE UNCHANGED vars
  BY <1>9 DEF vars, TypeOK, CallsOK
<1>10. CASE Replicate
  BY <1>10 DEF Replicate, TypeOK, CallsOK
<1>11. ASSUME NEW t \in Tokens, Expires(t) PROVE TypeOK' /\ CallsOK'
  <2>1. Removed(writer, {t}) \in Databases
    BY <1>1, RemovedIs
  <2> QED
    BY <1>3, <1>11, <2>1 DEF Expires, TypeOK
<1>12. ASSUME NEW c \in Clients, NEW t \in Tokens, NEW z \in Zoos, SetUser(c, t, z)
       PROVE  TypeOK' /\ CallsOK'
  <2>1. [writer EXCEPT !.user[t] = z] \in Databases
    BY <1>1 DEF Databases
  <2> QED
    BY <1>3, <1>4, <1>12, <2>1 DEF SetUser, TypeOK
<1>13. ASSUME NEW c \in Clients, NEW t \in Tokens, NEW z \in Zoos, SetIndex(c, z, t)
       PROVE  TypeOK' /\ CallsOK'
  <2>1. Indexed(writer, z, t) \in Databases
    BY <1>1, IndexedIs
  <2>2. registered' \subseteq Tokens
    BY <1>13 DEF SetIndex, TypeOK
  <2> QED
    BY <1>3, <1>4, <1>13, <2>1, <2>2 DEF SetIndex, TypeOK
<1>14. ASSUME NEW c \in Clients, NEW t \in Tokens, Delete(c, t) PROVE TypeOK' /\ CallsOK'
  <2>1. Removed(writer, {t}) \in Databases
    BY <1>1, RemovedIs
  <2> QED
    BY <1>3, <1>4, <1>14, <2>1 DEF Delete, TypeOK
<1>15. ASSUME NEW c \in Clients, NEW t \in Tokens, Expire(c, t) PROVE TypeOK' /\ CallsOK'
  <2>1. [writer EXCEPT !.ttl = @ \union {t}] \in Databases
    BY <1>1 DEF Databases
  <2> QED
    BY <1>3, <1>4, <1>15, <2>1 DEF Expire, TypeOK
<1>16. ASSUME NEW c \in Clients, NEW t \in Tokens, DeleteFromIndex(c, t)
       PROVE  TypeOK' /\ CallsOK'
  BY <1>4, <1>16 DEF DeleteFromIndex, TypeOK, CallsOK
<1>17. ASSUME NEW c \in Clients, NEW z \in Zoos, DeleteIndex(c, z) PROVE TypeOK' /\ CallsOK'
  <2>1. Unindexed(writer, z) \in Databases
    BY <1>1, UnindexedIs
  <2> QED
    BY <1>3, <1>4, <1>17, <2>1 DEF DeleteIndex, TypeOK
<1>18. ASSUME NEW c \in Clients, NEW zoos \in SUBSET Zoos, ChangeZoos(c, zoos)
       PROVE  TypeOK' /\ CallsOK'
  <2>1. [writer EXCEPT !.zoos = zoos] \in Databases
    BY <1>1 DEF Databases
  <2> QED
    BY <1>3, <1>4, <1>18, <2>1 DEF ChangeZoos, TypeOK
<1>19. ASSUME NEW c \in Clients, NEW z \in Zoos, BeginDeleteByIndex(c, z)
       PROVE  TypeOK' /\ CallsOK'
  <2>1. PICK r : r = [op |-> "delete", zoo |-> z, members |-> Named(ReadView.index[z])]
    OBVIOUS
  <2>2. r \in CallStates
    BY <1>8, <2>1 DEF CallStates, Named, Databases
  <2> QED
    BY <1>4, <1>5, <1>19, <2>1, <2>2 DEF BeginDeleteByIndex, TypeOK
<1>20. ASSUME NEW c \in Clients, DeleteMember(c) PROVE TypeOK' /\ CallsOK'
  <2>1. PICK t \in call[c].members :
           /\ writer' = Removed(writer, {t})
           /\ call' = [Disturb EXCEPT ![c].members = @ \ {t}]
           /\ registered' = registered \ {t}
    BY <1>20 DEF DeleteMember
  <2>2. call[c].op = "delete" /\ t \in Tokens
    BY <1>20, <2>1, CallFields DEF DeleteMember
  <2>3. writer' \in Databases
    BY <1>1, <2>1, <2>2, RemovedIs
  <2>4. Disturb[c] = call[c]
    BY <2>2, DisturbIs DEF Regenerating
  <2>5. PICK r : r = [call[c] EXCEPT !.members = @ \ {t}]
    OBVIOUS
  <2>6. call[c] \in [op : {"delete"}, zoo : Zoos, members : SUBSET Tokens]
    BY <2>2 DEF CallsOK, CallStates, Idle
  <2>7. r \in CallStates
    BY <2>5, <2>6 DEF CallStates
  <2>8. call' = [Disturb EXCEPT ![c] = r]
    BY <1>2, <2>1, <2>4, <2>5
  <2> QED
    BY <1>6, <1>20, <2>1, <2>3, <2>7, <2>8 DEF DeleteMember, TypeOK
<1>21. ASSUME NEW c \in Clients, FinishDeleteByIndex(c) PROVE TypeOK' /\ CallsOK'
  <2>1. call[c].zoo \in Zoos
    BY <1>21, CallFields DEF FinishDeleteByIndex
  <2>2. writer' \in Databases
    BY <1>1, <1>21, <2>1, UnindexedIs DEF FinishDeleteByIndex
  <2> QED
    BY <1>6, <1>7, <1>21, <2>2 DEF FinishDeleteByIndex, TypeOK
<1>22. ASSUME NEW c \in Clients, NEW targets \in (SUBSET Zoos) \ {{}}, BeginRegenerate(c, targets)
       PROVE  TypeOK' /\ CallsOK'
  <2>1. PICK zoos : zoos = Named(ReadView.zoos)
    OBVIOUS
  <2>2. PICK r : r = [op |-> "clear", zoos |-> zoos, left |-> zoos,
                      targets |-> targets, alone |-> TRUE]
    OBVIOUS
  <2>3. zoos \subseteq Zoos
    BY <1>8, <2>1 DEF Named, Databases
  <2>4. r \in CallStates
    BY <2>2, <2>3 DEF CallStates
  <2>5. call' = [call EXCEPT ![c] = r]
    BY <1>22, <2>1, <2>2 DEF BeginRegenerate
  <2> QED
    BY <1>4, <1>5, <1>22, <2>4, <2>5 DEF BeginRegenerate, TypeOK
<1>23. ASSUME NEW c \in Clients, ClearIndex(c) PROVE TypeOK' /\ CallsOK'
  <2>1. PICK z \in call[c].left :
           /\ writer' = Unindexed(writer, z)
           /\ call' = Progress(c, [call[c] EXCEPT !.left = @ \ {z}])
    BY <1>23 DEF ClearIndex
  <2>2. call[c].op = "clear" /\ z \in Zoos
    BY <1>23, <2>1, CallFields DEF ClearIndex
  <2>3. writer' \in Databases
    BY <1>1, <2>1, <2>2, UnindexedIs
  <2>4. PICK r : r = [call[c] EXCEPT !.left = @ \ {z}]
    OBVIOUS
  <2>5. call[c] \in [op : {"clear"}, zoos : SUBSET Zoos, left : SUBSET Zoos,
                     targets : SUBSET Zoos, alone : BOOLEAN]
    BY <2>2 DEF CallsOK, CallStates, Idle
  <2>6. r \in CallStates
    BY <2>4, <2>5 DEF CallStates
  <2>7. call' = [Disturb EXCEPT ![c] = r]
    BY <2>1, <2>4 DEF Progress
  <2> QED
    BY <1>6, <1>23, <2>3, <2>6, <2>7 DEF ClearIndex, TypeOK
<1>24. ASSUME NEW c \in Clients, BeginScan(c) PROVE TypeOK' /\ CallsOK'
  <2>1. PICK r : r = [op |-> "scan", zoos |-> call[c].zoos, adding |-> {},
                      targets |-> call[c].targets, alone |-> call[c].alone,
                      todo |-> ToScan(ReadView)]
    OBVIOUS
  <2>2. /\ call[c].zoos \subseteq Zoos /\ call[c].targets \subseteq Zoos
        /\ call[c].alone \in BOOLEAN
    BY <1>24, CallFields DEF BeginScan, Regenerating
  <2>3. ToScan(ReadView) \subseteq Tokens
    BY DEF ToScan, Named
  <2>4. r \in CallStates
    BY <2>1, <2>2, <2>3 DEF CallStates
  <2>5. call' = [call EXCEPT ![c] = r]
    BY <1>24, <2>1 DEF BeginScan
  <2> QED
    BY <1>5, <1>24, <2>4, <2>5 DEF BeginScan, TypeOK
<1>25. ASSUME NEW c \in Clients, call[c].op = "scan", NEW todo \in SUBSET Tokens,
              NEW adding \in SUBSET Additions, NEW r,
              r = [call[c] EXCEPT !.todo = todo, !.adding = adding]
       PROVE  r \in CallStates
  <2>1. call[c] \in [op : {"scan"}, zoos : SUBSET Zoos, adding : SUBSET Additions,
                     targets : SUBSET Zoos, alone : BOOLEAN, todo : SUBSET Tokens]
    BY <1>25 DEF CallsOK, CallStates, Idle
  <2> QED
    BY <1>25, <2>1 DEF CallStates
<1>26. ASSUME NEW c \in Clients, Visit(c) PROVE TypeOK' /\ CallsOK'
  <2>1. PICK t \in Named(Tokens) :
           LET found == {ReadView.user[t]} \intersect call[c].targets
           IN  call' = [call EXCEPT ![c].todo = @ \ {t},
                                    ![c].adding = {[token |-> t, zoo |-> z] : z \in found}]
    BY <1>26 DEF Visit
  <2>2. PICK adding : adding = {[token |-> t, zoo |-> z] :
                                  z \in {ReadView.user[t]} \intersect call[c].targets}
    OBVIOUS
  <2>3. PICK todo : todo = call[c].todo \ {t}
    OBVIOUS
  <2>4. PICK r : r = [call[c] EXCEPT !.todo = todo, !.adding = adding]
    OBVIOUS
  <2>5. /\ call[c].op = "scan" /\ call[c].targets \subseteq Zoos
        /\ call[c].todo \subseteq Tokens /\ t \in Tokens
    BY <1>26, CallFields DEF Visit, Regenerating, Named
  <2>6. adding \subseteq Additions
    BY <2>2, <2>5 DEF Additions
  <2>7. r \in CallStates
    BY <1>25, <2>3, <2>4, <2>5, <2>6
  <2>8. call' = [call EXCEPT ![c] = r]
    BY <2>1, <2>2, <2>3, <2>4 DEF CallsOK
  <2> QED
    BY <1>5, <1>26, <2>7, <2>8 DEF Visit, TypeOK
<1>27. ASSUME NEW c \in Clients, AddVisited(c) PROVE TypeOK' /\ CallsOK'
  <2>1. PICK a \in call[c].adding : writer' = Indexed(writer, a.zoo, a.token)
    BY <1>27 DEF AddVisited
  <2>2. /\ call[c].op = "scan" /\ a.zoo \in Zoos /\ a.token \in Tokens
        /\ call[c].todo \subseteq Tokens
    BY <1>27, <2>1, CallFields DEF AddVisited, Additions
  <2>3. writer' \in Databases
    BY <1>1, <2>1, <2>2, IndexedIs
  <2>4. PICK r : r = [call[c] EXCEPT !.adding = {}]
    OBVIOUS
  <2>5. call[c] \in [op : {"scan"}, zoos : SUBSET Zoos, adding : SUBSET Additions,
                     targets : SUBSET Zoos, alone : BOOLEAN, todo : SUBSET Tokens]
    BY <2>2 DEF CallsOK, CallStates, Idle
  <2>6. r \in CallStates
    BY <2>4, <2>5 DEF CallStates
  <2>7. call' = [Disturb EXCEPT ![c] = r]
    BY <1>27, <2>4 DEF AddVisited, Progress
  <2> QED
    BY <1>6, <1>27, <2>3, <2>6, <2>7 DEF AddVisited, TypeOK
<1>28. ASSUME NEW c \in Clients, AddFails(c) PROVE TypeOK' /\ CallsOK'
  <2>1. PICK r : r = [call[c] EXCEPT !.adding = {}]
    OBVIOUS
  <2>2. call[c] \in [op : {"scan"}, zoos : SUBSET Zoos, adding : SUBSET Additions,
                     targets : SUBSET Zoos, alone : BOOLEAN, todo : SUBSET Tokens]
    BY <1>28 DEF AddFails, CallsOK, CallStates, Idle
  <2>3. r \in CallStates
    BY <2>1, <2>2 DEF CallStates
  <2>4. call' = [call EXCEPT ![c] = r]
    BY <1>28, <2>1 DEF AddFails
  <2> QED
    BY <1>5, <1>28, <2>3, <2>4 DEF AddFails, TypeOK
<1>29. ASSUME NEW c \in Clients, FinishRegenerate(c) PROVE TypeOK' /\ CallsOK'
  <2>1. call[c].zoos \subseteq Zoos
    BY <1>29, CallFields DEF FinishRegenerate, Regenerating
  <2>2. regenerated' \subseteq Zoos
    BY <1>29, <2>1 DEF FinishRegenerate, TypeOK
  <2> QED
    BY <1>5, <1>7, <1>29, <2>2 DEF FinishRegenerate, TypeOK
<1>30. ASSUME NEW c \in Clients, BreakOff(c) PROVE TypeOK' /\ CallsOK'
  <2>1. hobbled' \in BOOLEAN
    BY <1>30 DEF BreakOff
  <2> QED
    BY <1>5, <1>7, <1>30, <2>1 DEF BreakOff, TypeOK
<1> QED
  BY <1>9, <1>10, <1>11, <1>12, <1>13, <1>14, <1>15, <1>16, <1>17, <1>18, <1>19, <1>20,
     <1>21, <1>22, <1>23, <1>24, <1>26, <1>27, <1>28, <1>29, <1>30
     DEF Next, OneCommand, ManyCommands

-----------------------------------------------------------------------------
(* The steps of the calls that send one command *)

LEMMA OneCommandStep ==
    ASSUME TypeOK, DirectoryInv, TypeOK',
           (\E t \in Tokens : Expires(t)) \/ (\E c \in Clients : OneCommand(c))
    PROVE  DirectoryInv'
<1>1. writer \in Databases /\ writer' \in Databases /\ registered \subseteq Tokens
  BY DEF TypeOK
<1>2. ASSUME NEW t \in Tokens, Wrote(Removed(writer, {t})), registered' = registered \ {t}
      PROVE  DirectoryInv'
  <2>1. writer' = Removed(writer, {t})
    BY <1>2 DEF Wrote
  <2>2. /\ writer'.index = writer.index
        /\ \A u \in Tokens : u # t => writer'.user[u] = writer.user[u]
    BY <1>1, <2>1, RemovedIs
  <2>3. \A u \in registered' : StaysIndexed(u)
    BY <1>1, <1>2, <2>2 DEF StaysIndexed
  <2> QED
    BY <1>2, <2>3, WroteStep
<1>3. ASSUME NEW db \in Databases, Wrote(db), db.user = writer.user, db.index = writer.index,
             registered' = registered
      PROVE  DirectoryInv'
  <2>1. \A u \in registered' : StaysIndexed(u)
    BY <1>3 DEF StaysIndexed, Wrote
  <2> QED
    BY <1>3, <2>1, WroteStep
<1>4. ASSUME NEW t \in Tokens, Expires(t) PROVE DirectoryInv'
  BY <1>2, <1>4 DEF Expires
<1>5. ASSUME NEW c \in Clients, NEW t \in Tokens, NEW z \in Zoos, SetUser(c, t, z)
      PROVE  DirectoryInv'
  <2>1. writer' = [writer EXCEPT !.user[t] = z] /\ registered' = registered \ {t}
    BY <1>5 DEF SetUser, Wrote
  <2>2. /\ writer'.index = writer.index
        /\ \A u \in Tokens : u # t => writer'.user[u] = writer.user[u]
    BY <1>1, <2>1 DEF Databases
  <2>3. \A u \in registered' : StaysIndexed(u)
    BY <1>1, <2>1, <2>2 DEF StaysIndexed
  <2> QED
    BY <1>5, <2>3, WroteStep DEF SetUser
<1>6. ASSUME NEW c \in Clients, NEW t \in Tokens, NEW z \in Zoos, SetIndex(c, z, t)
      PROVE  DirectoryInv'
  <2>1. /\ writer' = Indexed(writer, z, t)
        /\ registered' = IF writer.user[t] = z THEN registered \union {t} ELSE registered
    BY <1>6 DEF SetIndex, Wrote
  <2>2. /\ writer'.user = writer.user
        /\ writer'.index[z] = writer.index[z] \union {t}
        /\ \A y \in Zoos \ {z} : writer'.index[y] = writer.index[y]
    BY <1>1, <2>1, IndexedIs
  <2>3. ASSUME NEW u \in registered' PROVE StaysIndexed(u) \/ BecomesIndexed(u)
    <3>1. CASE u \in registered
      <4>1. writer.user[u] \in Zoos \union {None}
        BY <1>1, <3>1 DEF Databases
      <4> QED
        BY <2>2, <3>1, <4>1 DEF StaysIndexed
    <3>2. CASE u \notin registered
      <4>1. u = t /\ writer.user[t] = z /\ z # None
        BY <2>1, <2>3, <3>2, DirectoryAssumption
      <4> QED
        BY <2>2, <4>1 DEF BecomesIndexed
    <3> QED
      BY <3>1, <3>2
  <2> QED
    BY <1>6, <2>3, WroteStep DEF SetIndex
<1>7. ASSUME NEW c \in Clients, NEW t \in Tokens, Delete(c, t) PROVE DirectoryInv'
  BY <1>2, <1>7 DEF Delete
<1>8. ASSUME NEW c \in Clients, NEW t \in Tokens, Expire(c, t) PROVE DirectoryInv'
  <2>1. PICK db : db = [writer EXCEPT !.ttl = @ \union {t}]
    OBVIOUS
  <2>2. db \in Databases /\ db.user = writer.user /\ db.index = writer.index
    BY <1>1, <2>1 DEF Databases
  <2> QED
    BY <1>3, <1>8, <2>1, <2>2 DEF Expire
<1>9. ASSUME NEW c \in Clients, NEW t \in Tokens, DeleteFromIndex(c, t) PROVE DirectoryInv'
  BY <1>9 DEF DeleteFromIndex, DirectoryInv, CallsOK, WorkOf, AloneOf, AloneInv, RegisteredInv,
     IndexedOrWillBe, WillIndex, RegenerationIsExact, SentTo, Regenerating
<1>10. ASSUME NEW c \in Clients, NEW z \in Zoos, DeleteIndex(c, z) PROVE DirectoryInv'
  <2>1. writer' = Unindexed(writer, z) /\ registered' = registered \ SentTo(writer, z)
    BY <1>10 DEF DeleteIndex, Wrote
  <2>2. /\ writer'.user = writer.user
        /\ \A y \in Zoos \ {z} : writer'.index[y] = writer.index[y]
    BY <1>1, <2>1, UnindexedIs
  <2>3. ASSUME NEW u \in registered' PROVE StaysIndexed(u)
    <3>1. u \in registered /\ u \in Tokens /\ writer.user[u] # z
      BY <1>1, <2>1, <2>3 DEF SentTo
    <3>2. writer.user[u] \in (Zoos \ {z}) \union {None}
      BY <1>1, <3>1 DEF Databases
    <3> QED
      BY <2>2, <3>1, <3>2 DEF StaysIndexed
  <2> QED
    BY <1>10, <2>3, WroteStep DEF DeleteIndex
<1>11. ASSUME NEW c \in Clients, NEW zoos \in SUBSET Zoos, ChangeZoos(c, zoos)
       PROVE  DirectoryInv'
  <2>1. PICK db : db = [writer EXCEPT !.zoos = zoos]
    OBVIOUS
  <2>2. db \in Databases /\ db.user = writer.user /\ db.index = writer.index
    BY <1>1, <2>1 DEF Databases
  <2> QED
    BY <1>3, <1>11, <2>1, <2>2 DEF ChangeZoos
<1> QED
  BY <1>4, <1>5, <1>6, <1>7, <1>8, <1>9, <1>10, <1>11 DEF OneCommand

-----------------------------------------------------------------------------
(* The steps of the calls that send many commands *)

(* A call that goes on without a write. *)
LEMMA NoWriteStep ==
    ASSUME TypeOK, DirectoryInv, CallsOK', NEW k \in Clients, NEW r,
           call' = [call EXCEPT ![k] = r], UNCHANGED <<oneClient, decoding, writer>>,
           hobbled => hobbled', registered' \subseteq registered, WorkOf(k)', AloneOf(k)',
           ASSUME oneClient, ~hobbled', NEW t \in registered, WillIndex(k, t),
                  writer.user[t] # None
           PROVE  WillIndex(k, t)',
           RegenerationIsExact'
    PROVE  DirectoryInv'
<1>1. \A c \in Clients : c # k => call'[c] = call[c]
  BY DEF DirectoryInv, CallsOK
<1>2. ASSUME NEW c \in Clients, c # k PROVE WorkOf(c)' /\ AloneOf(c)'
  <2>1. WorkOf(c) /\ AloneOf(c) /\ call'[c] = call[c]
    BY <1>1, <1>2 DEF DirectoryInv
  <2> QED
    BY <2>1 DEF WorkOf, AloneOf, AloneInv, SentTo, WillIndex, Regenerating
<1>3. ASSUME oneClient', ~hobbled', NEW t \in registered' PROVE IndexedOrWillBe(t)'
  <2>1. oneClient /\ ~hobbled /\ t \in registered
    BY <1>3
  <2>2. IndexedOrWillBe(t)
    BY <2>1 DEF DirectoryInv, RegisteredInv
  <2>3. ASSUME NEW c \in Clients, WillIndex(c, t) PROVE WillIndex(c, t)'
    <3>1. CASE c = k
      BY <1>3, <2>1, <2>2, <2>3, <3>1 DEF IndexedOrWillBe
    <3>2. CASE c # k
      BY <1>1, <2>3, <3>2 DEF WillIndex
    <3> QED
      BY <3>1, <3>2
  <2> QED
    BY <2>2, <2>3 DEF IndexedOrWillBe
<1>4. RegisteredInv'
  BY <1>3 DEF RegisteredInv
<1> QED
  BY <1>2, <1>4 DEF DirectoryInv

(* A regeneration that writes, beside all the others. *)
LEMMA OwnWriteStep ==
    ASSUME TypeOK, DirectoryInv, CallsOK', NEW k \in Clients, NEW r,
           call' = [Disturb EXCEPT ![k] = r], writer'.user = writer.user,
           UNCHANGED <<oneClient, decoding, hobbled, registered>>, regenerated' = {},
           WorkOf(k)', AloneOf(k)',
           ASSUME NEW t \in registered, writer.user[t] # None,
                  t \in writer.index[writer.user[t]] \/ WillIndex(k, t)
           PROVE  t \in writer'.index[writer.user[t]] \/ WillIndex(k, t)'
    PROVE  DirectoryInv'
<1>1. \A c \in Clients : c # k => call'[c] = Disturb[c]
  BY DEF Disturb
<1>2. ASSUME NEW c \in Clients, c # k PROVE WorkOf(c)' /\ AloneOf(c)'
  <2>1. Kept(c) /\ NotAlone(c)'
    BY <1>1, <1>2, DisturbKeeps DEF DirectoryInv
  <2> QED
    BY <2>1, KeptWork DEF DirectoryInv, AloneOf, NotAlone
<1>3. ASSUME oneClient', ~hobbled', NEW t \in registered' PROVE IndexedOrWillBe(t)'
  <2>1. t \in registered /\ IndexedOrWillBe(t) /\ writer.user[t] # None
    BY <1>3 DEF DirectoryInv, RegisteredInv, IndexedOrWillBe
  <2>2. t \in writer'.index[writer.user[t]] \/ \E c \in Clients : WillIndex(c, t)'
    <3>1. CASE t \in writer.index[writer.user[t]] \/ WillIndex(k, t)
      BY <2>1, <3>1
    <3>2. ASSUME NEW c \in Clients, c # k, WillIndex(c, t)
          PROVE  t \in writer'.index[writer.user[t]] \/ \E d \in Clients : WillIndex(d, t)'
      <4>1. Kept(c) /\ t \in Tokens
        BY <1>1, <2>1, <3>2, DisturbKeeps DEF DirectoryInv, TypeOK
      <4> QED
        BY <3>2, <4>1, KeptWillIndex
    <3> QED
      BY <2>1, <3>1, <3>2 DEF IndexedOrWillBe
  <2> QED
    BY <2>1, <2>2 DEF IndexedOrWillBe
<1>4. RegisteredInv' /\ RegenerationIsExact'
  BY <1>3 DEF RegisteredInv, RegenerationIsExact
<1> QED
  BY <1>2, <1>4 DEF DirectoryInv

LEMMA DeleteByIndexStep ==
    ASSUME TypeOK, DirectoryInv, TypeOK', CallsOK', NEW c \in Clients,
           \/ \E z \in Zoos : BeginDeleteByIndex(c, z)
           \/ DeleteMember(c)
           \/ FinishDeleteByIndex(c)
    PROVE  DirectoryInv'
<1>1. CallsOK /\ RegenerationIsExact /\ writer \in Databases /\ registered \subseteq Tokens
  BY DEF DirectoryInv, TypeOK
<1>2. ASSUME NEW z \in Zoos, BeginDeleteByIndex(c, z) PROVE DirectoryInv'
  <2>1. PICK r : r = [op |-> "delete", zoo |-> z, members |-> Named(ReadView.index[z])]
    OBVIOUS
  <2>2. call' = [call EXCEPT ![c] = r] /\ call[c].op = "idle" /\ r.op = "delete"
    BY <1>2, <2>1 DEF BeginDeleteByIndex, Calling
  <2>3. call'[c] = r
    BY <1>1, <2>2 DEF CallsOK
  <2>4. WorkOf(c)' /\ AloneOf(c)'
    BY <2>2, <2>3 DEF WorkOf, AloneOf, Regenerating
  <2>5. \A t \in registered : ~WillIndex(c, t)
    BY <2>2 DEF WillIndex
  <2>6. RegenerationIsExact'
    BY <1>1, <1>2 DEF BeginDeleteByIndex, RegenerationIsExact, SentTo
  <2>7. /\ UNCHANGED <<oneClient, decoding, writer, hobbled>>
        /\ registered' \subseteq registered
    BY <1>2 DEF BeginDeleteByIndex
  <2> QED
    BY <2>2, <2>4, <2>5, <2>6, <2>7, NoWriteStep
<1>3. ASSUME NEW r, call[c].op = "delete", call' = [Disturb EXCEPT ![c] = r],
             r.op \in {"idle", "delete"}
      PROVE  \A d \in Clients : Kept(d) /\ NotAlone(d)'
  <2>1. \A d \in Clients : d # c => call'[d] = Disturb[d]
    BY <1>3 DEF Disturb
  <2>2. call'[c] = r
    BY <1>3 DEF Disturb
  <2>3. Kept(c) /\ NotAlone(c)'
    BY <1>3, <2>2 DEF Kept, NotAlone, Regenerating
  <2> QED
    BY <1>1, <2>1, <2>3, DisturbKeeps
<1>4. CASE DeleteMember(c)
  <2>1. PICK t \in call[c].members :
           /\ writer' = Removed(writer, {t})
           /\ call' = [Disturb EXCEPT ![c].members = @ \ {t}]
           /\ registered' = registered \ {t}
    BY <1>4 DEF DeleteMember
  <2>2. call[c].op = "delete" /\ t \in Tokens
    BY <1>1, <1>4, <2>1, CallFields DEF DeleteMember
  <2>3. Disturb[c] = call[c]
    BY <1>1, <2>2, DisturbIs DEF Regenerating
  <2>4. PICK r : r = [call[c] EXCEPT !.members = @ \ {t}]
    OBVIOUS
  <2>5. call' = [Disturb EXCEPT ![c] = r]
    BY <2>1, <2>3, <2>4 DEF Disturb
  <2>6. call[c] \in [op : {"delete"}, zoo : Zoos, members : SUBSET Tokens]
    BY <1>1, <2>2 DEF CallsOK, CallStates, Idle
  <2>7. r.op = "delete"
    BY <2>4, <2>6
  <2>8. \A d \in Clients : Kept(d) /\ NotAlone(d)'
    BY <1>3, <2>2, <2>5, <2>7
  <2>9. /\ writer'.index = writer.index
        /\ \A u \in Tokens : u # t => writer'.user[u] = writer.user[u]
    BY <1>1, <2>1, <2>2, RemovedIs
  <2>10. \A u \in registered' : StaysIndexed(u)
    BY <1>1, <2>1, <2>9 DEF StaysIndexed
  <2> QED
    BY <1>4, <2>8, <2>10, WriteStep DEF DeleteMember
<1>5. CASE FinishDeleteByIndex(c)
  <2>1. call[c].op = "delete" /\ call[c].zoo \in Zoos
    BY <1>1, <1>5, CallFields DEF FinishDeleteByIndex
  <2>2. PICK z \in Zoos : z = call[c].zoo
    BY <2>1
  <2>3. writer' = Unindexed(writer, z) /\ registered' = registered \ SentTo(writer, z)
    BY <1>5, <2>2 DEF FinishDeleteByIndex
  <2>4. \A d \in Clients : Kept(d) /\ NotAlone(d)'
    BY <1>3, <1>5, <2>1 DEF FinishDeleteByIndex, Idle
  <2>5. /\ writer'.user = writer.user
        /\ \A y \in Zoos \ {z} : writer'.index[y] = writer.index[y]
    BY <1>1, <2>3, UnindexedIs
  <2>6. ASSUME NEW u \in registered' PROVE StaysIndexed(u)
    <3>1. u \in registered /\ u \in Tokens /\ writer.user[u] # z
      BY <1>1, <2>3, <2>6 DEF SentTo
    <3>2. writer.user[u] \in (Zoos \ {z}) \union {None}
      BY <1>1, <3>1 DEF Databases
    <3> QED
      BY <2>5, <3>1, <3>2 DEF StaysIndexed
  <2> QED
    BY <1>5, <2>4, <2>6, WriteStep DEF FinishDeleteByIndex
<1> QED
  BY <1>2, <1>4, <1>5

LEMMA BeginRegenerateStep ==
    ASSUME TypeOK, DirectoryInv, CallsOK', NEW c \in Clients,
           NEW targets \in (SUBSET Zoos) \ {{}}, BeginRegenerate(c, targets)
    PROVE  DirectoryInv'
<1>1. PICK zoos : zoos = Named(ReadView.zoos)
  OBVIOUS
<1>2. PICK r : r = [op |-> "clear", zoos |-> zoos, left |-> zoos,
                    targets |-> targets, alone |-> TRUE]
  OBVIOUS
<1>3. /\ call[c].op = "idle" /\ call' = [call EXCEPT ![c] = r]
      /\ hobbled' = (hobbled \/ targets # Zoos)
      /\ UNCHANGED <<oneClient, decoding, writer, reader, registered, regenerated>>
  BY <1>1, <1>2 DEF BeginRegenerate, Calling
<1>4. call'[c] = r
  BY <1>3 DEF DirectoryInv, CallsOK
<1>5. r.op = "clear" /\ r.zoos = zoos /\ r.left = zoos /\ r.targets = targets
  BY <1>2
<1>6. WorkOf(c)'
  BY <1>1, <1>3, <1>4, <1>5 DEF WorkOf, Named
<1>7. AloneOf(c)'
  BY <1>4, <1>5 DEF AloneOf, AloneInv
<1>8. \A t \in registered : ~WillIndex(c, t)
  BY <1>3 DEF WillIndex
<1>9. RegenerationIsExact'
  BY <1>3 DEF DirectoryInv, RegenerationIsExact, SentTo
<1> QED
  BY <1>3, <1>6, <1>7, <1>8, <1>9, NoWriteStep

LEMMA ClearIndexStep ==
    ASSUME TypeOK, DirectoryInv, CallsOK', NEW c \in Clients, ClearIndex(c)
    PROVE  DirectoryInv'
<1>1. /\ CallsOK /\ writer \in Databases /\ registered \subseteq Tokens
      /\ call[c].op = "clear" /\ WorkOf(c) /\ AloneOf(c)
  BY DEF DirectoryInv, TypeOK, ClearIndex
<1>2. PICK z \in call[c].left :
         /\ writer' = Unindexed(writer, z)
         /\ call' = Progress(c, [call[c] EXCEPT !.left = @ \ {z}])
  BY DEF ClearIndex
<1>3. PICK r : r = [call[c] EXCEPT !.left = @ \ {z}]
  OBVIOUS
<1>4. call[c] \in [op : {"clear"}, zoos : SUBSET Zoos, left : SUBSET Zoos,
                   targets : SUBSET Zoos, alone : BOOLEAN]
  BY <1>1 DEF CallsOK, CallStates, Idle
<1>5. /\ r.op = "clear" /\ r.zoos = call[c].zoos /\ r.left = call[c].left \ {z}
      /\ r.targets = call[c].targets /\ r.alone = call[c].alone
  BY <1>3, <1>4
<1>6. call' = [Disturb EXCEPT ![c] = r] /\ call'[c] = r
  BY <1>2, <1>3 DEF Progress, Disturb
<1>7. z \in Zoos /\ z \in call[c].zoos /\ decoding
  BY <1>1, <1>2, <1>4 DEF WorkOf, Regenerating
<1>8. /\ writer'.user = writer.user /\ writer'.index[z] = {}
      /\ \A y \in Zoos \ {z} : writer'.index[y] = writer.index[y]
  BY <1>1, <1>2, <1>7, UnindexedIs
<1>9. /\ UNCHANGED <<oneClient, decoding, hobbled, registered>>
      /\ regenerated' = {}
  BY DEF ClearIndex
<1>10. WorkOf(c)'
  BY <1>1, <1>5, <1>6, <1>9 DEF WorkOf, Regenerating
<1>11. AloneOf(c)'
  <2> SUFFICES ASSUME oneClient, ~hobbled, call[c].alone,
                      NEW y \in call[c].zoos \ (call[c].left \ {z})
               PROVE  writer'.index[y] = {}
    BY <1>5, <1>6, <1>9 DEF AloneOf, AloneInv, Regenerating
  <2>1. AloneInv(c) /\ y \in Zoos
    BY <1>1, <1>4 DEF AloneOf, Regenerating
  <2>2. CASE y = z
    BY <1>8, <2>2
  <2>3. CASE y # z
    BY <1>1, <1>8, <2>1, <2>3 DEF AloneInv
  <2> QED
    BY <2>2, <2>3
<1>12. \A t \in registered : WillIndex(c, t)'
  BY <1>5, <1>6, <1>7, <1>9 DEF WillIndex
<1> QED
  BY <1>6, <1>8, <1>9, <1>10, <1>11, <1>12, OwnWriteStep

LEMMA BeginScanStep ==
    ASSUME TypeOK, DirectoryInv, CallsOK', NEW c \in Clients, BeginScan(c)
    PROVE  DirectoryInv'
<1>1. /\ CallsOK /\ writer \in Databases /\ registered \subseteq Tokens
      /\ call[c].op = "clear" /\ call[c].left = {} /\ WorkOf(c) /\ AloneOf(c)
  BY DEF DirectoryInv, TypeOK, BeginScan
<1>2. PICK r : r = [op |-> "scan", zoos |-> call[c].zoos, adding |-> {},
                    targets |-> call[c].targets, alone |-> call[c].alone,
                    todo |-> ToScan(ReadView)]
  OBVIOUS
<1>3. /\ call' = [call EXCEPT ![c] = r] /\ call'[c] = r
      /\ UNCHANGED <<oneClient, decoding, writer, registered, hobbled, regenerated>>
  BY <1>1, <1>2 DEF BeginScan, CallsOK
<1>4. /\ r.op = "scan" /\ r.zoos = call[c].zoos /\ r.adding = {}
      /\ r.targets = call[c].targets /\ r.alone = call[c].alone /\ r.todo = ToScan(ReadView)
  BY <1>2
<1>5. ASSUME oneClient, decoding, NEW t \in Tokens, writer.user[t] # None
      PROVE  WillIndex(c, t)'
  <2>1. t \in r.todo
    BY <1>4, <1>5 DEF ToScan, Named, ReadView
  <2> QED
    BY <1>3, <1>4, <2>1 DEF WillIndex
<1>6. WorkOf(c)'
  BY <1>1, <1>3, <1>4 DEF WorkOf, Regenerating
<1>7. AloneOf(c)'
  <2> SUFFICES ASSUME oneClient, ~hobbled, call[c].alone PROVE AloneInv(c)'
    BY <1>3, <1>4 DEF AloneOf
  <2>1. \A z \in call[c].zoos : writer.index[z] = {}
    BY <1>1 DEF AloneOf, AloneInv, Regenerating
  <2>2. ASSUME NEW z \in call[c].zoos, NEW t \in SentTo(writer, z) PROVE WillIndex(c, t)'
    <3>1. z \in Zoos /\ decoding
      BY <1>1, <2>2, CallFields DEF WorkOf, Regenerating
    <3>2. t \in Tokens /\ writer.user[t] # None
      BY <2>2, <3>1, DirectoryAssumption DEF SentTo
    <3> QED
      BY <1>5, <3>1, <3>2
  <2>3. \A z : SentTo(writer, z)' = SentTo(writer, z)
    BY <1>3 DEF SentTo
  <2> QED
    BY <1>3, <1>4, <2>1, <2>2, <2>3 DEF AloneInv
<1>8. ASSUME oneClient, ~hobbled', NEW t \in registered, WillIndex(c, t), writer.user[t] # None
      PROVE  WillIndex(c, t)'
  BY <1>1, <1>5, <1>8 DEF WillIndex
<1>9. RegenerationIsExact'
  BY <1>3 DEF DirectoryInv, RegenerationIsExact, SentTo
<1> QED
  BY <1>3, <1>6, <1>7, <1>8, <1>9, NoWriteStep

LEMMA VisitStep ==
    ASSUME TypeOK, DirectoryInv, CallsOK', NEW c \in Clients, Visit(c)
    PROVE  DirectoryInv'
<1>1. /\ CallsOK /\ writer \in Databases /\ registered \subseteq Tokens
      /\ call[c].op = "scan" /\ call[c].adding = {} /\ WorkOf(c) /\ AloneOf(c)
  BY DEF DirectoryInv, TypeOK, Visit
<1>2. PICK u \in Named(Tokens) :
         LET found == {ReadView.user[u]} \intersect call[c].targets
         IN  call' = [call EXCEPT ![c].todo = @ \ {u},
                                  ![c].adding = {[token |-> u, zoo |-> z] : z \in found}]
  BY DEF Visit
<1>3. PICK adding : adding = {[token |-> u, zoo |-> z] :
                                z \in {ReadView.user[u]} \intersect call[c].targets}
  OBVIOUS
<1>4. PICK r : r = [call[c] EXCEPT !.todo = @ \ {u}, !.adding = adding]
  OBVIOUS
<1>5. call' = [call EXCEPT ![c] = r] /\ call'[c] = r
  BY <1>1, <1>2, <1>3, <1>4 DEF CallsOK
<1>6. call[c] \in [op : {"scan"}, zoos : SUBSET Zoos, adding : SUBSET Additions,
                   targets : SUBSET Zoos, alone : BOOLEAN, todo : SUBSET Tokens]
  BY <1>1 DEF CallsOK, CallStates, Idle
<1>7. /\ r.op = "scan" /\ r.zoos = call[c].zoos /\ r.adding = adding
      /\ r.targets = call[c].targets /\ r.alone = call[c].alone
      /\ r.todo = call[c].todo \ {u}
  BY <1>4, <1>6
<1>8. UNCHANGED <<oneClient, decoding, writer, registered, hobbled, regenerated>>
  BY DEF Visit
<1>9. \A a \in adding : a.token = u /\ a.zoo = ReadView.user[u]
  BY <1>3
<1>10. \A a, b \in adding : a = b
  BY <1>3
<1>11. WorkOf(c)'
  BY <1>1, <1>5, <1>7, <1>8, <1>10 DEF WorkOf, Regenerating
<1>12. ASSUME oneClient, ~hobbled, NEW t \in Tokens, WillIndex(c, t), writer.user[t] # None
       PROVE  WillIndex(c, t)'
  <2>1. t \in call[c].todo
    BY <1>1, <1>12 DEF WillIndex
  <2>2. CASE t # u
    BY <1>5, <1>7, <2>1, <2>2 DEF WillIndex
  <2>3. CASE t = u
    <3>1. writer.user[t] \in Zoos /\ call[c].targets = Zoos
      BY <1>1, <1>12 DEF Databases, WorkOf, Regenerating
    <3>2. [token |-> t, zoo |-> writer.user[t]] \in adding
      BY <1>3, <1>12, <2>3, <3>1 DEF ReadView
    <3> QED
      BY <1>5, <1>7, <1>8, <3>2 DEF WillIndex
  <2> QED
    BY <2>2, <2>3
<1>13. AloneOf(c)'
  <2> SUFFICES ASSUME oneClient, ~hobbled, call[c].alone PROVE AloneInv(c)'
    BY <1>5, <1>7, <1>8 DEF AloneOf
  <2>1. \A z \in call[c].zoos :
          /\ writer.index[z] \subseteq SentTo(writer, z)
          /\ \A t \in SentTo(writer, z) : t \in writer.index[z] \/ WillIndex(c, t)
    BY <1>1 DEF AloneOf, AloneInv, Regenerating
  <2>2. ASSUME NEW z \in call[c].zoos, NEW t \in SentTo(writer, z)
        PROVE  t \in writer.index[z] \/ WillIndex(c, t)'
    <3>1. t \in Tokens /\ writer.user[t] # None
      BY <1>6, <2>2, DirectoryAssumption DEF SentTo
    <3> QED
      BY <1>12, <2>1, <2>2, <3>1
  <2>3. \A z : SentTo(writer, z)' = SentTo(writer, z)
    BY <1>8 DEF SentTo
  <2>4. \A a \in adding : writer.user[a.token] = a.zoo
    BY <1>9 DEF ReadView
  <2> QED
    BY <1>5, <1>7, <1>8, <2>1, <2>2, <2>3, <2>4 DEF AloneInv
<1>14. RegenerationIsExact'
  BY <1>8 DEF DirectoryInv, RegenerationIsExact, SentTo
<1> QED
  BY <1>1, <1>5, <1>8, <1>11, <1>12, <1>13, <1>14, NoWriteStep

LEMMA AddVisitedStep ==
    ASSUME TypeOK, DirectoryInv, CallsOK', NEW c \in Clients, AddVisited(c)
    PROVE  DirectoryInv'
<1>1. /\ CallsOK /\ writer \in Databases /\ registered \subseteq Tokens
      /\ call[c].op = "scan" /\ WorkOf(c) /\ AloneOf(c)
  BY DEF DirectoryInv, TypeOK, AddVisited
<1>2. PICK a \in call[c].adding : writer' = Indexed(writer, a.zoo, a.token)
  BY DEF AddVisited
<1>3. PICK r : r = [call[c] EXCEPT !.adding = {}]
  OBVIOUS
<1>4. call[c] \in [op : {"scan"}, zoos : SUBSET Zoos, adding : SUBSET Additions,
                   targets : SUBSET Zoos, alone : BOOLEAN, todo : SUBSET Tokens]
  BY <1>1 DEF CallsOK, CallStates, Idle
<1>5. /\ r.op = "scan" /\ r.zoos = call[c].zoos /\ r.adding = {}
      /\ r.targets = call[c].targets /\ r.alone = call[c].alone /\ r.todo = call[c].todo
  BY <1>3, <1>4
<1>6. call' = [Disturb EXCEPT ![c] = r] /\ call'[c] = r
  BY <1>3 DEF AddVisited, Progress, Disturb
<1>7. a.zoo \in Zoos /\ a.token \in Tokens /\ \A b \in call[c].adding : b = a
  BY <1>1, <1>2, <1>4 DEF WorkOf, Additions
<1>8. /\ writer'.user = writer.user
      /\ writer'.index[a.zoo] = writer.index[a.zoo] \union {a.token}
      /\ \A y \in Zoos \ {a.zoo} : writer'.index[y] = writer.index[y]
  BY <1>1, <1>2, <1>7, IndexedIs
<1>9. /\ UNCHANGED <<oneClient, decoding, hobbled, registered>>
      /\ regenerated' = {}
  BY DEF AddVisited
<1>10. WorkOf(c)'
  BY <1>1, <1>5, <1>6, <1>9 DEF WorkOf, Regenerating
<1>11. ASSUME NEW t \in Tokens, writer.user[t] \in Zoos,
              t \in writer.index[writer.user[t]] \/ WillIndex(c, t)
       PROVE  t \in writer'.index[writer.user[t]] \/ WillIndex(c, t)'
  <2>1. CASE t \in writer.index[writer.user[t]]
    BY <1>8, <1>11, <2>1
  <2>2. CASE t \in call[c].todo
    BY <1>5, <1>6, <2>2 DEF WillIndex
  <2>3. CASE a.token = t /\ a.zoo = writer.user[t]
    BY <1>8, <2>3
  <2> QED
    BY <1>1, <1>7, <1>11, <2>1, <2>2, <2>3 DEF WillIndex
<1>12. AloneOf(c)'
  <2> SUFFICES ASSUME oneClient, ~hobbled, call[c].alone PROVE AloneInv(c)'
    BY <1>5, <1>6, <1>9 DEF AloneOf
  <2>1. /\ writer.user[a.token] = a.zoo
        /\ \A z \in call[c].zoos :
             /\ writer.index[z] \subseteq SentTo(writer, z)
             /\ \A t \in SentTo(writer, z) : t \in writer.index[z] \/ WillIndex(c, t)
    BY <1>1, <1>2 DEF AloneOf, AloneInv, Regenerating
  <2>2. \A z : SentTo(writer, z)' = SentTo(writer, z)
    BY <1>8 DEF SentTo
  <2>3. ASSUME NEW z \in call[c].zoos PROVE writer'.index[z] \subseteq SentTo(writer, z)
    <3>1. z \in Zoos
      BY <1>4
    <3>2. a.token \in SentTo(writer, a.zoo)
      BY <1>7, <2>1 DEF SentTo
    <3> QED
      BY <1>8, <2>1, <3>1, <3>2
  <2>4. ASSUME NEW z \in call[c].zoos, NEW t \in SentTo(writer, z)
        PROVE  t \in writer'.index[z] \/ WillIndex(c, t)'
    <3>1. t \in Tokens /\ writer.user[t] = z /\ z \in Zoos
      BY <1>4, <2>4 DEF SentTo
    <3> QED
      BY <1>11, <2>1, <3>1
  <2> QED
    BY <1>5, <1>6, <2>2, <2>3, <2>4 DEF AloneInv
<1>13. ASSUME NEW t \in registered, writer.user[t] # None,
              t \in writer.index[writer.user[t]] \/ WillIndex(c, t)
       PROVE  t \in writer'.index[writer.user[t]] \/ WillIndex(c, t)'
  <2>1. t \in Tokens /\ writer.user[t] \in Zoos
    BY <1>1, <1>13 DEF Databases
  <2> QED
    BY <1>11, <1>13, <2>1
<1> QED
  BY <1>6, <1>8, <1>9, <1>10, <1>12, <1>13, OwnWriteStep

(* The ends of a regeneration, and of any call that breaks off. *)
LEMMA EndStep ==
    ASSUME TypeOK, DirectoryInv, CallsOK', NEW c \in Clients,
           AddFails(c) \/ FinishRegenerate(c) \/ BreakOff(c)
    PROVE  DirectoryInv'
<1>1. /\ CallsOK /\ writer \in Databases /\ registered \subseteq Tokens
      /\ WorkOf(c) /\ AloneOf(c) /\ RegenerationIsExact
  BY DEF DirectoryInv, TypeOK
<1>2. \A z : SentTo(writer, z)' = SentTo(writer, z)
  BY DEF SentTo, AddFails, FinishRegenerate, BreakOff
<1>3. CASE AddFails(c)
  <2>1. PICK r : r = [call[c] EXCEPT !.adding = {}]
    OBVIOUS
  <2>2. /\ call' = [call EXCEPT ![c] = r] /\ call'[c] = r /\ hobbled'
        /\ UNCHANGED <<oneClient, decoding, writer, registered, regenerated>>
        /\ call[c].op = "scan"
    BY <1>1, <1>3, <2>1 DEF AddFails, CallsOK
  <2>3. call[c] \in [op : {"scan"}, zoos : SUBSET Zoos, adding : SUBSET Additions,
                     targets : SUBSET Zoos, alone : BOOLEAN, todo : SUBSET Tokens]
    BY <1>1, <2>2 DEF CallsOK, CallStates, Idle
  <2>4. r.op = "scan" /\ r.zoos = call[c].zoos /\ r.adding = {}
    BY <2>1, <2>3
  <2>5. WorkOf(c)' /\ AloneOf(c)'
    BY <1>1, <2>2, <2>4 DEF WorkOf, AloneOf, Regenerating
  <2>6. RegenerationIsExact'
    BY <1>1, <1>2, <2>2 DEF RegenerationIsExact
  <2> QED
    BY <2>2, <2>5, <2>6, NoWriteStep
<1>4. CASE FinishRegenerate(c) \/ BreakOff(c)
  <2>1. /\ call' = [call EXCEPT ![c] = Idle] /\ call'[c] = Idle
        /\ hobbled => hobbled'
        /\ UNCHANGED <<oneClient, decoding, writer, registered>>
    <3>1. /\ call' = [call EXCEPT ![c] = Idle]
          /\ UNCHANGED <<oneClient, decoding, writer, registered>>
      BY <1>4 DEF FinishRegenerate, BreakOff
    <3>2. hobbled => hobbled'
      BY <1>4 DEF FinishRegenerate, BreakOff
    <3>3. call'[c] = Idle
      BY <1>1, <3>1 DEF CallsOK
    <3> QED
      BY <3>1, <3>2, <3>3
  <2>2. WorkOf(c)' /\ AloneOf(c)'
    BY <2>1 DEF WorkOf, AloneOf, Regenerating, Idle
  <2>3. ASSUME ~hobbled', NEW t \in registered PROVE ~WillIndex(c, t)
    BY <1>4, <2>3 DEF FinishRegenerate, BreakOff, Regenerating, WillIndex
  <2>4. RegenerationIsExact'
    <3>1. CASE regenerated' = regenerated
      BY <1>1, <1>2, <2>1, <3>1 DEF RegenerationIsExact
    <3>2. CASE FinishRegenerate(c) /\ call[c].alone /\ ~hobbled
      <4>1. /\ regenerated' = call[c].zoos /\ call[c].op = "scan"
            /\ call[c].todo = {} /\ call[c].adding = {}
        BY <3>2 DEF FinishRegenerate
      <4>2. \A t : ~WillIndex(c, t)
        BY <4>1 DEF WillIndex
      <4>3. oneClient => AloneInv(c)
        BY <1>1, <3>2, <4>1 DEF AloneOf, Regenerating
      <4>4. oneClient => \A z \in call[c].zoos : writer.index[z] = SentTo(writer, z)
        BY <4>1, <4>2, <4>3 DEF AloneInv
      <4> QED
        BY <1>2, <2>1, <4>1, <4>4 DEF RegenerationIsExact
    <3> QED
      BY <1>4, <3>1, <3>2 DEF FinishRegenerate, BreakOff
  <2> QED
    BY <2>1, <2>2, <2>3, <2>4, NoWriteStep
<1> QED
  BY <1>3, <1>4

LEMMA DirectoryStep ==
    ASSUME TypeOK, DirectoryInv, TypeOK', CallsOK', [Next]_vars
    PROVE  DirectoryInv'
<1>1. CASE UNCHANGED vars \/ Replicate
  <2>1. UNCHANGED <<oneClient, decoding, writer, call, registered, hobbled, regenerated>>
    BY <1>1 DEF vars, Replicate
  <2> QED
    BY <2>1 DEF DirectoryInv, CallsOK, WorkOf, AloneOf, AloneInv, RegisteredInv,
       IndexedOrWillBe, WillIndex, RegenerationIsExact, SentTo, Regenerating
<1>2. CASE (\E t \in Tokens : Expires(t)) \/ (\E c \in Clients : OneCommand(c))
  BY <1>2, OneCommandStep
<1>3. ASSUME NEW c \in Clients, ManyCommands(c) PROVE DirectoryInv'
  BY <1>3, DeleteByIndexStep, BeginRegenerateStep, ClearIndexStep, BeginScanStep, VisitStep,
     AddVisitedStep, EndStep DEF ManyCommands
<1> QED
  BY <1>1, <1>2, <1>3 DEF Next

LEMMA DirectoryInit ==
    ASSUME Init
    PROVE  TypeOK /\ DirectoryInv
<1>1. /\ writer \in Databases /\ reader \in Databases
      /\ \A c \in Clients : call[c] = Idle
      /\ call \in [Clients -> CallStates] /\ DOMAIN call = Clients
  BY DEF Init, CallStates
<1>2. TypeOK
  <2>1. /\ oneClient \in BOOLEAN /\ decoding \in BOOLEAN /\ calls = 0 /\ registered = {}
        /\ hobbled = FALSE /\ regenerated = {}
    BY DEF Init
  <2>2. 0 \in 0..MaxCalls
    BY DirectoryAssumption
  <2> QED
    BY <1>1, <2>1, <2>2 DEF TypeOK
<1>3. ASSUME NEW c \in Clients PROVE WorkOf(c) /\ AloneOf(c)
  <2>1. call[c].op = "idle"
    BY <1>1 DEF Idle
  <2> QED
    BY <2>1 DEF WorkOf, AloneOf, Regenerating
<1>4. RegisteredInv /\ RegenerationIsExact
  BY DEF Init, RegisteredInv, RegenerationIsExact
<1> QED
  BY <1>1, <1>2, <1>3, <1>4 DEF DirectoryInv, CallsOK

LEMMA DirectoryInvariant == Spec => [](TypeOK /\ DirectoryInv)
<1>1. Init => TypeOK /\ DirectoryInv
  BY DirectoryInit
<1>2. TypeOK /\ DirectoryInv /\ [Next]_vars => TypeOK' /\ DirectoryInv'
  BY TypeStep, DirectoryStep DEF DirectoryInv
<1> QED
  BY <1>1, <1>2, PTL DEF Spec

-----------------------------------------------------------------------------
(* The properties *)

(* Type correctness: whatever the clients call, and however their commands  *)
(* interleave, every variable keeps its type.                               *)
THEOREM TypeCorrect == Spec => []TypeOK
BY DirectoryInvariant, PTL

(* RegisteredIsIndexed: with one client no regeneration, whatever runs      *)
(* beside it, costs a registered user its place in the index.               *)
THEOREM RegisteredIsIndexedTheorem == Spec => []RegisteredIsIndexed
<1>1. ASSUME TypeOK, DirectoryInv PROVE RegisteredIsIndexed
  <2> SUFFICES ASSUME oneClient, ~hobbled, \A c \in Clients : ~Regenerating(c),
                      NEW t \in registered
               PROVE  t \in writer.index[writer.user[t]]
    BY DEF RegisteredIsIndexed
  <2>1. IndexedOrWillBe(t)
    BY <1>1 DEF DirectoryInv, RegisteredInv
  <2> QED
    BY <2>1 DEF IndexedOrWillBe, WillIndex, Regenerating
<1> QED
  BY <1>1, DirectoryInvariant, PTL

(* RegenerationIsExact: with one client a regeneration beside which nobody  *)
(* wrote leaves exactly the users of each zoo in its index.                 *)
THEOREM RegenerationIsExactTheorem == Spec => []RegenerationIsExact
<1>1. DirectoryInv => RegenerationIsExact
  BY DEF DirectoryInv
<1> QED
  BY <1>1, DirectoryInvariant, PTL
=============================================================================
