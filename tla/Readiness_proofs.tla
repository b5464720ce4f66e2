-------------------------- MODULE Readiness_proofs --------------------------
(***************************************************************************)
(* Machine-checked proofs about Readiness, for every set of cookers and    *)
(* jobs, every finite set of shards, any amounts and any bounds.           *)
(*                                                                         *)
(* The argument has four parts.  StatesOK says what a call in progress has *)
(* in its hands.  BoundInv bounds every number by what was recorded: the   *)
(* counts and watermarks of both hosts, the counts a cooker has read, and  *)
(* what a scan has added up so far by what was recorded for the keys it    *)
(* has returned; nothing recorded is ever taken back, so a stale number    *)
(* stays bounded.  AloneInv says that with one client a count nobody       *)
(* contended for is exactly what was recorded, and so is the number its    *)
(* one cooker has read.  SettledInv says how far a scan is with a batch    *)
(* that rests: each of its keys is added, to come, in hand, or left out    *)
(* with all of its batch.                                                  *)
(***************************************************************************)
EXTENDS Readiness, FiniteSetTheorems, TLAPS

-----------------------------------------------------------------------------
(* The inductive invariant *)

CookerOK(call) ==
    \/ call = Idle
    \/ call \in [pc : {"info"}, epoch : Epochs, seen : Infos \union {None}]
    \/ call \in [pc : {"count"}, key : Keys, amount : Nat, previous : Nat]

Answers == {"none", "ready", "not_ready", "raised", "exists", "reported"}
OutputFields == {"records", "tvs"}
Holding == {"exists", "get"}

ReadCall == [pc : {"watermark", "info", "reports"}, start : Nat, end : Epochs]
MarksCall == [pc : {"marks"}, start : Nat, end : Epochs, todo : SUBSET Epochs,
              batch : Epochs \union {None}]
DeleteCall == [pc : {"delete"}, start : Nat, end : Epochs, todo : SUBSET Epochs, batch : Epochs]
CountsCall == [pc : {"counts"}, start : Nat, end : Epochs, todo : SUBSET Epochs]
ShardsCall == [pc : {"shards"}, start : Nat, end : Epochs, todo : SUBSET Epochs,
               batch : Epochs, info : Infos]
ScanCall == [pc : {"scan"} \union Holding, start : Nat, end : Epochs, todo : SUBSET Keys,
             key : Keys \union {None}, from : Nat \union {None},
             maps : [Epochs -> Watermarks \union {None}], added : SUBSET Keys,
             moved : SUBSET Epochs]

ScanOK(call) ==
    /\ call \in ScanCall
    /\ \A k \in call.added : k[1] \in OutputFields /\ call.maps[k[2]] # None
    /\ call.pc \in Holding => call.key \in Keys /\ call.key[1] \in OutputFields /\ call.from \in Nat

JobOK(call) ==
    \/ call \in [pc : {"idle"}, answer : Answers]
    \/ call \in ReadCall \union MarksCall \union DeleteCall \union CountsCall \union ShardsCall
    \/ ScanOK(call)

(* The key in hand has a count; no count is ever deleted. *)
HandOK(call, db) == call.pc \in Holding => Reports(db, call.key)

(* What a call in progress has in its hands. *)
StatesOK ==
    /\ TypeOK
    /\ cooker = [c \in Cookers |-> cooker[c]] /\ job = [j \in Jobs |-> job[j]]
    /\ \A c \in Cookers : CookerOK(cooker[c])
    /\ \A j \in Jobs : JobOK(job[j]) /\ HandOK(job[j], ReadView)
    /\ \A k \in Keys : Reports(reader, k) => Reports(writer, k)

(* The shards of a batch whose counts a scan has added. *)
AddedOf(call, kind, e) == {s \in Shards : <<kind, e, s>> \in call.added}

FieldOf(mark, kind) == IF mark = None THEN None ELSE mark[kind]

CountsBounded(db, done) == \A k \in Keys : AtMost(db.count[k], done[k])

MarkBounded(mark, e, done) ==
    \A kind \in OutputFields : AtMost(FieldOf(mark, kind), Sum(done, kind, e, Shards))

HostBounded(db, done, but) ==
    /\ CountsBounded(db, done)
    /\ \A e \in Epochs \ but : MarkBounded(db.watermark[e], e, done)

CookerBounded(call, done) == call.pc = "count" => call.previous <= done[call.key]

(* So far it is a sum over the shards added. *)
MapBounded(call, e, done) ==
    \A kind \in OutputFields :
        AtMost(FieldOf(call.maps[e], kind), Sum(done, kind, e, AddedOf(call, kind, e)))

JobBounded(call, done, but) ==
    /\ call.pc \in {"scan"} \union Holding => \A e \in Epochs \ but : MapBounded(call, e, done)
    /\ call.pc \in Holding => call.key \notin call.added \/ call.key[2] \in but

(* No number anywhere is above what was recorded. *)
BoundInv ==
    /\ HostBounded(writer, processed, repeated) /\ HostBounded(reader, processed, repeated)
    /\ \A c \in Cookers : CookerBounded(cooker[c], processed)
    /\ \A j \in Jobs : JobBounded(job[j], processed, repeated)

OneRecords(c, k) ==
    Recording(c, k) =>
        /\ cooker[c].previous = processed[k]
        /\ \A d \in Cookers \ {c} : ~Recording(d, k)

(* Nothing is missing where nobody contended. *)
AloneInv ==
    oneClient => \A k \in Keys \ contended :
        /\ CountOrZero(writer.count[k]) = processed[k]
        /\ \A c \in Cookers : OneRecords(c, k)

(* What was recorded for the shards a scan has added is what it has got. *)
MapExact(call, e, done) ==
    \A kind \in OutputFields :
        CountOrZero(FieldOf(call.maps[e], kind)) = Sum(done, kind, e, AddedOf(call, kind, e))

(* The info says that the batch belongs to the range. *)
Belongs(call, e, db) == db.info[e] # None /\ db.info[e].start < call.end

InHand(call, k) == call.pc \in Holding /\ call.key = k

(* Where a scan is with a batch that rests. *)
ScanExact(call, e, db, done) ==
    /\ MapExact(call, e, done)
    /\ call.maps[e] # None \/ (call.pc \in Holding /\ call.key[2] = e) =>
         Belongs(call, e, db) /\ call.start < e /\ e <= call.end
    /\ \A k \in Countable(db, call.start, call.end) : k[2] = e =>
         k \in call.added \/ k \in call.todo \/ InHand(call, k) \/ ~Belongs(call, e, db)

SettledInv ==
    oneClient => \A j \in Jobs, e \in Epochs :
        Scanning(j) /\ Settled(j, e) => ScanExact(job[j], e, writer, processed)

-----------------------------------------------------------------------------
(* Lemmas about the operators *)

(* The units of finitely many shards are finitely many. *)
LEMMA UnitsAreFinite ==
    ASSUME NEW count, NEW kind, NEW e, NEW shards \in SUBSET Shards,
           \A s \in shards : count[<<kind, e, s>>] \in Nat
    PROVE  IsFiniteSet(Units(count, kind, e, shards))
<1> DEFINE Of(s) == {s} \X (1..count[<<kind, e, s>>])
           parts == {Of(s) : s \in shards}
<1>1. IsFiniteSet(shards)
    BY ReadinessBounds, FS_Subset
<1>2. \A s \in shards : IsFiniteSet(Of(s))
  <2> SUFFICES ASSUME NEW s \in shards
               PROVE  IsFiniteSet(Of(s))
    OBVIOUS
  <2>1. count[<<kind, e, s>>] \in Int
    OBVIOUS
  <2>2. IsFiniteSet(1..count[<<kind, e, s>>])
    BY <2>1, FS_Interval
  <2>3. IsFiniteSet({s})
    BY FS_Singleton
  <2>. QED
    BY <2>2, <2>3, FS_Product
<1>3. IsFiniteSet(parts)
  <2> DEFINE f == [s \in shards |-> Of(s)]
  <2>1. f \in Surjection(shards, parts)
    BY DEF Surjection
  <2>. QED
    BY <1>1, <2>1, FS_Surjection
<1>4. \A part \in parts : IsFiniteSet(part)
    BY <1>2
<1>. QED
  BY <1>3, <1>4, FS_UNION DEF Units

(* A sum over fewer shards, of smaller counts, is no larger.                *)
LEMMA SumGrows ==
    ASSUME NEW less, NEW more, NEW kind, NEW e,
           NEW shards \in SUBSET Shards, NEW others \in SUBSET Shards, shards \subseteq others,
           \A s \in shards : /\ less[<<kind, e, s>>] \in Nat
                             /\ less[<<kind, e, s>>] <= more[<<kind, e, s>>],
           \A s \in others : more[<<kind, e, s>>] \in Nat
    PROVE  /\ Sum(less, kind, e, shards) \in Nat
           /\ Sum(more, kind, e, others) \in Nat
           /\ Sum(less, kind, e, shards) <= Sum(more, kind, e, others)
<1>1. /\ IsFiniteSet(Units(less, kind, e, shards))
      /\ IsFiniteSet(Units(more, kind, e, others))
    BY UnitsAreFinite
<1>2. Units(less, kind, e, shards) \subseteq Units(more, kind, e, others)
  <2>1. ASSUME NEW s \in shards
        PROVE  {s} \X (1..less[<<kind, e, s>>]) \subseteq {s} \X (1..more[<<kind, e, s>>])
    <3>1. less[<<kind, e, s>>] \in Nat /\ more[<<kind, e, s>>] \in Nat
      OBVIOUS
    <3>2. less[<<kind, e, s>>] <= more[<<kind, e, s>>]
      OBVIOUS
    <3>3. 1..less[<<kind, e, s>>] \subseteq 1..more[<<kind, e, s>>]
      BY <3>1, <3>2
    <3>. QED
      BY <3>3
  <2>2. ASSUME NEW unit \in Units(less, kind, e, shards)
        PROVE  unit \in Units(more, kind, e, others)
    <3>1. PICK s \in shards : unit \in {s} \X (1..less[<<kind, e, s>>])
      BY <2>2 DEF Units
    <3>2. unit \in {s} \X (1..more[<<kind, e, s>>]) /\ s \in others
      BY <2>1, <3>1
    <3>. QED
      BY <3>2 DEF Units
  <2>. QED
    BY <2>2
<1>. QED
  BY <1>1, <1>2, FS_Subset, FS_CardinalityType DEF Sum

(* One more shard adds its count.                                           *)
LEMMA SumOfOneMore ==
    ASSUME NEW count, NEW kind, NEW e, NEW shards \in SUBSET Shards, NEW s \in Shards \ shards,
           \A t \in Shards : count[<<kind, e, t>>] \in Nat
    PROVE  /\ Sum(count, kind, e, shards) \in Nat
           /\ Sum(count, kind, e, shards \union {s})
                = Sum(count, kind, e, shards) + count[<<kind, e, s>>]
<1> DEFINE n == count[<<kind, e, s>>]
           part == {s} \X (1..n)
           rest == Units(count, kind, e, shards)
<1>1. Units(count, kind, e, shards \union {s}) = rest \union part
    BY DEF Units
<1>2. IsFiniteSet(rest)
    BY UnitsAreFinite
<1>3. IsFiniteSet(part) /\ Cardinality(part) = n
  <2>1. n \in Nat
    OBVIOUS
  <2>2. IsFiniteSet(1..n) /\ Cardinality(1..n) = n
    <3> HIDE DEF n
    <3>1. /\ IsFiniteSet(1..n)
          /\ Cardinality(1..n) = IF 1 > n THEN 0 ELSE n - 1 + 1
      BY <2>1, FS_Interval
    <3>. QED
      BY <2>1, <3>1
  <2>3. IsFiniteSet({s}) /\ Cardinality({s}) = 1
    BY FS_Singleton
  <2>4. IsFiniteSet(part) /\ Cardinality(part) = Cardinality({s}) * Cardinality(1..n)
    <3>1. \A S, T : IsFiniteSet(S) /\ IsFiniteSet(T) =>
                      /\ IsFiniteSet(S \X T)
                      /\ Cardinality(S \X T) = Cardinality(S) * Cardinality(T)
      BY FS_Product, Zenon
    <3>. QED
      BY <2>2, <2>3, <3>1, Zenon
  <2> HIDE DEF n
  <2>. QED
    BY <2>1, <2>2, <2>3, <2>4
<1>4. rest \intersect part = {}
  <2> SUFFICES ASSUME NEW unit \in rest, unit \in part
               PROVE  FALSE
    OBVIOUS
  <2>1. PICK t \in shards : unit \in {t} \X (1..count[<<kind, e, t>>])
    BY DEF Units
  <2>2. unit[1] = t /\ unit[1] = s
    BY <2>1
  <2>. QED
    BY <2>2
<1>5. Cardinality(rest) \in Nat
    BY <1>2, FS_CardinalityType
<1> HIDE DEF part, rest, n
<1>6. Cardinality(rest \union part) = Cardinality(rest) + Cardinality(part)
  <2>1. Cardinality(rest \intersect part) = 0
    BY <1>4, FS_EmptySet
  <2>2. Cardinality(part) \in Nat
    BY <1>3, FS_CardinalityType
  <2>3. Cardinality(rest \union part)
          = Cardinality(rest) + Cardinality(part) - Cardinality(rest \intersect part)
    BY <1>2, <1>3, FS_Union
  <2>. QED
    BY <1>5, <2>1, <2>2, <2>3
<1>. QED
  BY <1>1, <1>3, <1>5, <1>6 DEF Sum, rest, n

(* Shards without a count add nothing.                                      *)
LEMMA SumOfTheRest ==
    ASSUME NEW count, NEW kind, NEW e, NEW shards \in SUBSET Shards,
           \A s \in Shards \ shards : count[<<kind, e, s>>] = 0
    PROVE  Sum(count, kind, e, shards) = Sum(count, kind, e, Shards)
<1>1. \A s \in Shards \ shards : {s} \X (1..count[<<kind, e, s>>]) = {}
    OBVIOUS
<1>2. Units(count, kind, e, shards) = Units(count, kind, e, Shards)
    BY <1>1 DEF Units
<1>. QED
  BY <1>2 DEF Sum

LEMMA SumOfNone ==
    ASSUME NEW count, NEW kind, NEW e
    PROVE  Sum(count, kind, e, {}) = 0
<1>1. Units(count, kind, e, {}) = {}
    BY DEF Units
<1>. QED
  BY <1>1, FS_EmptySet DEF Sum

LEMMA FieldsOfMarks ==
    ASSUME NEW mark \in Watermarks \union {None}, NEW kind \in OutputFields
    PROVE  FieldOf(mark, kind) \in Fields /\ (mark # None => FieldOf(mark, kind) = mark[kind])
    BY DEF FieldOf, Fields, Watermarks, OutputFields

(* A merge of two watermarks is one, of the fields of both.                 *)
LEMMA MergeOfMarks ==
    ASSUME NEW old \in Watermarks \union {None}, NEW new \in Watermarks
    PROVE  /\ Merge(old, new) \in Watermarks
           /\ \A kind \in OutputFields :
                FieldOf(Merge(old, new), kind) = IF FieldOf(new, kind) = None
                                                   THEN FieldOf(old, kind) ELSE FieldOf(new, kind)
<1>1. /\ DOMAIN new = {"start", "records", "tvs"} /\ new.start # None
      /\ None \notin Watermarks
    BY NoneIsNoValue DEF Watermarks
<1>2. Merge(old, new) \in Watermarks
  <2>1. CASE old = None
    BY <2>1 DEF Merge
  <2>2. CASE old # None
    <3>1. Merge(old, new) = [start |-> new.start,
                             records |-> IF new.records = None THEN old.records ELSE new.records,
                             tvs |-> IF new.tvs = None THEN old.tvs ELSE new.tvs]
      BY <1>1, <2>2 DEF Merge
    <3>. QED
      BY <2>2, <3>1 DEF Watermarks, Fields
  <2>. QED
    BY <2>1, <2>2
<1>3. ASSUME NEW kind \in OutputFields
      PROVE  Merge(old, new)[kind] = IF new[kind] = None THEN FieldOf(old, kind) ELSE new[kind]
    BY <1>1 DEF Merge, FieldOf, OutputFields
<1>. QED
  BY <1>1, <1>2, <1>3 DEF FieldOf

(* A count goes to its field.                                               *)
LEMMA AddedToField ==
    ASSUME NEW map \in Watermarks \union {None}, NEW k \in Keys, k[1] \in OutputFields,
           NEW from \in Nat, NEW n \in Nat
    PROVE  /\ AddedTo(map, k, from, n) \in Watermarks /\ AddedTo(map, k, from, n) # None
           /\ \A kind \in OutputFields :
                FieldOf(AddedTo(map, k, from, n), kind) = IF kind = k[1]
                                                            THEN Plus(FieldOf(map, kind), n)
                                                            ELSE FieldOf(map, kind)
<1> DEFINE old == IF map = None THEN [start |-> from, records |-> None, tvs |-> None] ELSE map
<1>1. old \in Watermarks
    BY DEF Watermarks, Fields
<1>2. Plus(old.records, n) \in Nat /\ Plus(old.tvs, n) \in Nat
    BY <1>1 DEF Plus, Watermarks, Fields
<1>3. \A kind \in OutputFields : FieldOf(map, kind) = old[kind]
    BY DEF FieldOf, OutputFields
<1> HIDE DEF old
<1>4. AddedTo(map, k, from, n) = IF k[1] = "records" THEN [old EXCEPT !.records = Plus(@, n)]
                                                     ELSE [old EXCEPT !.tvs = Plus(@, n)]
    BY DEF AddedTo, old
<1> DEFINE new == AddedTo(map, k, from, n)
<1>5. new \in Watermarks /\ \A kind \in OutputFields :
        new[kind] = IF kind = k[1] THEN Plus(old[kind], n) ELSE old[kind]
  <2>1. CASE k[1] = "records"
    <3>1. new = [old EXCEPT !.records = Plus(old.records, n)]
      BY <1>4, <2>1
    <3>. QED
      BY <1>1, <1>2, <2>1, <3>1 DEF Watermarks, Fields, OutputFields
  <2>2. CASE k[1] = "tvs"
    <3>1. new = [old EXCEPT !.tvs = Plus(old.tvs, n)]
      BY <1>4, <2>2
    <3>. QED
      BY <1>1, <1>2, <2>2, <3>1 DEF Watermarks, Fields, OutputFields
  <2>. QED
    BY <2>1, <2>2 DEF OutputFields
<1> HIDE DEF new
<1>6. new # None
    BY <1>5, NoneIsNoValue
<1>. QED
  BY <1>3, <1>5, <1>6 DEF FieldOf, new

LEMMA ViewIsHost == ReadView \in {writer, reader}
    BY DEF ReadView

-----------------------------------------------------------------------------
(* Type correctness *)

LEMMA StatesInit == Init => StatesOK
<1> SUFFICES ASSUME Init
             PROVE  StatesOK
    OBVIOUS
<1>1. writer \in Databases /\ reader \in Databases
    BY DEF Init, Databases, Fields
<1>2. TypeOK
    BY <1>1, ReadinessBounds DEF Init, TypeOK
<1>3. \A c \in Cookers : CookerOK(cooker[c])
    BY DEF Init, CookerOK, Idle
<1>4. \A j \in Jobs : JobOK(job[j]) /\ HandOK(job[j], ReadView)
    BY DEF Init, JobOK, HandOK, Holding, NoJob, Answers
<1>. QED
  BY <1>2, <1>3, <1>4 DEF Init, StatesOK

(* A job that goes on, and changes nothing else, only has to have in its    *)
(* hands what it should.                                                    *)
LEMMA JobsStayOK ==
    ASSUME StatesOK, NEW j \in Jobs, NEW call, Proceed(j, call), JobOK(call),
           HandOK(call, ReadView), ReadView'.count = ReadView.count
    PROVE  /\ job' = [i \in Jobs |-> job'[i]]
           /\ \A i \in Jobs : JobOK(job'[i]) /\ HandOK(job'[i], ReadView')
<1>1. \A i \in Jobs : job'[i] = IF i = j THEN call ELSE job[i]
    BY DEF StatesOK, Proceed
<1>2. \A i \in Jobs : JobOK(job'[i]) /\ HandOK(job'[i], ReadView)
    BY <1>1 DEF StatesOK
<1>3. \A i \in Jobs : HandOK(job'[i], ReadView')
    BY <1>2 DEF HandOK, Reports
<1>. QED
  BY <1>2, <1>3 DEF StatesOK, Proceed

LEMMA ReadStepOK ==
    ASSUME StatesOK, NEW j \in Jobs, NEW call, Proceed(j, call), JobOK(call),
           HandOK(call, ReadView), OnlyReads, repeated' = repeated
    PROVE  StatesOK'
<1>1. ReadView'.count = ReadView.count
    BY DEF OnlyReads, ReadView
<1>2. /\ job' = [i \in Jobs |-> job'[i]]
      /\ \A i \in Jobs : JobOK(job'[i]) /\ HandOK(job'[i], ReadView')
    BY <1>1, JobsStayOK
<1>. QED
  BY <1>2 DEF StatesOK, TypeOK, OnlyReads, CookerOK, Reports

LEMMA AnswersAreOK ==
    ASSUME NEW answer \in Answers
    PROVE  JobOK(NoJob(answer)) /\ HandOK(NoJob(answer), ReadView)
    BY DEF JobOK, HandOK, NoJob, Holding

LEMMA ScansAreOK ==
    ASSUME NEW call, JobOK(call), call.pc \in {"scan"} \union Holding
    PROVE  ScanOK(call) /\ call \in ScanCall
    BY DEF JobOK, ScanOK, Holding, ReadCall, MarksCall, DeleteCall, CountsCall, ShardsCall

(* What is stored of a batch changes no more of a job than that.            *)
LEMMA MovesOK ==
    ASSUME StatesOK, NEW e \in Epochs, Moves(e)
    PROVE  /\ job' = [j \in Jobs |-> job'[j]]
           /\ \A j \in Jobs : JobOK(job'[j])
           /\ \A j \in Jobs : /\ job'[j].pc = job[j].pc
                              /\ ~Scanning(j) => job'[j] = job[j]
                              /\ Scanning(j) => job'[j] = [job[j] EXCEPT !.moved = @ \union {e}]
<1>1. \A j \in Jobs : job'[j] = IF Scanning(j) THEN [job[j] EXCEPT !.moved = @ \union {e}]
                                               ELSE job[j]
    BY DEF Moves
<1>2. ASSUME NEW j \in Jobs, Scanning(j)
      PROVE  JobOK(job'[j]) /\ job'[j].pc = job[j].pc
  <2>1. ScanOK(job[j])
    BY <1>2, ScansAreOK DEF StatesOK, Scanning, Holding
  <2>2. job[j] \in ScanCall
    BY <2>1 DEF ScanOK
  <2>3. [job[j] EXCEPT !.moved = @ \union {e}] \in ScanCall
    BY <2>2 DEF ScanCall
  <2>4. ScanOK(job'[j]) /\ job'[j].pc = job[j].pc
    BY <1>1, <1>2, <2>1, <2>2, <2>3 DEF ScanOK, ScanCall
  <2>. QED
    BY <2>4 DEF JobOK
<1>. QED
  BY <1>1, <1>2 DEF Moves, StatesOK

LEMMA StatesNext ==
    ASSUME StatesOK, [Next]_vars
    PROVE  StatesOK'
<1>1. /\ TypeOK /\ ReadView \in Databases /\ writer \in Databases /\ reader \in Databases
    BY ViewIsHost DEF StatesOK, TypeOK
<1>2. \A k \in Keys : Reports(reader, k) => Reports(writer, k)
    BY DEF StatesOK
(* A job in progress has the key in hand still. *)
<1>3. ASSUME job' = job, oneClient' = oneClient,
             \A k \in Keys : Reports(ReadView, k) => Reports(ReadView', k)
      PROVE  \A j \in Jobs : HandOK(job'[j], ReadView')
    BY <1>3 DEF StatesOK, HandOK, Reports
<1>4. CASE Replicate
  <2>1. /\ reader' = writer /\ writer' = writer /\ job' = job /\ ~oneClient
        /\ oneClient' = oneClient
    BY <1>4 DEF Replicate
  <2>2. \A j \in Jobs : HandOK(job'[j], ReadView')
    BY <1>2, <1>3, <2>1 DEF ReadView, Reports
  <2>. QED
    BY <1>4, <2>1, <2>2 DEF Replicate, StatesOK, TypeOK, CookerOK
<1>5. ASSUME NEW c \in Cookers, NEW e \in Epochs, BeginInfo(c, e)
      PROVE  StatesOK'
  <2>1. ReadView.info[e] \in Infos \union {None}
    BY <1>1 DEF Databases
  <2>2. CookerOK([pc |-> "info", epoch |-> e, seen |-> ReadView.info[e]])
    BY <2>1 DEF CookerOK
  <2>3. \A d \in Cookers : CookerOK(cooker[d])'
    BY <1>5, <2>2 DEF BeginInfo, StatesOK, CookerOK
  <2>4. calls' \in [infos : 0..MaxInfos, records : 0..MaxRecords, jobs : 0..MaxCalls,
                    repeats : 0..MaxRepeats]
    BY <1>5, ReadinessBounds DEF BeginInfo, StatesOK, TypeOK
  <2>5. \A j \in Jobs : HandOK(job'[j], ReadView')
    BY <1>3, <1>5 DEF BeginInfo, ReadView, Reports
  <2>. QED
    BY <1>5, <2>3, <2>4, <2>5 DEF BeginInfo, StatesOK, TypeOK, Reports
<1>6. ASSUME NEW c \in Cookers, StoreInfo(c)
      PROVE  StatesOK'
  <2>1. cooker[c] \in [pc : {"info"}, epoch : Epochs, seen : Infos \union {None}]
    BY <1>6 DEF StoreInfo, StatesOK, CookerOK, Idle
  <2>2. PICK active \in Described :
          LET e == cooker[c].epoch
              seen == cooker[c].seen
              keep == active = {} /\ seen # None /\ ~seen.error
              info == [shards |-> Split(active), error |-> active = {},
                       start |-> IF e < BatchSecs THEN 0 ELSE e - BatchSecs]
          IN  writer' = IF keep THEN writer ELSE [writer EXCEPT !.info[e] = info]
    BY <1>6 DEF StoreInfo
  <2> DEFINE e == cooker[c].epoch
             info == [shards |-> Split(active), error |-> active = {},
                      start |-> IF e < BatchSecs THEN 0 ELSE e - BatchSecs]
  <2>3. e \in Epochs /\ e \in Nat /\ BatchSecs \in Nat
    BY <2>1, ReadinessBounds DEF Epochs
  <2>4. info \in Infos
    <3>1. Split(active) \in (SUBSET Shards) \union {{NoShard}}
      BY DEF Split, Described
    <3>2. (IF e < BatchSecs THEN 0 ELSE e - BatchSecs) \in Nat
      BY <2>3
    <3>. QED
      BY <3>1, <3>2 DEF Infos
  <2>5. writer' \in Databases /\ writer'.count = writer.count
    BY <1>1, <2>2, <2>3, <2>4 DEF Databases
  <2>6. \A d \in Cookers : CookerOK(cooker[d])'
    BY <1>6 DEF StoreInfo, StatesOK, CookerOK
  <2>7. /\ job' = [j \in Jobs |-> job'[j]]
        /\ \A j \in Jobs : JobOK(job'[j]) /\ job'[j].pc = job[j].pc
        /\ \A j \in Jobs : /\ ~Scanning(j) => job'[j] = job[j]
                           /\ Scanning(j) => job'[j] = [job[j] EXCEPT !.moved = @ \union {e}]
    BY <1>6, <2>3, MovesOK DEF StoreInfo
  <2>8. ASSUME NEW j \in Jobs, job'[j].pc \in Holding
        PROVE  Reports(ReadView', job'[j].key)
    <3>1. job[j].pc \in Holding /\ Scanning(j)
      BY <2>7, <2>8 DEF Holding, Scanning
    <3>2. ScanOK(job[j])
      BY <3>1, ScansAreOK DEF StatesOK
    <3>3. job'[j].key = job[j].key
      BY <2>7, <3>1, <3>2 DEF ScanOK, ScanCall
    <3>4. ReadView'.count = ReadView.count
      BY <1>6, <2>5 DEF StoreInfo, ReadView
    <3>. QED
      BY <3>1, <3>3, <3>4 DEF StatesOK, HandOK, Reports
  <2>. QED
    BY <1>1, <1>6, <2>5, <2>6, <2>7, <2>8 DEF StoreInfo, StatesOK, TypeOK, HandOK, Reports
<1>7. ASSUME NEW c \in Cookers, NEW k \in Keys, NEW n \in Amounts, BeginCount(c, k, n)
      PROVE  StatesOK'
  <2>1. CountOrZero(ReadView.count[k]) \in Nat
    BY <1>1 DEF CountOrZero, Databases, Fields
  <2>2. n \in Nat
    BY ReadinessBounds
  <2>3. CookerOK([pc |-> "count", key |-> k, amount |-> n,
                  previous |-> CountOrZero(ReadView.count[k])])
    BY <2>1, <2>2 DEF CookerOK
  <2>4. \A d \in Cookers : CookerOK(cooker[d])'
    BY <1>7, <2>3 DEF BeginCount, StatesOK, CookerOK
  <2>5. calls' \in [infos : 0..MaxInfos, records : 0..MaxRecords, jobs : 0..MaxCalls,
                    repeats : 0..MaxRepeats]
    BY <1>7, ReadinessBounds DEF BeginCount, StatesOK, TypeOK
  <2>6. contended' \subseteq Keys
    BY <1>7 DEF BeginCount, StatesOK, TypeOK
  <2>7. \A j \in Jobs : HandOK(job'[j], ReadView')
    BY <1>3, <1>7 DEF BeginCount, ReadView, Reports
  <2>. QED
    BY <1>7, <2>4, <2>5, <2>6, <2>7 DEF BeginCount, StatesOK, TypeOK, Reports
<1>8. ASSUME NEW c \in Cookers, StoreCount(c)
      PROVE  StatesOK'
  <2> DEFINE k == cooker[c].key
  <2>1. cooker[c] \in [pc : {"count"}, key : Keys, amount : Nat, previous : Nat]
    BY <1>8 DEF StoreCount, StatesOK, CookerOK, Idle
  <2>2. /\ writer' \in Databases
        /\ writer'.count = [writer.count EXCEPT ![k] = cooker[c].previous + cooker[c].amount]
    BY <1>1, <1>8, <2>1 DEF StoreCount, NewCount, Databases, Fields
  <2>3. processed' \in [Keys -> Nat]
    BY <1>8, <2>1 DEF StoreCount, StatesOK, TypeOK
  <2>4. \A d \in Cookers : CookerOK(cooker[d])'
    BY <1>8 DEF StoreCount, StatesOK, CookerOK
  <2>5. k \in Keys /\ k[2] \in Epochs
    BY <2>1 DEF Keys
  <2>6. \A l \in Keys : Reports(writer, l) => Reports(writer', l)
    <3>1. cooker[c].previous + cooker[c].amount # None
      BY <2>1, NoneIsNoValue
    <3>2. DOMAIN writer.count = Keys
      BY <1>1 DEF Databases
    <3>. QED
      BY <2>2, <2>5, <3>1, <3>2 DEF Reports
  <2>7. /\ job' = [j \in Jobs |-> job'[j]]
        /\ \A j \in Jobs : JobOK(job'[j]) /\ job'[j].pc = job[j].pc
        /\ \A j \in Jobs : /\ ~Scanning(j) => job'[j] = job[j]
                           /\ Scanning(j) => job'[j] = [job[j] EXCEPT !.moved = @ \union {k[2]}]
    BY <1>8, <2>5, MovesOK DEF StoreCount
  <2>8. ASSUME NEW j \in Jobs, job'[j].pc \in Holding
        PROVE  Reports(ReadView', job'[j].key)
    <3>1. job[j].pc \in Holding /\ Scanning(j)
      BY <2>7, <2>8 DEF Holding, Scanning
    <3>2. ScanOK(job[j])
      BY <3>1, ScansAreOK DEF StatesOK
    <3>3. job'[j].key = job[j].key
      BY <2>7, <3>1, <3>2 DEF ScanOK, ScanCall
    <3>4. Reports(ReadView, job[j].key) /\ job[j].key \in Keys
      BY <3>1 DEF StatesOK, HandOK, Reports
    <3>. QED
      BY <1>8, <2>6, <3>3, <3>4 DEF StoreCount, ReadView
  <2>9. \A l \in Keys : Reports(reader, l) => Reports(writer', l)
    BY <1>2, <2>6
  <2>. QED
    BY <1>1, <1>8, <2>2, <2>3, <2>4, <2>7, <2>8, <2>9 DEF StoreCount, StatesOK, TypeOK, HandOK
<1>9. ASSUME NEW j \in Jobs, NEW r \in Ranges, NEW call, JobOK(call), HandOK(call, ReadView),
             Begin(j, call)
      PROVE  StatesOK'
  <2>1. calls' \in [infos : 0..MaxInfos, records : 0..MaxRecords, jobs : 0..MaxCalls,
                    repeats : 0..MaxRepeats]
    BY <1>9, ReadinessBounds DEF Begin, StatesOK, TypeOK
  <2>2. ReadView' = ReadView
    BY <1>9 DEF Begin, ReadView
  <2>3. /\ job' = [i \in Jobs |-> job'[i]]
        /\ \A i \in Jobs : JobOK(job'[i]) /\ HandOK(job'[i], ReadView')
    BY <1>9, <2>2, JobsStayOK DEF Begin, Proceed
  <2>. QED
    BY <1>9, <2>1, <2>3 DEF Begin, StatesOK, TypeOK, CookerOK, Reports
<1>10. \A r \in Ranges : r[1] \in Nat /\ r[2] \in Epochs
    BY ReadinessBounds
<1>11. ASSUME NEW j \in Jobs, NEW r \in Ranges, BeginIsReady(j, r[1], r[2])
       PROVE  StatesOK'
  <2> DEFINE call == [pc |-> "watermark", start |-> r[1], end |-> r[2]]
  <2>1. JobOK(call) /\ HandOK(call, ReadView)
    BY <1>10 DEF JobOK, ReadCall, HandOK, Holding
  <2>. QED
    BY <1>9, <1>11, <2>1 DEF BeginIsReady
<1>12. ASSUME NEW j \in Jobs, IsReady(j), ~\E r \in Ranges : BeginIsReady(j, r[1], r[2]),
              ~DeleteMark(j)
       PROVE  StatesOK'
  <2>1. ASSUME NEW call, Proceed(j, call), OnlyReads,
               \/ call \in ReadCall \union MarksCall \union DeleteCall \union CountsCall
                               \union ShardsCall
               \/ \E answer \in Answers : call = NoJob(answer)
        PROVE  StatesOK'
    <3>1. JobOK(call) /\ HandOK(call, ReadView)
      BY <2>1, AnswersAreOK DEF JobOK, HandOK, Holding, ReadCall, MarksCall, DeleteCall,
                                CountsCall, ShardsCall
    <3>. QED
      BY <2>1, <3>1, ReadStepOK DEF OnlyReads
  <2>2. CASE CheckWatermark(j)
    <3>1. job[j] \in ReadCall
      BY <2>2 DEF CheckWatermark, StatesOK, JobOK, ScanOK, ScanCall, Holding, MarksCall,
                  DeleteCall, CountsCall, ShardsCall
    <3>2. [job[j] EXCEPT !.pc = IF job[j].end \in Marked(ReadView) THEN "info" ELSE "reports"]
            \in ReadCall
      BY <3>1 DEF ReadCall
    <3>. QED
      BY <2>1, <2>2, <3>2 DEF CheckWatermark
  <2>3. CASE CheckInfo(j)
    <3>1. job[j] \in ReadCall
      BY <2>3 DEF CheckInfo, StatesOK, JobOK, ScanOK, ScanCall, Holding, MarksCall,
                  DeleteCall, CountsCall, ShardsCall
    <3>2. [job[j] EXCEPT !.pc = "reports"] \in ReadCall
      BY <3>1 DEF ReadCall
    <3>. QED
      BY <2>1, <2>3, <3>2 DEF CheckInfo, Answer, Answers
  <2>4. CASE ScanMarks(j)
    <3>1. job[j] \in ReadCall
      BY <2>4 DEF ScanMarks, StatesOK, JobOK, ScanOK, ScanCall, Holding, MarksCall,
                  DeleteCall, CountsCall, ShardsCall
    <3>2. [pc |-> "marks", start |-> job[j].start, end |-> job[j].end,
           todo |-> Marked(ReadView), batch |-> None] \in MarksCall
      BY <3>1 DEF ReadCall, MarksCall, Marked
    <3>. QED
      BY <2>1, <2>4, <3>2 DEF ScanMarks
  <2>5. CASE ReadMark(j)
    <3>1. job[j] \in MarksCall
      BY <2>5 DEF ReadMark, StatesOK, JobOK, ScanOK, ScanCall, Holding, ReadCall,
                  DeleteCall, CountsCall, ShardsCall
    <3>2. PICK e \in job[j].todo \union Marked(ReadView) :
            LET rest == [job[j] EXCEPT !.todo = @ \ {e}]
            IN  \/ Proceed(j, [rest EXCEPT !.pc = "delete", !.batch = e])
                \/ Answer(j, "raised")
                \/ Proceed(j, rest)
      BY <2>5 DEF ReadMark
    <3> DEFINE rest == [job[j] EXCEPT !.todo = @ \ {e}]
    <3>3. e \in Epochs /\ rest \in MarksCall
      BY <3>1 DEF MarksCall, Marked
    <3>4. [rest EXCEPT !.pc = "delete", !.batch = e] \in DeleteCall
      BY <3>3 DEF MarksCall, DeleteCall
    <3>. QED
      BY <2>1, <2>5, <3>2, <3>3, <3>4 DEF ReadMark, Answer, Answers
  <2>6. CASE ScanCounts(j)
    <3>1. job[j] \in MarksCall
      BY <2>6 DEF ScanCounts, StatesOK, JobOK, ScanOK, ScanCall, Holding, ReadCall,
                  DeleteCall, CountsCall, ShardsCall
    <3>2. [pc |-> "counts", start |-> job[j].start, end |-> job[j].end,
           todo |-> Recorded(ReadView)] \in CountsCall
      BY <3>1 DEF MarksCall, CountsCall, Recorded
    <3>. QED
      BY <2>1, <2>6, <3>2 DEF ScanCounts
  <2>7. CASE ReadInfo(j)
    <3>1. job[j] \in CountsCall
      BY <2>7 DEF ReadInfo, StatesOK, JobOK, ScanOK, ScanCall, Holding, ReadCall,
                  MarksCall, DeleteCall, ShardsCall
    <3>2. PICK e \in Recorded(ReadView) :
            \/ /\ ReadView.info[e] # None
               /\ Proceed(j, [pc |-> "shards", start |-> job[j].start, end |-> job[j].end,
                              todo |-> job[j].todo \ {e}, batch |-> e, info |-> ReadView.info[e]])
            \/ Proceed(j, [job[j] EXCEPT !.todo = @ \ {e}])
      BY <2>7 DEF ReadInfo
    <3>3. e \in Epochs /\ ReadView.info[e] \in Infos \union {None}
      BY <1>1 DEF Recorded, Databases
    <3>4. [job[j] EXCEPT !.todo = @ \ {e}] \in CountsCall
      BY <3>1 DEF CountsCall
    <3>5. ReadView.info[e] # None =>
            [pc |-> "shards", start |-> job[j].start, end |-> job[j].end,
             todo |-> job[j].todo \ {e}, batch |-> e, info |-> ReadView.info[e]] \in ShardsCall
      BY <3>1, <3>3 DEF CountsCall, ShardsCall
    <3>. QED
      BY <2>1, <2>7, <3>2, <3>4, <3>5 DEF ReadInfo
  <2>8. CASE CheckShards(j)
    <3>1. job[j] \in ShardsCall
      BY <2>8 DEF CheckShards, StatesOK, JobOK, ScanOK, ScanCall, Holding, ReadCall,
                  MarksCall, DeleteCall, CountsCall
    <3>2. [pc |-> "counts", start |-> job[j].start, end |-> job[j].end,
           todo |-> job[j].todo] \in CountsCall
      BY <3>1 DEF ShardsCall, CountsCall
    <3>. QED
      BY <2>1, <2>8, <3>2 DEF CheckShards, Answer, Answers
  <2>9. CASE AnswerNotReady(j)
    BY <2>1, <2>9 DEF AnswerNotReady, Answer, Answers
  <2>. QED
    BY <1>12, <2>2, <2>3, <2>4, <2>5, <2>6, <2>7, <2>8, <2>9 DEF IsReady
<1>13. ASSUME NEW j \in Jobs, DeleteMark(j)
       PROVE  StatesOK'
  <2>1. job[j] \in DeleteCall
    BY <1>13 DEF DeleteMark, StatesOK, JobOK, ScanOK, ScanCall, Holding, ReadCall,
                 MarksCall, CountsCall, ShardsCall
  <2> DEFINE call == [job[j] EXCEPT !.pc = "marks", !.batch = None]
  <2>2. call \in MarksCall
    BY <2>1 DEF DeleteCall, MarksCall
  <2>3. JobOK(call) /\ HandOK(call, ReadView)
    BY <2>2 DEF JobOK, HandOK, Holding, MarksCall
  <2>4. writer' \in Databases /\ writer'.count = writer.count
    BY <1>1, <1>13 DEF DeleteMark, Databases
  <2>5. ReadView'.count = ReadView.count
    BY <1>13, <2>4 DEF DeleteMark, OnlyWrites, ReadView
  <2>6. /\ job' = [i \in Jobs |-> job'[i]]
        /\ \A i \in Jobs : JobOK(job'[i]) /\ HandOK(job'[i], ReadView')
    BY <1>13, <2>3, <2>5, JobsStayOK DEF DeleteMark
  <2>. QED
    BY <1>13, <2>4, <2>6 DEF DeleteMark, OnlyWrites, StatesOK, TypeOK, CookerOK, Reports
<1>14. ASSUME NEW j \in Jobs, NEW r \in Ranges, BeginSetReported(j, r[1], r[2])
       PROVE  StatesOK'
  <2> DEFINE call == [pc |-> "scan", start |-> r[1], end |-> r[2],
                      todo |-> Countable(ReadView, r[1], r[2]), key |-> None, from |-> None,
                      maps |-> NoMaps, added |-> {}, moved |-> {}]
  <2>1. call \in ScanCall
    BY <1>10 DEF ScanCall, Countable, NoMaps
  <2>2. JobOK(call) /\ HandOK(call, ReadView)
    BY <2>1 DEF JobOK, ScanOK, HandOK, Holding
  <2>. QED
    BY <1>9, <1>14, <2>2 DEF BeginSetReported
<1>15. ASSUME NEW j \in Jobs, job[j].pc \in {"scan", "exists", "get"}
       PROVE  ScanOK(job[j])
    BY <1>15, ScansAreOK DEF StatesOK, Holding
<1>16. ASSUME NEW j \in Jobs, ReturnKey(j)
       PROVE  StatesOK'
  <2>1. ScanOK(job[j]) /\ job[j] \in ScanCall /\ job[j].pc = "scan"
    BY <1>15, <1>16 DEF ReturnKey, ScanOK
  <2>2. PICK k \in Countable(ReadView, job[j].start, job[j].end) :
          LET info == ReadView.info[k[2]]
              rest == [job[j] EXCEPT !.todo = @ \ {k}]
              again == k \in job[j].added
          IN  /\ again => calls.repeats < MaxRepeats
              /\ IF info # None /\ info.start < job[j].end
                   THEN Proceed(j, [rest EXCEPT !.pc = "exists", !.key = k, !.from = info.start])
                   ELSE Proceed(j, rest)
              /\ calls' = IF again THEN [calls EXCEPT !.repeats = @ + 1] ELSE calls
              /\ repeated' = IF again THEN repeated \union {k[2]} ELSE repeated
    BY <1>16 DEF ReturnKey
  <2> DEFINE info == ReadView.info[k[2]]
             rest == [job[j] EXCEPT !.todo = @ \ {k}]
             hand == [rest EXCEPT !.pc = "exists", !.key = k, !.from = info.start]
  <2>3. k \in Keys /\ k[1] \in OutputFields /\ Reports(ReadView, k) /\ k[2] \in Epochs
    BY DEF Countable, OutputFields, Keys
  <2>4. info \in Infos \union {None}
    BY <1>1, <2>3 DEF Databases
  <2>5. JobOK(rest) /\ HandOK(rest, ReadView)
    BY <2>1 DEF JobOK, ScanOK, ScanCall, HandOK, Holding
  <2>6. ASSUME info # None
        PROVE  JobOK(hand) /\ HandOK(hand, ReadView)
    <3>1. info.start \in Nat
      BY <2>4, <2>6 DEF Infos
    <3> HIDE DEF info
    <3>2. hand \in ScanCall /\ hand.key = k /\ hand.from = info.start
      BY <2>1, <2>3, <3>1 DEF ScanCall, Holding
    <3>3. hand.maps = job[j].maps /\ hand.added = job[j].added
      BY <2>1 DEF ScanCall
    <3> HIDE DEF hand
    <3>. QED
      BY <2>1, <2>3, <3>1, <3>2, <3>3 DEF JobOK, ScanOK, HandOK
  <2>7. ReadView'.count = ReadView.count
    BY <1>16 DEF ReturnKey, ReadView
  <2>8. /\ job' = [i \in Jobs |-> job'[i]]
        /\ \A i \in Jobs : JobOK(job'[i]) /\ HandOK(job'[i], ReadView')
    <3>1. Proceed(j, rest) \/ (info # None /\ Proceed(j, hand))
      BY <2>2
    <3> HIDE DEF rest, hand, info
    <3>. QED
      BY <2>5, <2>6, <2>7, <3>1, JobsStayOK
  <2>9. /\ calls' \in [infos : 0..MaxInfos, records : 0..MaxRecords, jobs : 0..MaxCalls,
                       repeats : 0..MaxRepeats]
        /\ repeated' \subseteq Epochs
    BY <1>1, <2>2, <2>3, ReadinessBounds DEF TypeOK
  <2>. QED
    BY <1>16, <2>8, <2>9 DEF ReturnKey, StatesOK, TypeOK, CookerOK, Reports
<1>17. ASSUME NEW j \in Jobs, CheckExists(j)
       PROVE  StatesOK'
  <2>1. ScanOK(job[j]) /\ job[j] \in ScanCall /\ job[j].pc = "exists"
    BY <1>15, <1>17 DEF CheckExists, ScanOK
  <2> DEFINE call == [job[j] EXCEPT !.pc = "get"]
  <2>2. JobOK(call)
    BY <2>1 DEF JobOK, ScanOK, ScanCall, Holding
  <2>3. HandOK(call, ReadView)
    BY <2>1 DEF StatesOK, HandOK, Holding, ScanCall
  <2>4. JobOK(NoJob("exists")) /\ HandOK(NoJob("exists"), ReadView)
    BY AnswersAreOK DEF Answers
  <2>5. \/ Proceed(j, call)
        \/ Proceed(j, NoJob("exists"))
    BY <1>17 DEF CheckExists, Answer
  <2> HIDE DEF call
  <2>. QED
    BY <1>17, <2>2, <2>3, <2>4, <2>5, ReadStepOK DEF CheckExists, OnlyReads
<1>18. ASSUME NEW j \in Jobs, AddCount(j)
       PROVE  StatesOK'
  <2>1. ScanOK(job[j]) /\ job[j] \in ScanCall /\ job[j].pc = "get"
    BY <1>15, <1>18 DEF AddCount, ScanOK
  <2> DEFINE k == job[j].key
             map == AddedTo(job[j].maps[k[2]], k, job[j].from, ReadView.count[k])
             call == [job[j] EXCEPT !.maps[k[2]] = map, !.added = @ \union {k}, !.pc = "scan",
                                    !.key = None, !.from = None]
  <2>2. /\ k \in Keys /\ k[1] \in OutputFields /\ job[j].from \in Nat
        /\ ReadView.count[k] # None
    BY <2>1 DEF ScanOK, Holding, StatesOK, HandOK, Reports
  <2>3. ReadView.count[k] \in Nat /\ k[2] \in Epochs
    BY <1>1, <2>2 DEF Databases, Fields, Keys
  <2>4. map \in Watermarks /\ map # None
    <3>1. job[j].maps[k[2]] \in Watermarks \union {None}
      BY <2>1, <2>3 DEF ScanCall
    <3> HIDE DEF k
    <3>. QED
      BY <2>2, <2>3, <3>1, AddedToField
  <2> HIDE DEF map, k
  <2>5. /\ call \in ScanCall /\ call.added = job[j].added \union {k} /\ call.pc = "scan"
        /\ call.maps = [job[j].maps EXCEPT ![k[2]] = map]
    BY <2>1, <2>2, <2>3, <2>4 DEF ScanCall
  <2>6. JobOK(call) /\ HandOK(call, ReadView)
    <3> HIDE DEF call
    <3>1. \A l \in call.added : l[1] \in OutputFields /\ call.maps[l[2]] # None
      <4>1. job[j].maps \in [Epochs -> Watermarks \union {None}] /\ job[j].added \subseteq Keys
        BY <2>1 DEF ScanCall
      <4>2. \A l \in job[j].added : l[1] \in OutputFields /\ job[j].maps[l[2]] # None
        BY <2>1 DEF ScanOK
      <4>3. \A l \in Keys : l[2] \in Epochs
        BY DEF Keys
      <4>. QED
        BY <2>2, <2>3, <2>4, <2>5, <4>1, <4>2, <4>3
    <3>. QED
      BY <2>5, <3>1 DEF JobOK, ScanOK, HandOK, Holding
  <2>7. Proceed(j, call)
    BY <1>18 DEF AddCount, map, k
  <2> HIDE DEF call
  <2>. QED
    BY <1>18, <2>6, <2>7, ReadStepOK DEF AddCount, OnlyReads
<1>19. ASSUME NEW j \in Jobs, WriteWatermarks(j)
       PROVE  StatesOK'
  <2>1. job[j].maps \in [Epochs -> Watermarks \union {None}]
    BY <1>15, <1>19 DEF WriteWatermarks, ScanOK, ScanCall
  <2>2. ASSUME NEW e \in Epochs
        PROVE  (IF job[j].maps[e] # None THEN Merge(writer.watermark[e], job[j].maps[e])
                ELSE writer.watermark[e]) \in Watermarks \union {None}
    <3>1. writer.watermark[e] \in Watermarks \union {None}
      BY <1>1 DEF Databases
    <3>. QED
      BY <2>1, <3>1, MergeOfMarks
  <2>3. writer' \in Databases /\ writer'.count = writer.count
    BY <1>1, <1>19, <2>2 DEF WriteWatermarks, Databases
  <2>4. ReadView'.count = ReadView.count
    BY <1>19, <2>3 DEF WriteWatermarks, OnlyWrites, ReadView
  <2>5. JobOK(NoJob("reported")) /\ HandOK(NoJob("reported"), ReadView)
    BY AnswersAreOK DEF Answers
  <2>6. /\ job' = [i \in Jobs |-> job'[i]]
        /\ \A i \in Jobs : JobOK(job'[i]) /\ HandOK(job'[i], ReadView')
    BY <1>19, <2>4, <2>5, JobsStayOK DEF WriteWatermarks, Answer
  <2>. QED
    BY <1>19, <2>3, <2>6 DEF WriteWatermarks, OnlyWrites, StatesOK, TypeOK, CookerOK, Reports
<1>20. CASE UNCHANGED vars
    BY <1>20 DEF vars, StatesOK, TypeOK, CookerOK, ReadView, Reports
<1>. QED
  BY <1>4, <1>5, <1>6, <1>7, <1>8, <1>11, <1>12, <1>13, <1>14, <1>16, <1>17, <1>18, <1>19, <1>20
     DEF Next, Cook, SetReported, IsReady

(* TypeOK, on every behaviour of any size.                                  *)
THEOREM TypeCorrect == Spec => []TypeOK
<1>1. Spec => []StatesOK
    BY StatesInit, StatesNext, PTL DEF Spec
<1>2. StatesOK => TypeOK
    BY DEF StatesOK
<1>. QED
  BY <1>1, <1>2, PTL

-----------------------------------------------------------------------------
(* Nothing is counted twice *)

LEMMA BoundInit == Init => BoundInv
<1> SUFFICES ASSUME Init
             PROVE  BoundInv
    OBVIOUS
<1>1. /\ \A k \in Keys : writer.count[k] = None
      /\ \A e \in Epochs : writer.watermark[e] = None
      /\ reader = writer
    BY DEF Init
<1>2. /\ \A c \in Cookers : cooker[c].pc = "idle"
      /\ \A j \in Jobs : job[j].pc = "idle"
    BY DEF Init, Idle, NoJob
<1>. QED
  BY <1>1, <1>2 DEF BoundInv, HostBounded, CountsBounded, MarkBounded, FieldOf, AtMost,
                    CookerBounded, JobBounded, Holding

LEMMA KeysOfBatch ==
    ASSUME NEW kind \in OutputFields, NEW e \in Epochs, NEW s \in Shards
    PROVE  <<kind, e, s>> \in Keys
    BY ReadinessBounds DEF OutputFields, Keys

(* What is within what was recorded stays within it as more is recorded.    *)
LEMMA BoundsStay ==
    ASSUME NEW done \in [Keys -> Nat], NEW more \in [Keys -> Nat],
           \A k \in Keys : done[k] <= more[k], NEW but, NEW butMore, but \subseteq butMore
    PROVE  /\ \A mark \in Watermarks \union {None}, e \in Epochs :
                MarkBounded(mark, e, done) => MarkBounded(mark, e, more)
           /\ \A db \in Databases : HostBounded(db, done, but) => HostBounded(db, more, butMore)
           /\ \A call : CookerOK(call) /\ CookerBounded(call, done)
                         => CookerBounded(call, more)
           /\ \A call : JobOK(call) /\ JobBounded(call, done, but)
                         => JobBounded(call, more, butMore)
<1>1. ASSUME NEW kind \in OutputFields, NEW e \in Epochs, NEW shards \in SUBSET Shards
      PROVE  /\ Sum(done, kind, e, shards) \in Nat /\ Sum(more, kind, e, shards) \in Nat
             /\ Sum(done, kind, e, shards) <= Sum(more, kind, e, shards)
  <2>1. \A s \in shards : <<kind, e, s>> \in Keys
    BY KeysOfBatch
  <2>2. \A s \in shards : /\ done[<<kind, e, s>>] \in Nat
                          /\ more[<<kind, e, s>>] \in Nat
                          /\ done[<<kind, e, s>>] <= more[<<kind, e, s>>]
    BY <2>1
  <2>. QED
    BY <2>2, SumGrows
<1>2. ASSUME NEW kind \in OutputFields, NEW e \in Epochs, NEW shards \in SUBSET Shards,
             NEW field \in Fields, AtMost(field, Sum(done, kind, e, shards))
      PROVE  AtMost(field, Sum(more, kind, e, shards))
    BY <1>1, <1>2 DEF AtMost, Fields
<1>3. ASSUME NEW mark \in Watermarks \union {None}, NEW e \in Epochs,
             MarkBounded(mark, e, done)
      PROVE  MarkBounded(mark, e, more)
    BY <1>2, <1>3, FieldsOfMarks DEF MarkBounded
<1>4. ASSUME NEW db \in Databases, HostBounded(db, done, but)
      PROVE  HostBounded(db, more, butMore)
  <2>1. CountsBounded(db, more)
    <3>1. \A k \in Keys : db.count[k] \in Nat \union {None}
      BY DEF Databases, Fields
    <3>. QED
      BY <1>4, <3>1 DEF HostBounded, CountsBounded, AtMost
  <2>2. \A e \in Epochs : db.watermark[e] \in Watermarks \union {None}
    BY DEF Databases
  <2>. QED
    BY <1>3, <1>4, <2>1, <2>2 DEF HostBounded
<1>5. ASSUME NEW call, CookerOK(call), CookerBounded(call, done)
      PROVE  CookerBounded(call, more)
    BY <1>5 DEF CookerBounded, CookerOK, Idle
<1>6. ASSUME NEW call, JobOK(call), JobBounded(call, done, but)
      PROVE  JobBounded(call, more, butMore)
  <2>1. ASSUME call.pc \in {"scan"} \union Holding, NEW e \in Epochs \ butMore,
               NEW kind \in OutputFields
        PROVE  AtMost(FieldOf(call.maps[e], kind), Sum(more, kind, e, AddedOf(call, kind, e)))
    <3>1. call.maps[e] \in Watermarks \union {None}
      BY <1>6, <2>1, ScansAreOK DEF ScanCall
    <3>2. FieldOf(call.maps[e], kind) \in Fields
      BY <3>1, FieldsOfMarks
    <3>3. AddedOf(call, kind, e) \in SUBSET Shards
      BY DEF AddedOf
    <3>4. MapBounded(call, e, done)
      BY <1>6, <2>1 DEF JobBounded
    <3>. QED
      BY <1>2, <2>1, <3>2, <3>3, <3>4 DEF MapBounded
  <2>. QED
    BY <1>6, <2>1 DEF JobBounded, MapBounded
<1>. QED
  BY <1>3, <1>4, <1>5, <1>6

(* The key is added, and the shards of no other batch or kind.              *)
LEMMA AddedOfOneMore ==
    ASSUME NEW call, NEW next, NEW k \in Keys, next.added = call.added \union {k},
           NEW kind, NEW e
    PROVE  AddedOf(next, kind, e) = IF kind = k[1] /\ e = k[2]
                                      THEN AddedOf(call, kind, e) \union {k[3]}
                                      ELSE AddedOf(call, kind, e)
<1>1. k = <<k[1], k[2], k[3]>> /\ k[3] \in Shards
    BY DEF Keys
<1>2. \A s : <<kind, e, s>> = k <=> kind = k[1] /\ e = k[2] /\ s = k[3]
    BY <1>1
<1>. QED
  BY <1>1, <1>2 DEF AddedOf

(* One more count within what was recorded for its key; or exactly that.    *)
LEMMA OneMoreCount ==
    ASSUME NEW done \in [Keys -> Nat], NEW call, NEW k \in Keys, k[1] \in OutputFields,
           k \notin call.added, NEW field \in Fields, NEW n \in Nat, n <= done[k]
    PROVE  LET old == Sum(done, k[1], k[2], AddedOf(call, k[1], k[2]))
               new == Sum(done, k[1], k[2], AddedOf(call, k[1], k[2]) \union {k[3]})
           IN  /\ AtMost(field, old) => AtMost(Plus(field, n), new)
               /\ CountOrZero(field) = old /\ n = done[k] => CountOrZero(Plus(field, n)) = new
<1> DEFINE shards == AddedOf(call, k[1], k[2])
           old == Sum(done, k[1], k[2], shards)
           new == Sum(done, k[1], k[2], shards \union {k[3]})
<1>1. k = <<k[1], k[2], k[3]>> /\ k[2] \in Epochs /\ k[3] \in Shards
    BY DEF Keys
<1>2. shards \in SUBSET Shards /\ k[3] \notin shards
    BY <1>1 DEF AddedOf
<1>3. \A t \in Shards : done[<<k[1], k[2], t>>] \in Nat
    BY <1>1, KeysOfBatch
<1>4. old \in Nat /\ new = old + done[<<k[1], k[2], k[3]>>]
  <2> HIDE DEF shards
  <2>. QED
    BY <1>1, <1>2, <1>3, SumOfOneMore
<1>5. new = old + done[k] /\ done[k] \in Nat
    BY <1>1, <1>4
<1> HIDE DEF old, new
<1>6. field \in Nat \union {None}
    BY DEF Fields
<1>7. AtMost(field, old) => AtMost(Plus(field, n), new)
    BY <1>4, <1>5, <1>6 DEF AtMost, Plus
<1>8. CountOrZero(field) = old /\ n = done[k] => CountOrZero(Plus(field, n)) = new
  <2>1. Plus(field, n) = CountOrZero(field) + n /\ Plus(field, n) \in Nat
    BY <1>6 DEF Plus, CountOrZero
  <2>. QED
    BY <1>5, <2>1, NoneIsNoValue DEF CountOrZero
<1>. QED
  BY <1>7, <1>8 DEF old, new

(* is_ready never comes to scan for set_reported.                           *)
LEMMA IsReadyNeverScans ==
    ASSUME StatesOK, NEW j \in Jobs, IsReady(j)
    PROVE  job'[j].pc \notin {"scan", "exists", "get"} /\ \E call : Proceed(j, call)
<1>1. ASSUME job[j] \in ReadCall \union MarksCall \union DeleteCall \union CountsCall
      PROVE  /\ \A pc \in {"info", "reports"} : [job[j] EXCEPT !.pc = pc].pc = pc
             /\ \A e : LET rest == [job[j] EXCEPT !.todo = @ \ {e}]
                       IN  /\ rest.pc \in {"watermark", "info", "reports", "marks", "delete",
                                           "counts"}
                           /\ [rest EXCEPT !.pc = "delete", !.batch = e].pc = "delete"
             /\ [job[j] EXCEPT !.pc = "marks", !.batch = None].pc = "marks"
    BY <1>1 DEF ReadCall, MarksCall, DeleteCall, CountsCall
<1>2. job[j].pc \in {"watermark", "info", "reports", "marks", "delete", "counts"} =>
        job[j] \in ReadCall \union MarksCall \union DeleteCall \union CountsCall
    BY DEF StatesOK, JobOK, ScanOK, ScanCall, Holding, ReadCall, MarksCall, DeleteCall,
           CountsCall, ShardsCall
<1>3. ASSUME NEW call, Proceed(j, call), call.pc \notin {"scan", "exists", "get"}
      PROVE  job'[j].pc \notin {"scan", "exists", "get"} /\ \E c : Proceed(j, c)
  <2>1. job'[j] = call
    BY <1>3 DEF Proceed, StatesOK
  <2>. QED
    BY <1>3, <2>1
<1>4. CASE \E r \in Ranges : BeginIsReady(j, r[1], r[2])
    BY <1>3, <1>4 DEF BeginIsReady, Begin, Proceed
<1>5. CASE CheckWatermark(j) \/ CheckInfo(j)
    BY <1>1, <1>2, <1>3, <1>5 DEF CheckWatermark, CheckInfo, Answer, NoJob
<1>6. CASE ScanMarks(j) \/ ScanCounts(j) \/ CheckShards(j) \/ AnswerNotReady(j)
    BY <1>3, <1>6 DEF ScanMarks, ScanCounts, CheckShards, AnswerNotReady, Answer, NoJob
<1>7. CASE ReadMark(j)
  <2>1. PICK e : LET rest == [job[j] EXCEPT !.todo = @ \ {e}]
                 IN  \/ Proceed(j, [rest EXCEPT !.pc = "delete", !.batch = e])
                     \/ Answer(j, "raised")
                     \/ Proceed(j, rest)
    BY <1>7 DEF ReadMark
  <2>. QED
    BY <1>1, <1>2, <1>3, <1>7, <2>1 DEF ReadMark, Answer, NoJob
<1>8. CASE DeleteMark(j)
    BY <1>1, <1>2, <1>3, <1>8 DEF DeleteMark
<1>9. CASE ReadInfo(j)
    BY <1>1, <1>2, <1>3, <1>9 DEF ReadInfo
<1>. QED
  BY <1>4, <1>5, <1>6, <1>7, <1>8, <1>9 DEF IsReady

LEMMA BoundNext ==
    ASSUME StatesOK, BoundInv, [Next]_vars
    PROVE  BoundInv'
<1>1. StatesOK'
    BY StatesNext
<1>2. /\ processed \in [Keys -> Nat] /\ processed' \in [Keys -> Nat]
      /\ writer \in Databases /\ reader \in Databases
      /\ ReadView \in Databases /\ HostBounded(ReadView, processed, repeated)
    BY <1>1, ViewIsHost DEF StatesOK, TypeOK, BoundInv
<1>3. ASSUME NEW c \in Cookers, StoreCount(c)
      PROVE  cooker[c] \in [pc : {"count"}, key : Keys, amount : Nat, previous : Nat]
    BY <1>3 DEF StoreCount, StatesOK, CookerOK, Idle
<1>4. \A k \in Keys : processed[k] <= processed'[k]
  <2>1. ASSUME NEW c \in Cookers, StoreCount(c)
        PROVE  \A k \in Keys : processed[k] <= processed'[k]
    <3>1. /\ cooker[c].key \in Keys /\ cooker[c].amount \in Nat
          /\ processed' = [processed EXCEPT ![cooker[c].key] = @ + cooker[c].amount]
      BY <1>3, <2>1 DEF StoreCount
    <3>2. processed \in [Keys -> Nat]
      BY <1>2
    <3>. QED
      BY <3>1, <3>2
  <2>2. CASE processed' = processed
    BY <1>2, <2>2
  <2>3. processed' = processed \/ \E c \in Cookers : StoreCount(c)
    BY DEF Next, Cook, IsReady, SetReported, vars, Replicate, BeginInfo, StoreInfo, BeginCount,
           BeginIsReady, BeginSetReported, Begin, OnlyReads, OnlyWrites, CheckWatermark,
           CheckInfo, ScanMarks, ReadMark, DeleteMark, ScanCounts, ReadInfo, CheckShards,
           AnswerNotReady, ReturnKey, CheckExists, AddCount, WriteWatermarks
  <2>. QED
    BY <2>1, <2>2, <2>3
<1>5. repeated \subseteq repeated'
    BY ZenonT(60)
       DEF Next, Cook, IsReady, SetReported, vars, Replicate, BeginInfo, StoreInfo, BeginCount,
           StoreCount, BeginIsReady, BeginSetReported, Begin, OnlyReads, OnlyWrites,
           CheckWatermark, CheckInfo, ScanMarks, ReadMark, DeleteMark, ScanCounts, ReadInfo,
           CheckShards, AnswerNotReady, ReturnKey, CheckExists, AddCount, WriteWatermarks
(* What nothing touches keeps its bound. *)
<1>6. /\ \A mark \in Watermarks \union {None}, e \in Epochs :
           MarkBounded(mark, e, processed) => MarkBounded(mark, e, processed')
      /\ HostBounded(writer, processed', repeated') /\ HostBounded(reader, processed', repeated')
      /\ \A c \in Cookers : CookerBounded(cooker[c], processed')
      /\ \A j \in Jobs : JobBounded(job[j], processed', repeated')
    BY <1>2, <1>4, <1>5, BoundsStay DEF StatesOK, BoundInv
(* The primary *)
<1>7. HostBounded(writer', processed', repeated')
  <2>1. CASE writer' = writer
    BY <1>6, <2>1
  <2>2. ASSUME NEW c \in Cookers, StoreInfo(c)
        PROVE  HostBounded(writer', processed', repeated')
    <3>1. writer'.count = writer.count /\ writer'.watermark = writer.watermark
      BY <1>2, <2>2 DEF StoreInfo, Databases
    <3>. QED
      BY <1>6, <3>1 DEF HostBounded, CountsBounded
  <2>3. ASSUME NEW c \in Cookers, StoreCount(c)
        PROVE  HostBounded(writer', processed', repeated')
    <3> DEFINE k == cooker[c].key
               sum == cooker[c].previous + cooker[c].amount
    <3>1. cooker[c].previous <= processed[k]
      BY <1>3, <2>3 DEF BoundInv, CookerBounded
    <3>2. /\ writer' = [writer EXCEPT !.count[k] = sum]
          /\ processed' = [processed EXCEPT ![k] = @ + cooker[c].amount]
      BY <2>3 DEF StoreCount, NewCount
    <3>3. k \in Keys /\ sum <= processed'[k]
      BY <1>2, <1>3, <2>3, <3>1, <3>2
    <3>4. /\ writer'.watermark = writer.watermark
          /\ writer'.count = [writer.count EXCEPT ![k] = sum]
      BY <1>2, <3>2 DEF Databases
    <3>5. CountsBounded(writer', processed')
      BY <1>2, <1>6, <3>3, <3>4 DEF HostBounded, CountsBounded, AtMost, Databases
    <3>. QED
      BY <1>6, <3>4, <3>5 DEF HostBounded
  <2>4. ASSUME NEW j \in Jobs, DeleteMark(j)
        PROVE  HostBounded(writer', processed', repeated')
    <3>1. /\ writer'.count = writer.count
          /\ \A e \in Epochs : writer'.watermark[e] \in {None, writer.watermark[e]}
      BY <1>2, <2>4 DEF DeleteMark, Databases
    <3>. QED
      BY <1>6, <3>1 DEF HostBounded, CountsBounded, MarkBounded, FieldOf, AtMost
  <2>5. ASSUME NEW j \in Jobs, WriteWatermarks(j)
        PROVE  HostBounded(writer', processed', repeated')
    <3>1. ScanOK(job[j]) /\ job[j] \in ScanCall
      BY <2>5, ScansAreOK DEF WriteWatermarks, StatesOK
    <3>2. job[j].maps \in [Epochs -> Watermarks \union {None}]
      BY <3>1 DEF ScanCall
    <3>3. /\ writer'.count = writer.count
          /\ \A e \in Epochs : writer'.watermark[e] =
               IF job[j].maps[e] # None THEN Merge(writer.watermark[e], job[j].maps[e])
                                        ELSE writer.watermark[e]
      BY <1>2, <2>5 DEF WriteWatermarks, Databases
    <3>4. ASSUME NEW e \in Epochs \ repeated', job[j].maps[e] # None
          PROVE  MarkBounded(Merge(writer.watermark[e], job[j].maps[e]), e, processed')
      <4> DEFINE old == writer.watermark[e]
                 new == job[j].maps[e]
      <4>1. old \in Watermarks \union {None} /\ new \in Watermarks
        BY <1>2, <3>2, <3>4 DEF Databases
      <4>2. MarkBounded(new, e, processed')
        <5> SUFFICES ASSUME NEW kind \in OutputFields
                     PROVE  AtMost(FieldOf(new, kind), Sum(processed', kind, e, Shards))
          BY DEF MarkBounded
        <5> DEFINE shards == AddedOf(job[j], kind, e)
        <5>1. AtMost(FieldOf(new, kind), Sum(processed', kind, e, shards))
          BY <1>6, <2>5, <3>4 DEF WriteWatermarks, JobBounded, MapBounded
        <5>2. FieldOf(new, kind) \in Fields
          BY <4>1, FieldsOfMarks
        <5>3. shards \in SUBSET Shards
          BY DEF AddedOf
        <5>4. \A s \in Shards : processed'[<<kind, e, s>>] \in Nat
          BY <1>2, KeysOfBatch
        <5> HIDE DEF shards, new
        <5>5. \A s \in shards : /\ processed'[<<kind, e, s>>] \in Nat
                                /\ processed'[<<kind, e, s>>] <= processed'[<<kind, e, s>>]
          BY <5>3, <5>4
        <5>6. /\ Sum(processed', kind, e, shards) \in Nat
              /\ Sum(processed', kind, e, Shards) \in Nat
              /\ Sum(processed', kind, e, shards) <= Sum(processed', kind, e, Shards)
          BY <5>3, <5>4, <5>5, SumGrows
        <5>. QED
          BY <5>1, <5>2, <5>6 DEF AtMost, Fields
      <4>3. MarkBounded(old, e, processed')
        BY <1>6, <3>4 DEF HostBounded
      <4> HIDE DEF old, new
      <4>4. \A kind \in OutputFields :
              FieldOf(Merge(old, new), kind) = IF FieldOf(new, kind) = None
                                                 THEN FieldOf(old, kind) ELSE FieldOf(new, kind)
        BY <4>1, MergeOfMarks
      <4>5. MarkBounded(Merge(old, new), e, processed')
        BY <4>2, <4>3, <4>4 DEF MarkBounded
      <4>. QED
        BY <4>5 DEF old, new
    <3>. QED
      BY <1>6, <3>3, <3>4 DEF HostBounded, CountsBounded
  <2>. QED
    BY <2>1, <2>2, <2>3, <2>4, <2>5
       DEF Next, Cook, IsReady, SetReported, vars, Replicate, BeginInfo, BeginCount,
           BeginIsReady, BeginSetReported, Begin, OnlyReads, CheckWatermark, CheckInfo,
           ScanMarks, ReadMark, ScanCounts, ReadInfo, CheckShards, AnswerNotReady, ReturnKey,
           CheckExists, AddCount
(* The replica *)
<1>8. HostBounded(reader', processed', repeated')
  <2>1. reader' = writer \/ reader' = reader
    BY DEF Next, Cook, IsReady, SetReported, vars, Replicate, BeginInfo, StoreInfo, BeginCount,
           StoreCount, BeginIsReady, BeginSetReported, Begin, OnlyReads, OnlyWrites,
           CheckWatermark, CheckInfo, ScanMarks, ReadMark, DeleteMark, ScanCounts, ReadInfo,
           CheckShards, AnswerNotReady, ReturnKey, CheckExists, AddCount, WriteWatermarks
  <2>. QED
    BY <1>6, <2>1
(* The cookers *)
<1>9. \A c \in Cookers : CookerBounded(cooker'[c], processed')
  <2>1. CASE cooker' = cooker
    BY <1>6, <2>1
  <2>2. ASSUME NEW c \in Cookers, NEW e \in Epochs, BeginInfo(c, e)
        PROVE  \A d \in Cookers : CookerBounded(cooker'[d], processed')
    BY <1>6, <2>2 DEF BeginInfo, CookerBounded, StatesOK
  <2>3. ASSUME NEW c \in Cookers, NEW k \in Keys, NEW n \in Amounts, BeginCount(c, k, n)
        PROVE  \A d \in Cookers : CookerBounded(cooker'[d], processed')
    <3>1. CountOrZero(ReadView.count[k]) <= processed[k]
      BY <1>2 DEF HostBounded, CountsBounded, AtMost, CountOrZero
    <3>2. CookerBounded([pc |-> "count", key |-> k, amount |-> n,
                         previous |-> CountOrZero(ReadView.count[k])], processed)
      BY <3>1 DEF CookerBounded
    <3>. QED
      BY <1>6, <2>3, <3>2 DEF BeginCount, StatesOK
  <2>4. ASSUME NEW c \in Cookers, StoreInfo(c) \/ StoreCount(c)
        PROVE  \A d \in Cookers : CookerBounded(cooker'[d], processed')
    BY <1>6, <2>4 DEF StoreInfo, StoreCount, Idle, CookerBounded, StatesOK
  <2>. QED
    BY <2>1, <2>2, <2>3, <2>4
       DEF Next, Cook, IsReady, SetReported, vars, Replicate, BeginIsReady, BeginSetReported,
           Begin, OnlyReads, OnlyWrites, CheckWatermark, CheckInfo, ScanMarks, ReadMark,
           DeleteMark, ScanCounts, ReadInfo, CheckShards, AnswerNotReady, ReturnKey,
           CheckExists, AddCount, WriteWatermarks
(* The jobs *)
<1>10. \A j \in Jobs : JobBounded(job'[j], processed', repeated')
  <2>1. CASE job' = job
    BY <1>6, <2>1
  (* What a call keeps of a scan keeps its bound. *)
  <2>2. ASSUME NEW call, NEW next, ScanOK(call), ScanOK(next),
               JobBounded(call, processed', repeated'),
               next.maps = call.maps, next.added = call.added,
               next.pc \in Holding => next.key \notin next.added \/ next.key[2] \in repeated'
        PROVE  JobBounded(next, processed', repeated')
    <3>1. call.pc \in {"scan"} \union Holding
      BY <2>2 DEF ScanOK, ScanCall
    <3>2. \A kind, e : AddedOf(next, kind, e) = AddedOf(call, kind, e)
      BY <2>2 DEF AddedOf
    <3>. QED
      BY <2>2, <3>1, <3>2 DEF JobBounded, MapBounded
  <2>3. ASSUME NEW j \in Jobs, NEW call, Proceed(j, call),
               JobBounded(call, processed', repeated')
        PROVE  \A i \in Jobs : JobBounded(job'[i], processed', repeated')
    BY <1>6, <2>3 DEF Proceed, StatesOK
  <2>4. ASSUME NEW e \in Epochs, Moves(e)
        PROVE  \A i \in Jobs : JobBounded(job'[i], processed', repeated')
    <3> SUFFICES ASSUME NEW i \in Jobs, Scanning(i)
                 PROVE  JobBounded(job'[i], processed', repeated')
      BY <1>6, <2>4, MovesOK
    <3>1. job'[i] = [job[i] EXCEPT !.moved = @ \union {e}] /\ JobOK(job'[i])
      BY <2>4, MovesOK
    <3>2. ScanOK(job[i]) /\ job[i] \in ScanCall
      BY ScansAreOK DEF StatesOK, Scanning, Holding
    <3>3. /\ job'[i].maps = job[i].maps /\ job'[i].added = job[i].added
          /\ job'[i].pc = job[i].pc /\ job'[i].key = job[i].key
      BY <3>1, <3>2 DEF ScanCall
    <3>4. job'[i].pc \in {"scan"} \union Holding
      BY <3>3 DEF Scanning, Holding
    <3>5. ScanOK(job'[i])
      BY <3>1, <3>4, ScansAreOK
    <3>. QED
      BY <1>6, <2>2, <3>2, <3>3, <3>5 DEF JobBounded
  <2>5. ASSUME NEW j \in Jobs, NEW call, Proceed(j, call),
               call.pc \notin {"scan", "exists", "get"}
        PROVE  \A i \in Jobs : JobBounded(job'[i], processed', repeated')
    BY <2>3, <2>5 DEF JobBounded, Holding
  <2>6. ASSUME NEW j \in Jobs, IsReady(j)
        PROVE  \A i \in Jobs : JobBounded(job'[i], processed', repeated')
    <3>1. PICK call : Proceed(j, call)
      BY <2>6, IsReadyNeverScans
    <3>2. job'[j] = call
      BY <3>1 DEF Proceed, StatesOK
    <3>. QED
      BY <2>5, <2>6, <3>1, <3>2, IsReadyNeverScans
  <2>7. ASSUME NEW j \in Jobs, NEW r \in Ranges, BeginSetReported(j, r[1], r[2])
        PROVE  \A i \in Jobs : JobBounded(job'[i], processed', repeated')
    <3> DEFINE call == [pc |-> "scan", start |-> r[1], end |-> r[2],
                        todo |-> Countable(ReadView, r[1], r[2]), key |-> None, from |-> None,
                        maps |-> NoMaps, added |-> {}, moved |-> {}]
    <3>1. JobBounded(call, processed', repeated')
      BY DEF JobBounded, MapBounded, NoMaps, FieldOf, AtMost, Holding
    <3>2. Proceed(j, call)
      BY <2>7 DEF BeginSetReported, Begin, Proceed
    <3> HIDE DEF call
    <3>. QED
      BY <2>3, <3>1, <3>2
  <2>8. ASSUME NEW j \in Jobs, job[j].pc \in {"scan", "exists", "get"}
        PROVE  ScanOK(job[j]) /\ job[j] \in ScanCall
    BY <2>8, ScansAreOK DEF StatesOK, Holding
  <2>9. ASSUME NEW j \in Jobs, NEW call, Proceed(j, call), call.pc \in {"scan", "exists", "get"}
        PROVE  ScanOK(call)
    <3>1. job'[j] = call
      BY <2>9 DEF Proceed, StatesOK
    <3>. QED
      BY <1>1, <2>9, <3>1, ScansAreOK DEF StatesOK, Holding
  <2>10. ASSUME NEW j \in Jobs, ReturnKey(j)
         PROVE  \A i \in Jobs : JobBounded(job'[i], processed', repeated')
    <3>1. job[j] \in ScanCall /\ ScanOK(job[j]) /\ job[j].pc = "scan"
      BY <2>8, <2>10 DEF ReturnKey
    <3>2. PICK k, from :
            /\ k \in Keys
            /\ k \in job[j].added => k[2] \in repeated'
            /\ LET rest == [job[j] EXCEPT !.todo = @ \ {k}]
               IN  \/ Proceed(j, [rest EXCEPT !.pc = "exists", !.key = k, !.from = from])
                   \/ Proceed(j, rest)
      BY <2>10 DEF ReturnKey, Countable
    <3> DEFINE rest == [job[j] EXCEPT !.todo = @ \ {k}]
               hand == [rest EXCEPT !.pc = "exists", !.key = k, !.from = from]
    <3>3. /\ rest.pc = "scan" /\ rest.maps = job[j].maps /\ rest.added = job[j].added
          /\ hand.pc = "exists" /\ hand.maps = job[j].maps /\ hand.added = job[j].added
          /\ hand.key = k
      BY <3>1 DEF ScanCall
    <3>4. Proceed(j, rest) \/ Proceed(j, hand)
      BY <3>2
    <3> HIDE DEF rest, hand
    <3>5. ASSUME NEW call \in {rest, hand}, Proceed(j, call)
          PROVE  JobBounded(call, processed', repeated')
      <4>1. ScanOK(call)
        BY <2>9, <3>3, <3>5
      <4>. QED
        BY <1>6, <2>2, <3>1, <3>2, <3>3, <4>1 DEF Holding
    <3>. QED
      BY <2>3, <3>4, <3>5
  <2>11. ASSUME NEW j \in Jobs, CheckExists(j)
         PROVE  \A i \in Jobs : JobBounded(job'[i], processed', repeated')
    <3>1. job[j] \in ScanCall /\ ScanOK(job[j]) /\ job[j].pc = "exists"
      BY <2>8, <2>11 DEF CheckExists
    <3> DEFINE call == [job[j] EXCEPT !.pc = "get"]
    <3>2. CASE Answer(j, "exists")
      BY <2>5, <3>2 DEF Answer, NoJob
    <3>3. CASE Proceed(j, call)
      <4>1. /\ call.pc = "get" /\ call.maps = job[j].maps /\ call.added = job[j].added
            /\ call.key = job[j].key
        BY <3>1 DEF ScanCall
      <4> HIDE DEF call
      <4>2. ScanOK(call)
        BY <2>9, <3>3, <4>1
      <4>3. call.key \notin call.added \/ call.key[2] \in repeated'
        BY <1>6, <3>1, <4>1 DEF JobBounded, Holding
      <4>4. JobBounded(call, processed', repeated')
        BY <1>6, <2>2, <3>1, <4>1, <4>2, <4>3
      <4>. QED
        BY <2>3, <3>3, <4>4
    <3>. QED
      BY <2>11, <3>2, <3>3 DEF CheckExists
  <2>12. ASSUME NEW j \in Jobs, AddCount(j)
         PROVE  \A i \in Jobs : JobBounded(job'[i], processed', repeated')
    <3>1. job[j] \in ScanCall /\ ScanOK(job[j]) /\ job[j].pc = "get"
      BY <2>8, <2>12 DEF AddCount
    <3> DEFINE k == job[j].key
               n == ReadView.count[k]
               map == AddedTo(job[j].maps[k[2]], k, job[j].from, n)
               call == [job[j] EXCEPT !.maps[k[2]] = map, !.added = @ \union {k}, !.pc = "scan",
                                      !.key = None, !.from = None]
    <3>2. k \in Keys /\ k[1] \in OutputFields /\ job[j].from \in Nat /\ k[2] \in Epochs
      BY <3>1 DEF ScanOK, Holding, Keys
    <3>3. n \in Nat /\ n <= processed'[k]
      <4>1. n # None
        BY <3>1 DEF StatesOK, HandOK, Reports, Holding
      <4>2. n \in Nat
        BY <1>2, <3>2, <4>1 DEF Databases, Fields
      <4>3. AtMost(n, processed[k]) /\ processed[k] <= processed'[k]
        BY <1>2, <1>4, <3>2 DEF HostBounded, CountsBounded
      <4>4. processed[k] \in Nat /\ processed'[k] \in Nat
        BY <1>2, <3>2
      <4> HIDE DEF n, k
      <4>. QED
        BY <4>1, <4>2, <4>3, <4>4 DEF AtMost
    <3>4. k \notin job[j].added \/ k[2] \in repeated'
      BY <1>6, <3>1 DEF JobBounded, Holding
    <3>5. \A e \in Epochs : job[j].maps[e] \in Watermarks \union {None}
      BY <3>1 DEF ScanCall
    <3>6. /\ call.pc = "scan" /\ call.added = job[j].added \union {k}
          /\ \A e \in Epochs : call.maps[e] = IF e = k[2] THEN map ELSE job[j].maps[e]
      BY <3>1, <3>2 DEF ScanCall
    <3>7. Proceed(j, call)
      BY <2>12 DEF AddCount
    <3> HIDE DEF call, map, n, k
    <3>8. \A kind, e : AddedOf(call, kind, e) =
            IF kind = k[1] /\ e = k[2] THEN AddedOf(job[j], kind, e) \union {k[3]}
                                       ELSE AddedOf(job[j], kind, e)
      BY <3>2, <3>6, AddedOfOneMore
    <3>9. ASSUME NEW e \in Epochs \ repeated'
          PROVE  MapBounded(call, e, processed')
      <4>1. MapBounded(job[j], e, processed')
        BY <1>6, <3>1 DEF JobBounded, Holding
      <4>2. CASE e # k[2]
        BY <3>6, <3>8, <4>1, <4>2 DEF MapBounded
      <4>3. CASE e = k[2]
        <5> SUFFICES ASSUME NEW kind \in OutputFields
                     PROVE  AtMost(FieldOf(map, kind),
                                   Sum(processed', kind, e, AddedOf(call, kind, e)))
          BY <3>6, <4>3 DEF MapBounded
        <5> DEFINE field == FieldOf(job[j].maps[e], kind)
        <5>1. AtMost(field, Sum(processed', kind, e, AddedOf(job[j], kind, e)))
          BY <4>1 DEF MapBounded
        <5>2. field \in Fields
          BY <3>5, FieldsOfMarks
        <5>3. FieldOf(map, kind) = IF kind = k[1] THEN Plus(field, n) ELSE field
          <6>1. map = AddedTo(job[j].maps[e], k, job[j].from, n)
            BY <4>3 DEF map
          <6>2. job[j].maps[e] \in Watermarks \union {None}
            BY <3>5
          <6> DEFINE old == job[j].maps[e]
          <6>3. n \in Nat /\ old \in Watermarks \union {None}
            BY <3>3, <6>2
          <6> HIDE DEF old
          <6>4. FieldOf(AddedTo(old, k, job[j].from, n), kind)
                  = IF kind = k[1] THEN Plus(FieldOf(old, kind), n) ELSE FieldOf(old, kind)
            BY <3>2, <6>3, AddedToField, SMTT(30)
          <6>. QED
            BY <6>1, <6>4 DEF old
        <5>4. k \notin job[j].added
          BY <3>4, <4>3
        <5> HIDE DEF field
        <5>5. CASE kind = k[1]
          <6>1. AddedOf(call, kind, e) = AddedOf(job[j], k[1], k[2]) \union {k[3]}
            BY <3>8, <4>3, <5>5
          <6>2. AtMost(field, Sum(processed', k[1], k[2], AddedOf(job[j], k[1], k[2])))
            BY <4>3, <5>1, <5>5
          <6>3. AtMost(Plus(field, n), Sum(processed', k[1], k[2],
                                           AddedOf(job[j], k[1], k[2]) \union {k[3]}))
            BY <1>2, <3>2, <3>3, <5>2, <5>4, <6>2, OneMoreCount
          <6>. QED
            BY <4>3, <5>3, <5>5, <6>1, <6>3
        <5>6. CASE kind # k[1]
          BY <3>8, <5>1, <5>3, <5>6
        <5>. QED
          BY <5>5, <5>6
      <4>. QED
        BY <4>2, <4>3
    <3>10. JobBounded(call, processed', repeated')
      BY <3>6, <3>9 DEF JobBounded, Holding
    <3>. QED
      BY <2>3, <3>7, <3>10
  <2>13. ASSUME NEW j \in Jobs, WriteWatermarks(j)
         PROVE  \A i \in Jobs : JobBounded(job'[i], processed', repeated')
    BY <2>5, <2>13 DEF WriteWatermarks, Answer, NoJob
  <2>14. ASSUME NEW c \in Cookers, StoreInfo(c) \/ StoreCount(c)
         PROVE  \E e \in Epochs : Moves(e)
    <3>1. cooker[c].pc = "info" => cooker[c].epoch \in Epochs
      BY DEF StatesOK, CookerOK, Idle
    <3>2. cooker[c].pc = "count" => cooker[c].key[2] \in Epochs
      BY DEF StatesOK, CookerOK, Idle, Keys
    <3>. QED
      BY <2>14, <3>1, <3>2 DEF StoreInfo, StoreCount
  <2>. QED
    BY <2>1, <2>4, <2>6, <2>7, <2>10, <2>11, <2>12, <2>13, <2>14
       DEF Next, Cook, SetReported, vars, Replicate, BeginInfo, BeginCount
<1>. QED
  BY <1>7, <1>8, <1>9, <1>10 DEF BoundInv, HostBounded, CountsBounded, MarkBounded, FieldOf,
     CookerBounded, JobBounded, MapBounded, AddedOf, Sum, Units

(* Nothing is counted twice, whatever replica lag, overlapping cookers and  *)
(* racing jobs do: a number that is stale when it is written was within     *)
(* what had been recorded when it was read, and nothing recorded goes away; *)
(* a watermark adds up a key at most once, unless its scan returned it      *)
(* twice.                                                                   *)
THEOREM NothingCountedTwiceTheorem == Spec => []NothingCountedTwice
<1>1. Init => StatesOK /\ BoundInv
    BY StatesInit, BoundInit
<1>2. StatesOK /\ BoundInv /\ [Next]_vars => (StatesOK /\ BoundInv)'
    BY StatesNext, BoundNext
<1>3. BoundInv => NothingCountedTwice
    BY DEF BoundInv, HostBounded, CountsBounded, MarkBounded, FieldOf, OutputFields,
           NothingCountedTwice, NoMoreThanRecorded, ProcessedOf
<1>. QED
  BY <1>1, <1>2, <1>3, PTL DEF Spec

-----------------------------------------------------------------------------
(* With one client *)

LEMMA AloneInit == Init => AloneInv
<1> SUFFICES ASSUME Init, NEW k \in Keys
             PROVE  /\ CountOrZero(writer.count[k]) = processed[k]
                    /\ \A c \in Cookers : OneRecords(c, k)
    BY DEF AloneInv
<1>1. writer.count[k] = None /\ processed[k] = 0
    BY DEF Init
<1>2. \A c \in Cookers : ~Recording(c, k)
    BY DEF Init, Recording, Idle
<1>. QED
  BY <1>1, <1>2 DEF CountOrZero, OneRecords

LEMMA AloneNext ==
    ASSUME StatesOK, AloneInv, [Next]_vars
    PROVE  AloneInv'
<1> SUFFICES ASSUME oneClient', NEW k \in Keys, k \notin contended'
             PROVE  /\ CountOrZero(writer.count[k])' = processed'[k]
                    /\ \A c \in Cookers : OneRecords(c, k)'
    BY DEF AloneInv
<1>1. StatesOK'
    BY StatesNext
<1>2. oneClient /\ k \notin contended
    BY DEF Next, Cook, IsReady, SetReported, vars, Replicate, BeginInfo, StoreInfo, BeginCount,
           StoreCount, BeginIsReady, BeginSetReported, Begin, OnlyReads, OnlyWrites,
           CheckWatermark, CheckInfo, ScanMarks, ReadMark, DeleteMark, ScanCounts, ReadInfo,
           CheckShards, AnswerNotReady, ReturnKey, CheckExists, AddCount, WriteWatermarks
<1>3. ReadView = writer
    BY <1>2 DEF ReadView
<1>4. /\ CountOrZero(writer.count[k]) = processed[k]
      /\ \A c \in Cookers : OneRecords(c, k)
    BY <1>2 DEF AloneInv
<1>5. writer \in Databases /\ processed \in [Keys -> Nat] /\ processed[k] \in Nat
    BY DEF StatesOK, TypeOK
(* Steps that leave the counts, and who is counting, alone. *)
<1>6. ASSUME processed' = processed, writer'.count = writer.count,
             \A c \in Cookers : Recording(c, k)' => Recording(c, k) /\ cooker'[c] = cooker[c]
      PROVE  /\ CountOrZero(writer.count[k])' = processed'[k]
             /\ \A c \in Cookers : OneRecords(c, k)'
  <2>1. CountOrZero(writer.count[k])' = CountOrZero(writer.count[k])
    BY <1>6 DEF CountOrZero
  <2>. QED
    BY <1>4, <1>6, <2>1 DEF OneRecords
<1>7. ASSUME cooker' = cooker, processed' = processed, writer'.count = writer.count
      PROVE  /\ CountOrZero(writer.count[k])' = processed'[k]
             /\ \A c \in Cookers : OneRecords(c, k)'
    BY <1>6, <1>7 DEF Recording
<1>8. ASSUME NEW c \in Cookers, NEW e \in Epochs, BeginInfo(c, e)
      PROVE  /\ CountOrZero(writer.count[k])' = processed'[k]
             /\ \A d \in Cookers : OneRecords(d, k)'
    BY <1>6, <1>8 DEF BeginInfo, Recording, StatesOK
<1>9. ASSUME NEW c \in Cookers, StoreInfo(c)
      PROVE  /\ CountOrZero(writer.count[k])' = processed'[k]
             /\ \A d \in Cookers : OneRecords(d, k)'
  <2>1. writer'.count = writer.count
    BY <1>5, <1>9 DEF StoreInfo, Databases
  <2>2. \A d \in Cookers : Recording(d, k)' => Recording(d, k) /\ cooker'[d] = cooker[d]
    BY <1>9 DEF StoreInfo, Recording, Idle, StatesOK
  <2>. QED
    BY <1>6, <1>9, <2>1, <2>2 DEF StoreInfo
<1>10. ASSUME NEW c \in Cookers, NEW l \in Keys, NEW n \in Amounts, BeginCount(c, l, n)
       PROVE  /\ CountOrZero(writer.count[k])' = processed'[k]
              /\ \A d \in Cookers : OneRecords(d, k)'
  <2>1. /\ cooker[c].pc = "idle"
        /\ writer' = writer /\ processed' = processed
        /\ \A d \in Cookers : cooker'[d] =
             IF d = c THEN [pc |-> "count", key |-> l, amount |-> n,
                            previous |-> CountOrZero(writer.count[l])]
                      ELSE cooker[d]
    BY <1>3, <1>10 DEF BeginCount, StatesOK
  <2>2. CASE l # k
    <3>1. \A d \in Cookers : Recording(d, k)' => Recording(d, k) /\ cooker'[d] = cooker[d]
      BY <2>1, <2>2 DEF Recording
    <3>. QED
      BY <1>6, <2>1, <3>1
  <2>3. CASE l = k
    <3>1. \A d \in Cookers \ {c} : ~Recording(d, k)
      BY <1>10, <2>3 DEF BeginCount
    <3>2. \A d \in Cookers \ {c} : ~Recording(d, k)'
      BY <2>1, <3>1 DEF Recording
    <3>3. cooker'[c].previous = processed'[k]
      BY <1>4, <2>1, <2>3
    <3>. QED
      BY <1>4, <2>1, <3>2, <3>3 DEF OneRecords, CountOrZero
  <2>. QED
    BY <2>2, <2>3
<1>11. ASSUME NEW c \in Cookers, StoreCount(c)
       PROVE  /\ CountOrZero(writer.count[k])' = processed'[k]
              /\ \A d \in Cookers : OneRecords(d, k)'
  <2> DEFINE l == cooker[c].key
             sum == cooker[c].previous + cooker[c].amount
  <2>1. cooker[c] \in [pc : {"count"}, key : Keys, amount : Nat, previous : Nat]
    BY <1>11 DEF StoreCount, StatesOK, CookerOK, Idle
  <2>2. /\ writer' = [writer EXCEPT !.count[l] = sum]
        /\ processed' = [processed EXCEPT ![l] = @ + cooker[c].amount]
    BY <1>11 DEF StoreCount, NewCount
  <2>3. /\ writer'.count = [writer.count EXCEPT ![l] = sum]
        /\ writer.count \in [Keys -> Fields]
    BY <1>5, <2>2 DEF Databases
  <2>4. \A d \in Cookers : Recording(d, k)' =>
          d # c /\ Recording(d, k) /\ cooker'[d] = cooker[d]
    BY <1>11 DEF StoreCount, Recording, Idle, StatesOK
  <2>5. CASE l # k
    <3>1. writer'.count[k] = writer.count[k] /\ processed'[k] = processed[k]
      BY <1>5, <2>2, <2>3, <2>5
    <3>2. \A d \in Cookers : OneRecords(d, k)'
      BY <1>4, <2>4, <3>1 DEF OneRecords
    <3>. QED
      BY <1>4, <3>1, <3>2 DEF CountOrZero
  <2>6. CASE l = k
    <3>1. Recording(c, k)
      BY <2>1, <2>6 DEF Recording
    <3>2. cooker[c].previous = processed[k] /\ \A d \in Cookers \ {c} : ~Recording(d, k)
      BY <1>4, <3>1 DEF OneRecords
    <3>3. writer'.count[k] = sum /\ processed'[k] = processed[k] + cooker[c].amount
      BY <1>5, <2>1, <2>2, <2>3, <2>6
    <3>4. sum \in Nat /\ sum = processed'[k]
      BY <1>5, <2>1, <3>2, <3>3
    <3>5. CountOrZero(writer.count[k])' = processed'[k]
      BY <3>3, <3>4, NoneIsNoValue DEF CountOrZero
    <3>6. \A d \in Cookers : ~Recording(d, k)'
      BY <2>4, <3>2
    <3>. QED
      BY <3>5, <3>6 DEF OneRecords
  <2>. QED
    BY <2>5, <2>6
<1>12. ASSUME NEW j \in Jobs, DeleteMark(j) \/ WriteWatermarks(j)
       PROVE  /\ CountOrZero(writer.count[k])' = processed'[k]
              /\ \A d \in Cookers : OneRecords(d, k)'
  <2>1. writer'.count = writer.count
    BY <1>5, <1>12 DEF DeleteMark, WriteWatermarks, Databases
  <2>. QED
    BY <1>7, <1>12, <2>1 DEF DeleteMark, WriteWatermarks, OnlyWrites
<1>. QED
  BY <1>7, <1>8, <1>9, <1>10, <1>11, <1>12
     DEF Next, Cook, IsReady, SetReported, vars, Replicate, BeginIsReady, BeginSetReported,
         Begin, OnlyReads, CheckWatermark, CheckInfo, ScanMarks, ReadMark, ScanCounts, ReadInfo,
         CheckShards, AnswerNotReady, ReturnKey, CheckExists, AddCount

(* With one client, and no two cookers recording a key at a time, nothing   *)
(* is lost: the one cooker has read exactly what was recorded before.       *)
THEOREM NothingLostAloneTheorem == Spec => []NothingLostAlone
<1>1. Init => StatesOK /\ AloneInv
    BY StatesInit, AloneInit
<1>2. StatesOK /\ AloneInv /\ [Next]_vars => (StatesOK /\ AloneInv)'
    BY StatesNext, AloneNext
<1>3. AloneInv => NothingLostAlone
    BY DEF AloneInv, NothingLostAlone, CountOrZero
<1>. QED
  BY <1>1, <1>2, <1>3, PTL DEF Spec

-----------------------------------------------------------------------------
(* A batch that rests is summarised exactly *)

LEMMA SettledInit == Init => SettledInv
    BY DEF Init, SettledInv, Scanning, NoJob

(* A scan goes on, perhaps to its next command, while its batch rests.      *)
LEMMA ScanExactStays ==
    ASSUME NEW call, NEW next, NEW e \in Epochs, NEW db, NEW newDb, NEW done, NEW more,
           ScanExact(call, e, db, done),
           next.start = call.start, next.end = call.end, next.maps = call.maps,
           next.added = call.added, next.todo = call.todo, next.key = call.key,
           next.pc \in Holding <=> call.pc \in Holding,
           newDb.info[e] = db.info[e],
           \A k \in Keys : k[2] = e => newDb.count[k] = db.count[k] /\ more[k] = done[k]
    PROVE  ScanExact(next, e, newDb, more)
<1>1. \A kind : AddedOf(next, kind, e) = AddedOf(call, kind, e)
    BY DEF AddedOf
<1>2. ASSUME NEW kind \in OutputFields
      PROVE  Sum(more, kind, e, AddedOf(call, kind, e)) = Sum(done, kind, e, AddedOf(call, kind, e))
  <2>1. \A s \in AddedOf(call, kind, e) : more[<<kind, e, s>>] = done[<<kind, e, s>>]
    BY KeysOfBatch DEF AddedOf
  <2>. QED
    BY <2>1 DEF Sum, Units
<1>3. MapExact(next, e, more)
    BY <1>1, <1>2 DEF ScanExact, MapExact
<1>4. Belongs(next, e, newDb) <=> Belongs(call, e, db)
    BY DEF Belongs
<1>5. \A k \in Countable(newDb, next.start, next.end) : k[2] = e =>
        k \in Countable(db, call.start, call.end)
    BY DEF Countable, Reports
<1>6. \A k : InHand(next, k) <=> InHand(call, k)
    BY DEF InHand
<1>. QED
  BY <1>3, <1>4, <1>5, <1>6 DEF ScanExact

LEMMA SettledNext ==
    ASSUME StatesOK, BoundInv, AloneInv, SettledInv, [Next]_vars
    PROVE  SettledInv'
<1> SUFFICES ASSUME oneClient', NEW j \in Jobs, NEW e \in Epochs, Scanning(j)', Settled(j, e)'
             PROVE  ScanExact(job'[j], e, writer', processed')
    BY DEF SettledInv
<1>1. StatesOK'
    BY StatesNext
<1>2. ScanOK(job'[j]) /\ job'[j] \in ScanCall
    BY <1>1, ScansAreOK DEF StatesOK, Scanning, Holding
<1>3. /\ oneClient /\ repeated \subseteq repeated' /\ contended \subseteq contended'
      /\ writer \in Databases /\ processed \in [Keys -> Nat]
  <2>1. oneClient /\ repeated \subseteq repeated' /\ contended \subseteq contended'
    BY ZenonT(60)
       DEF Next, Cook, IsReady, SetReported, vars, Replicate, BeginInfo, StoreInfo, BeginCount,
           StoreCount, BeginIsReady, BeginSetReported, Begin, OnlyReads, OnlyWrites,
           CheckWatermark, CheckInfo, ScanMarks, ReadMark, DeleteMark, ScanCounts, ReadInfo,
           CheckShards, AnswerNotReady, ReturnKey, CheckExists, AddCount, WriteWatermarks
  <2>. QED
    BY <2>1 DEF StatesOK, TypeOK
<1>4. ReadView = writer
    BY <1>3 DEF ReadView
<1>5. ASSUME Scanning(j)
      PROVE  ScanOK(job[j]) /\ job[j] \in ScanCall
    BY <1>5, ScansAreOK DEF StatesOK, Scanning, Holding
(* What was settled before is exact before. *)
<1>6. ASSUME Scanning(j), job[j].moved \subseteq job'[j].moved
      PROVE  ScanExact(job[j], e, writer, processed) /\ Settled(j, e)
    BY <1>3, <1>6 DEF SettledInv, Settled
(* Steps that leave the scan, and its batch, alone. *)
<1>7. ASSUME job'[j] = job[j], writer'.info[e] = writer.info[e],
             \A k \in Keys : k[2] = e => /\ writer'.count[k] = writer.count[k]
                                         /\ processed'[k] = processed[k]
      PROVE  ScanExact(job'[j], e, writer', processed')
  <2>1. Scanning(j)
    BY <1>7 DEF Scanning
  <2>2. ScanExact(job[j], e, writer, processed)
    BY <1>6, <1>7, <2>1
  <2>. QED
    BY <1>7, <2>2, ScanExactStays
<1>8. CASE writer' = writer /\ processed' = processed /\ job'[j] = job[j]
    BY <1>7, <1>8
<1>9. ASSUME NEW i \in Jobs, NEW call, Proceed(i, call), i # j
      PROVE  job'[j] = job[j]
    BY <1>9 DEF Proceed
<1>10. ASSUME NEW c \in Cookers, StoreInfo(c) \/ StoreCount(c)
       PROVE  ScanExact(job'[j], e, writer', processed')
  <2>1. /\ cooker[c].pc = "info" => cooker[c].epoch \in Epochs
        /\ cooker[c].pc = "count" => cooker[c].key \in Keys /\ cooker[c].key[2] \in Epochs
    BY DEF StatesOK, CookerOK, Idle, Keys
  <2>2. PICK f \in Epochs :
          /\ Moves(f)
          /\ f # e => /\ writer'.info[e] = writer.info[e]
                      /\ \A k \in Keys : k[2] = e => /\ writer'.count[k] = writer.count[k]
                                                     /\ processed'[k] = processed[k]
    <3>1. CASE StoreInfo(c)
      <4>1. /\ Moves(cooker[c].epoch) /\ processed' = processed
            /\ cooker[c].epoch # e => writer'.info[e] = writer.info[e]
            /\ writer'.count = writer.count
        BY <1>3, <3>1 DEF StoreInfo, Databases
      <4>. QED
        BY <2>1, <3>1, <4>1 DEF StoreInfo
    <3>2. CASE StoreCount(c)
      <4>1. /\ Moves(cooker[c].key[2]) /\ writer'.info = writer.info
            /\ \A k \in Keys : k # cooker[c].key => /\ writer'.count[k] = writer.count[k]
                                                    /\ processed'[k] = processed[k]
        BY <1>3, <3>2 DEF StoreCount, Databases
      <4>. QED
        BY <2>1, <3>2, <4>1 DEF StoreCount
    <3>. QED
      BY <1>10, <3>1, <3>2
  <2>3. Scanning(j) /\ job'[j] = [job[j] EXCEPT !.moved = @ \union {f}]
    BY <2>2, MovesOK DEF Scanning
  <2>4. job[j] \in ScanCall
    BY <1>5, <2>3
  <2>5. /\ job'[j].start = job[j].start /\ job'[j].end = job[j].end /\ job'[j].pc = job[j].pc
        /\ job'[j].maps = job[j].maps /\ job'[j].added = job[j].added
        /\ job'[j].todo = job[j].todo /\ job'[j].key = job[j].key
        /\ job'[j].moved = job[j].moved \union {f}
    BY <2>3, <2>4 DEF ScanCall
  <2>6. f # e
    BY <2>5 DEF Settled
  <2>7. ScanExact(job[j], e, writer, processed)
    BY <1>6, <2>3, <2>5
  <2>. QED
    BY <2>2, <2>5, <2>6, <2>7, ScanExactStays
<1>11. ASSUME NEW r \in Ranges, BeginSetReported(j, r[1], r[2])
       PROVE  ScanExact(job'[j], e, writer', processed')
  <2> DEFINE call == [pc |-> "scan", start |-> r[1], end |-> r[2],
                      todo |-> Countable(writer, r[1], r[2]), key |-> None, from |-> None,
                      maps |-> NoMaps, added |-> {}, moved |-> {}]
  <2>1. job'[j] = call /\ writer' = writer /\ processed' = processed
    BY <1>4, <1>11 DEF BeginSetReported, Begin, StatesOK
  <2>2. \A kind : AddedOf(call, kind, e) = {}
    BY DEF AddedOf
  <2>3. MapExact(call, e, processed)
    <3>1. call.maps[e] = None
      BY DEF NoMaps
    <3> HIDE DEF call
    <3>. QED
      BY <2>2, <3>1, SumOfNone DEF MapExact, FieldOf, CountOrZero
  <2>4. ScanExact(call, e, writer, processed)
    BY <2>3 DEF ScanExact, NoMaps, Holding
  <2> HIDE DEF call
  <2>. QED
    BY <2>1, <2>4, ScanExactStays
<1>12. ASSUME ReturnKey(j)
       PROVE  ScanExact(job'[j], e, writer', processed')
  <2>1. /\ job[j].pc = "scan" /\ Scanning(j) /\ writer' = writer /\ processed' = processed
    BY <1>12 DEF ReturnKey, Scanning
  <2>2. job[j] \in ScanCall
    BY <1>5, <2>1
  <2>3. PICK k \in Countable(writer, job[j].start, job[j].end) :
          LET info == writer.info[k[2]]
              rest == [job[j] EXCEPT !.todo = @ \ {k}]
          IN  IF info # None /\ info.start < job[j].end
                THEN Proceed(j, [rest EXCEPT !.pc = "exists", !.key = k, !.from = info.start])
                ELSE Proceed(j, rest)
    BY <1>4, <1>12 DEF ReturnKey
  <2> DEFINE rest == [job[j] EXCEPT !.todo = @ \ {k}]
             hand == [rest EXCEPT !.pc = "exists", !.key = k, !.from = writer.info[k[2]].start]
             ours == writer.info[k[2]] # None /\ writer.info[k[2]].start < job[j].end
  <2>4. job'[j] = IF ours THEN hand ELSE rest
    BY <2>3 DEF Proceed, StatesOK
  <2>5. /\ job'[j].start = job[j].start /\ job'[j].end = job[j].end
        /\ job'[j].maps = job[j].maps /\ job'[j].added = job[j].added
        /\ job'[j].todo = job[j].todo \ {k} /\ job'[j].moved = job[j].moved
        /\ IF ours THEN job'[j].pc = "exists" /\ job'[j].key = k ELSE job'[j].pc = "scan"
    <3> HIDE DEF ours
    <3>. QED
      BY <2>1, <2>2, <2>4 DEF ScanCall
  <2>6. ScanExact(job[j], e, writer, processed)
    BY <1>6, <2>1, <2>5
  <2>7. \A kind : AddedOf(job'[j], kind, e) = AddedOf(job[j], kind, e)
    BY <2>5 DEF AddedOf
  <2>8. MapExact(job'[j], e, processed)
    BY <2>5, <2>6, <2>7 DEF ScanExact, MapExact
  <2>9. Belongs(job'[j], e, writer) <=> Belongs(job[j], e, writer)
    BY <2>5 DEF Belongs
  <2>10. ours /\ k[2] = e <=> Belongs(job[j], e, writer) /\ k[2] = e
    BY DEF Belongs
  <2>11. job[j].start < k[2] /\ k[2] <= job[j].end
    BY DEF Countable
  <2> HIDE DEF ours
  <2>12. ScanExact(job'[j], e, writer, processed)
    <3>1. job'[j].maps[e] # None \/ (job'[j].pc \in Holding /\ job'[j].key[2] = e) =>
            Belongs(job'[j], e, writer) /\ job'[j].start < e /\ e <= job'[j].end
      BY <2>5, <2>6, <2>9, <2>10, <2>11 DEF ScanExact, Holding
    <3>2. \A l \in Countable(writer, job'[j].start, job'[j].end) : l[2] = e =>
            \/ l \in job'[j].added \/ l \in job'[j].todo
            \/ InHand(job'[j], l) \/ ~Belongs(job'[j], e, writer)
      BY <2>1, <2>5, <2>6, <2>9, <2>10 DEF ScanExact, InHand, Holding
    <3>. QED
      BY <2>8, <3>1, <3>2 DEF ScanExact
  <2>. QED
    BY <2>1, <2>12, ScanExactStays
<1>13. ASSUME CheckExists(j)
       PROVE  ScanExact(job'[j], e, writer', processed')
  <2>1. /\ job[j].pc = "exists" /\ Scanning(j) /\ writer' = writer /\ processed' = processed
    BY <1>13 DEF CheckExists, OnlyReads, Scanning
  <2>2. job[j] \in ScanCall
    BY <1>5, <2>1
  <2>3. job'[j] = [job[j] EXCEPT !.pc = "get"]
    <3>1. job'[j] # NoJob("exists")
      BY DEF Scanning, NoJob
    <3>. QED
      BY <1>13, <3>1 DEF CheckExists, Answer, Proceed, StatesOK
  <2>4. /\ job'[j].start = job[j].start /\ job'[j].end = job[j].end /\ job'[j].pc = "get"
        /\ job'[j].maps = job[j].maps /\ job'[j].added = job[j].added
        /\ job'[j].todo = job[j].todo /\ job'[j].key = job[j].key
        /\ job'[j].moved = job[j].moved
    BY <2>2, <2>3 DEF ScanCall
  <2>5. ScanExact(job[j], e, writer, processed)
    BY <1>6, <2>1, <2>4
  <2>. QED
    BY <2>1, <2>4, <2>5, ScanExactStays DEF Holding
<1>14. ASSUME AddCount(j)
       PROVE  ScanExact(job'[j], e, writer', processed')
  <2>1. /\ job[j].pc = "get" /\ Scanning(j) /\ writer' = writer /\ processed' = processed
        /\ contended' = contended
    BY <1>14 DEF AddCount, OnlyReads, Scanning
  <2>2. job[j] \in ScanCall /\ ScanOK(job[j])
    BY <1>5, <2>1
  <2> DEFINE k == job[j].key
             n == writer.count[k]
             map == AddedTo(job[j].maps[k[2]], k, job[j].from, n)
  <2>3. job'[j] = [job[j] EXCEPT !.maps[k[2]] = map, !.added = @ \union {k}, !.pc = "scan",
                                 !.key = None, !.from = None]
    BY <1>4, <1>14 DEF AddCount, Proceed, StatesOK
  <2>4. k \in Keys /\ k[1] \in OutputFields /\ job[j].from \in Nat /\ k[2] \in Epochs
    BY <2>1, <2>2 DEF ScanOK, Holding, Keys
  <2>5. n \in Nat
    <3>1. n # None
      BY <1>4, <2>1 DEF StatesOK, HandOK, Reports, Holding
    <3>. QED
      BY <1>3, <2>4, <3>1 DEF Databases, Fields
  <2>6. \A f \in Epochs : job[j].maps[f] \in Watermarks \union {None}
    BY <2>2 DEF ScanCall
  <2>7. InHand(job[j], k) /\ \A l : InHand(job[j], l) => l = k
    BY <2>1 DEF InHand, Holding
  <2>8. k \notin job[j].added \/ k[2] \in repeated
    BY <2>1 DEF BoundInv, JobBounded, Holding
  <2>9. k \notin contended => n = processed[k]
    BY <1>3, <2>4, <2>5, NoneIsNoValue DEF AloneInv, CountOrZero
  <2>10. k[2] = e => k \notin job[j].added /\ n = processed[k]
    BY <1>3, <2>1, <2>8, <2>9 DEF Settled
  <2> HIDE DEF map, n
  <2>11. map = AddedTo(job[j].maps[k[2]], k, job[j].from, n)
    BY DEF map
  <2> HIDE DEF k
  <2>13. /\ job'[j].start = job[j].start /\ job'[j].end = job[j].end /\ job'[j].pc = "scan"
         /\ job'[j].added = job[j].added \union {k} /\ job'[j].todo = job[j].todo
         /\ job'[j].moved = job[j].moved
         /\ \A f \in Epochs : job'[j].maps[f] = IF f = k[2] THEN map ELSE job[j].maps[f]
    BY <2>2, <2>3, <2>4 DEF ScanCall
  <2>14. ScanExact(job[j], e, writer, processed)
    BY <1>6, <2>1, <2>13
  <2>15. \A kind, f : AddedOf(job'[j], kind, f) =
           IF kind = k[1] /\ f = k[2] THEN AddedOf(job[j], kind, f) \union {k[3]}
                                      ELSE AddedOf(job[j], kind, f)
    <3> DEFINE next == job'[j]
    <3>1. next.added = job[j].added \union {k}
      BY <2>13
    <3> HIDE DEF next
    <3>2. \A kind, f : AddedOf(next, kind, f) =
            IF kind = k[1] /\ f = k[2] THEN AddedOf(job[j], kind, f) \union {k[3]}
                                       ELSE AddedOf(job[j], kind, f)
      BY <2>4, <3>1, AddedOfOneMore
    <3>. QED
      BY <3>2 DEF next
  <2>16. MapExact(job'[j], e, processed)
    <3>1. CASE e # k[2]
      <4>1. job'[j].maps[e] = job[j].maps[e]
        BY <2>13, <3>1
      <4>2. \A kind \in OutputFields : AddedOf(job'[j], kind, e) = AddedOf(job[j], kind, e)
        BY <2>15, <3>1
      <4>3. MapExact(job[j], e, processed)
        BY <2>14 DEF ScanExact
      <4>. QED
        BY <4>1, <4>2, <4>3 DEF MapExact
    <3>2. CASE e = k[2]
      <4> SUFFICES ASSUME NEW kind \in OutputFields
                   PROVE  CountOrZero(FieldOf(map, kind))
                            = Sum(processed, kind, e, AddedOf(job'[j], kind, e))
        BY <2>13, <3>2 DEF MapExact
      <4> DEFINE field == FieldOf(job[j].maps[e], kind)
      <4>1. CountOrZero(field) = Sum(processed, kind, e, AddedOf(job[j], kind, e))
        BY <2>14 DEF ScanExact, MapExact
      <4>2. field \in Fields
        BY <2>6, FieldsOfMarks
      <4>3. FieldOf(map, kind) = IF kind = k[1] THEN Plus(field, n) ELSE field
        BY <2>4, <2>5, <2>6, <2>11, <3>2, AddedToField, SMTT(30)
      <4>4. n <= processed[k]
        BY <2>5, <2>10, <3>2
      <4> HIDE DEF field
      <4>5. CASE kind = k[1]
        <5>1. AddedOf(job'[j], kind, e) = AddedOf(job[j], k[1], k[2]) \union {k[3]}
          BY <2>15, <3>2, <4>5
        <5>2. CountOrZero(field) = Sum(processed, k[1], k[2], AddedOf(job[j], k[1], k[2]))
          BY <3>2, <4>1, <4>5
        <5>3. CountOrZero(Plus(field, n))
                = Sum(processed, k[1], k[2], AddedOf(job[j], k[1], k[2]) \union {k[3]})
          BY <1>3, <2>4, <2>5, <2>10, <3>2, <4>2, <4>4, <5>2, OneMoreCount
        <5>. QED
          BY <3>2, <4>3, <4>5, <5>1, <5>3
      <4>6. CASE kind # k[1]
        BY <2>15, <4>1, <4>3, <4>6
      <4>. QED
        BY <4>5, <4>6
    <3>. QED
      BY <3>1, <3>2
  <2>17. Belongs(job'[j], e, writer) <=> Belongs(job[j], e, writer)
    BY <2>13 DEF Belongs
  <2>18. ScanExact(job'[j], e, writer, processed)
    <3>1. job'[j].maps[e] # None =>
            Belongs(job'[j], e, writer) /\ job'[j].start < e /\ e <= job'[j].end
      BY <2>1, <2>7, <2>13, <2>14, <2>17 DEF ScanExact, InHand
    <3>2. \A l \in Countable(writer, job'[j].start, job'[j].end) : l[2] = e =>
            \/ l \in job'[j].added \/ l \in job'[j].todo
            \/ InHand(job'[j], l) \/ ~Belongs(job'[j], e, writer)
      BY <2>7, <2>13, <2>14, <2>17 DEF ScanExact
    <3>. QED
      BY <2>13, <2>16, <3>1, <3>2 DEF ScanExact, Holding
  <2>. QED
    BY <2>1, <2>18, ScanExactStays
(* The watermarks are no part of it. *)
<1>15. ASSUME NEW i \in Jobs, DeleteMark(i) \/ WriteWatermarks(i), i # j
       PROVE  ScanExact(job'[j], e, writer', processed')
  <2>1. /\ writer'.info = writer.info /\ writer'.count = writer.count
        /\ processed' = processed /\ job'[j] = job[j]
    BY <1>3, <1>9, <1>15 DEF DeleteMark, WriteWatermarks, Answer, OnlyWrites, Databases
  <2>. QED
    BY <1>7, <2>1
(* None of these leaves its job in a scan. *)
<1>16. ASSUME IsReady(j) \/ WriteWatermarks(j)
       PROVE  FALSE
  <2>1. CASE IsReady(j)
    BY <2>1, IsReadyNeverScans DEF Scanning
  <2>2. CASE WriteWatermarks(j)
    <3>1. job'[j] = NoJob("reported")
      BY <2>2 DEF WriteWatermarks, Answer, Proceed, StatesOK
    <3>. QED
      BY <3>1 DEF Scanning, NoJob
  <2>. QED
    BY <1>16, <2>1, <2>2
<1>17. ASSUME NEW i \in Jobs, i # j, IsReady(i) \/ SetReported(i)
       PROVE  ScanExact(job'[j], e, writer', processed')
  <2>1. CASE DeleteMark(i) \/ WriteWatermarks(i)
    BY <1>15, <1>17, <2>1
  <2>2. ASSUME ~DeleteMark(i), ~WriteWatermarks(i)
        PROVE  writer' = writer /\ processed' = processed /\ \E call : Proceed(i, call)
    <3>1. CASE IsReady(i)
      <4>1. writer' = writer /\ processed' = processed
        BY <2>2, <3>1 DEF IsReady, BeginIsReady, Begin, OnlyReads, CheckWatermark, CheckInfo,
                          ScanMarks, ReadMark, ScanCounts, ReadInfo, CheckShards, AnswerNotReady
      <4>. QED
        BY <3>1, <4>1, IsReadyNeverScans
    <3>2. CASE SetReported(i)
      <4>1. writer' = writer /\ processed' = processed
        BY <2>2, <3>2 DEF SetReported, BeginSetReported, Begin, OnlyReads, ReturnKey,
                          CheckExists, AddCount
      <4>2. \E call : Proceed(i, call)
        BY <2>2, <3>2 DEF SetReported, BeginSetReported, Begin, ReturnKey, CheckExists, Answer,
                          AddCount, Proceed
      <4>. QED
        BY <4>1, <4>2
    <3>. QED
      BY <1>17, <3>1, <3>2
  <2>. QED
    BY <1>8, <1>9, <1>17, <2>1, <2>2
<1>18. ASSUME SetReported(j)
       PROVE  ScanExact(job'[j], e, writer', processed')
    BY <1>11, <1>12, <1>13, <1>14, <1>16, <1>18 DEF SetReported
<1>19. CASE UNCHANGED vars \/ Replicate
    BY <1>8, <1>19 DEF vars, Replicate
<1>20. ASSUME NEW c \in Cookers, Cook(c)
       PROVE  ScanExact(job'[j], e, writer', processed')
    BY <1>8, <1>10, <1>20 DEF Cook, BeginInfo, BeginCount
<1>. QED
  BY <1>16, <1>17, <1>18, <1>19, <1>20 DEF Next

LEMMA BoundOfZero ==
    ASSUME NEW mark \in Watermarks \union {None}, NEW kind \in OutputFields,
           AtMost(FieldOf(mark, kind), 0)
    PROVE  CountOrZero(FieldOf(mark, kind)) = 0
  BY FieldsOfMarks DEF AtMost, CountOrZero, Fields

(* With one client, what is written of a batch that rested during the scan  *)
(* is what the cookers recorded for it.                                     *)
LEMMA SettledStep ==
    ASSUME StatesOK, BoundInv, AloneInv, SettledInv, oneClient,
           NEW j \in Jobs, WriteWatermarks(j),
           NEW e \in Epochs, job[j].maps[e] # None, Settled(j, e), NEW kind \in OutputFields
    PROVE  CountOrZero(writer'.watermark[e][kind]) = ProcessedOf(kind, e)
<1>1. job[j].pc = "scan" /\ job[j].todo = {} /\ Scanning(j)
    BY DEF WriteWatermarks, Scanning
<1>2. job[j] \in ScanCall
    BY <1>1, ScansAreOK DEF StatesOK
<1>3. writer \in Databases /\ processed \in [Keys -> Nat]
    BY DEF StatesOK, TypeOK
<1> DEFINE shards == AddedOf(job[j], kind, e)
           old == writer.watermark[e]
           new == job[j].maps[e]
<1>4. /\ old \in Watermarks \union {None} /\ new \in Watermarks
      /\ writer'.watermark[e] = Merge(old, new)
    BY <1>2, <1>3 DEF ScanCall, Databases, WriteWatermarks
<1>5. ScanExact(job[j], e, writer, processed)
    BY <1>1 DEF SettledInv
(* No key of the batch is left out. *)
<1>6. \A s \in Shards \ shards : processed[<<kind, e, s>>] = 0
  <2> SUFFICES ASSUME NEW s \in Shards, s \notin shards
               PROVE  processed[<<kind, e, s>>] = 0
    OBVIOUS
  <2> DEFINE k == <<kind, e, s>>
  <2>1. k \in Keys /\ k[1] = kind /\ k[2] = e /\ k \notin job[j].added
    BY KeysOfBatch DEF AddedOf
  <2> HIDE DEF k
  <2>2. k \notin Countable(writer, job[j].start, job[j].end)
    BY <1>1, <1>5, <2>1 DEF ScanExact, InHand, Holding
  <2>3. job[j].start < e /\ e <= job[j].end
    BY <1>5 DEF ScanExact
  <2>4. writer.count[k] = None
    BY <2>1, <2>2, <2>3 DEF Countable, Reports, OutputFields
  <2>5. processed[k] = 0
    BY <2>1, <2>4 DEF AloneInv, Settled, CountOrZero
  <2>. QED
    BY <2>5 DEF k
<1>7. CountOrZero(FieldOf(new, kind)) = ProcessedOf(kind, e)
  <2>1. CountOrZero(FieldOf(new, kind)) = Sum(processed, kind, e, shards)
    BY <1>5 DEF ScanExact, MapExact
  <2>2. shards \in SUBSET Shards
    BY DEF AddedOf
  <2> HIDE DEF shards
  <2>. QED
    BY <1>6, <2>1, <2>2, SumOfTheRest DEF ProcessedOf
(* What is not in it is not in the watermark it replaces either. *)
<1>8. AtMost(FieldOf(old, kind), ProcessedOf(kind, e))
    BY DEF BoundInv, HostBounded, MarkBounded, ProcessedOf, Settled
<1> HIDE DEF old, new
<1>9. /\ FieldOf(Merge(old, new), kind) = IF FieldOf(new, kind) = None
                                            THEN FieldOf(old, kind) ELSE FieldOf(new, kind)
      /\ FieldOf(Merge(old, new), kind) = Merge(old, new)[kind]
  <2>1. Merge(old, new) \in Watermarks /\ None \notin Watermarks
    BY <1>4, MergeOfMarks, NoneIsNoValue
  <2>. QED
    BY <1>4, <2>1, MergeOfMarks DEF FieldOf
<1>10. CASE FieldOf(new, kind) = None
  <2>1. ProcessedOf(kind, e) = 0
    BY <1>7, <1>10 DEF CountOrZero
  <2>2. CountOrZero(FieldOf(old, kind)) = 0
    BY <1>4, <1>8, <2>1, BoundOfZero
  <2>. QED
    BY <1>4, <1>9, <1>10, <2>1, <2>2
<1>11. CASE FieldOf(new, kind) # None
    BY <1>4, <1>7, <1>9, <1>11
<1>. QED
  BY <1>10, <1>11

(* With one client, set_reported writes of a batch that rests exactly what  *)
(* was recorded for it: its scan leaves no key of it out (SettledInv), adds *)
(* each once (BoundInv) and with all that was recorded for it (AloneInv);   *)
(* a field it found nothing for was zero in the old watermark.              *)
THEOREM SettledBatchIsSummarisedTheorem == Spec => SettledBatchIsSummarised
<1>1. Spec => [](StatesOK /\ BoundInv /\ AloneInv /\ SettledInv)
  <2>1. Init => StatesOK /\ BoundInv /\ AloneInv /\ SettledInv
    BY StatesInit, BoundInit, AloneInit, SettledInit
  <2>2. StatesOK /\ BoundInv /\ AloneInv /\ SettledInv /\ [Next]_vars =>
          (StatesOK /\ BoundInv /\ AloneInv /\ SettledInv)'
    BY StatesNext, BoundNext, AloneNext, SettledNext
  <2>. QED
    BY <2>1, <2>2, PTL DEF Spec
<1>2. StatesOK /\ BoundInv /\ AloneInv /\ SettledInv /\ [Next]_vars =>
        [\A j \in Jobs : oneClient /\ WriteWatermarks(j) =>
           \A e \in Epochs : job[j].maps[e] # None /\ Settled(j, e) =>
             /\ CountOrZero(writer'.watermark[e].records) = ProcessedOf("records", e)
             /\ CountOrZero(writer'.watermark[e].tvs) = ProcessedOf("tvs", e)]_vars
    BY SettledStep DEF OutputFields
<1>. QED
  BY <1>1, <1>2, PTL DEF Spec, SettledBatchIsSummarised
=============================================================================
