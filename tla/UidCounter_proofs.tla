-------------------------- MODULE UidCounter_proofs --------------------------
(***************************************************************************)
(* Machine-checked proofs about UidCounter, for every set of processes and *)
(* every bound on the counters; and, at the end, about ActiveUsers.        *)
(***************************************************************************)
EXTENDS UidCounter, ActiveAnswers, FiniteSets, FiniteSetTheorems, TLAPS

-----------------------------------------------------------------------------
(* Type correctness *)

LEMMA TypeStep ==
    ASSUME TypeOK, [Next]_vars
    PROVE  TypeOK'
<1> USE UidAssumption
<1>1. CASE UNCHANGED vars
  BY <1>1 DEF vars, ghosts, TypeOK
<1>2. CASE Replicate
  BY <1>2 DEF Replicate, ghosts, TypeOK, Clusters
<1>3. CASE Migrate
  BY <1>3 DEF Migrate, ghosts, TypeOK, Modes, Clusters
<1>4. ASSUME NEW p \in Procs, GenerateNextUid(p) PROVE TypeOK'
  <2>1. PICK n \in Times : LET uid == NextUid(p, n)
                          IN  /\ uid <= MaxUid
                              /\ counter' = [counter EXCEPT ![Main(p)] = uid]
                              /\ taken' = taken \union {uid}
    BY <1>4 DEF GenerateNextUid
  <2>2. n \in {1, 2} /\ Main(p) \in Clusters
    BY DEF Times, Main, Clusters
  <2>3. NextUid(p, n) \in Uids /\ NextUid(p, n) \in 0..MaxUid
    BY <2>1, <2>2 DEF NextUid, TypeOK, Uids
  <2>4. counter' \in [Clusters -> 0..MaxUid] /\ taken' \subseteq Uids
    BY <2>1, <2>3 DEF TypeOK
  <2>5. call' \in [Procs -> Calls]
    BY <1>4 DEF GenerateNextUid, TypeOK, Calls, Idle
  <2>6. repeated' \in BOOLEAN /\ apart' \in BOOLEAN
    BY <1>4 DEF GenerateNextUid
  <2> QED
    BY <1>4, <2>4, <2>5, <2>6 DEF GenerateNextUid, TypeOK
<1>5. ASSUME NEW p \in Procs, IncrSecond(p) PROVE TypeOK'
  <2>1. counter' \in [Clusters -> 0..MaxUid]
    BY <1>5 DEF IncrSecond, TypeOK, Times, Clusters
  <2>2. call' \in [Procs -> Calls]
    BY <1>5 DEF IncrSecond, Returns, TypeOK, Calls, Idle
  <2> QED
    BY <1>5, <2>1, <2>2 DEF IncrSecond, TypeOK
<1>6. ASSUME NEW p \in Procs, NEW uid \in Uids, SetLastUid(p, uid) PROVE TypeOK'
  <2>1. ReadView(p) \in 0..MaxUid
    BY DEF ReadView, Main, TypeOK, Clusters
  <2>2. call' \in [Procs -> Calls]
    BY <1>6, <2>1 DEF SetLastUid, TypeOK, Calls, Uids
  <2> QED
    BY <1>6, <2>2 DEF SetLastUid, ghosts, TypeOK
<1>7. ASSUME NEW p \in Procs, StoreUid(p) PROVE TypeOK'
  <2>1. Main(p) \in Clusters /\ call[p] \in Calls
    BY DEF Main, Clusters, TypeOK
  <2>2. counter' \in [Clusters -> 0..MaxUid] /\ outdated' \in BOOLEAN
    BY <1>7, <2>1 DEF StoreUid, Set, TypeOK, Calls
  <2>3. call' \in [Procs -> Calls]
    BY <1>7 DEF StoreUid, SetReturns, Returns, TypeOK, Calls, Idle
  <2>4. taken' \subseteq Uids
    <3>1. 1..call[p].uid \subseteq Uids
      BY <2>1 DEF Calls, Uids
    <3>2. taken' = taken \/ taken' = taken \union 1..call[p].uid
      BY <1>7 DEF StoreUid, SetReturns
    <3>3. taken \subseteq Uids
      BY DEF TypeOK
    <3> QED
      BY <3>1, <3>2, <3>3, Zenon
  <2> QED
    BY <1>7, <2>2, <2>3, <2>4 DEF StoreUid, Set, TypeOK
<1>8. ASSUME NEW p \in Procs, StoreSecond(p) PROVE TypeOK'
  <2>1. "cluster_enabled" \in Clusters /\ call[p] \in Calls
    BY DEF Clusters, TypeOK
  <2>2. counter' \in [Clusters -> 0..MaxUid] /\ outdated' \in BOOLEAN
    BY <1>8, <2>1 DEF StoreSecond, Set, TypeOK, Calls
  <2>3. call' \in [Procs -> Calls]
    BY <1>8 DEF StoreSecond, SetReturns, Returns, TypeOK, Calls, Idle
  <2>4. taken' \subseteq Uids
    <3>1. 1..call[p].uid \subseteq Uids
      BY <2>1 DEF Calls, Uids
    <3>2. taken' = taken \union 1..call[p].uid
      BY <1>8 DEF StoreSecond, SetReturns
    <3>3. taken \subseteq Uids
      BY DEF TypeOK
    <3> QED
      BY <3>1, <3>2, <3>3, Zenon
  <2> QED
    BY <1>8, <2>2, <2>3, <2>4 DEF StoreSecond, Set, TypeOK
<1>9. ASSUME NEW p \in Procs, Raise(p) PROVE TypeOK'
  BY <1>9 DEF Raise, Returns, TypeOK, Calls, Idle
<1>10. ASSUME NEW p \in Procs, Stop(p) PROVE TypeOK'
  BY <1>10 DEF Stop, Returns, TypeOK, Calls, Idle
<1>11. ASSUME NEW p \in Procs, Start(p) PROVE TypeOK'
  BY <1>11 DEF Start, TypeOK
<1> QED
  BY <1>1, <1>2, <1>3, <1>4, <1>5, <1>6, <1>7, <1>8, <1>9, <1>10, <1>11
     DEF Next, Step

LEMMA TypeInvariant == Spec => []TypeOK
<1>1. Init => TypeOK
  <2> SUFFICES ASSUME Init PROVE TypeOK
    OBVIOUS
  <2>1. PICK n \in {0, 1} : counter = [c \in Clusters |-> n]
    BY DEF Init
  <2>2. 0..MaxUid \subseteq Nat /\ 0 \in 0..MaxUid /\ 1 \in 0..MaxUid
    BY UidAssumption
  <2>3. counter \in [Clusters -> 0..MaxUid] /\ counter["cluster_disabled"] = n
    BY <2>1, <2>2 DEF Clusters
  <2>4. replica \in 0..MaxUid /\ taken \subseteq Uids
    BY <2>2, <2>3, UidAssumption DEF Init, Uids
  <2> QED
    BY <2>2, <2>3, <2>4 DEF Init, TypeOK, Modes, Clusters, Calls, Idle
<1>2. TypeOK /\ [Next]_vars => TypeOK'
  BY TypeStep
<1> QED
  BY <1>1, <1>2, PTL DEF Spec

(* Type correctness: every variable keeps its type in every behaviour of    *)
(* the counter's clients.                                                   *)
THEOREM TypeCorrect == Spec => []TypeOK
BY TypeInvariant

-----------------------------------------------------------------------------
(* The inductive invariant *)

(* What the properties except: see NoUidTwice. *)
Undisturbed == ~outdated /\ ~apart /\ ~mixed

(* Which calls there are. *)
CallInv ==
    \A p \in Procs :
        /\ mode[p] = "down" => call[p].op = "idle"
        /\ HalfWay(p) => mode[p] = "cluster_dual"
        /\ call[p].op \in {"read", "set"} => call[p].seen < call[p].uid

(* Which modes run, and that only one does. *)
ModeInv ==
    /\ \A p \in Procs : \/ mode[p] \in {"down", deployed}
                        \/ mode[p] = "cluster_dual" /\ deployed = "cluster_enabled"
    /\ ~mixed => \A p, q \in Procs :
                   mode[p] # "down" /\ mode[q] # "down" => mode[p] = mode[q]

DualRuns == \E p \in Procs : mode[p] = "cluster_dual"
InDual == deployed = "cluster_dual" \/ DualRuns

(* What a call that is half way has added to the first cluster and not to   *)
(* the second, one element for each; their number is what the second lacks. *)
Delta(p) == IF call[p].op = "incr" THEN 1
            ELSE IF call[p].op = "set" THEN call[p].uid - call[p].seen
            ELSE 0

Owed == {x \in Procs \X Nat : x[2] \in 1..Delta(x[1])}

(* While both clusters are written, the first is ahead by what is owed to   *)
(* the second.                                                              *)
ClusterInv ==
    InDual =>
        /\ IsFiniteSet(Owed)
        /\ counter["cluster_disabled"] = counter["cluster_enabled"] + Cardinality(Owed)
        /\ \A p \in Procs : call[p].op = "set" => call[p].uid <= counter["cluster_disabled"]

(* The counter in force is not below any uid that is taken. *)
TakenInv ==
    /\ ~repeated
    /\ deployed # "cluster_enabled" \/ DualRuns => taken \subseteq 1..counter["cluster_disabled"]
    /\ deployed = "cluster_enabled" /\ ~DualRuns => taken \subseteq 1..counter["cluster_enabled"]

UidInv ==
    /\ CallInv
    /\ ModeInv
    /\ Undisturbed => ClusterInv /\ TakenInv

-----------------------------------------------------------------------------
(* What is owed *)

(* What p owes when the second cluster lacks d. *)
Share(p, d) == {p} \X (1..d)

(* A call of one more process is half way. *)
LEMMA OneMoreOwes ==
    ASSUME NEW p, NEW S, IsFiniteSet(S), \A i : <<p, i>> \notin S, NEW d \in Nat
    PROVE  /\ IsFiniteSet(S \union Share(p, d))
           /\ Cardinality(S \union Share(p, d)) = Cardinality(S) + d
<1>1. IsFiniteSet({p}) /\ Cardinality({p}) = 1
  BY FS_Singleton
<1>2. IsFiniteSet(1..d) /\ Cardinality(1..d) = d
  BY FS_Interval
<1>3. IsFiniteSet(Share(p, d)) /\ Cardinality(Share(p, d)) = d
  <2>1. /\ IsFiniteSet(Share(p, d))
        /\ Cardinality(Share(p, d)) = Cardinality({p}) * Cardinality(1..d)
    BY <1>1, <1>2, FS_Product DEF Share
  <2>2. 1 * d = d
    OBVIOUS
  <2> QED
    BY <1>1, <1>2, <2>1, <2>2
<1>4. S \intersect Share(p, d) = {}
  BY DEF Share
<1>5. Cardinality(S \intersect Share(p, d)) = 0
  BY <1>4, FS_EmptySet
<1>6. Cardinality(S) \in Nat
  BY FS_CardinalityType
<1> QED
  BY <1>3, <1>5, <1>6, FS_Union

LEMMA DeltaIsNat ==
    ASSUME TypeOK, CallInv, NEW p \in Procs
    PROVE  Delta(p) \in Nat
BY DEF TypeOK, CallInv, Delta, Calls

LEMMA OwedStays ==
    ASSUME \A q \in Procs : Delta(q)' = Delta(q)
    PROVE  Owed' = Owed
BY DEF Owed

LEMMA OwedGrows ==
    ASSUME NEW p \in Procs, \A q \in Procs : q # p => Delta(q)' = Delta(q),
           Delta(p) = 0, Delta(p)' \in Nat, IsFiniteSet(Owed)
    PROVE  IsFiniteSet(Owed') /\ Cardinality(Owed') = Cardinality(Owed) + Delta(p)'
<1>1. \A i : <<p, i>> \notin Owed
  BY DEF Owed
<1>2. Owed' = Owed \union Share(p, Delta(p)')
  <2>1. \A x \in Procs \X Nat : x \in Owed' <=> x \in Owed \union Share(p, Delta(p)')
    BY DEF Owed, Share
  <2>2. Owed' \subseteq Procs \X Nat /\ Owed \subseteq Procs \X Nat
    BY DEF Owed
  <2>3. Share(p, Delta(p)') \subseteq Procs \X Nat
    BY DEF Share
  <2> QED
    BY <2>1, <2>2, <2>3
<1> QED
  BY <1>1, <1>2, OneMoreOwes

LEMMA OwedShrinks ==
    ASSUME NEW p \in Procs, \A q \in Procs : q # p => Delta(q)' = Delta(q),
           Delta(p)' = 0, Delta(p) \in Nat, IsFiniteSet(Owed)
    PROVE  /\ IsFiniteSet(Owed') /\ Cardinality(Owed') \in Nat
           /\ Cardinality(Owed) = Cardinality(Owed') + Delta(p)
<1>1. \A i : <<p, i>> \notin Owed'
  BY DEF Owed
<1>2. Owed = Owed' \union Share(p, Delta(p))
  <2>1. \A x \in Procs \X Nat : x \in Owed <=> x \in Owed' \union Share(p, Delta(p))
    BY DEF Owed, Share
  <2>2. Owed' \subseteq Procs \X Nat /\ Owed \subseteq Procs \X Nat
    BY DEF Owed
  <2>3. Share(p, Delta(p)) \subseteq Procs \X Nat
    BY DEF Share
  <2> QED
    BY <2>1, <2>2, <2>3
<1>3. IsFiniteSet(Owed')
  BY <1>2, FS_Subset
<1>4. PICK T : T = Owed'
  OBVIOUS
<1>5. IsFiniteSet(T) /\ \A i : <<p, i>> \notin T
  BY <1>1, <1>3, <1>4
<1>6. PICK d \in Nat : d = Delta(p)
  OBVIOUS
<1>7. Cardinality(T \union Share(p, d)) = Cardinality(T) + d
  BY <1>5, OneMoreOwes
<1>8. Cardinality(T) \in Nat
  BY <1>5, FS_CardinalityType
<1> QED
  BY <1>2, <1>4, <1>5, <1>6, <1>7, <1>8

(* Nothing is owed where no call is half way. *)
LEMMA NothingOwed ==
    ASSUME TypeOK, \A p \in Procs : ~HalfWay(p)
    PROVE  Owed = {} /\ Cardinality(Owed) = 0
<1>1. \A p \in Procs : Delta(p) = 0
  BY DEF Delta, HalfWay
<1>2. Owed = {}
  BY <1>1 DEF Owed
<1> QED
  BY <1>2, FS_EmptySet

-----------------------------------------------------------------------------
(* Calls and modes *)

LEMMA CallStep ==
    ASSUME TypeOK, CallInv, [Next]_vars
    PROVE  CallInv'
<1>1. CASE UNCHANGED vars \/ Replicate \/ Migrate
  BY <1>1 DEF vars, Replicate, Migrate, CallInv, HalfWay
<1>2. ASSUME NEW p \in Procs, GenerateNextUid(p) PROVE CallInv'
  BY <1>2 DEF GenerateNextUid, Both, CallInv, HalfWay, TypeOK, Idle, Goes
<1>3. ASSUME NEW p \in Procs, IncrSecond(p) \/ Raise(p) PROVE CallInv'
  BY <1>3 DEF IncrSecond, Raise, Returns, CallInv, HalfWay, TypeOK, Idle
<1>4. ASSUME NEW p \in Procs, NEW uid \in Uids, SetLastUid(p, uid) PROVE CallInv'
  BY <1>4 DEF SetLastUid, IsLater, Goes, CallInv, HalfWay, TypeOK
<1>5. ASSUME NEW p \in Procs, StoreUid(p) PROVE CallInv'
  <2>1. CASE Both(p)
    BY <1>5, <2>1 DEF StoreUid, Both, CallInv, HalfWay, TypeOK, Calls
  <2>2. CASE ~Both(p)
    BY <1>5, <2>2 DEF StoreUid, SetReturns, Returns, CallInv, HalfWay, TypeOK, Idle
  <2> QED
    BY <2>1, <2>2
<1>6. ASSUME NEW p \in Procs, StoreSecond(p) PROVE CallInv'
  BY <1>6 DEF StoreSecond, SetReturns, Returns, CallInv, HalfWay, TypeOK, Idle
<1>7. ASSUME NEW p \in Procs, Stop(p) PROVE CallInv'
  BY <1>7 DEF Stop, Returns, CallInv, HalfWay, TypeOK, Idle
<1>8. ASSUME NEW p \in Procs, Start(p) PROVE CallInv'
  BY <1>8 DEF Start, CallInv, HalfWay, TypeOK
<1> QED
  BY <1>1, <1>2, <1>3, <1>4, <1>5, <1>6, <1>7, <1>8 DEF Next, Step

(* The steps that leave the modes as they are. *)
LEMMA SameModes ==
    ASSUME [Next]_vars
    PROVE  \/ UNCHANGED <<deployed, mode, mixed>>
           \/ Migrate \/ \E p \in Procs : Stop(p) \/ Start(p)
BY DEF Next, Step, vars, ghosts, Replicate, GenerateNextUid, IncrSecond, SetLastUid,
       StoreUid, StoreSecond, Raise

LEMMA ModeStep ==
    ASSUME TypeOK, ModeInv, [Next]_vars
    PROVE  ModeInv'
<1>1. CASE UNCHANGED <<deployed, mode, mixed>>
  BY <1>1 DEF ModeInv
<1>2. CASE Migrate
  BY <1>2 DEF Migrate, ghosts, ModeInv
<1>3. ASSUME NEW p \in Procs, Stop(p) PROVE ModeInv'
  BY <1>3 DEF Stop, ModeInv, TypeOK
<1>4. ASSUME NEW p \in Procs, Start(p) PROVE ModeInv'
  BY <1>4 DEF Start, ModeInv, TypeOK
<1> QED
  BY <1>1, <1>2, <1>3, <1>4, SameModes

(* What disturbs the counter stays on record. *)
LEMMA UndisturbedBefore ==
    ASSUME TypeOK, [Next]_vars, Undisturbed'
    PROVE  Undisturbed
BY DEF TypeOK, Undisturbed, Next, Step, vars, ghosts, Replicate, Migrate, GenerateNextUid,
       IncrSecond, SetLastUid, StoreUid, StoreSecond, Set, Raise, Stop, Start

(* Once no process writes both clusters none does again. *)
LEMMA DualBefore ==
    ASSUME TypeOK, ModeInv, [Next]_vars, InDual'
    PROVE  InDual
<1>1. CASE UNCHANGED <<deployed, mode, mixed>>
  BY <1>1 DEF InDual, DualRuns
<1>2. CASE Migrate
  BY <1>2 DEF Migrate, InDual
<1>3. ASSUME NEW p \in Procs, Stop(p) PROVE InDual
  BY <1>3 DEF Stop, InDual, DualRuns, TypeOK
<1>4. ASSUME NEW p \in Procs, Start(p) PROVE InDual
  BY <1>4 DEF Start, InDual, DualRuns, TypeOK
<1> QED
  BY <1>1, <1>2, <1>3, <1>4, SameModes

(* A process that runs writes the counter in force, and one that writes one *)
(* cluster alone does so when no process writes both.                       *)
LEMMA InForce ==
    ASSUME UidInv, Undisturbed, NEW p \in Procs, mode[p] # "down", TypeOK
    PROVE  /\ taken \subseteq 1..counter[Main(p)]
           /\ ~Both(p) => ~InDual
           /\ Both(p) => InDual /\ Main(p) = "cluster_disabled"
           /\ mode[p] = "cluster_enabled" <=> deployed = "cluster_enabled" /\ ~DualRuns
<1>1. mode[p] \in Modes /\ deployed \in Modes
  BY DEF TypeOK
<1>2. ModeInv /\ TakenInv /\ ~mixed
  BY DEF UidInv, Undisturbed
<1>3. DualRuns => mode[p] = "cluster_dual"
  BY <1>2 DEF DualRuns, ModeInv
<1>4. mode[p] = deployed \/ (mode[p] = "cluster_dual" /\ deployed = "cluster_enabled")
  BY <1>2 DEF ModeInv
<1>5. mode[p] = "cluster_dual" => DualRuns
  BY DEF DualRuns
<1> QED
  BY <1>1, <1>2, <1>3, <1>4, <1>5 DEF Main, Both, InDual, TakenInv, Modes, Clusters

-----------------------------------------------------------------------------
(* The counters and the taken uids, step by step *)

CountersInv == ClusterInv /\ TakenInv

(* What a step does to calls says what it does to the debt. *)
LEMMA CallChange ==
    ASSUME TypeOK, NEW p \in Procs, NEW r, call' = [call EXCEPT ![p] = r]
    PROVE  /\ call[p]' = r
           /\ \A q \in Procs : q # p => call[q]' = call[q] /\ Delta(q)' = Delta(q)
BY DEF TypeOK, Delta

LEMMA GenerateStep ==
    ASSUME TypeOK, UidInv, Undisturbed, Undisturbed', NEW p \in Procs, GenerateNextUid(p)
    PROVE  CountersInv'
<1>1. PICK n \in Times :
         LET uid == NextUid(p, n)
         IN  /\ uid <= MaxUid
             /\ counter' = [counter EXCEPT ![Main(p)] = uid]
             /\ taken' = taken \union {uid}
             /\ repeated' = (repeated \/ uid \in taken)
             /\ apart' = (apart \/ (Both(p) /\ n # 1))
             /\ IF Both(p) THEN call' = [call EXCEPT ![p] = [Idle EXCEPT !.op = "incr"]]
                           ELSE UNCHANGED call
  BY DEF GenerateNextUid
<1>2. /\ UNCHANGED <<deployed, mode>>
      /\ mode[p] # "down" /\ call[p].op = "idle"
      /\ DualRuns' = DualRuns /\ InDual' = InDual
  BY DEF GenerateNextUid, Goes, DualRuns, InDual
<1>3. n \in {1, 2} /\ (Both(p) => n = 1)
  BY <1>1 DEF Times, Undisturbed
<1>4. /\ taken \subseteq 1..counter[Main(p)]
      /\ ~Both(p) => ~InDual
      /\ Both(p) => InDual /\ Main(p) = "cluster_disabled"
      /\ mode[p] = "cluster_enabled" <=> deployed = "cluster_enabled" /\ ~DualRuns
  BY <1>2, InForce
<1>5. /\ Main(p) \in Clusters
      /\ counter["cluster_disabled"] \in Nat /\ counter["cluster_enabled"] \in Nat
      /\ counter[Main(p)] \in Nat
  BY UidAssumption DEF Main, Clusters, TypeOK
<1>6. /\ counter'[Main(p)] = counter[Main(p)] + n
      /\ \A c \in Clusters : c # Main(p) => counter'[c] = counter[c]
  BY <1>1, <1>5 DEF NextUid, TypeOK
<1>7. TakenInv'
  <2>1. NextUid(p, n) \notin taken
    BY <1>3, <1>4, <1>5 DEF NextUid
  <2>2. ~repeated'
    BY <2>1, <1>1 DEF UidInv, TakenInv
  <2>3. taken' \subseteq 1..counter'[Main(p)]
    BY <1>1, <1>3, <1>4, <1>5, <1>6 DEF NextUid
  <2>4. mode[p] = "cluster_enabled" <=> Main(p) = "cluster_enabled"
    BY DEF Main
  <2>5. Main(p) = "cluster_enabled" \/ Main(p) = "cluster_disabled"
    BY DEF Main
  <2> QED
    BY <1>2, <1>4, <2>2, <2>3, <2>4, <2>5 DEF TakenInv
<1>8. ASSUME InDual' PROVE ClusterInv'
  <2>1. Both(p) /\ Main(p) = "cluster_disabled" /\ ClusterInv
    BY <1>2, <1>4, <1>8 DEF UidInv
  <2>2. call' = [call EXCEPT ![p] = [Idle EXCEPT !.op = "incr"]]
    BY <1>1, <2>1
  <2>3. /\ call[p]' = [Idle EXCEPT !.op = "incr"]
        /\ \A q \in Procs : q # p => call[q]' = call[q] /\ Delta(q)' = Delta(q)
    BY <2>2, CallChange
  <2>4. Delta(p) = 0 /\ Delta(p)' = 1
    BY <1>2, <2>3 DEF Delta, Idle
  <2>5. IsFiniteSet(Owed') /\ Cardinality(Owed') = Cardinality(Owed) + 1
    BY <1>2, <1>8, <2>1, <2>3, <2>4, OwedGrows DEF ClusterInv
  <2>6. Cardinality(Owed) \in Nat
    BY <1>2, <1>8, <2>1, FS_CardinalityType DEF ClusterInv
  <2>7. /\ counter'["cluster_disabled"] = counter["cluster_disabled"] + 1
        /\ counter'["cluster_enabled"] = counter["cluster_enabled"]
    BY <1>3, <1>6, <2>1 DEF Clusters
  <2>8. counter["cluster_disabled"] = counter["cluster_enabled"] + Cardinality(Owed)
    BY <1>2, <1>8, <2>1 DEF ClusterInv
  <2>9. counter'["cluster_disabled"] = counter'["cluster_enabled"] + Cardinality(Owed')
    BY <1>5, <2>5, <2>6, <2>7, <2>8
  <2>10. \A q \in Procs : call[q]'.op = "set" => call[q]'.uid <= counter'["cluster_disabled"]
    <3> SUFFICES ASSUME NEW q \in Procs, call[q]'.op = "set"
                 PROVE  call[q]'.uid <= counter'["cluster_disabled"]
      OBVIOUS
    <3>1. q # p /\ call[q]' = call[q]
      BY <2>3 DEF Idle
    <3>2. call[q].uid <= counter["cluster_disabled"] /\ call[q].uid \in 0..MaxUid
      BY <1>2, <1>8, <2>1, <3>1 DEF ClusterInv, TypeOK, Calls
    <3> QED
      BY <1>5, <2>7, <3>1, <3>2, UidAssumption
  <2> QED
    BY <2>5, <2>9, <2>10 DEF ClusterInv
<1> QED
  BY <1>7, <1>8 DEF CountersInv, ClusterInv

LEMMA IncrSecondStep ==
    ASSUME TypeOK, UidInv, Undisturbed, Undisturbed', NEW p \in Procs, IncrSecond(p)
    PROVE  CountersInv'
<1>1. /\ call[p].op = "incr" /\ call' = [call EXCEPT ![p] = Idle]
      /\ counter' = [counter EXCEPT !["cluster_enabled"] = @ + 1]
      /\ UNCHANGED <<deployed, mode, taken, repeated>>
  BY DEF IncrSecond, Returns, Undisturbed
<1>2. mode[p] = "cluster_dual" /\ DualRuns /\ InDual /\ DualRuns' /\ InDual'
  BY <1>1 DEF UidInv, CallInv, HalfWay, DualRuns, InDual
<1>3. /\ call[p]' = Idle
      /\ \A q \in Procs : q # p => call[q]' = call[q] /\ Delta(q)' = Delta(q)
  BY <1>1, CallChange
<1>4. Delta(p) = 1 /\ Delta(p)' = 0
  BY <1>1, <1>3 DEF Delta, Idle
<1>5. /\ IsFiniteSet(Owed)
      /\ counter["cluster_disabled"] = counter["cluster_enabled"] + Cardinality(Owed)
      /\ \A q \in Procs : call[q].op = "set" => call[q].uid <= counter["cluster_disabled"]
  BY <1>2 DEF UidInv, ClusterInv
<1>6. /\ IsFiniteSet(Owed') /\ Cardinality(Owed') \in Nat
      /\ Cardinality(Owed) = Cardinality(Owed') + 1
  BY <1>3, <1>4, <1>5, OwedShrinks
<1>7. /\ counter["cluster_disabled"] \in Nat /\ counter["cluster_enabled"] \in Nat
      /\ counter'["cluster_disabled"] = counter["cluster_disabled"]
      /\ counter'["cluster_enabled"] = counter["cluster_enabled"] + 1
  BY <1>1, UidAssumption DEF Clusters, TypeOK
<1>8. counter'["cluster_disabled"] = counter'["cluster_enabled"] + Cardinality(Owed')
  BY <1>5, <1>6, <1>7
<1>9. \A q \in Procs : call[q]'.op = "set" => call[q]'.uid <= counter'["cluster_disabled"]
  BY <1>3, <1>5, <1>7 DEF Idle
<1>10. TakenInv'
  BY <1>1, <1>2, <1>7 DEF UidInv, TakenInv
<1> QED
  BY <1>6, <1>8, <1>9, <1>10 DEF CountersInv, ClusterInv

(* Neither the counters nor what is owed changes, and the modes do not. *)
LEMMA NoWriteStep ==
    ASSUME UidInv, Undisturbed, UNCHANGED <<deployed, mode, counter, taken, repeated>>,
           \A q \in Procs : /\ Delta(q)' = Delta(q)
                            /\ call[q]'.op = "set" => call[q]' = call[q]
    PROVE  CountersInv'
<1>1. Owed' = Owed
  BY OwedStays
<1>2. DualRuns' = DualRuns /\ InDual' = InDual
  BY DEF DualRuns, InDual
<1> QED
  BY <1>1, <1>2 DEF UidInv, CountersInv, ClusterInv, TakenInv

LEMMA StoreUidStep ==
    ASSUME TypeOK, UidInv, Undisturbed, Undisturbed', NEW p \in Procs, StoreUid(p)
    PROVE  CountersInv'
<1>1. /\ call[p].op = "read" /\ counter[Main(p)] = call[p].seen
      /\ counter' = [counter EXCEPT ![Main(p)] = call[p].uid]
      /\ UNCHANGED <<deployed, mode, repeated>>
      /\ mode[p] # "down"
  BY DEF StoreUid, Set, Undisturbed, UidInv, CallInv
<1>2. DualRuns' = DualRuns /\ InDual' = InDual
  BY <1>1 DEF DualRuns, InDual
<1>3. /\ taken \subseteq 1..counter[Main(p)]
      /\ ~Both(p) => ~InDual
      /\ Both(p) => InDual /\ Main(p) = "cluster_disabled"
      /\ mode[p] = "cluster_enabled" <=> deployed = "cluster_enabled" /\ ~DualRuns
  BY <1>1, InForce
<1>4. /\ call[p].seen < call[p].uid /\ call[p].seen \in Nat /\ call[p].uid \in Nat
      /\ call[p] \in Calls
  BY <1>1 DEF UidInv, CallInv, TypeOK, Calls
<1>5. /\ Main(p) \in Clusters
      /\ counter["cluster_disabled"] \in Nat /\ counter["cluster_enabled"] \in Nat
      /\ counter'[Main(p)] = call[p].uid
      /\ \A c \in Clusters : c # Main(p) => counter'[c] = counter[c]
  BY <1>1, UidAssumption DEF Main, Clusters, TypeOK
<1>6. TakenInv'
  <2>1. taken' = taken \/ taken' = taken \union 1..call[p].uid
    BY DEF StoreUid, SetReturns
  <2>2. taken' \subseteq 1..counter'[Main(p)]
    <3>1. 1..counter[Main(p)] \subseteq 1..call[p].uid
      BY <1>1, <1>4
    <3>2. taken' \subseteq 1..call[p].uid
      BY <1>3, <2>1, <3>1, Zenon
    <3> QED
      BY <1>5, <3>2
  <2>3. mode[p] = "cluster_enabled" <=> Main(p) = "cluster_enabled"
    BY DEF Main
  <2>4. Main(p) = "cluster_enabled" \/ Main(p) = "cluster_disabled"
    BY DEF Main
  <2> QED
    BY <1>1, <1>2, <1>3, <2>2, <2>3, <2>4 DEF TakenInv, UidInv
<1>7. ASSUME InDual' PROVE ClusterInv'
  <2>1. Both(p) /\ Main(p) = "cluster_disabled" /\ ClusterInv
    BY <1>2, <1>3, <1>7 DEF UidInv
  <2>2. call' = [call EXCEPT ![p].op = "set"]
    BY <2>1 DEF StoreUid
  <2>3. PICK r : r = [call[p] EXCEPT !.op = "set"]
    OBVIOUS
  <2>4. r.op = "set" /\ r.uid = call[p].uid /\ r.seen = call[p].seen
    BY <1>4, <2>3 DEF Calls
  <2>5. call' = [call EXCEPT ![p] = r]
    BY <2>2, <2>3
  <2>6. /\ call[p]' = r
        /\ \A q \in Procs : q # p => call[q]' = call[q] /\ Delta(q)' = Delta(q)
    BY <2>5, CallChange
  <2>7. PICK d \in Nat : d = call[p].uid - call[p].seen
    BY <1>4
  <2>8. Delta(p) = 0 /\ Delta(p)' = d
    BY <1>1, <2>4, <2>6, <2>7 DEF Delta
  <2>9. /\ IsFiniteSet(Owed)
        /\ counter["cluster_disabled"] = counter["cluster_enabled"] + Cardinality(Owed)
        /\ \A q \in Procs : call[q].op = "set" => call[q].uid <= counter["cluster_disabled"]
    BY <1>2, <1>7, <2>1 DEF ClusterInv
  <2>10. IsFiniteSet(Owed') /\ Cardinality(Owed') = Cardinality(Owed) + d
    BY <2>6, <2>8, <2>9, OwedGrows
  <2>11. Cardinality(Owed) \in Nat
    BY <2>9, FS_CardinalityType
  <2>12. /\ counter'["cluster_disabled"] = call[p].uid
         /\ counter'["cluster_enabled"] = counter["cluster_enabled"]
         /\ counter["cluster_disabled"] = call[p].seen
    BY <1>1, <1>5, <2>1 DEF Clusters
  <2>13. counter'["cluster_disabled"] = counter'["cluster_enabled"] + Cardinality(Owed')
    BY <1>4, <1>5, <2>7, <2>9, <2>10, <2>11, <2>12
  <2>14. \A q \in Procs : call[q]'.op = "set" => call[q]'.uid <= counter'["cluster_disabled"]
    <3> SUFFICES ASSUME NEW q \in Procs, call[q]'.op = "set"
                 PROVE  call[q]'.uid <= counter'["cluster_disabled"]
      OBVIOUS
    <3>1. CASE q = p
      BY <1>4, <2>4, <2>6, <2>12, <3>1
    <3>2. CASE q # p
      <4>1. call[q].uid <= counter["cluster_disabled"] /\ call[q].uid \in 0..MaxUid
        BY <2>6, <2>9, <3>2 DEF TypeOK, Calls
      <4> QED
        BY <1>4, <2>6, <2>12, <3>2, <4>1, UidAssumption
    <3> QED
      BY <3>1, <3>2
  <2> QED
    BY <2>10, <2>13, <2>14 DEF ClusterInv
<1> QED
  BY <1>6, <1>7 DEF CountersInv, ClusterInv

LEMMA StoreSecondStep ==
    ASSUME TypeOK, UidInv, Undisturbed, Undisturbed', NEW p \in Procs, StoreSecond(p)
    PROVE  CountersInv'
<1>1. /\ call[p].op = "set" /\ call' = [call EXCEPT ![p] = Idle]
      /\ counter["cluster_enabled"] = call[p].seen
      /\ counter' = [counter EXCEPT !["cluster_enabled"] = call[p].uid]
      /\ taken' = taken \union 1..call[p].uid
      /\ UNCHANGED <<deployed, mode, repeated>>
  BY DEF StoreSecond, Set, SetReturns, Returns, Undisturbed
<1>2. mode[p] = "cluster_dual" /\ DualRuns /\ InDual /\ DualRuns' /\ InDual'
  BY <1>1 DEF UidInv, CallInv, HalfWay, DualRuns, InDual
<1>3. /\ call[p]' = Idle
      /\ \A q \in Procs : q # p => call[q]' = call[q] /\ Delta(q)' = Delta(q)
  BY <1>1, CallChange
<1>4. call[p].seen < call[p].uid /\ call[p].seen \in Nat /\ call[p].uid \in Nat
  BY <1>1 DEF UidInv, CallInv, TypeOK, Calls
<1>5. PICK d \in Nat : d = call[p].uid - call[p].seen
  BY <1>4
<1>6. Delta(p) = d /\ Delta(p)' = 0
  BY <1>1, <1>3, <1>5 DEF Delta, Idle
<1>7. /\ IsFiniteSet(Owed)
      /\ counter["cluster_disabled"] = counter["cluster_enabled"] + Cardinality(Owed)
      /\ \A q \in Procs : call[q].op = "set" => call[q].uid <= counter["cluster_disabled"]
      /\ taken \subseteq 1..counter["cluster_disabled"] /\ ~repeated
  BY <1>2 DEF UidInv, ClusterInv, TakenInv
<1>8. /\ IsFiniteSet(Owed') /\ Cardinality(Owed') \in Nat
      /\ Cardinality(Owed) = Cardinality(Owed') + d
  BY <1>3, <1>6, <1>7, OwedShrinks
<1>9. /\ counter["cluster_disabled"] \in Nat /\ counter["cluster_enabled"] \in Nat
      /\ counter'["cluster_disabled"] = counter["cluster_disabled"]
      /\ counter'["cluster_enabled"] = call[p].uid
  BY <1>1, UidAssumption DEF Clusters, TypeOK
<1>10. counter'["cluster_disabled"] = counter'["cluster_enabled"] + Cardinality(Owed')
  BY <1>1, <1>4, <1>5, <1>7, <1>8, <1>9
<1>11. \A q \in Procs : call[q]'.op = "set" => call[q]'.uid <= counter'["cluster_disabled"]
  BY <1>3, <1>7, <1>9 DEF Idle
<1>12. TakenInv'
  <2>1. call[p].uid <= counter["cluster_disabled"]
    BY <1>1, <1>7
  <2>2. taken' \subseteq 1..counter'["cluster_disabled"]
    <3>1. 1..call[p].uid \subseteq 1..counter["cluster_disabled"]
      BY <1>4, <1>9, <2>1
    <3>2. taken' \subseteq 1..counter["cluster_disabled"]
      BY <1>1, <1>7, <3>1, Zenon
    <3> QED
      BY <1>9, <3>2
  <2> QED
    BY <1>1, <1>2, <1>7, <2>2 DEF TakenInv
<1> QED
  BY <1>8, <1>10, <1>11, <1>12 DEF CountersInv, ClusterInv

LEMMA StopStep ==
    ASSUME TypeOK, UidInv, Undisturbed, Undisturbed', NEW p \in Procs, Stop(p)
    PROVE  CountersInv'
<1>1. /\ ~HalfWay(p) /\ call' = [call EXCEPT ![p] = Idle]
      /\ mode' = [mode EXCEPT ![p] = "down"]
      /\ UNCHANGED <<deployed, counter, taken, repeated>>
  BY DEF Stop, Returns, Undisturbed
<1>2. /\ call[p]' = Idle
      /\ \A q \in Procs : q # p => call[q]' = call[q] /\ Delta(q)' = Delta(q)
  BY <1>1, CallChange
<1>3. Delta(p) = 0 /\ Delta(p)' = 0
  BY <1>1, <1>2 DEF Delta, HalfWay, Idle
<1>4. Owed' = Owed
  BY <1>2, <1>3, OwedStays
<1>5. /\ DualRuns' => DualRuns
      /\ InDual' => InDual
  BY <1>1 DEF DualRuns, InDual, TypeOK
<1>6. ASSUME InDual' PROVE ClusterInv'
  <2>1. /\ IsFiniteSet(Owed)
        /\ counter["cluster_disabled"] = counter["cluster_enabled"] + Cardinality(Owed)
        /\ \A q \in Procs : call[q].op = "set" => call[q].uid <= counter["cluster_disabled"]
    BY <1>5, <1>6 DEF UidInv, ClusterInv
  <2>2. \A q \in Procs : call[q]'.op = "set" => call[q]' = call[q]
    BY <1>2 DEF Idle
  <2> QED
    BY <1>1, <1>4, <2>1, <2>2 DEF ClusterInv
<1>7. CASE DualRuns' = DualRuns
  <2>1. TakenInv'
    BY <1>1, <1>7 DEF UidInv, TakenInv
  <2> QED
    BY <1>6, <2>1 DEF CountersInv, ClusterInv
<1>8. CASE DualRuns /\ ~DualRuns'
  <2>1. \A q \in Procs : mode[q] = "cluster_dual" => q = p
    BY <1>1, <1>8 DEF DualRuns, TypeOK
  <2>2. \A q \in Procs : ~HalfWay(q)
    BY <1>1, <2>1 DEF UidInv, CallInv
  <2>3. Cardinality(Owed) = 0
    BY <2>2, NothingOwed
  <2>4. counter["cluster_disabled"] = counter["cluster_enabled"]
    <3>1. counter["cluster_disabled"] = counter["cluster_enabled"] + Cardinality(Owed)
      BY <1>8 DEF UidInv, ClusterInv, InDual
    <3>2. counter["cluster_enabled"] \in Nat
      BY UidAssumption DEF TypeOK, Clusters
    <3> QED
      BY <2>3, <3>1, <3>2
  <2>5. taken \subseteq 1..counter["cluster_disabled"] /\ ~repeated
    BY <1>8 DEF UidInv, TakenInv
  <2>6. TakenInv'
    BY <1>1, <2>4, <2>5 DEF TakenInv
  <2> QED
    BY <1>6, <2>6 DEF CountersInv, ClusterInv
<1> QED
  BY <1>5, <1>7, <1>8 DEF DualRuns

LEMMA StartStep ==
    ASSUME TypeOK, UidInv, Undisturbed, Undisturbed', NEW p \in Procs, Start(p)
    PROVE  CountersInv'
<1>1. /\ mode[p] = "down" /\ mode' = [mode EXCEPT ![p] = deployed]
      /\ \A q \in Procs : mode[q] \in {"down", deployed}
      /\ UNCHANGED <<deployed, counter, call, taken, repeated>>
  BY DEF Start, Undisturbed
<1>2. Owed' = Owed
  <2>1. \A q \in Procs : Delta(q)' = Delta(q)
    BY <1>1 DEF Delta
  <2> QED
    BY <2>1, OwedStays
<1>3. deployed = "cluster_enabled" => ~DualRuns /\ ~DualRuns'
  BY <1>1 DEF DualRuns, TypeOK
<1>4. InDual' => InDual
  BY <1>1 DEF InDual, DualRuns, TypeOK
<1>5. ClusterInv'
  BY <1>1, <1>2, <1>4 DEF UidInv, ClusterInv
<1>6. ~repeated /\ ~repeated'
  BY <1>1 DEF UidInv, TakenInv
<1>7. CASE deployed = "cluster_enabled"
  <2>1. TakenInv'
    BY <1>1, <1>3, <1>7 DEF UidInv, TakenInv
  <2> QED
    BY <1>5, <2>1 DEF CountersInv
<1>8. CASE deployed # "cluster_enabled"
  <2>1. taken \subseteq 1..counter["cluster_disabled"]
    BY <1>8 DEF UidInv, TakenInv
  <2>2. TakenInv'
    BY <1>1, <1>6, <1>8, <2>1 DEF TakenInv
  <2> QED
    BY <1>5, <2>2 DEF CountersInv
<1> QED
  BY <1>7, <1>8

LEMMA MigrateStep ==
    ASSUME TypeOK, UidInv, Undisturbed, Migrate
    PROVE  CountersInv'
<1>1. /\ deployed = "cluster_dual" /\ deployed' = "cluster_enabled"
      /\ UNCHANGED <<mode, counter, call, taken, repeated>>
  BY DEF Migrate, ghosts
<1>2. Owed' = Owed /\ DualRuns' = DualRuns /\ InDual
  <2>1. \A q \in Procs : Delta(q)' = Delta(q)
    BY <1>1 DEF Delta
  <2> QED
    BY <1>1, <2>1, OwedStays DEF DualRuns, InDual
<1>3. ClusterInv'
  BY <1>1, <1>2 DEF UidInv, ClusterInv
<1>4. taken \subseteq 1..counter["cluster_disabled"] /\ ~repeated
  BY <1>1 DEF UidInv, TakenInv
<1>5. TakenInv'
  <2>1. CASE DualRuns
    BY <1>1, <1>2, <1>4, <2>1 DEF TakenInv
  <2>2. CASE ~DualRuns
    <3>1. \A q \in Procs : ~HalfWay(q)
      BY <2>2 DEF UidInv, CallInv, DualRuns
    <3>2. Cardinality(Owed) = 0
      BY <3>1, NothingOwed
    <3>3. counter["cluster_disabled"] = counter["cluster_enabled"] + Cardinality(Owed)
      BY <1>2 DEF UidInv, ClusterInv
    <3>4. counter["cluster_enabled"] \in Nat
      BY UidAssumption DEF TypeOK, Clusters
    <3>5. counter["cluster_disabled"] = counter["cluster_enabled"]
      BY <3>2, <3>3, <3>4
    <3> QED
      BY <1>1, <1>4, <3>5 DEF TakenInv
  <2> QED
    BY <2>1, <2>2
<1> QED
  BY <1>3, <1>5 DEF CountersInv

LEMMA UidStep ==
    ASSUME TypeOK, UidInv, [Next]_vars
    PROVE  UidInv'
<1>1. CallInv' /\ ModeInv'
  BY CallStep, ModeStep DEF UidInv
<1>2. ASSUME Undisturbed' PROVE CountersInv'
  <2>1. Undisturbed
    BY <1>2, UndisturbedBefore
  <2>2. CASE UNCHANGED vars \/ Replicate
    <3>1. UNCHANGED <<deployed, mode, counter, call, taken, repeated>>
      BY <2>2 DEF vars, ghosts, Replicate
    <3>2. \A q \in Procs : Delta(q)' = Delta(q) /\ call[q]' = call[q]
      BY <3>1 DEF Delta
    <3> QED
      BY <2>1, <3>1, <3>2, NoWriteStep
  <2>3. CASE Migrate
    BY <2>1, <2>3, MigrateStep
  <2>4. ASSUME NEW p \in Procs, GenerateNextUid(p) PROVE CountersInv'
    BY <1>2, <2>1, <2>4, GenerateStep
  <2>5. ASSUME NEW p \in Procs, IncrSecond(p) PROVE CountersInv'
    BY <1>2, <2>1, <2>5, IncrSecondStep
  <2>6. ASSUME NEW p \in Procs, NEW uid \in Uids, SetLastUid(p, uid) PROVE CountersInv'
    <3>1. /\ UNCHANGED <<deployed, mode, counter, taken, repeated>>
          /\ call[p].op = "idle"
          /\ call' = [call EXCEPT ![p] = [op |-> "read", uid |-> uid, seen |-> ReadView(p)]]
      BY <2>6 DEF SetLastUid, ghosts, Goes
    <3>2. /\ call[p]' = [op |-> "read", uid |-> uid, seen |-> ReadView(p)]
          /\ \A q \in Procs : q # p => call[q]' = call[q] /\ Delta(q)' = Delta(q)
      BY <3>1, CallChange
    <3>3. Delta(p)' = Delta(p)
      BY <3>1, <3>2 DEF Delta
    <3> QED
      BY <2>1, <3>1, <3>2, <3>3, NoWriteStep
  <2>7. ASSUME NEW p \in Procs, StoreUid(p) PROVE CountersInv'
    BY <1>2, <2>1, <2>7, StoreUidStep
  <2>8. ASSUME NEW p \in Procs, StoreSecond(p) PROVE CountersInv'
    BY <1>2, <2>1, <2>8, StoreSecondStep
  <2>9. ASSUME NEW p \in Procs, Raise(p) PROVE CountersInv'
    <3>1. /\ UNCHANGED <<deployed, mode, counter, taken, repeated>>
          /\ ~HalfWay(p) /\ call' = [call EXCEPT ![p] = Idle]
      BY <1>2, <2>9 DEF Raise, Returns, Undisturbed
    <3>2. /\ call[p]' = Idle
          /\ \A q \in Procs : q # p => call[q]' = call[q] /\ Delta(q)' = Delta(q)
      BY <3>1, CallChange
    <3>3. Delta(p)' = Delta(p) /\ call[p]'.op # "set"
      BY <3>1, <3>2 DEF Delta, HalfWay, Idle
    <3> QED
      BY <2>1, <3>1, <3>2, <3>3, NoWriteStep
  <2>10. ASSUME NEW p \in Procs, Stop(p) PROVE CountersInv'
    BY <1>2, <2>1, <2>10, StopStep
  <2>11. ASSUME NEW p \in Procs, Start(p) PROVE CountersInv'
    BY <1>2, <2>1, <2>11, StartStep
  <2> QED
    BY <2>2, <2>3, <2>4, <2>5, <2>6, <2>7, <2>8, <2>9, <2>10, <2>11 DEF Next, Step
<1> QED
  BY <1>1, <1>2 DEF UidInv, CountersInv

LEMMA UidInit ==
    ASSUME Init
    PROVE  UidInv
<1>1. PICK n \in {0, 1} : counter = [c \in Clusters |-> n]
  BY DEF Init
<1>2. counter["cluster_disabled"] = n /\ counter["cluster_enabled"] = n /\ n \in Nat
  BY <1>1 DEF Clusters
<1>3. \A p \in Procs : mode[p] = "down" /\ call[p] = Idle
  BY DEF Init
<1>4. CallInv /\ ModeInv
  BY <1>3 DEF CallInv, ModeInv, HalfWay, Idle
<1>5. TakenInv
  BY <1>2 DEF Init, TakenInv
<1>6. Owed = {}
  BY <1>3 DEF Owed, Delta, Idle
<1>7. ClusterInv
  <2>1. IsFiniteSet(Owed) /\ Cardinality(Owed) = 0
    BY <1>6, FS_EmptySet
  <2>2. counter["cluster_disabled"] = counter["cluster_enabled"] + Cardinality(Owed)
    BY <1>2, <2>1
  <2> QED
    BY <1>3, <2>1, <2>2 DEF ClusterInv, Idle
<1> QED
  BY <1>4, <1>5, <1>7 DEF UidInv

LEMMA UidInvariant == Spec => [](TypeOK /\ UidInv)
<1>1. Init => UidInv
  BY UidInit
<1>2. TypeOK /\ TypeOK' /\ UidInv /\ [Next]_vars => UidInv'
  BY UidStep
<1> QED
  BY <1>1, <1>2, TypeInvariant, PTL DEF Spec

-----------------------------------------------------------------------------
(* The properties *)

(* NoUidTwice: no uid is handed out twice nor below one set as the last,    *)
(* in any mode and across the move, unless the exceptions it names happen.  *)
THEOREM NoUidTwiceTheorem == Spec => []NoUidTwice
<1>1. UidInv => NoUidTwice
  BY DEF UidInv, TakenInv, Undisturbed, NoUidTwice
<1> QED
  BY <1>1, UidInvariant, PTL

(* SettledClustersAgree: while the users move, the clusters hold the same   *)
(* counter whenever no call is in progress, under the same exceptions.      *)
THEOREM SettledClustersAgreeTheorem == Spec => []SettledClustersAgree
<1>1. ASSUME TypeOK, UidInv PROVE SettledClustersAgree
  <2> SUFFICES ASSUME Undisturbed, deployed = "cluster_dual",
                      \A p \in Procs : call[p].op = "idle"
               PROVE  counter["cluster_disabled"] = counter["cluster_enabled"]
    BY DEF SettledClustersAgree, Undisturbed
  <2>1. Cardinality(Owed) = 0
    <3>1. \A p \in Procs : ~HalfWay(p)
      BY DEF HalfWay
    <3> QED
      BY <1>1, <3>1, NothingOwed
  <2>2. counter["cluster_disabled"] = counter["cluster_enabled"] + Cardinality(Owed)
    BY <1>1 DEF UidInv, ClusterInv, InDual
  <2>3. counter["cluster_enabled"] \in Nat
    BY <1>1, UidAssumption DEF TypeOK, Clusters
  <2> QED
    BY <2>1, <2>2, <2>3
<1> QED
  BY <1>1, UidInvariant, PTL

-----------------------------------------------------------------------------
(* The other keys of these clusters: ActiveUsers keeps what ActiveAnswers   *)
(* promises, for every set of users and of clients, every length of a       *)
(* chunk, of the window and of a unioned key's life.                        *)

CONSTANTS MaxNow, MaxHears, MaxAsks

VARIABLES now, oneClient, chunks, union, lagging, calls

Active == INSTANCE ActiveUsers WITH replica <- lagging

(* Every use of a user's name is dated by a clock that has come so far. *)
HeardBefore == \A p \in Active!Prefixes, u \in Users : \A t \in heard[p][u] : t <= now

(* A chunk holds users heard of in its time only; and whoever was heard of  *)
(* less than the window ago is in the chunk of that time, which is alive.   *)
ChunkInv(p, s) ==
    LET key == chunks[<<p, s>>] IN
    /\ key # None => \A u \in key.users : \E t \in heard[p][u] : Active!ChunkOf(t) = s
    /\ \A u \in Users : \A t \in heard[p][u] :
         Active!ChunkOf(t) = s /\ now < t + Window =>
           key # None /\ u \in key.users /\ t + Window <= key.expires

(* A unioned key holds what would have been answered when it was made.      *)
UnionInv(p, key) ==
    key # None =>
      LET made == key.expires - CacheSecs IN
      /\ made <= now
      /\ \A u \in key.users : Active!HeardIn(p, u, made - Active!RoundedWindow, made)
      /\ \A u \in Users :
           Active!HeardIn(p, u, made - Active!RoundedWindow + Mod - 1, made - 1) => u \in key.users

(* The inductive invariant. *)
ActiveInv ==
    /\ Active!TypeOK /\ HeardBefore
    /\ \A p \in Active!Prefixes : \A s \in Active!Starts : ChunkInv(p, s)
    /\ \A p \in Active!Prefixes : UnionInv(p, union[p]) /\ UnionInv(p, lagging[p])

-----------------------------------------------------------------------------
(* Time *)

LEMMA ActiveCancel ==
    ASSUME NEW m \in Nat \ {0}, NEW a \in Int, NEW b \in Int, m * a < m * b
    PROVE  a < b
<1>1. CASE a >= b
  <2>1. PICK d \in Nat : a = b + d
    <3>1. a - b \in Nat /\ a = b + (a - b)
      BY <1>1
    <3> QED
      BY <3>1
  <2>2. m * a = m * b + m * d
    BY <2>1
  <2>3. m * d >= 0 /\ m * b \in Int
    BY <2>1
  <2> QED
    BY <2>2, <2>3
<1> QED
  BY <1>1

(* A time lies in its chunk, which starts at a multiple of Mod.             *)
LEMMA ActiveChunkHolds ==
    ASSUME Active!ActiveBounds, NEW t \in Nat
    PROVE  /\ Active!ChunkOf(t) = Mod * (t \div Mod) /\ t \div Mod \in Nat
           /\ Active!ChunkOf(t) \in Nat /\ Active!ChunkOf(t) <= t /\ t < Active!ChunkOf(t) + Mod
<1>1. Mod \in Nat \ {0}
  BY DEF Active!ActiveBounds
<1>2. t % Mod \in 0..(Mod - 1) /\ t \div Mod \in Int
  BY <1>1
<1>3. t = (Mod * (t \div Mod)) + (t % Mod)
  BY <1>1
<1>4. t \div Mod \in Nat
  <2>1. ASSUME t \div Mod <= 0 - 1 PROVE FALSE
    <3>1. Mod * (t \div Mod) <= Mod * (0 - 1)
      BY <1>1, <1>2, <2>1
    <3> QED
      BY <1>1, <1>2, <1>3, <3>1
  <2> QED
    BY <1>2, <2>1
<1> QED
  BY <1>1, <1>2, <1>3, <1>4 DEF Active!ChunkOf

LEMMA ActiveWindowIsChunks ==
    ASSUME Active!ActiveBounds
    PROVE  /\ Active!ChunksBackward \in Nat /\ Active!RoundedWindow = Mod * Active!ChunksBackward
           /\ Active!RoundedWindow \in Nat
           /\ Window <= Active!RoundedWindow /\ Active!RoundedWindow <= Window + Mod - 1
<1>1. Window + Mod - 1 \in Nat
  BY DEF Active!ActiveBounds
<1>2. Mod \in Nat /\ Window \in Nat
  BY DEF Active!ActiveBounds
<1>3. /\ Active!RoundedWindow = Mod * Active!ChunksBackward /\ Active!ChunksBackward \in Nat
      /\ Active!RoundedWindow \in Nat /\ Active!RoundedWindow <= Window + Mod - 1
      /\ Window + Mod - 1 < Active!RoundedWindow + Mod
  BY <1>1, ActiveChunkHolds DEF Active!ChunksBackward, Active!RoundedWindow
<1> QED
  BY <1>2, <1>3

(* A time whose chunk is among those united is in the rounded window, ... *)
LEMMA ActiveUnitedIsRecent ==
    ASSUME Active!ActiveBounds, NEW n \in Nat, NEW t \in Nat,
           NEW i \in 0..(Active!ChunksBackward - 1),
           Active!ChunkOf(t) = Active!ChunkOf(n) - i * Mod
    PROVE  n - Active!RoundedWindow < t
<1>1. Mod \in Nat \ {0} /\ i \in Nat /\ Active!ChunksBackward \in Nat
  BY ActiveWindowIsChunks DEF Active!ActiveBounds
<1>2. i * Mod <= Active!RoundedWindow - Mod
  <2>1. PICK d \in Nat : Active!ChunksBackward = i + 1 + d
    <3>1. /\ Active!ChunksBackward - i - 1 \in Nat
          /\ Active!ChunksBackward = i + 1 + (Active!ChunksBackward - i - 1)
      BY <1>1
    <3> QED
      BY <3>1
  <2>2. Mod * Active!ChunksBackward = Mod * i + Mod + Mod * d
    BY <1>1, <2>1
  <2>3. Mod * d >= 0 /\ Mod * i = i * Mod /\ Mod * i \in Nat /\ Mod * d \in Nat
    BY <1>1, <2>1
  <2> QED
    BY <1>1, <2>2, <2>3, ActiveWindowIsChunks
<1>3. /\ Active!ChunkOf(t) <= t /\ Active!ChunkOf(t) \in Nat
      /\ Active!ChunkOf(n) \in Nat /\ n < Active!ChunkOf(n) + Mod
  BY ActiveChunkHolds
<1>4. i * Mod \in Nat /\ Active!RoundedWindow \in Nat
  BY <1>1, ActiveWindowIsChunks
<1> QED
  BY <1>1, <1>2, <1>3, <1>4

(* ... and a time in it, up to a chunk's length, is in a chunk united. *)
LEMMA ActiveRecentIsUnited ==
    ASSUME Active!ActiveBounds, NEW n \in Nat, NEW t \in Nat, t <= n,
           n - Active!RoundedWindow + Mod - 1 < t
    PROVE  \E i \in 0..(Active!ChunksBackward - 1) : Active!ChunkOf(t) = Active!ChunkOf(n) - i * Mod
<1> DEFINE i == (n \div Mod) - (t \div Mod)
<1>1. Mod \in Nat \ {0} /\ Active!ChunksBackward \in Nat
      /\ Active!RoundedWindow = Mod * Active!ChunksBackward /\ Active!RoundedWindow \in Nat
  BY ActiveWindowIsChunks DEF Active!ActiveBounds
<1>2. /\ Active!ChunkOf(t) = Mod * (t \div Mod) /\ t \div Mod \in Nat
      /\ Active!ChunkOf(t) \in Nat /\ Active!ChunkOf(t) <= t /\ t < Active!ChunkOf(t) + Mod
  BY ActiveChunkHolds
<1>3. /\ Active!ChunkOf(n) = Mod * (n \div Mod) /\ n \div Mod \in Nat
      /\ Active!ChunkOf(n) \in Nat /\ Active!ChunkOf(n) <= n /\ n < Active!ChunkOf(n) + Mod
  BY ActiveChunkHolds
<1>4. i \in Int /\ Mod * i = Active!ChunkOf(n) - Active!ChunkOf(t)
  BY <1>1, <1>2, <1>3
<1> HIDE DEF i
<1>5. i > -1
  <2>1. Mod * (0 - 1) < Mod * i
    <3>1. Mod * (0 - 1) = 0 - Mod
      BY <1>1
    <3> QED
      BY <1>1, <1>2, <1>3, <1>4, <3>1
  <2> QED
    BY <1>1, <1>4, <2>1, ActiveCancel
<1>6. i < Active!ChunksBackward
  <2>1. Mod * i < Mod * Active!ChunksBackward
    BY <1>1, <1>2, <1>3, <1>4
  <2> QED
    BY <1>1, <1>4, <2>1, ActiveCancel
<1>7. i \in 0..(Active!ChunksBackward - 1)
  BY <1>1, <1>4, <1>5, <1>6
<1>8. Mod * i = i * Mod
  BY <1>1, <1>4
<1> QED
  BY <1>2, <1>3, <1>4, <1>7, <1>8

-----------------------------------------------------------------------------
(* What a union made now holds *)

LEMMA ActiveStartsAreChunks ==
    ASSUME Active!ActiveBounds, NEW t \in 0..MaxNow
    PROVE  Active!ChunkOf(t) \in Active!Starts
BY DEF Active!Starts

LEMMA ActiveUnionIsSound ==
    ASSUME Active!ActiveBounds, ActiveInv, NEW p \in Active!Prefixes, NEW u \in Active!Union(p)
    PROVE  Active!HeardIn(p, u, now - Active!RoundedWindow, now)
<1>1. PICK s \in {Active!ChunkOf(now) - i * Mod : i \in 0..Active!ChunksBackward - 1}
                   \intersect Active!Starts :
        u \in Active!Members(chunks[<<p, s>>])
  BY DEF Active!Union
<1>2. PICK i \in 0..(Active!ChunksBackward - 1) : s = Active!ChunkOf(now) - i * Mod
  BY <1>1
<1>3. chunks[<<p, s>>] # None /\ u \in chunks[<<p, s>>].users
  BY <1>1 DEF Active!Members, Active!Exists
<1>4. PICK t \in heard[p][u] : Active!ChunkOf(t) = s
  BY <1>1, <1>3 DEF ActiveInv, ChunkInv
<1>5. u \in Users
  BY <1>1, <1>3 DEF ActiveInv, Active!TypeOK, Active!Sets
<1>6. now \in Nat /\ t \in Nat /\ t <= now
  BY <1>5 DEF ActiveInv, Active!TypeOK, HeardBefore, Active!ActiveBounds
<1>7. now - Active!RoundedWindow < t
  BY <1>2, <1>4, <1>6, ActiveUnitedIsRecent
<1> QED
  BY <1>4, <1>6, <1>7 DEF Active!HeardIn

LEMMA ActiveUnionIsComplete ==
    ASSUME Active!ActiveBounds, ActiveInv, NEW p \in Active!Prefixes, NEW u \in Users,
           Active!HeardIn(p, u, now - Active!RoundedWindow + Mod - 1, now)
    PROVE  u \in Active!Union(p)
<1>1. PICK t \in heard[p][u] : now - Active!RoundedWindow + Mod - 1 < t /\ t <= now
  BY DEF Active!HeardIn
<1>2. now \in Nat /\ t \in 0..MaxNow /\ t \in Nat
  BY <1>1 DEF ActiveInv, Active!TypeOK, Active!ActiveBounds
<1>3. PICK i \in 0..(Active!ChunksBackward - 1) : Active!ChunkOf(t) = Active!ChunkOf(now) - i * Mod
  BY <1>1, <1>2, ActiveRecentIsUnited
<1>4. now < t + Window
  BY <1>1, <1>2, ActiveWindowIsChunks DEF Active!ActiveBounds
<1>5. Active!ChunkOf(t) \in Active!Starts
  BY <1>2, ActiveStartsAreChunks
<1>6. LET key == chunks[<<p, Active!ChunkOf(t)>>] IN
        key # None /\ u \in key.users /\ t + Window <= key.expires
  BY <1>4, <1>5 DEF ActiveInv, ChunkInv
<1>7. chunks[<<p, Active!ChunkOf(t)>>].expires \in Nat
  BY <1>5, <1>6 DEF ActiveInv, Active!TypeOK, Active!Sets
<1>8. u \in Active!Members(chunks[<<p, Active!ChunkOf(t)>>])
  BY <1>2, <1>4, <1>6, <1>7 DEF Active!Members, Active!Exists, Active!ActiveBounds
<1> QED
  BY <1>3, <1>5, <1>8 DEF Active!Union

LEMMA ActiveUnionType ==
    ASSUME Active!ActiveBounds, ActiveInv, NEW p \in Active!Prefixes
    PROVE  Active!Union(p) \subseteq Users
<1> SUFFICES ASSUME NEW u \in Active!Union(p) PROVE u \in Users
  OBVIOUS
<1>1. PICK s \in Active!Starts : u \in Active!Members(chunks[<<p, s>>])
  BY DEF Active!Union
<1> QED
  BY <1>1 DEF Active!Members, Active!Exists, ActiveInv, Active!TypeOK, Active!Sets

-----------------------------------------------------------------------------
(* The invariant *)

(* What one step can do to the times heard of and to the clock. *)
LEMMA ActiveTimeStep ==
    ASSUME Active!ActiveBounds, Active!TypeOK, HeardBefore, [Active!Next]_(Active!vars)
    PROVE  /\ now \in Nat /\ now' \in 0..MaxNow /\ now <= now'
           /\ heard' \in [Active!Prefixes -> [Users -> SUBSET (0..MaxNow)]]
           /\ \A p \in Active!Prefixes, u \in Users :
                /\ heard[p][u] \subseteq heard'[p][u]
                /\ heard'[p][u] \subseteq heard[p][u] \union {now}
           /\ now' # now => heard' = heard
<1>1. /\ now \in 0..MaxNow /\ now \in Nat /\ MaxNow \in Nat
      /\ heard \in [Active!Prefixes -> [Users -> SUBSET (0..MaxNow)]]
  BY DEF Active!TypeOK, Active!ActiveBounds
<1>2. CASE Active!Tick
  BY <1>1, <1>2 DEF Active!Tick
<1>3. ASSUME NEW u \in Users, NEW allowed \in BOOLEAN, Active!Hear(u, allowed)
      PROVE  /\ now' = now
             /\ heard' \in [Active!Prefixes -> [Users -> SUBSET (0..MaxNow)]]
             /\ \A p \in Active!Prefixes, v \in Users :
                  /\ heard[p][v] \subseteq heard'[p][v]
                  /\ heard'[p][v] \subseteq heard[p][v] \union {now}
  <2>1. PICK prefixes : heard' = [p \in Active!Prefixes |->
                IF p \in prefixes THEN [heard[p] EXCEPT ![u] = @ \union {now}] ELSE heard[p]]
    BY <1>3 DEF Active!Hear
  <2>2. now' = now
    BY <1>3 DEF Active!Hear
  <2>3. \A p \in Active!Prefixes : heard'[p] = IF p \in prefixes
            THEN [heard[p] EXCEPT ![u] = @ \union {now}] ELSE heard[p]
    BY <2>1
  <2>4. ASSUME NEW p \in Active!Prefixes PROVE heard'[p] \in [Users -> SUBSET (0..MaxNow)]
    <3>1. heard[p] \in [Users -> SUBSET (0..MaxNow)]
      BY <1>1
    <3>2. [heard[p] EXCEPT ![u] = @ \union {now}] \in [Users -> SUBSET (0..MaxNow)]
      BY <1>1, <3>1
    <3> QED
      BY <2>3, <3>1, <3>2
  <2>5. heard' \in [Active!Prefixes -> [Users -> SUBSET (0..MaxNow)]]
    BY <2>1, <2>4
  <2>6. ASSUME NEW p \in Active!Prefixes, NEW v \in Users
        PROVE  heard[p][v] \subseteq heard'[p][v] /\ heard'[p][v] \subseteq heard[p][v] \union {now}
    BY <1>1, <2>3, <2>6
  <2> QED
    BY <2>2, <2>5, <2>6
<1>4. CASE \/ UNCHANGED Active!vars \/ Active!Replicate
           \/ \E c \in Clients :
                Active!SetActiveUsers(c) \/ \E p \in Active!Prefixes : Active!Ask(c, p)
  <2>1. now' = now /\ heard' = heard
    BY <1>4 DEF Active!vars, Active!Replicate, Active!SetActiveUsers, Active!Ask
  <2> QED
    BY <1>1, <2>1
<1>5. CASE \E u \in Users, allowed \in BOOLEAN : Active!Hear(u, allowed)
  <2>1. PICK u \in Users, allowed \in BOOLEAN : Active!Hear(u, allowed)
    BY <1>5
  <2>2. /\ now' = now
        /\ heard' \in [Active!Prefixes -> [Users -> SUBSET (0..MaxNow)]]
        /\ \A p \in Active!Prefixes, v \in Users :
             heard[p][v] \subseteq heard'[p][v] /\ heard'[p][v] \subseteq heard[p][v] \union {now}
    BY <1>3, <2>1
  <2>3. now \in Nat /\ now' \in 0..MaxNow /\ now <= now' /\ (now' # now => heard' = heard)
    BY <1>1, <2>2
  <2> QED
    BY <2>2, <2>3
<1> QED
  BY <1>2, <1>4, <1>5 DEF Active!Next

LEMMA ActiveHeardIsKept ==
    ASSUME Active!ActiveBounds, Active!TypeOK, HeardBefore, [Active!Next]_(Active!vars)
    PROVE  /\ HeardBefore'
           /\ \A p \in Active!Prefixes, u \in Users, after, until \in Int :
                Active!HeardIn(p, u, after, until) => Active!HeardIn(p, u, after, until)'
           /\ \A p \in Active!Prefixes, u \in Users, after, until \in Int :
                until < now /\ Active!HeardIn(p, u, after, until)' => Active!HeardIn(p, u, after,
                   until)
<1>1. /\ now \in Nat /\ now' \in 0..MaxNow /\ now <= now' /\ now' \in Nat
      /\ \A p \in Active!Prefixes, u \in Users : heard[p][u] \subseteq 0..MaxNow
      /\ \A p \in Active!Prefixes, u \in Users :
           heard[p][u] \subseteq heard'[p][u] /\ heard'[p][u] \subseteq heard[p][u] \union {now}
      /\ \A p \in Active!Prefixes, u \in Users : \A t \in heard[p][u] : t <= now
  BY ActiveTimeStep DEF Active!TypeOK, Active!ActiveBounds, HeardBefore
<1>2. HeardBefore'
  BY <1>1 DEF HeardBefore
<1>3. \A p \in Active!Prefixes, u \in Users, after, until \in Int :
        Active!HeardIn(p, u, after, until) => Active!HeardIn(p, u, after, until)'
  BY <1>1 DEF Active!HeardIn
<1>4. \A p \in Active!Prefixes, u \in Users, after, until \in Int :
        until < now /\ Active!HeardIn(p, u, after, until)' => Active!HeardIn(p, u, after, until)
  BY <1>1 DEF Active!HeardIn
<1> QED
  BY <1>2, <1>3, <1>4

LEMMA ActiveInvInit ==
    ASSUME Active!ActiveBounds, Active!Init
    PROVE  ActiveInv
<1>1. MaxNow \in Nat /\ MaxHears \in Nat /\ MaxAsks \in Nat
  BY DEF Active!ActiveBounds
<1>2. Active!TypeOK
  BY <1>1 DEF Active!Init, Active!TypeOK, Active!Questions, Active!Prefixes
<1>3. HeardBefore
  BY DEF Active!Init, HeardBefore
<1>4. \A p \in Active!Prefixes : \A s \in Active!Starts : ChunkInv(p, s)
  BY DEF Active!Init, ChunkInv
<1>5. \A p \in Active!Prefixes : UnionInv(p, union[p]) /\ UnionInv(p, lagging[p])
  BY DEF Active!Init, UnionInv
<1> QED
  BY <1>2, <1>3, <1>4, <1>5 DEF ActiveInv

(* What the steps of one client do to the variables, in their types.        *)
LEMMA ActiveTypeStep ==
    ASSUME Active!ActiveBounds, ActiveInv, [Active!Next]_(Active!vars)
    PROVE  Active!TypeOK'
<1>1. /\ MaxNow \in Nat /\ MaxHears \in Nat /\ MaxAsks \in Nat
      /\ CacheSecs \in Nat /\ Window \in Nat
  BY DEF Active!ActiveBounds
<1>2. Active!TypeOK /\ now \in Nat
  BY <1>1 DEF ActiveInv, Active!TypeOK
<1>3. now' \in 0..MaxNow /\ heard' \in [Active!Prefixes -> [Users -> SUBSET (0..MaxNow)]]
  BY <1>2, ActiveTimeStep DEF ActiveInv
<1>4. CASE UNCHANGED Active!vars \/ Active!Tick \/ Active!Replicate
  BY <1>2, <1>3, <1>4 DEF Active!vars, Active!Tick, Active!Replicate, Active!TypeOK
<1>5. ASSUME NEW u \in Users, NEW allowed \in BOOLEAN, Active!Hear(u, allowed)
      PROVE  Active!TypeOK'
  <2>1. chunks' \in [Active!Prefixes \X Active!Starts -> Active!Sets \union {None}]
    <3>1. chunks \in [Active!Prefixes \X Active!Starts -> Active!Sets \union {None}]
      BY <1>2 DEF Active!TypeOK
    <3>2. ASSUME NEW k \in Active!Prefixes \X Active!Starts
          PROVE  [users |-> Active!Members(chunks[k]) \union {u},
             expires |-> now + Active!Lifetime] \in Active!Sets
      BY <1>1, <1>2, <3>1 DEF Active!Members, Active!Exists, Active!Lifetime, Active!Sets
    <3> QED
      BY <1>5, <3>1, <3>2 DEF Active!Hear
  <2>2. calls' \in [hears : 0..MaxHears, asks : 0..MaxAsks]
    <3>1. calls.hears \in 0..MaxHears /\ calls.hears < MaxHears
          /\ calls' = [calls EXCEPT !.hears = @ + 1]
          /\ calls \in [hears : 0..MaxHears, asks : 0..MaxAsks]
      BY <1>2, <1>5 DEF Active!TypeOK, Active!Hear
    <3>2. calls.hears + 1 \in 0..MaxHears
      BY <1>1, <3>1
    <3> QED
      BY <3>1, <3>2
  <2> QED
    BY <1>2, <1>3, <1>5, <2>1, <2>2 DEF Active!Hear, Active!TypeOK
<1>6. ASSUME NEW c \in Clients, Active!SetActiveUsers(c)
      PROVE  Active!TypeOK'
  <2> DEFINE p == client[c].prefix
             key == IF Active!Union(p) = {} THEN None
                    ELSE [users |-> Active!Union(p), expires |-> now + CacheSecs]
             answer == [prefix |-> p, users |-> Active!Union(p), at |-> now, fresh |-> TRUE]
  <2>1. p \in Active!Prefixes
    BY <1>2, <1>6 DEF Active!SetActiveUsers, Active!TypeOK, Active!Questions
  <2>2. Active!Union(p) \subseteq Users
    BY <2>1, ActiveUnionType
  <2>3. key \in Active!Sets \union {None} /\ answer \in Active!Answers
    BY <1>1, <1>2, <2>1, <2>2 DEF Active!Sets, Active!Answers
  <2>4. /\ union' = [union EXCEPT ![p] = key]
        /\ client' = [client EXCEPT ![c] = [pc |-> "idle", answer |-> answer]]
        /\ UNCHANGED <<now, oneClient, chunks, lagging, calls, heard>>
    BY <1>6 DEF Active!SetActiveUsers, Active!Answer
  <2> HIDE DEF p, key, answer
  <2>5. union' \in [Active!Prefixes -> Active!Sets \union {None}]
    BY <1>2, <2>3, <2>4 DEF Active!TypeOK
  <2>6. client' \in [Clients -> Active!Questions]
    <3>1. [pc |-> "idle", answer |-> answer] \in Active!Questions
      BY <2>3 DEF Active!Questions
    <3> QED
      BY <1>2, <2>4, <3>1 DEF Active!TypeOK
  <2> QED
    BY <1>2, <2>4, <2>5, <2>6 DEF Active!TypeOK
<1>7. ASSUME NEW c \in Clients, NEW p \in Active!Prefixes, Active!Ask(c, p)
      PROVE  Active!TypeOK'
  <2>1. PICK q \in Active!Questions : client' = [client EXCEPT ![c] = q]
    <3>1. Active!ReadView[p] \in Active!Sets \union {None}
      BY <1>2 DEF Active!ReadView, Active!TypeOK
    <3>2. CASE Active!Exists(Active!ReadView[p])
      <4> DEFINE answer == [prefix |-> p, users |-> Active!ReadView[p].users,
                            at |-> now, fresh |-> FALSE]
      <4>1. answer \in Active!Answers
        BY <1>2, <3>1, <3>2 DEF Active!Exists, Active!Answers, Active!Sets
      <4>2. client' = [client EXCEPT ![c] = [pc |-> "idle", answer |-> answer]]
        BY <1>7, <3>2 DEF Active!Ask, Active!Answer
      <4> HIDE DEF answer
      <4>3. [pc |-> "idle", answer |-> answer] \in Active!Questions
        BY <4>1 DEF Active!Questions
      <4> QED
        BY <4>2, <4>3
    <3>3. CASE ~Active!Exists(Active!ReadView[p])
      <4>1. client' = [client EXCEPT ![c] = [pc |-> "union", prefix |-> p, answer |-> None]]
        BY <1>7, <3>3 DEF Active!Ask
      <4>2. [pc |-> "union", prefix |-> p, answer |-> None] \in Active!Questions
        BY DEF Active!Questions
      <4> QED
        BY <4>1, <4>2
    <3> QED
      BY <3>2, <3>3
  <2>2. client' \in [Clients -> Active!Questions]
    BY <1>2, <2>1 DEF Active!TypeOK
  <2>3. calls' \in [hears : 0..MaxHears, asks : 0..MaxAsks]
    <3>1. calls.asks \in 0..MaxAsks /\ calls.asks < MaxAsks
          /\ calls' = [calls EXCEPT !.asks = @ + 1]
          /\ calls \in [hears : 0..MaxHears, asks : 0..MaxAsks]
      BY <1>2, <1>7 DEF Active!TypeOK, Active!Ask
    <3>2. calls.asks + 1 \in 0..MaxAsks
      BY <1>1, <3>1
    <3> QED
      BY <3>1, <3>2
  <2> QED
    BY <1>2, <1>7, <2>2, <2>3 DEF Active!Ask, Active!TypeOK
<1> QED
  BY <1>4, <1>5, <1>6, <1>7 DEF Active!Next

(* A chunk's promise outlives every step: a name is added under the time    *)
(* it is heard, and time takes nothing out of a chunk that the window needs. *)
LEMMA ActiveChunkStep ==
    ASSUME Active!ActiveBounds, ActiveInv, [Active!Next]_(Active!vars),
           NEW p \in Active!Prefixes, NEW s \in Active!Starts
    PROVE  ChunkInv(p, s)'
<1>1. /\ Window \in Nat /\ now \in Nat /\ now' \in Nat /\ now <= now' /\ MaxNow \in Nat
      /\ \A q \in Active!Prefixes, u \in Users : heard[q][u] \subseteq 0..MaxNow
      /\ \A q \in Active!Prefixes, u \in Users : \A t \in heard[q][u] : t <= now
      /\ chunks \in [Active!Prefixes \X Active!Starts -> Active!Sets \union {None}]
  BY ActiveTimeStep DEF ActiveInv, Active!TypeOK, Active!ActiveBounds, HeardBefore
<1>2. ChunkInv(p, s)
  BY DEF ActiveInv
<1>3. CASE chunks' = chunks /\ heard' = heard
  BY <1>1, <1>2, <1>3 DEF ChunkInv
<1>4. ASSUME NEW u \in Users, NEW allowed \in BOOLEAN, Active!Hear(u, allowed)
      PROVE  ChunkInv(p, s)'
  <2> DEFINE old == chunks[<<p, s>>]
             prefixes == IF allowed THEN Active!Prefixes ELSE {"active"}
             new == [users |-> Active!Members(old) \union {u}, expires |-> now + Window]
  <2>1. /\ now' = now
        /\ chunks' = [k \in Active!Prefixes \X Active!Starts |->
             IF k[1] \in prefixes /\ k[2] = Active!ChunkOf(now)
               THEN [users |-> Active!Members(chunks[k]) \union {u}, expires |-> now + Window]
               ELSE chunks[k]]
        /\ heard' = [q \in Active!Prefixes |->
             IF q \in prefixes THEN [heard[q] EXCEPT ![u] = @ \union {now}] ELSE heard[q]]
    BY <1>1, <1>4 DEF Active!Hear, Active!Lifetime
  <2>2. chunks'[<<p, s>>] = IF p \in prefixes /\ s = Active!ChunkOf(now) THEN new ELSE old
    BY <2>1
  <2>3. heard'[p] = IF p \in prefixes THEN [heard[p] EXCEPT ![u] = @ \union {now}] ELSE heard[p]
    BY <2>1
  <2>4. old \in Active!Sets \union {None} /\ heard[p] \in [Users -> SUBSET (0..MaxNow)]
    BY <1>1 DEF ActiveInv, Active!TypeOK
  <2>5. new \in Active!Sets /\ new # None
    BY <1>1, <2>4 DEF Active!Members, Active!Exists, Active!Sets, Active!ActiveBounds
  <2>6. \A v \in Users : heard'[p][v] =
          IF p \in prefixes /\ v = u THEN heard[p][v] \union {now} ELSE heard[p][v]
    BY <2>3, <2>4
  <2>7. /\ old # None => \A v \in old.users :
             v \in Users /\ \E t \in heard[p][v] : Active!ChunkOf(t) = s
        /\ \A v \in Users : \A t \in heard[p][v] :
             Active!ChunkOf(t) = s /\ now < t + Window =>
               old # None /\ v \in old.users /\ t + Window <= old.expires
    BY <1>2, <2>4 DEF ChunkInv, Active!Sets
  <2>8. \A v \in Active!Members(old) : old # None /\ v \in old.users
    BY DEF Active!Members, Active!Exists
  <2>9. \A v \in Users : \A t \in heard[p][v] :
          Active!ChunkOf(t) = s /\ now < t + Window => v \in Active!Members(old)
    <3> SUFFICES ASSUME NEW v \in Users, NEW t \in heard[p][v],
                        Active!ChunkOf(t) = s, now < t + Window
                 PROVE  v \in Active!Members(old)
      OBVIOUS
    <3>1. old # None /\ v \in old.users /\ t + Window <= old.expires
      BY <2>7
    <3>2. old.expires \in Nat /\ t \in Nat
      BY <1>1, <2>4, <3>1 DEF Active!Sets
    <3> QED
      BY <1>1, <3>1, <3>2 DEF Active!Members, Active!Exists
  <2> HIDE DEF old, prefixes
  <2>10. CASE p \in prefixes /\ s = Active!ChunkOf(now)
    <3>1. chunks'[<<p, s>>] = new
      BY <2>2, <2>10
    <3>2. ASSUME NEW v \in new.users PROVE \E t \in heard'[p][v] : Active!ChunkOf(t) = s
      <4>1. CASE v = u
        BY <2>6, <2>10, <4>1
      <4>2. CASE v # u
        <5>1. v \in Users /\ \E t \in heard[p][v] : Active!ChunkOf(t) = s
          BY <2>7, <2>8, <4>2
        <5> QED
          BY <2>6, <5>1
      <4> QED
        BY <4>1, <4>2
    <3>3. ASSUME NEW v \in Users, NEW t \in heard'[p][v], Active!ChunkOf(t) = s, now < t + Window
          PROVE  v \in new.users /\ t + Window <= new.expires
      <4>1. CASE t \in heard[p][v]
        <5>1. v \in Active!Members(old) /\ t <= now /\ t \in Nat
          BY <1>1, <2>9, <3>3, <4>1
        <5> QED
          BY <1>1, <5>1
      <4>2. CASE t \notin heard[p][v]
        <5>1. v = u /\ t = now
          BY <2>6, <4>2, <3>3
        <5> QED
          BY <1>1, <5>1
      <4> QED
        BY <4>1, <4>2
    <3> QED
      BY <2>1, <2>5, <3>1, <3>2, <3>3 DEF ChunkInv
  <2>11. CASE ~(p \in prefixes /\ s = Active!ChunkOf(now))
    <3>1. chunks'[<<p, s>>] = old
      BY <2>2, <2>11
    <3>2. \A v \in Users : \A t \in heard'[p][v] : Active!ChunkOf(t) = s => t \in heard[p][v]
      BY <2>6, <2>11
    <3>3. \A v \in Users : heard[p][v] \subseteq heard'[p][v]
      BY <2>6
    <3> QED
      BY <2>1, <2>7, <3>1, <3>2, <3>3 DEF ChunkInv
  <2> QED
    BY <2>10, <2>11
<1>5. CASE \/ UNCHANGED Active!vars \/ Active!Tick \/ Active!Replicate
           \/ \E c \in Clients :
                Active!SetActiveUsers(c) \/ \E q \in Active!Prefixes : Active!Ask(c, q)
  <2>1. chunks' = chunks /\ heard' = heard
    BY <1>5 DEF Active!vars, Active!Tick, Active!Replicate, Active!SetActiveUsers, Active!Ask
  <2> QED
    BY <1>3, <2>1
<1> QED
  BY <1>4, <1>5 DEF Active!Next

(* What a unioned key promised when it was made, no step changes: a name    *)
(* heard of since is dated after that.                                      *)
LEMMA ActiveUnionIsKept ==
    ASSUME Active!ActiveBounds, ActiveInv, [Active!Next]_(Active!vars), NEW p \in Active!Prefixes,
           NEW key \in Active!Sets \union {None}, UnionInv(p, key)
    PROVE  UnionInv(p, key)'
<1>1. CASE key = None
  BY <1>1 DEF UnionInv
<1>2. CASE key # None
  <2> DEFINE made == key.expires - CacheSecs
  <2>1. /\ made \in Int /\ now \in Nat /\ now' \in Nat /\ now <= now'
        /\ Active!RoundedWindow \in Nat /\ Mod \in Nat
    BY <1>2, ActiveTimeStep, ActiveWindowIsChunks DEF ActiveInv, Active!TypeOK,
       Active!ActiveBounds, Active!Sets
  <2>2. /\ made <= now
        /\ \A u \in key.users : u \in Users /\ Active!HeardIn(p, u, made - Active!RoundedWindow,
           made)
        /\ \A u \in Users :
             Active!HeardIn(p, u, made - Active!RoundedWindow + Mod - 1,
                made - 1) => u \in key.users
    BY <1>2 DEF UnionInv, Active!Sets
  <2> HIDE DEF made
  <2>3. \A u \in Users : /\ heard[p][u] \subseteq heard'[p][u]
                         /\ heard'[p][u] \subseteq heard[p][u] \union {now}
    BY ActiveTimeStep DEF ActiveInv
  <2>4. ASSUME NEW u \in key.users
        PROVE  \E t \in heard'[p][u] : made - Active!RoundedWindow < t /\ t <= made
    BY <2>2, <2>3 DEF Active!HeardIn
  <2>5. ASSUME NEW u \in Users, NEW t \in heard'[p][u],
               made - Active!RoundedWindow + Mod - 1 < t, t <= made - 1
        PROVE  u \in key.users
    <3>1. t # now
      BY <2>1, <2>2, <2>5
    <3>2. t \in heard[p][u]
      BY <2>3, <3>1
    <3> QED
      BY <2>2, <2>5, <3>2 DEF Active!HeardIn
  <2>6. made <= now'
    BY <2>1, <2>2
  <2> QED
    BY <2>4, <2>5, <2>6 DEF UnionInv, Active!HeardIn, made
<1> QED
  BY <1>1, <1>2

(* The key that set_active_users makes.                                     *)
LEMMA ActiveUnionIsMade ==
    ASSUME Active!ActiveBounds, ActiveInv, NEW p \in Active!Prefixes
    PROVE  LET key == [users |-> Active!Union(p), expires |-> now + CacheSecs]
           IN  key \in Active!Sets /\ UnionInv(p, key)
<1> DEFINE new == [users |-> Active!Union(p), expires |-> now + CacheSecs]
<1>1. now \in Nat /\ CacheSecs \in Nat /\ Active!RoundedWindow \in Nat /\ Mod \in Nat
  BY ActiveWindowIsChunks DEF ActiveInv, Active!TypeOK, Active!ActiveBounds
<1>2. new.expires - CacheSecs = now /\ new.users = Active!Union(p)
  BY <1>1
<1>3. new \in Active!Sets
  BY <1>1, ActiveUnionType DEF Active!Sets
<1>4. \A u \in Active!Union(p) : Active!HeardIn(p, u, now - Active!RoundedWindow, now)
  BY ActiveUnionIsSound
<1>5. \A u \in Users :
        Active!HeardIn(p, u, now - Active!RoundedWindow + Mod - 1, now - 1) => u \in Active!Union(p)
  <2> SUFFICES ASSUME NEW u \in Users,
                      Active!HeardIn(p, u, now - Active!RoundedWindow + Mod - 1, now - 1)
               PROVE  u \in Active!Union(p)
    OBVIOUS
  <2>1. Active!HeardIn(p, u, now - Active!RoundedWindow + Mod - 1, now)
    BY <1>1 DEF Active!HeardIn, ActiveInv, HeardBefore
  <2> QED
    BY <2>1, ActiveUnionIsComplete
<1> HIDE DEF new
<1>6. UnionInv(p, new)
  BY <1>1, <1>2, <1>4, <1>5 DEF UnionInv
<1> QED
  BY <1>3, <1>6 DEF new

LEMMA ActiveInvStep ==
    ASSUME Active!ActiveBounds, ActiveInv, [Active!Next]_(Active!vars)
    PROVE  ActiveInv'
<1>1. Active!TypeOK' /\ Active!TypeOK
  BY ActiveTypeStep DEF ActiveInv
<1>2. HeardBefore'
  BY ActiveHeardIsKept DEF ActiveInv
<1>3. \A p \in Active!Prefixes : \A s \in Active!Starts : ChunkInv(p, s)'
  BY ActiveChunkStep
<1>4. ASSUME NEW p \in Active!Prefixes PROVE UnionInv(p, union[p])' /\ UnionInv(p, lagging[p])'
  <2>1. /\ union[p] \in Active!Sets \union {None} /\ lagging[p] \in Active!Sets \union {None}
        /\ UnionInv(p, union[p]) /\ UnionInv(p, lagging[p])
    BY <1>1 DEF ActiveInv, Active!TypeOK
  <2>2. PICK here \in Active!Sets \union {None} : UnionInv(p, here) /\ union'[p] = here
    <3>1. CASE union'[p] = union[p]
      BY <2>1, <3>1
    <3>2. CASE union'[p] = None
      BY <3>2 DEF UnionInv
    <3>3. CASE union'[p] = [users |-> Active!Union(p), expires |-> now + CacheSecs]
      BY <3>3, ActiveUnionIsMade
    <3>4. CASE \E c \in Clients : Active!SetActiveUsers(c)
      BY <1>1, <3>1, <3>2, <3>3, <3>4 DEF Active!SetActiveUsers, Active!TypeOK
    <3>5. CASE ~\E c \in Clients : Active!SetActiveUsers(c)
      <4>1. union' = union
        BY <3>5 DEF Active!Next, Active!vars, Active!Tick, Active!Replicate, Active!Hear, Active!Ask
      <4> QED
        BY <3>1, <4>1
    <3> QED
      BY <3>4, <3>5
  <2>3. PICK there \in Active!Sets \union {None} : UnionInv(p, there) /\ lagging'[p] = there
    <3>1. lagging' = lagging \/ lagging' = union
      BY DEF Active!Next, Active!vars, Active!Tick, Active!Replicate, Active!Hear,
         Active!SetActiveUsers, Active!Ask
    <3> QED
      BY <2>1, <3>1
  <2>4. \A key \in Active!Sets \union {None} : UnionInv(p, key) => UnionInv(p, key)'
    BY ActiveUnionIsKept
  <2> QED
    BY <2>2, <2>3, <2>4 DEF UnionInv, Active!HeardIn
<1> QED
  BY <1>1, <1>2, <1>3, <1>4 DEF ActiveInv

-----------------------------------------------------------------------------
(* Every variable keeps its type, for every set of users and of clients,    *)
(* every length of the window, of a chunk and of a unioned key's life.      *)
THEOREM ActiveTypeCorrect ==
    ASSUME Active!ActiveBounds
    PROVE  Active!Spec => []Active!TypeOK
<1>1. Active!Init => ActiveInv
  BY ActiveInvInit
<1>2. ActiveInv /\ [Active!Next]_(Active!vars) => ActiveInv'
  BY ActiveInvStep
<1>3. ActiveInv => Active!TypeOK
  BY DEF ActiveInv
<1> QED
  BY <1>1, <1>2, <1>3, PTL DEF Active!Spec

(* An answer the window justifies.                                          *)
Justified(a) ==
    LET age == IF a.fresh THEN 0 ELSE CacheSecs
    IN  \A u \in Users :
          /\ u \in a.users => Active!HeardIn(a.prefix, u, a.at - age - Active!RoundedWindow, a.at)
          /\ Active!HeardIn(a.prefix, u, a.at - Active!RoundedWindow + Mod - 1, a.at - age)
               => u \in a.users

(* What a step of a client answers.                                         *)
LEMMA ActiveAnswersAreWithinWindow ==
    ASSUME Active!ActiveBounds, ActiveInv, [Active!Next]_(Active!vars)
    PROVE  [\A c \in Clients :
              client'[c].answer \notin {None,
                 client[c].answer} => Justified(client'[c].answer)]_client
<1>1. /\ now \in Nat /\ CacheSecs \in Nat /\ Active!RoundedWindow \in Nat
      /\ Mod \in Nat /\ Active!TypeOK /\ MaxNow \in Nat
  BY ActiveWindowIsChunks DEF ActiveInv, Active!TypeOK, Active!ActiveBounds
<1>2. ASSUME NEW c \in Clients, NEW p \in Active!Prefixes, Active!Ask(c, p)
      PROVE  \A d \in Clients : client'[d].answer \notin {None, client[d].answer}
                                  => Justified(client'[d].answer)
  <2>1. CASE Active!Exists(Active!ReadView[p])
    <3> DEFINE key == Active!ReadView[p]
               answer == [prefix |-> p, users |-> key.users, at |-> now, fresh |-> FALSE]
               made == key.expires - CacheSecs
    <3>1. client' = [client EXCEPT ![c] = [pc |-> "idle", answer |-> answer]]
      BY <1>2, <2>1 DEF Active!Ask, Active!Answer
    <3>2. key \in Active!Sets /\ UnionInv(p, key) /\ now < key.expires /\ key # None
      BY <1>1, <2>1 DEF Active!ReadView, Active!Exists, ActiveInv, Active!TypeOK
    <3>3. made \in Int /\ made <= now /\ now - CacheSecs <= made - 1
      BY <1>1, <3>2 DEF UnionInv, Active!Sets
    <3>4. /\ \A u \in key.users : Active!HeardIn(p, u, made - Active!RoundedWindow, made)
          /\ \A u \in Users :
               Active!HeardIn(p, u, made - Active!RoundedWindow + Mod - 1,
                  made - 1) => u \in key.users
      BY <3>2 DEF UnionInv
    <3>5. \A u \in Users : heard[p][u] \subseteq 0..MaxNow
      BY <1>1 DEF Active!TypeOK
    <3> HIDE DEF key, made
    <3>6. ASSUME NEW u \in Users, u \in key.users
          PROVE  Active!HeardIn(p, u, now - CacheSecs - Active!RoundedWindow, now)
      BY <1>1, <3>3, <3>4, <3>5, <3>6 DEF Active!HeardIn
    <3>7. ASSUME NEW u \in Users, Active!HeardIn(p, u, now - Active!RoundedWindow + Mod - 1,
       now - CacheSecs)
          PROVE  u \in key.users
      <4>1. Active!HeardIn(p, u, made - Active!RoundedWindow + Mod - 1, made - 1)
        BY <1>1, <3>3, <3>5, <3>7 DEF Active!HeardIn
      <4> QED
        BY <3>4, <4>1
    <3>8. Justified(answer)
      BY <3>6, <3>7 DEF Justified
    <3> HIDE DEF answer
    <3> QED
      BY <1>1, <3>1, <3>8 DEF Active!TypeOK
  <2>2. CASE ~Active!Exists(Active!ReadView[p])
    <3>1. client' = [client EXCEPT ![c] = [pc |-> "union", prefix |-> p, answer |-> None]]
      BY <1>2, <2>2 DEF Active!Ask
    <3> QED
      BY <1>1, <3>1 DEF Active!TypeOK
  <2> QED
    BY <2>1, <2>2
<1>3. ASSUME NEW c \in Clients, Active!SetActiveUsers(c)
      PROVE  \A d \in Clients : client'[d].answer \notin {None, client[d].answer}
                                  => Justified(client'[d].answer)
  <2> DEFINE p == client[c].prefix
             answer == [prefix |-> p, users |-> Active!Union(p), at |-> now, fresh |-> TRUE]
  <2>1. client' = [client EXCEPT ![c] = [pc |-> "idle", answer |-> answer]]
    BY <1>3 DEF Active!SetActiveUsers, Active!Answer
  <2>2. p \in Active!Prefixes
    BY <1>1, <1>3 DEF Active!SetActiveUsers, Active!TypeOK, Active!Questions
  <2> HIDE DEF p
  <2>3. \A u \in Active!Union(p) : Active!HeardIn(p, u, now - Active!RoundedWindow, now)
    BY <2>2, ActiveUnionIsSound
  <2>4. \A u \in Users :
          Active!HeardIn(p, u, now - Active!RoundedWindow + Mod - 1, now) => u \in Active!Union(p)
    BY <2>2, ActiveUnionIsComplete
  <2>5. now - 0 = now
    BY <1>1
  <2>6. Justified(answer)
    BY <2>3, <2>4, <2>5 DEF Justified
  <2> HIDE DEF answer
  <2> QED
    BY <1>1, <2>1, <2>6 DEF Active!TypeOK
<1>4. CASE \/ UNCHANGED Active!vars \/ Active!Tick \/ Active!Replicate
           \/ \E u \in Users, allowed \in BOOLEAN : Active!Hear(u, allowed)
  BY <1>4 DEF Active!vars, Active!Tick, Active!Replicate, Active!Hear
<1>5. CASE \E c \in Clients :
             Active!SetActiveUsers(c) \/ \E p \in Active!Prefixes : Active!Ask(c, p)
  BY <1>2, <1>3, <1>5
<1> QED
  BY <1>4, <1>5 DEF Active!Next

(* Whoever is answered to be active was heard of within the rounded window, *)
(* and whoever was heard of within the window less a chunk is answered.     *)
THEOREM ActiveWithinWindowTheorem ==
    ASSUME Active!ActiveBounds
    PROVE  Active!Spec => ActiveWithinWindow
<1>1. Active!Init => ActiveInv
  BY ActiveInvInit
<1>2. ActiveInv /\ [Active!Next]_(Active!vars) => ActiveInv'
  BY ActiveInvStep
<1>3. ActiveInv /\ [Active!Next]_(Active!vars) =>
        [\A c \in Clients : client'[c].answer \notin {None, client[c].answer} =>
           LET a == client'[c].answer
               age == IF a.fresh THEN 0 ELSE CacheSecs
           IN  \A u \in Users :
                 /\ u \in a.users => HeardIn(a.prefix, u, a.at - age - RoundedWindow, a.at)
                 /\ HeardIn(a.prefix, u, a.at - RoundedWindow + Mod - 1, a.at - age)
                      => u \in a.users]_client
  BY ActiveAnswersAreWithinWindow
  DEF Justified, Active!HeardIn, HeardIn, Active!RoundedWindow, RoundedWindow,
      Active!ChunkOf, ChunkOf
<1> QED
  BY <1>1, <1>2, <1>3, PTL DEF Active!Spec, ActiveWithinWindow
=============================================================================
