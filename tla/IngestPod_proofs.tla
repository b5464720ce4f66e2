------------------------- MODULE IngestPod_proofs --------------------------
(***************************************************************************)
(* Machine-checked proofs about IngestPod, for every value of its          *)
(* constants: the pod implements its two parts, and what was proved of     *)
(* each part alone gives what holds of them together.  At the end, about   *)
(* OpsSurface: what the pod tells its operators is what it did.            *)
(***************************************************************************)
EXTENDS IngestPod, OpsReports, FiniteSetTheorems, SequenceTheorems, TLAPS

(* The parts, with the theorems about them. *)
CacheProofs == INSTANCE BlacklistCache_proofs
DeliveryProofs == INSTANCE EventDelivery_proofs WITH blacklist <- Served

-----------------------------------------------------------------------------
(* The parts and their theorems speak of the same specifications *)

LEMMA CacheAssumptions ==
    CacheProofs!BoundsAssumption /\ CacheProofs!MarkersAssumption
BY PodAssumption DEF CacheProofs!BoundsAssumption, Cache!BoundsAssumption,
   CacheProofs!MarkersAssumption, Cache!MarkersAssumption, CacheProofs!Lists, Cache!Lists

LEMMA DeliveryAssumptions ==
    /\ DeliveryProofs!InputsAssumption /\ DeliveryProofs!AttemptsAssumption
    /\ DeliveryProofs!NoTopicAssumption
BY PodAssumption DEF DeliveryProofs!InputsAssumption, Delivery!InputsAssumption,
   DeliveryProofs!AttemptsAssumption, Delivery!AttemptsAssumption,
   DeliveryProofs!NoTopicAssumption, Delivery!NoTopicAssumption,
   DeliveryProofs!Payloads, Delivery!Payloads, DeliveryProofs!Defects, Delivery!Defects,
   DeliveryProofs!Toggles, Delivery!Toggles, DeliveryProofs!Topics, Delivery!Topics,
   DeliveryProofs!MainTopics, Delivery!MainTopics,
   DeliveryProofs!DebugTopics, Delivery!DebugTopics

LEMMA SameCache == Cache!Spec => CacheProofs!Spec
<1>1. Cache!Init => CacheProofs!Init
  BY DEF Cache!Init, CacheProofs!Init
<1>2. [Cache!Next]_(Cache!vars) => [CacheProofs!Next]_(CacheProofs!vars)
  BY DEF Cache!vars, CacheProofs!vars, Cache!Next, CacheProofs!Next,
     Cache!external, CacheProofs!external, Cache!ghosts, CacheProofs!ghosts,
     Cache!Empty, CacheProofs!Empty, Cache!IsList, CacheProofs!IsList,
     Cache!Version, CacheProofs!Version, Cache!Table, CacheProofs!Table,
     Cache!ReadCache, CacheProofs!ReadCache,
     Cache!TableChanges, CacheProofs!TableChanges, Cache!RdsToggles, CacheProofs!RdsToggles,
     Cache!Crash, CacheProofs!Crash, Cache!Start, CacheProofs!Start,
     Cache!BeginRefresh, CacheProofs!BeginRefresh,
     Cache!LookupInFile, CacheProofs!LookupInFile,
     Cache!LookupFallsThrough, CacheProofs!LookupFallsThrough,
     Cache!Call, CacheProofs!Call, Cache!FetchAnswers, CacheProofs!FetchAnswers,
     Cache!YieldNothing, CacheProofs!YieldNothing,
     Cache!FetchYieldsNothing, CacheProofs!FetchYieldsNothing,
     Cache!OpenCacheFile, CacheProofs!OpenCacheFile,
     Cache!WriteCacheFile, CacheProofs!WriteCacheFile,
     Cache!Store, CacheProofs!Store, Cache!StoreStamp, CacheProofs!StoreStamp,
     Cache!StoreInMemory, CacheProofs!StoreInMemory
<1> QED
  BY <1>1, <1>2, PTL DEF Cache!Spec, CacheProofs!Spec

LEMMA SameDelivery == Delivery!Spec => DeliveryProofs!Spec
<1>1. Delivery!Init => DeliveryProofs!Init
  BY DEF Delivery!Init, DeliveryProofs!Init, Delivery!Attempts, DeliveryProofs!Attempts,
     Delivery!Topics, DeliveryProofs!Topics, Delivery!MainTopics, DeliveryProofs!MainTopics,
     Delivery!DebugTopics, DeliveryProofs!DebugTopics
<1>2. [Delivery!Next]_(Delivery!vars) => [DeliveryProofs!Next]_(DeliveryProofs!vars)
  BY DEF Delivery!vars, DeliveryProofs!vars, Delivery!Next, DeliveryProofs!Next,
     Delivery!Attempts, DeliveryProofs!Attempts, Delivery!Payload, DeliveryProofs!Payload,
     Delivery!LoopFree, DeliveryProofs!LoopFree,
     Delivery!ShouldObfuscate, DeliveryProofs!ShouldObfuscate,
     Delivery!KafkaTopics, DeliveryProofs!KafkaTopics, Delivery!SendAll, DeliveryProofs!SendAll,
     Delivery!Plan, DeliveryProofs!Plan, Delivery!Post, DeliveryProofs!Post,
     Delivery!Settle, DeliveryProofs!Settle, Delivery!Handle, DeliveryProofs!Handle,
     Delivery!BodyFails, DeliveryProofs!BodyFails,
     Delivery!ValidationFails, DeliveryProofs!ValidationFails,
     Delivery!GenerationFails, DeliveryProofs!GenerationFails,
     Delivery!StartDelivery, DeliveryProofs!StartDelivery,
     Delivery!Publish, DeliveryProofs!Publish,
     Delivery!SendSucceeds, DeliveryProofs!SendSucceeds,
     Delivery!SendRaises, DeliveryProofs!SendRaises, Delivery!SendFails, DeliveryProofs!SendFails,
     Delivery!BlacklistMoves, DeliveryProofs!BlacklistMoves,
     Delivery!LoseProcess, DeliveryProofs!LoseProcess, Delivery!Crash, DeliveryProofs!Crash
<1> QED
  BY <1>1, <1>2, PTL DEF Delivery!Spec, DeliveryProofs!Spec

-----------------------------------------------------------------------------
(* The pod implements the cache *)

(* In the pod the cache runs as blacklist.py alone would: each step of the  *)
(* pod is a step of the cache or leaves all of it alone.                    *)
LEMMA PodImplementsCache == Spec => Cache!Spec
<1>1. Init => Cache!Init
  BY DEF Init
<1>2. [Next]_vars => [Cache!Next]_(Cache!vars)
  <2> SUFFICES ASSUME [Next]_vars PROVE [Cache!Next]_(Cache!vars)
    OBVIOUS
  <2>1. CASE World
    BY <2>1 DEF World, Cache!Next
  <2>2. CASE Crash
    BY <2>2 DEF Crash, Cache!Next
  <2>3. CASE Startup
    BY <2>3 DEF Startup, Cache!Next
  <2>4. CASE RefreshRequest
    BY <2>4 DEF RefreshRequest, Cache!Next
  <2>5. CASE CacheCall
    BY <2>5 DEF CacheCall, Cache!Next
  <2>6. CASE EventPosted
    BY <2>6 DEF EventPosted, Delivery!Post, cacheOwn, Cache!vars
  <2>7. CASE EventHandled
    <3>1. UNCHANGED cacheOwn /\ UNCHANGED crashes
      BY <2>7 DEF EventHandled, Delivery!Handle, Delivery!BodyFails,
         Delivery!ValidationFails, Delivery!GenerationFails, Delivery!StartDelivery,
         Delivery!SendSucceeds, Delivery!SendFails, Delivery!SendRaises
    <3> QED
      BY <3>1 DEF cacheOwn, Cache!vars
  <2>8. CASE UNCHANGED vars
    BY <2>8 DEF vars, cacheOwn, Cache!vars
  <2> QED
    BY <2>1, <2>2, <2>3, <2>4, <2>5, <2>6, <2>7, <2>8 DEF Next
<1> QED
  BY <1>1, <1>2, PTL DEF Spec, Cache!Spec

-----------------------------------------------------------------------------
(* The pod implements the delivery *)

MemoryOK == memory \in Cache!Lists \union {NoList}

(* A call of the cache, startup too, excludes a handler between two sends.  *)
LoopHeld == pc # "idle" => Delivery!LoopFree

LEMMA MemoryInvariant == Spec => []MemoryOK
<1>1. CacheProofs!Spec => []CacheProofs!TypeOK
  BY CacheAssumptions, CacheProofs!TypeCorrect, PTL DEF CacheProofs!TypeCorrect
<1>2. CacheProofs!TypeOK => MemoryOK
  BY DEF CacheProofs!TypeOK, MemoryOK, CacheProofs!Lists, Cache!Lists
<1> QED
  BY <1>1, <1>2, PodImplementsCache, SameCache, PTL

LEMMA LoopHeldInvariant == Spec => []LoopHeld
<1>1. Init => LoopHeld
  BY DEF Init, Delivery!Init, LoopHeld, Delivery!LoopFree
<1>2. LoopHeld /\ [Next]_vars => LoopHeld'
  <2> SUFFICES ASSUME LoopHeld, [Next]_vars PROVE LoopHeld'
    OBVIOUS
  <2>1. ASSUME UNCHANGED pending, pc' # "idle" => pc # "idle" PROVE LoopHeld'
    BY <2>1 DEF LoopHeld, Delivery!LoopFree
  <2>2. ASSUME UNCHANGED deliveryOwn, pc # "idle" PROVE LoopHeld'
    BY <2>2 DEF LoopHeld, Delivery!LoopFree, deliveryOwn
  <2>3. CASE World
    BY <2>1, <2>3 DEF World, deliveryOwn, Cache!TableChanges, Cache!RdsToggles
  <2>4. CASE Crash
    BY <2>4 DEF Crash, Delivery!LoseProcess, LoopHeld, Delivery!LoopFree
  <2>5. CASE Startup
    BY <2>2, <2>5 DEF Startup, Cache!Start
  <2>6. CASE RefreshRequest
    BY <2>6 DEF RefreshRequest, deliveryOwn, LoopHeld, Delivery!LoopFree
  <2>7. CASE CacheCall
    BY <2>2, <2>7 DEF CacheCall, Cache!Call, Cache!FetchAnswers, Cache!FetchYieldsNothing,
       Cache!YieldNothing, Cache!OpenCacheFile, Cache!WriteCacheFile, Cache!StoreInMemory,
       Cache!Store
  <2>8. CASE EventPosted
    BY <2>1, <2>8 DEF EventPosted, cacheOwn, Delivery!Post
  <2>9. CASE EventHandled
    BY <2>9 DEF EventHandled, cacheOwn, LoopHeld
  <2>10. CASE UNCHANGED vars
    BY <2>1, <2>10 DEF vars, cacheOwn, deliveryOwn
  <2> QED
    BY <2>3, <2>4, <2>5, <2>6, <2>7, <2>8, <2>9, <2>10 DEF Next
<1> QED
  BY <1>1, <1>2, PTL DEF Spec

LEMMA ServedOK ==
    /\ MemoryOK => Served \in SUBSET Channels
    /\ memory = NoList => Served = {}
BY DEF MemoryOK, Served, Cache!IsList, Cache!Lists

(* In the pod a handler runs as send_request alone would, beside a list     *)
(* that only moves when no handler is between two sends: each step of the   *)
(* pod is a step of the delivery or leaves all of it alone.                 *)
THEOREM PodImplementsDelivery == Spec => ImplementsDelivery
<1>1. Init => Delivery!Init
  BY ServedOK DEF Init, Delivery!Init
<1>2. MemoryOK' /\ LoopHeld /\ [Next]_vars => [Delivery!Next]_(Delivery!vars)
  <2> SUFFICES ASSUME MemoryOK', LoopHeld, [Next]_vars
               PROVE  [Delivery!Next]_(Delivery!vars)
    OBVIOUS
  <2>1. Served' \in SUBSET Channels
    BY DEF MemoryOK, Served, Cache!IsList, Cache!Lists
  <2>2. UNCHANGED memory => Served' = Served
    BY DEF Served, Cache!IsList
  <2>3. ASSUME UNCHANGED <<deliveryOwn, crashes, memory>> PROVE UNCHANGED Delivery!vars
    BY <2>2, <2>3 DEF deliveryOwn, Delivery!vars
  <2>4. CASE World
    BY <2>3, <2>4 DEF World, Cache!TableChanges, Cache!RdsToggles
  <2>5. CASE Crash
    BY <2>1, <2>5 DEF Crash, Cache!Crash, Delivery!Next, Delivery!Crash
  <2>6. CASE Startup
    BY <2>3, <2>6 DEF Startup, Cache!Start
  <2>7. CASE RefreshRequest
    BY <2>3, <2>7 DEF RefreshRequest, Cache!BeginRefresh
  <2>8. CASE CacheCall
    <3>1. pc # "idle" /\ UNCHANGED <<deliveryOwn, crashes>>
      BY <2>8 DEF CacheCall, Cache!Call, Cache!FetchAnswers, Cache!FetchYieldsNothing,
         Cache!YieldNothing, Cache!OpenCacheFile, Cache!WriteCacheFile, Cache!StoreInMemory,
         Cache!Store
    <3>2. Delivery!LoopFree
      BY <3>1 DEF LoopHeld
    <3>3. CASE Served' = Served
      BY <3>1, <3>3 DEF deliveryOwn, Delivery!vars
    <3>4. CASE Served' # Served
      BY <2>1, <3>1, <3>2, <3>4 DEF deliveryOwn, Delivery!Next, Delivery!BlacklistMoves
    <3> QED
      BY <3>3, <3>4
  <2>9. CASE EventPosted
    BY <2>9 DEF EventPosted, Delivery!Next
  <2>10. CASE EventHandled
    BY <2>10 DEF EventHandled, Delivery!Next
  <2>11. CASE UNCHANGED vars
    BY <2>3, <2>11 DEF vars, cacheOwn
  <2> QED
    BY <2>4, <2>5, <2>6, <2>7, <2>8, <2>9, <2>10, <2>11 DEF Next
<1> QED
  BY <1>1, <1>2, MemoryInvariant, LoopHeldInvariant, PTL
     DEF Spec, ImplementsDelivery, Delivery!Spec

-----------------------------------------------------------------------------
(* What the parts guarantee together *)

(* Since the refresh that was confirmed the list in memory is at least as   *)
(* new as the table was when that refresh was called.                       *)
ConfirmedInv ==
    /\ confirmed \in Nat
    /\ confirmed > 0 => Cache!IsList(memory) /\ memory.version >= confirmed

(* What was proved of the cache alone, in the pod. *)
LEMMA CacheFacts ==
    Spec => /\ [](CacheProofs!TypeOK /\ CacheProofs!CacheInv)
            /\ []CacheProofs!OnlyGenuineLists /\ []CacheProofs!ServingHasList
            /\ CacheProofs!NoRollback /\ CacheProofs!RefreshIsFresh
<1>1. CacheProofs!Spec => [](CacheProofs!TypeOK /\ CacheProofs!CacheInv)
  BY CacheAssumptions, CacheProofs!CacheInvariant, PTL DEF CacheProofs!CacheInvariant
<1>2. CacheProofs!Spec => []CacheProofs!OnlyGenuineLists
  BY CacheAssumptions, CacheProofs!TiersAreGenuine, PTL DEF CacheProofs!TiersAreGenuine
<1>3. CacheProofs!Spec => CacheProofs!NoRollback
  BY CacheAssumptions, CacheProofs!ServedListNeverRollsBack, PTL
     DEF CacheProofs!ServedListNeverRollsBack
<1>4. CacheProofs!Spec => CacheProofs!RefreshIsFresh
  BY CacheAssumptions, CacheProofs!RefreshTakesEffect, PTL DEF CacheProofs!RefreshTakesEffect
<1>5. CacheProofs!Spec => []CacheProofs!ServingHasList
  BY CacheAssumptions, CacheProofs!PodServesAList, PTL DEF CacheProofs!PodServesAList
<1> QED
  BY <1>1, <1>2, <1>3, <1>4, <1>5, PodImplementsCache, SameCache, PTL

(* What was proved of the delivery alone, in the pod. *)
LEMMA DeliveryFacts ==
    Spec => []DeliveryProofs!TypeOK /\ DeliveryProofs!NothingSensitiveInClear
<1>1. DeliveryProofs!Spec => []DeliveryProofs!TypeOK
  BY DeliveryAssumptions, DeliveryProofs!TypeCorrect, PTL DEF DeliveryProofs!TypeCorrect
<1>2. DeliveryProofs!Spec => DeliveryProofs!NothingSensitiveInClear
  BY DeliveryAssumptions, DeliveryProofs!NothingSensitiveTheorem, PTL
     DEF DeliveryProofs!NothingSensitiveTheorem
<1> QED
  BY <1>1, <1>2, PodImplementsDelivery, SameDelivery, PTL DEF ImplementsDelivery

(* Only a death takes the process down. *)
LEMMA OnlyCrashDowns ==
    ASSUME [Next]_vars, pc # "down", pc' = "down"
    PROVE  Crash
BY DEF Next, vars, cacheOwn, World, Startup, RefreshRequest, CacheCall, EventPosted,
   EventHandled, Cache!TableChanges, Cache!RdsToggles, Cache!Start, Cache!BeginRefresh,
   Cache!Call, Cache!FetchAnswers, Cache!FetchYieldsNothing, Cache!YieldNothing,
   Cache!OpenCacheFile, Cache!WriteCacheFile, Cache!StoreInMemory, Cache!Store

LEMMA ConfirmedStep ==
    ASSUME CacheProofs!TypeOK, CacheProofs!CacheInv, CacheProofs!TypeOK', ConfirmedInv,
           [Next]_vars,
           [Cache!IsList(memory) /\ pc' # "down" =>
              Cache!IsList(memory') /\ memory'.version >= memory.version]_(CacheProofs!vars),
           [pc # "idle" /\ pc' = "idle" /\ caller = "refresh" /\ fetched # NoList =>
              Cache!IsList(memory') /\ memory'.version >= calledAt]_(CacheProofs!vars)
    PROVE  ConfirmedInv'
<1> USE DEF ConfirmedInv
<1>1. /\ calledAt \in Nat
      /\ memory \in Cache!Lists \union {NoList} /\ memory' \in Cache!Lists \union {NoList}
  BY DEF CacheProofs!TypeOK, CacheProofs!Lists, Cache!Lists
<1>2. ~Cache!IsList(NoList) /\ NoList \notin Cache!Lists
  BY PodAssumption DEF Cache!IsList, Cache!MarkersAssumption
<1>3. /\ Cache!IsList(memory) => memory.version \in Nat
      /\ Cache!IsList(memory') => memory'.version \in Nat
  BY <1>1, <1>2 DEF Cache!Lists
<1>4. CASE Crash
  BY <1>4 DEF Crash
<1>5. CASE CacheCall /\ caller = "refresh" /\ pc = "store"
  <2>1. confirmed' = calledAt /\ pc' = "idle"
    BY <1>5 DEF CacheCall, Cache!Call, Cache!FetchAnswers, Cache!FetchYieldsNothing,
       Cache!YieldNothing, Cache!OpenCacheFile, Cache!WriteCacheFile, Cache!StoreInMemory,
       Cache!Store
  <2>2. fetched # NoList
    BY <1>2, <1>5 DEF CacheProofs!CacheInv, CacheProofs!AnswerInv, CacheProofs!HasAnswer,
       CacheProofs!Lists, Cache!Lists
  <2>3. Cache!IsList(memory') /\ memory'.version >= calledAt
    BY <1>5, <2>1, <2>2 DEF CacheProofs!vars
  <2> QED
    BY <1>1, <2>1, <2>3
<1>6. CASE ~Crash /\ ~(CacheCall /\ caller = "refresh" /\ pc = "store")
  <2>1. confirmed' = confirmed
    BY <1>6 DEF Next, vars, World, Startup, RefreshRequest, CacheCall, EventPosted, EventHandled
  <2>2. CASE confirmed > 0
    <3>1. Cache!IsList(memory) /\ memory.version >= confirmed
      BY <2>2
    <3>2. pc # "down"
      BY <1>2, <3>1 DEF CacheProofs!CacheInv, CacheProofs!CallerInv
    <3>3. pc' # "down"
      BY <1>6, <3>2, OnlyCrashDowns
    <3>4. Cache!IsList(memory') /\ memory'.version >= memory.version
      <4>1. CASE memory' = memory
        BY <1>3, <3>1, <4>1
      <4>2. CASE memory' # memory
        BY <3>1, <3>3, <4>2 DEF CacheProofs!vars
      <4> QED
        BY <4>1, <4>2
    <3> QED
      BY <1>3, <2>1, <3>1, <3>4
  <2>3. CASE ~(confirmed > 0)
    BY <2>1, <2>3
  <2> QED
    BY <2>2, <2>3
<1> QED
  BY <1>4, <1>5, <1>6

LEMMA ConfirmedInvariant == Spec => []ConfirmedInv
<1>1. Init => ConfirmedInv
  BY DEF Init, ConfirmedInv
<1>2. /\ CacheProofs!TypeOK /\ CacheProofs!CacheInv /\ CacheProofs!TypeOK' /\ ConfirmedInv
      /\ [Next]_vars
      /\ [CacheProofs!IsList(memory) /\ pc' # "down" =>
            CacheProofs!IsList(memory') /\ memory'.version >= memory.version]_(CacheProofs!vars)
      /\ [pc # "idle" /\ pc' = "idle" /\ caller = "refresh" /\ fetched # NoList =>
            CacheProofs!IsList(memory') /\ memory'.version >= calledAt]_(CacheProofs!vars)
      => ConfirmedInv'
  BY ConfirmedStep DEF CacheProofs!IsList, Cache!IsList
<1> QED
  BY <1>1, <1>2, CacheFacts, PTL DEF Spec, CacheProofs!NoRollback, CacheProofs!RefreshIsFresh

(* uvicorn runs the lifespan protocol, in every life. *)
LEMMA LifespanInvariant == Spec => []lifespan
<1>1. Init => lifespan
  BY DEF Init
<1>2. lifespan /\ [Next]_vars => lifespan'
  <2> SUFFICES ASSUME lifespan, [Next]_vars PROVE lifespan' = lifespan
    OBVIOUS
  <2>1. CASE World \/ Crash \/ Startup \/ RefreshRequest
    BY <2>1 DEF World, Crash, Startup, RefreshRequest, Cache!external, Cache!TableChanges,
       Cache!RdsToggles, Cache!Crash, Cache!Start, Cache!BeginRefresh
  <2>2. CASE CacheCall
    BY <2>2 DEF CacheCall, Cache!external, Cache!Call, Cache!FetchAnswers,
       Cache!FetchYieldsNothing, Cache!YieldNothing, Cache!OpenCacheFile,
       Cache!WriteCacheFile, Cache!StoreInMemory, Cache!Store
  <2>3. CASE EventPosted \/ EventHandled \/ UNCHANGED vars
    BY <2>3 DEF EventPosted, EventHandled, vars, cacheOwn
  <2> QED
    BY <2>1, <2>2, <2>3 DEF Next
<1> QED
  BY <1>1, <1>2, PTL DEF Spec

(* Only a handler adds to the topics. *)
LEMMA OnlyHandlersSend ==
    ASSUME [Next]_vars, log' # log
    PROVE  EventHandled \/ Crash
BY DEF Next, vars, deliveryOwn, World, Startup, RefreshRequest, CacheCall, EventPosted,
   Delivery!Post

(* Lookups rely on a list in memory, and lifespan() is all that puts it     *)
(* there before the first request: nothing leaves the pod that was not      *)
(* looked up in one, and nothing in the clear that is on it.                *)
THEOREM SentByLoadedListTheorem == Spec => SentByLoadedList
<1>1. /\ CacheProofs!TypeOK /\ CacheProofs!ServingHasList /\ lifespan
      /\ DeliveryProofs!TypeOK
      /\ [Next]_vars
      /\ [\A t \in DeliveryProofs!MainTopics :
            Len(log'[t]) > Len(log[t]) =>
              LET r == log'[t][Len(log'[t])]
              IN  r.form = "clear" =>
                    ~DeliveryProofs!ShouldObfuscate(DeliveryProofs!Payload(r.attempt))
        ]_(DeliveryProofs!vars)
      => [\A t \in {"evergreen", "legacy"} :
            Len(log'[t]) > Len(log[t]) =>
              LET r == log'[t][Len(log'[t])]
              IN  /\ Cache!IsList(memory)
                  /\ r.form = "clear" =>
                       Delivery!Payload(r.attempt).channel \notin memory.ids]_vars
  <2> SUFFICES
        ASSUME CacheProofs!TypeOK, CacheProofs!ServingHasList, lifespan,
               DeliveryProofs!TypeOK, [Next]_vars,
               [\A t \in DeliveryProofs!MainTopics :
                  Len(log'[t]) > Len(log[t]) =>
                    LET r == log'[t][Len(log'[t])]
                    IN  r.form = "clear" =>
                          ~DeliveryProofs!ShouldObfuscate(DeliveryProofs!Payload(r.attempt))
               ]_(DeliveryProofs!vars),
               NEW t \in {"evergreen", "legacy"}, Len(log'[t]) > Len(log[t])
        PROVE  LET r == log'[t][Len(log'[t])]
               IN  /\ Cache!IsList(memory)
                   /\ r.form = "clear" =>
                        Delivery!Payload(r.attempt).channel \notin memory.ids
    BY Zenon
  <2>1. log'[t] # log[t]
    <3>1. Len(log[t]) \in Nat
      BY DEF DeliveryProofs!TypeOK, DeliveryProofs!Topics, DeliveryProofs!MainTopics
    <3> QED
      BY <3>1
  <2>2. pc = "idle"
    <3>1. ~Crash
      BY <2>1 DEF Crash, Delivery!LoseProcess
    <3> QED
      BY <2>1, <3>1, OnlyHandlersSend DEF EventHandled
  <2>3. Cache!IsList(memory)
    <3>1. memory \in Cache!Lists
      BY <2>2 DEF CacheProofs!ServingHasList, CacheProofs!TypeOK, CacheProofs!Lists, Cache!Lists
    <3> QED
      BY <3>1, PodAssumption DEF Cache!IsList, Cache!MarkersAssumption
  <2>4. PICK p : p = Delivery!Payload(log'[t][Len(log'[t])].attempt)
    OBVIOUS
  <2>5. ASSUME log'[t][Len(log'[t])].form = "clear" PROVE p.channel \notin memory.ids
    <3>1. ~DeliveryProofs!ShouldObfuscate(p)
      BY <2>1, <2>4, <2>5 DEF DeliveryProofs!vars, DeliveryProofs!MainTopics,
         Delivery!Payload, DeliveryProofs!Payload
    <3> QED
      BY <2>3, <3>1 DEF DeliveryProofs!ShouldObfuscate, Served
  <2> QED
    BY <2>3, <2>4, <2>5
<1> QED
  BY <1>1, CacheFacts, DeliveryFacts, LifespanInvariant, PTL
     DEF Spec, SentByLoadedList, DeliveryProofs!NothingSensitiveInClear

(* After POST /ops/cache/refresh has answered "ok", whatever interleaves    *)
(* with it - posts, failing brokers, an RDS that goes away, further         *)
(* refreshes - a channel that leaves in the clear was absent from a content *)
(* the table has had since that refresh was called.                         *)
THEOREM ConfirmedRefreshTheorem == Spec => ConfirmedRefreshEnforced
<1>1. /\ CacheProofs!TypeOK /\ CacheProofs!OnlyGenuineLists /\ ConfirmedInv
      /\ DeliveryProofs!TypeOK
      /\ [Next]_vars
      /\ [\A t \in DeliveryProofs!MainTopics :
            Len(log'[t]) > Len(log[t]) =>
              LET r == log'[t][Len(log'[t])]
              IN  r.form = "clear" =>
                    ~DeliveryProofs!ShouldObfuscate(DeliveryProofs!Payload(r.attempt))
        ]_(DeliveryProofs!vars)
      => [confirmed > 0 =>
            \A t \in {"evergreen", "legacy"} :
              Len(log'[t]) > Len(log[t]) =>
                LET r == log'[t][Len(log'[t])]
                    channel == Delivery!Payload(r.attempt).channel
                IN  r.form = "clear" =>
                      \E v \in confirmed..Len(history) : channel \notin history[v]]_vars
  <2> SUFFICES
        ASSUME CacheProofs!TypeOK, CacheProofs!OnlyGenuineLists, ConfirmedInv,
               DeliveryProofs!TypeOK,
               [\A t \in DeliveryProofs!MainTopics :
                  Len(log'[t]) > Len(log[t]) =>
                    LET r == log'[t][Len(log'[t])]
                    IN  r.form = "clear" =>
                          ~DeliveryProofs!ShouldObfuscate(DeliveryProofs!Payload(r.attempt))
               ]_(DeliveryProofs!vars),
               confirmed > 0,
               NEW t \in {"evergreen", "legacy"}, Len(log'[t]) > Len(log[t]),
               log'[t][Len(log'[t])].form = "clear"
        PROVE  \E v \in confirmed..Len(history) :
                  Delivery!Payload(log'[t][Len(log'[t])].attempt).channel \notin history[v]
    BY Zenon
  <2>1. log'[t] # log[t]
    <3>1. Len(log[t]) \in Nat
      BY DEF DeliveryProofs!TypeOK, DeliveryProofs!Topics, DeliveryProofs!MainTopics
    <3> QED
      BY <3>1
  <2>2. PICK p : p = Delivery!Payload(log'[t][Len(log'[t])].attempt)
    OBVIOUS
  <2>3. ~DeliveryProofs!ShouldObfuscate(p)
    BY <2>1, <2>2 DEF DeliveryProofs!vars, DeliveryProofs!MainTopics,
       Delivery!Payload, DeliveryProofs!Payload
  <2>4. p.channel \notin Served
    BY <2>3 DEF DeliveryProofs!ShouldObfuscate
  <2>5. Cache!IsList(memory) /\ memory.version >= confirmed /\ confirmed \in Nat
    BY DEF ConfirmedInv
  <2>6. memory.version \in 1..Len(history) /\ memory.ids = history[memory.version]
    <3>1. CacheProofs!Genuine(memory)
      BY <2>5 DEF CacheProofs!OnlyGenuineLists, CacheProofs!IsList, Cache!IsList
    <3>2. memory # CacheProofs!Empty
      BY <2>5 DEF CacheProofs!Empty
    <3> QED
      BY <3>1, <3>2 DEF CacheProofs!Genuine, CacheProofs!Version
  <2>7. p.channel \notin history[memory.version] /\ memory.version \in confirmed..Len(history)
    BY <2>4, <2>5, <2>6 DEF Served
  <2> QED
    BY <2>2, <2>7
<1> QED
  BY <1>1, CacheFacts, DeliveryFacts, ConfirmedInvariant, PTL
     DEF Spec, ConfirmedRefreshEnforced, DeliveryProofs!NothingSensitiveInClear

-----------------------------------------------------------------------------
(* What the pod tells its operators: OpsSurface keeps what OpsReports       *)
(* promises.  Its requests overlap on the same loop, with the dependency    *)
(* and the crashes of this module.                                          *)

CONSTANTS Calls, MaxErrorRate, NoCall

VARIABLES kafkaUp, drain, logLevel

Ops == INSTANCE OpsSurface

(* A request is handled once, and those handled in this life have an answer *)
(* or have escaped.                                                         *)
HandledOnce ==
    /\ \A i \in 1..Len(handled) : phase[handled[i]] \in {"answered", "counted", "escaped"}
    /\ \A i, j \in 1..Len(handled) : handled[i] = handled[j] => i = j

(* The requests handled in this life are those past their handler, and an   *)
(* exception has left the handlers of those that raise, and of no others.   *)
OutcomeInv ==
    \A r \in Requests :
        /\ phase[r] \in {"answered", "counted", "escaped"} <=> r \in HandledSet
        /\ phase[r] \in {"answered", "counted"} => ~Raises(r)
        /\ phase[r] = "escaped" => Raises(r)
        /\ phase[r] = "reading" => call[r] \in Calls

(* The requests counted, and those counted as errors. *)
Counted == In({"counted"})
Errored == {r \in Counted : answer[r].code >= 500}

(* Finitely many requests have been counted, each once. *)
CountInv ==
    /\ IsFiniteSet(Counted)
    /\ requestCount = Cardinality(Counted) /\ errorCount = Cardinality(Errored)
    /\ latencies = IF requestCount < Window THEN requestCount ELSE Window

(* The flag is what the requests handled so far made of it. *)
DrainInv == drain <=> DrainingAt(Len(handled) + 1)

(* The inductive invariant. *)
OpsInv ==
    /\ Ops!TypeOK /\ HandledOnce /\ OutcomeInv /\ CountInv
    /\ RecentErrorsAreLatest /\ DrainInv /\ DrainIsObeyed


-----------------------------------------------------------------------------
(* Type correctness *)

(* What a handler can return, and what the buffer can hold. *)
Answers == [code : Ops!Codes, verdict : Ops!Verdicts]

(* A handler answers, or lets an exception escape. *)
LEMMA OpsHandlerEnds ==
    ASSUME NEW r \in Requests, Ops!Handle(r)
    PROVE  (\E a \in Answers : Ops!Returns(r, a)) \/ Ops!Escapes(r)
<1>1. \A code \in Ops!Codes : Ops!Plain(code) \in Answers
  BY DEF Answers, Ops!Plain, Ops!Answer, Ops!Verdicts
<1>2. \A code \in Ops!Codes, verdict \in Ops!Verdicts : Ops!Answer(code, verdict) \in Answers
  BY DEF Answers, Ops!Answer
<1>3. {200, 400, 500, 503} \subseteq Ops!Codes
  BY DEF Ops!Codes
<1>4. CASE Ops!SendRequest(r)
  BY <1>1, <1>3, <1>4 DEF Ops!SendRequest
<1>5. CASE Ops!OpsDrain(r)
  BY <1>1, <1>3, <1>5 DEF Ops!OpsDrain
<1>6. CASE Ops!OpsLoglevel(r)
  BY <1>1, <1>3, <1>6 DEF Ops!OpsLoglevel
<1>7. CASE Ops!OpsCacheRefresh(r)
  BY <1>1, <1>3, <1>7 DEF Ops!OpsCacheRefresh
<1>8. CASE Ops!Health(r)
  BY <1>1, <1>3, <1>8 DEF Ops!Health
<1>9. CASE Ops!OpsStatus(r)
  <2>1. Ops!ComputeVerdict \in Ops!Verdicts
    BY DEF Ops!ComputeVerdict, Ops!Verdicts
  <2> QED
    BY <1>2, <1>3, <1>9, <2>1 DEF Ops!OpsStatus
<1>10. CASE Ops!OpsHealth(r)
  <2>1. (IF Ops!DepsOk THEN "healthy" ELSE "degraded") \in Ops!Verdicts
    BY DEF Ops!Verdicts
  <2> QED
    BY <1>2, <1>3, <1>10, <2>1 DEF Ops!OpsHealth
<1>11. CASE Ops!Status(r) \/ Ops!Report(r)
  BY <1>1, <1>3, <1>11 DEF Ops!Status, Ops!Report
<1> QED
  BY <1>4, <1>5, <1>6, <1>7, <1>8, <1>9, <1>10, <1>11 DEF Ops!Handle

(* What every handler does. *)
LEMMA OpsHandleStep ==
    ASSUME Ops!TypeOK, NEW r \in Requests, Ops!Handle(r)
    PROVE  /\ phase[r] = "reading"
           /\ handled' = Append(handled, r)
           /\ UNCHANGED <<Ops!external, call, Ops!metrics, crashes>>
           /\ \E p \in {"answered", "escaped"} : phase' = [phase EXCEPT ![r] = p]
           /\ \E a \in Answers : answer' = [answer EXCEPT ![r] = a]
           /\ drain' \in BOOLEAN /\ logLevel' \in {"WARNING", "DEBUG", "ERROR"}
<1>1. \E a \in Answers : answer' = [answer EXCEPT ![r] = a]
  <2>1. answer[r] \in Answers /\ answer = [answer EXCEPT ![r] = answer[r]]
    BY DEF Ops!TypeOK, Answers
  <2> QED
    BY <2>1, OpsHandlerEnds DEF Ops!Returns, Ops!Escapes
<1>2. \E p \in {"answered", "escaped"} : phase' = [phase EXCEPT ![r] = p]
  BY OpsHandlerEnds DEF Ops!Returns, Ops!Escapes
<1>3. \E path \in {"/", "/ops/drain", "/ops/loglevel", "/ops/cache/refresh", "/health",
                   "/ops/status", "/ops/health", "/status", "read"} : Ops!Handling(r, path)
  BY DEF Ops!Handle, Ops!SendRequest, Ops!OpsDrain, Ops!OpsLoglevel, Ops!OpsCacheRefresh,
     Ops!Health, Ops!OpsStatus,
     Ops!OpsHealth, Ops!Status, Ops!Report
<1>4. drain' \in BOOLEAN
  <2>1. CASE Ops!OpsDrain(r)
    BY <2>1 DEF Ops!OpsDrain, Ops!TypeOK
  <2>2. CASE ~Ops!OpsDrain(r)
    BY <2>2 DEF Ops!TypeOK, Ops!Handle, Ops!SendRequest, Ops!OpsLoglevel, Ops!OpsCacheRefresh,
       Ops!Health,
       Ops!OpsStatus, Ops!OpsHealth, Ops!Status, Ops!Report
  <2> QED
    BY <2>1, <2>2
<1>5. logLevel' \in {"WARNING", "DEBUG", "ERROR"}
  <2>1. CASE Ops!OpsLoglevel(r)
    BY <2>1 DEF Ops!OpsLoglevel, Ops!TypeOK
  <2>2. CASE ~Ops!OpsLoglevel(r)
    BY <2>2 DEF Ops!TypeOK, Ops!Handle, Ops!SendRequest, Ops!OpsDrain, Ops!OpsCacheRefresh,
       Ops!Health,
       Ops!OpsStatus, Ops!OpsHealth, Ops!Status, Ops!Report
  <2> QED
    BY <2>1, <2>2
<1> QED
  BY <1>1, <1>2, <1>3, <1>4, <1>5 DEF Ops!Handling

Types == {"TvEventsDefaultError", "TvEventsCatchallError"}
Errors == [type : Types, message : Requests]

(* A handler records at most one error, and then it is the one of POST /    *)
(* whose answer is an error to a body that is JSON.                         *)
LEMMA OpsRecordStep ==
    ASSUME Ops!TypeOK, NEW r \in Requests, Ops!Handle(r)
    PROVE  LET erred == /\ call[r].path = "/" /\ call[r].body # "bad_json"
                        /\ answer'[r].code # 200
           IN  /\ erred => \E type \in Types : recent' = Ops!RecordError(type, r)
               /\ ~erred => UNCHANGED recent
<1> USE DEF Ops!Returns, Ops!Escapes, Ops!Handling, Ops!Plain, Ops!Answer, Types
<1>1. CASE Ops!SendRequest(r)
  BY <1>1 DEF Ops!SendRequest, Ops!TypeOK
<1>2. CASE Ops!OpsDrain(r) \/ Ops!OpsLoglevel(r)
  BY <1>2 DEF Ops!OpsDrain, Ops!OpsLoglevel
<1>3. CASE Ops!OpsCacheRefresh(r) \/ Ops!Health(r) \/ Ops!OpsStatus(r) \/ Ops!OpsHealth(r)
  BY <1>3 DEF Ops!OpsCacheRefresh, Ops!Health, Ops!OpsStatus, Ops!OpsHealth
<1>4. CASE Ops!Status(r) \/ Ops!Report(r)
  BY <1>4 DEF Ops!Status, Ops!Report
<1> QED
  BY <1>1, <1>2, <1>3, <1>4 DEF Ops!Handle

(* What the buffer holds after an error has been recorded. *)
LEMMA OpsBufferStep ==
    ASSUME NEW r \in Requests, NEW type \in Types, recent \in Seq(Errors),
           MaxRecent \in Nat \ {0}, Len(recent) <= MaxRecent
    PROVE  LET new == Ops!RecordError(type, r)
               m == Len(new)
           IN  /\ new \in Seq(Errors)
               /\ m = IF Len(recent) < MaxRecent THEN Len(recent) + 1 ELSE MaxRecent
               /\ m >= 1 /\ new[m].message = r
               /\ \A i \in 1..(m - 1) :
                    new[i] = IF Len(recent) < MaxRecent THEN recent[i] ELSE recent[i + 1]
<1> DEFINE e == [type |-> type, message |-> r]
           all == Append(recent, e)
<1>1. e \in Errors /\ e.message = r
  BY DEF Errors
<1>2. /\ all \in Seq(Errors) /\ all # << >> /\ Len(all) = Len(recent) + 1
      /\ \A i \in 1..Len(recent) : all[i] = recent[i]
      /\ all[Len(recent) + 1] = e
  BY <1>1, AppendProperties
<1>3. /\ Tail(all) \in Seq(Errors) /\ Len(Tail(all)) = Len(all) - 1
      /\ \A i \in 1..Len(Tail(all)) : Tail(all)[i] = all[i + 1]
  BY <1>2, HeadTailProperties
<1>4. Ops!RecordError(type, r) = IF Len(all) > MaxRecent THEN Tail(all) ELSE all
  BY DEF Ops!RecordError
<1>5. Len(recent) \in Nat
  OBVIOUS
<1> HIDE DEF e, all
<1>6. CASE Len(recent) < MaxRecent
  <2>1. Ops!RecordError(type, r) = all
    BY <1>2, <1>4, <1>5, <1>6
  <2> QED
    BY <1>1, <1>2, <1>5, <1>6, <2>1
<1>7. CASE Len(recent) = MaxRecent
  <2>1. Ops!RecordError(type, r) = Tail(all)
    BY <1>2, <1>4, <1>5, <1>7
  <2> QED
    BY <1>1, <1>2, <1>3, <1>5, <1>7, <2>1
<1> QED
  BY <1>5, <1>6, <1>7

LEMMA OpsBufferType ==
    ASSUME Ops!TypeOK, NEW r \in Requests, NEW type \in Types
    PROVE  Ops!RecordError(type, r) \in Seq(Errors)
<1> DEFINE e == [type |-> type, message |-> r]
           all == Append(recent, e)
<1>1. recent \in Seq(Errors) /\ e \in Errors
  BY DEF Ops!TypeOK, Errors, Types
<1>2. all \in Seq(Errors) /\ all # << >>
  BY <1>1, AppendProperties
<1>3. Tail(all) \in Seq(Errors)
  BY <1>2, HeadTailProperties
<1> QED
  BY <1>2, <1>3 DEF Ops!RecordError

LEMMA OpsTypeStep ==
    ASSUME Ops!OpsAssumption, Ops!TypeOK, [Ops!Next]_(Ops!vars)
    PROVE  Ops!TypeOK'
<1> USE Ops!OpsAssumption DEF Ops!OpsAssumption
<1>1. CASE UNCHANGED Ops!vars
  BY <1>1 DEF Ops!vars, Ops!TypeOK
<1>2. ASSUME NEW r \in Requests, Ops!Arrive(r) PROVE Ops!TypeOK'
  BY <1>2 DEF Ops!Arrive, Ops!external, Ops!metrics, Ops!TypeOK, Ops!Phases
<1>3. ASSUME NEW r \in Requests, Ops!Handle(r) PROVE Ops!TypeOK'
  <2>1. recent' \in Seq(Errors)
    <3>1. recent \in Seq(Errors)
      BY DEF Ops!TypeOK, Errors, Types
    <3> QED
      BY <1>3, <3>1, OpsRecordStep, OpsBufferType
  <2>2. handled' \in Seq(Requests)
    <3>1. handled \in Seq(Requests) /\ handled' = Append(handled, r)
      BY <1>3, OpsHandleStep DEF Ops!TypeOK
    <3> QED
      BY <3>1
  <2>3. phase' \in [Requests -> Ops!Phases] /\ answer' \in [Requests -> Answers]
    <3>1. phase \in [Requests -> Ops!Phases] /\ answer \in [Requests -> Answers]
      BY DEF Ops!TypeOK, Answers
    <3>2. {"answered", "escaped"} \subseteq Ops!Phases
      BY DEF Ops!Phases
    <3> QED
      BY <1>3, <3>1, <3>2, OpsHandleStep
  <2> QED
    <3>1. UNCHANGED <<Ops!external, call, Ops!metrics, crashes>> /\ drain' \in BOOLEAN
          /\ logLevel' \in {"WARNING", "DEBUG", "ERROR"}
      BY <1>3, OpsHandleStep
    <3> QED
      BY <2>1, <2>2, <2>3, <3>1 DEF Ops!TypeOK, Ops!external, Ops!metrics, Answers, Errors, Types
<1>4. ASSUME NEW r \in Requests, Ops!Count(r) PROVE Ops!TypeOK'
  BY <1>4 DEF Ops!Count, Ops!external, Ops!TypeOK, Ops!Phases
<1>5. CASE Ops!DependencyToggles
  BY <1>5 DEF Ops!DependencyToggles, Ops!metrics, Ops!TypeOK
<1>6. CASE Ops!Crash
  <2>1. phase' \in [Requests -> Ops!Phases]
    BY <1>6 DEF Ops!Crash, Ops!Phases
  <2>2. recent' \in Seq(Errors) /\ handled' \in Seq(Requests)
    BY <1>6 DEF Ops!Crash
  <2>3. drain' \in BOOLEAN
    BY <1>6 DEF Ops!Crash
  <2>4. /\ requestCount' \in Nat
        /\ errorCount' \in 0..requestCount'
        /\ latencies' \in 0..Window
        /\ crashes' \in 0..MaxCrashes
    BY <1>6 DEF Ops!Crash, Ops!TypeOK
  <2> QED
    BY <1>6, <2>1, <2>2, <2>3, <2>4 DEF Ops!Crash, Ops!external, Ops!TypeOK, Errors, Types
<1> QED
  BY <1>1, <1>2, <1>3, <1>4, <1>5, <1>6 DEF Ops!Next

LEMMA OpsTypeInit ==
    ASSUME Ops!OpsAssumption
    PROVE  Ops!Init => Ops!TypeOK
<1> SUFFICES ASSUME Ops!Init PROVE Ops!TypeOK
  OBVIOUS
<1>1. Ops!NoAnswer \in Answers
  BY DEF Ops!NoAnswer, Ops!Answer, Answers, Ops!Codes, Ops!Verdicts
<1>2. answer \in [Requests -> Answers]
  BY <1>1 DEF Ops!Init
<1>3. phase \in [Requests -> Ops!Phases] /\ call \in [Requests -> Calls \union {NoCall}]
  BY DEF Ops!Init, Ops!Phases
<1>4. recent \in Seq(Errors)
  BY DEF Ops!Init
<1>5. drain \in BOOLEAN
  BY DEF Ops!Init
<1>6. /\ requestCount \in Nat
      /\ errorCount \in 0..requestCount
      /\ latencies \in 0..Window
      /\ crashes \in 0..MaxCrashes
  BY Ops!OpsAssumption DEF Ops!Init, Ops!OpsAssumption
<1> QED
  BY <1>2, <1>3, <1>4, <1>5, <1>6 DEF Ops!Init, Ops!TypeOK, Answers, Errors, Types

(* Every variable keeps its type. *)
THEOREM OpsTypeCorrect ==
    ASSUME Ops!OpsAssumption
    PROVE  Ops!Spec => []Ops!TypeOK
BY OpsTypeInit, OpsTypeStep, PTL DEF Ops!Spec

-----------------------------------------------------------------------------
(* The requests handled in this life *)

(* A handler adds its request to those handled, and leaves their calls and  *)
(* answers alone.                                                           *)
LEMMA OpsHandledStep ==
    ASSUME Ops!TypeOK, HandledOnce, NEW r \in Requests, Ops!Handle(r)
    PROVE  /\ Len(handled) \in Nat /\ Len(handled') = Len(handled) + 1
           /\ handled'[Len(handled) + 1] = r
           /\ \A i \in 1..Len(handled) :
                /\ handled[i] \in Requests /\ handled[i] # r
                /\ handled'[i] = handled[i]
                /\ phase'[handled[i]] = phase[handled[i]]
                /\ answer'[handled[i]] = answer[handled[i]]
           /\ phase'[r] \in {"answered", "escaped"} /\ answer'[r] \in Answers
           /\ call' = call
<1>1. /\ phase[r] = "reading" /\ handled' = Append(handled, r) /\ call' = call
      /\ \E p \in {"answered", "escaped"} : phase' = [phase EXCEPT ![r] = p]
      /\ \E a \in Answers : answer' = [answer EXCEPT ![r] = a]
  BY OpsHandleStep
<1>2. /\ handled \in Seq(Requests) /\ phase \in [Requests -> Ops!Phases]
      /\ answer \in [Requests -> Answers]
  BY DEF Ops!TypeOK, Answers
<1>3. \A i \in 1..Len(handled) : handled[i] \in Requests
  BY <1>2
<1>4. \A i \in 1..Len(handled) : handled[i] # r
  BY <1>1 DEF HandledOnce
<1>5. /\ Len(handled') = Len(handled) + 1 /\ handled'[Len(handled) + 1] = r
      /\ \A i \in 1..Len(handled) : handled'[i] = handled[i]
  BY <1>1, <1>2, AppendProperties
<1>6. \A q \in Requests : q # r => phase'[q] = phase[q] /\ answer'[q] = answer[q]
  BY <1>1, <1>2
<1>7. phase'[r] \in {"answered", "escaped"} /\ answer'[r] \in Answers
  BY <1>1, <1>2
<1> QED
  BY <1>1, <1>2, <1>3, <1>4, <1>5, <1>6, <1>7

LEMMA OpsHandledOnceStep ==
    ASSUME Ops!TypeOK, HandledOnce, [Ops!Next]_(Ops!vars)
    PROVE  HandledOnce'
<1>1. Len(handled) \in Nat /\ \A i \in 1..Len(handled) : handled[i] \in Requests
  BY DEF Ops!TypeOK
<1>2. CASE UNCHANGED Ops!vars
  BY <1>2 DEF Ops!vars, HandledOnce
<1>3. ASSUME NEW r \in Requests, Ops!Arrive(r) PROVE HandledOnce'
  <2>1. \A i \in 1..Len(handled) : handled[i] # r
    BY <1>3 DEF Ops!Arrive, HandledOnce
  <2>2. \A q \in Requests : q # r => phase'[q] = phase[q]
    BY <1>3 DEF Ops!Arrive, Ops!TypeOK
  <2> QED
    BY <1>1, <1>3, <2>1, <2>2 DEF Ops!Arrive, HandledOnce
<1>4. ASSUME NEW r \in Requests, Ops!Handle(r) PROVE HandledOnce'
  BY <1>4, OpsHandledStep, SMTT(30) DEF HandledOnce
<1>5. ASSUME NEW r \in Requests, Ops!Count(r) PROVE HandledOnce'
  <2>1. \A q \in Requests : phase'[q] = IF q = r THEN "counted" ELSE phase[q]
    BY <1>5 DEF Ops!Count, Ops!TypeOK
  <2> QED
    BY <1>1, <1>5, <2>1 DEF Ops!Count, HandledOnce
<1>6. CASE Ops!DependencyToggles
  BY <1>6 DEF Ops!DependencyToggles, HandledOnce
<1>7. CASE Ops!Crash
  <2>1. Len(handled') = 0
    BY <1>7, EmptySeq DEF Ops!Crash
  <2> QED
    BY <2>1 DEF HandledOnce
<1> QED
  BY <1>2, <1>3, <1>4, <1>5, <1>6, <1>7 DEF Ops!Next

(* How a handler ends depends on the body alone. *)
LEMMA OpsEscapesIfRaises ==
    ASSUME Ops!OpsAssumption, NEW r \in Requests, call[r] \in Calls, Ops!Handle(r)
    PROVE  \/ Raises(r) /\ phase' = [phase EXCEPT ![r] = "escaped"]
           \/ ~Raises(r) /\ phase' = [phase EXCEPT ![r] = "answered"]
<1> USE DEF Raises, Ops!Handling, Ops!Returns, Ops!Escapes
<1>1. CASE Ops!SendRequest(r)
  BY <1>1 DEF Ops!SendRequest
<1>2. CASE Ops!OpsDrain(r)
  BY <1>2 DEF Ops!OpsDrain
<1>3. CASE Ops!OpsLoglevel(r)
  BY <1>3 DEF Ops!OpsLoglevel
<1>4. CASE \/ Ops!OpsCacheRefresh(r) \/ Ops!Health(r) \/ Ops!OpsStatus(r)
           \/ Ops!OpsHealth(r) \/ Ops!Status(r) \/ Ops!Report(r)
  <2>1. call[r].path \in {"/ops/cache/refresh", "/health", "/ops/status", "/ops/health",
                          "/status", "read"}
    BY <1>4 DEF Ops!OpsCacheRefresh, Ops!Health, Ops!OpsStatus, Ops!OpsHealth, Ops!Status,
       Ops!Report
  <2>2. call[r] \in Ops!AllCalls
    BY Ops!OpsAssumption DEF Ops!OpsAssumption
  <2>3. call[r].body = "none"
    BY <2>1, <2>2 DEF Ops!AllCalls, Ops!Call
  <2>4. phase' = [phase EXCEPT ![r] = "answered"]
    BY <1>4 DEF Ops!OpsCacheRefresh, Ops!Health, Ops!OpsStatus, Ops!OpsHealth, Ops!Status,
       Ops!Report
  <2> QED
    BY <2>3, <2>4
<1> QED
  BY <1>1, <1>2, <1>3, <1>4 DEF Ops!Handle

LEMMA OpsOutcomeStep ==
    ASSUME Ops!OpsAssumption, Ops!TypeOK, HandledOnce, OutcomeInv, [Ops!Next]_(Ops!vars)
    PROVE  OutcomeInv'
<1>1. CASE UNCHANGED Ops!vars
  BY <1>1 DEF Ops!vars, OutcomeInv, HandledSet, Raises
<1>2. ASSUME NEW r \in Requests, Ops!Arrive(r) PROVE OutcomeInv'
  <2>1. PICK c \in Calls : call' = [call EXCEPT ![r] = c]
    BY <1>2 DEF Ops!Arrive
  <2>2. /\ phase[r] = "new" /\ phase'[r] = "reading" /\ call'[r] \in Calls
        /\ \A q \in Requests : q # r => phase'[q] = phase[q] /\ call'[q] = call[q]
        /\ handled' = handled
    BY <1>2, <2>1 DEF Ops!Arrive, Ops!TypeOK
  <2> QED
    BY <2>2 DEF OutcomeInv, HandledSet, Raises
<1>3. ASSUME NEW r \in Requests, Ops!Handle(r) PROVE OutcomeInv'
  <2>1. phase[r] = "reading" /\ call[r] \in Calls
    BY <1>3, OpsHandleStep DEF OutcomeInv
  <2>2. /\ call' = call /\ \A q \in Requests : q # r => phase'[q] = phase[q]
        /\ \/ Raises(r) /\ phase'[r] = "escaped"
           \/ ~Raises(r) /\ phase'[r] = "answered"
    BY <1>3, <2>1, OpsEscapesIfRaises, OpsHandledStep DEF Ops!TypeOK
  <2>3. HandledSet' = HandledSet \union {r}
    <3>1. PICK n \in Nat : n = Len(handled)
      BY DEF Ops!TypeOK
    <3>2. /\ Len(handled') = n + 1 /\ handled'[n + 1] = r
          /\ \A i \in 1..n : handled'[i] = handled[i]
      BY <1>3, <3>1, OpsHandledStep
    <3>3. \A i : i \in 1..(n + 1) <=> i \in 1..n \/ i = n + 1
      BY <3>1
    <3> QED
      BY <3>1, <3>2, <3>3 DEF HandledSet
  <2> QED
    BY <2>1, <2>2, <2>3 DEF OutcomeInv, Raises
<1>4. ASSUME NEW r \in Requests, Ops!Count(r) PROVE OutcomeInv'
  <2>1. /\ phase[r] = "answered" /\ phase'[r] = "counted"
        /\ \A q \in Requests : q # r => phase'[q] = phase[q]
        /\ call' = call /\ handled' = handled
    BY <1>4 DEF Ops!Count, Ops!TypeOK
  <2> QED
    BY <2>1 DEF OutcomeInv, HandledSet, Raises
<1>5. CASE Ops!DependencyToggles
  BY <1>5 DEF Ops!DependencyToggles, OutcomeInv, HandledSet, Raises
<1>6. CASE Ops!Crash
  <2>1. HandledSet' = {}
    BY <1>6, EmptySeq DEF Ops!Crash, HandledSet
  <2>2. \A q \in Requests : phase'[q] \in {"new", "gone"}
    BY <1>6 DEF Ops!Crash
  <2> QED
    BY <2>1, <2>2 DEF OutcomeInv
<1> QED
  BY <1>1, <1>2, <1>3, <1>4, <1>5, <1>6 DEF Ops!Next

-----------------------------------------------------------------------------
(* The counters *)

(* The counters are kept by a step that counts nobody. *)
LEMMA OpsCountKept ==
    ASSUME CountInv, Counted' = Counted, Errored' = Errored, UNCHANGED Ops!metrics
    PROVE  CountInv'
BY DEF CountInv, Counted, Errored, In, Ops!metrics

LEMMA OpsCountStep ==
    ASSUME Ops!OpsAssumption, Ops!TypeOK, CountInv, [Ops!Next]_(Ops!vars)
    PROVE  CountInv'
<1>1. CASE UNCHANGED Ops!vars
  BY <1>1 DEF Ops!vars, CountInv, Counted, Errored, In
<1>2. ASSUME NEW r \in Requests, Ops!Arrive(r) PROVE CountInv'
  <2>1. Counted' = Counted /\ Errored' = Errored
    BY <1>2 DEF Ops!Arrive, Counted, Errored, In, Ops!TypeOK
  <2> QED
    BY <1>2, <2>1, OpsCountKept DEF Ops!Arrive
<1>3. ASSUME NEW r \in Requests, Ops!Handle(r) PROVE CountInv'
  <2>1. /\ phase[r] = "reading" /\ UNCHANGED Ops!metrics
        /\ \E p \in {"answered", "escaped"} : phase' = [phase EXCEPT ![r] = p]
        /\ \E a \in Answers : answer' = [answer EXCEPT ![r] = a]
    BY <1>3, OpsHandleStep
  <2>2. Counted' = Counted /\ Errored' = Errored
    BY <2>1 DEF Counted, Errored, In, Ops!TypeOK
  <2> QED
    BY <2>1, <2>2, OpsCountKept
<1>4. ASSUME NEW r \in Requests, Ops!Count(r) PROVE CountInv'
  <2>1. /\ r \notin Counted /\ Counted' = Counted \union {r}
        /\ Errored' = IF answer[r].code >= 500 THEN Errored \union {r} ELSE Errored
    BY <1>4 DEF Ops!Count, Counted, Errored, In, Ops!TypeOK
  <2>2. IsFiniteSet(Counted) /\ Errored \subseteq Counted /\ r \notin Errored
    BY <2>1 DEF CountInv, Counted, Errored
  <2>3. IsFiniteSet(Errored)
    BY <2>2, FS_Subset
  <2>4. IsFiniteSet(Counted') /\ Cardinality(Counted') = Cardinality(Counted) + 1
    BY <2>1, <2>2, FS_AddElement
  <2>5. Cardinality(Errored') =
          IF answer[r].code >= 500 THEN Cardinality(Errored) + 1 ELSE Cardinality(Errored)
    BY <2>1, <2>2, <2>3, FS_AddElement
  <2>6. requestCount' = Cardinality(Counted') /\ errorCount' = Cardinality(Errored')
    BY <1>4, <2>4, <2>5 DEF Ops!Count, CountInv, Counted, Errored, In
  <2>7. latencies' = IF requestCount' < Window THEN requestCount' ELSE Window
    BY <1>4, Ops!OpsAssumption DEF Ops!Count, CountInv, Ops!TypeOK,
       Ops!OpsAssumption
  <2> QED
    BY <2>4, <2>6, <2>7 DEF CountInv, Counted, Errored, In
<1>5. CASE Ops!DependencyToggles
  BY <1>5 DEF Ops!DependencyToggles, CountInv, Counted, Errored, In, Ops!metrics
<1>6. CASE Ops!Crash
  <2>1. Counted' = {} /\ Errored' = {}
    BY <1>6 DEF Ops!Crash, Counted, Errored, In
  <2>2. IsFiniteSet({}) /\ Cardinality({}) = 0
    BY FS_EmptySet
  <2>3. requestCount' = 0 /\ errorCount' = 0 /\ latencies' = 0 /\ 0 < Window
    BY <1>6, Ops!OpsAssumption DEF Ops!Crash, Ops!OpsAssumption
  <2> QED
    BY <2>1, <2>2, <2>3 DEF CountInv, Counted, Errored, In
<1> QED
  BY <1>1, <1>2, <1>3, <1>4, <1>5, <1>6 DEF Ops!Next

-----------------------------------------------------------------------------
(* The recent errors *)

(* The i-th request handled recorded an error. *)
ErredAt(i) ==
    /\ call[handled[i]].path = "/" /\ call[handled[i]].body # "bad_json"
    /\ answer[handled[i]].code # 200

LEMMA OpsBeforeIsOrder ==
    ASSUME Ops!TypeOK, HandledOnce, NEW p, NEW q, NEW r, Before(handled, p, q), Before(handled,
           q, r)
    PROVE  Before(handled, p, r)
<1>1. PICK i, j \in 1..Len(handled) : i < j /\ handled[i] = p /\ handled[j] = q
  BY DEF Before
<1>2. PICK k, l \in 1..Len(handled) : k < l /\ handled[k] = q /\ handled[l] = r
  BY DEF Before
<1>3. j = k
  BY <1>1, <1>2 DEF HandledOnce
<1>4. Len(handled) \in Nat
  BY DEF Ops!TypeOK
<1> QED
  BY <1>1, <1>2, <1>3, <1>4 DEF Before

(* What a handler does to the order of requests and to those with an error. *)
LEMMA OpsOrderStep ==
    ASSUME Ops!TypeOK, HandledOnce, NEW r \in Requests, Ops!Handle(r)
    PROVE  LET erred == /\ call[r].path = "/" /\ call[r].body # "bad_json"
                        /\ answer'[r].code # 200
           IN  /\ \A p, q : Before(handled, p, q) => Before(handled', p, q)
               /\ \A p \in Erred : Before(handled', p, r)
               /\ Erred' = IF erred THEN Erred \union {r} ELSE Erred
<1> DEFINE erred == /\ call[r].path = "/" /\ call[r].body # "bad_json"
                    /\ answer'[r].code # 200
<1>0. PICK n \in Nat : n = Len(handled)
  BY DEF Ops!TypeOK
<1>1. /\ n \in Nat /\ Len(handled') = n + 1 /\ handled'[n + 1] = r
      /\ \A i \in 1..n : handled'[i] = handled[i] /\ answer'[handled[i]] = answer[handled[i]]
      /\ call' = call
  BY <1>0, OpsHandledStep
<1>3. \A p, q : Before(handled, p, q) => Before(handled', p, q)
  BY <1>0, <1>1 DEF Before
<1>4. \A p \in Erred : Before(handled', p, r)
  <2> SUFFICES ASSUME NEW p \in Erred PROVE Before(handled', p, r)
    OBVIOUS
  <2>1. PICK i \in 1..n : handled[i] = p
    BY <1>0 DEF Erred
  <2>2. i \in 1..Len(handled') /\ n + 1 \in 1..Len(handled') /\ i < n + 1
    BY <1>1
  <2> QED
    BY <1>1, <2>1, <2>2 DEF Before
<1>5. \A i \in 1..n : ErredAt(i)' = ErredAt(i)
  BY <1>1 DEF ErredAt
<1>6. ErredAt(n + 1)' = erred
  BY <1>1 DEF ErredAt
<1>7. Erred' = {handled'[k] : k \in {i \in 1..(n + 1) : ErredAt(i)'}}
  BY <1>1 DEF Erred, ErredAt
<1>8. Erred = {handled[k] : k \in {i \in 1..n : ErredAt(i)}}
  BY <1>0 DEF Erred, ErredAt
<1>9. \A i \in 1..(n + 1) : i \in 1..n \/ i = n + 1
  BY <1>1
<1>10. \A i \in 1..n : i \in 1..(n + 1)
  BY <1>1
<1> HIDE DEF erred
<1>11. ASSUME NEW p \in Erred' PROVE p \in Erred \/ (erred /\ p = r)
  <2>1. PICK k \in 1..(n + 1) : handled'[k] = p /\ ErredAt(k)'
    BY <1>7, <1>11
  <2>2. CASE k \in 1..n
    BY <1>1, <1>5, <1>8, <2>1, <2>2
  <2>3. CASE k = n + 1
    BY <1>1, <1>6, <2>1, <2>3
  <2> QED
    BY <1>9, <2>2, <2>3
<1>12. ASSUME NEW p \in Erred PROVE p \in Erred'
  <2>1. PICK k \in 1..n : handled[k] = p /\ ErredAt(k)
    BY <1>8, <1>12
  <2> QED
    BY <1>1, <1>5, <1>7, <1>10, <2>1
<1>13. ASSUME erred PROVE r \in Erred'
  <2>1. n + 1 \in 1..(n + 1)
    BY <1>1
  <2> QED
    BY <1>1, <1>6, <1>7, <1>13, <2>1
<1>14. Erred' = IF erred THEN Erred \union {r} ELSE Erred
  BY <1>11, <1>12, <1>13
<1> QED
  BY <1>3, <1>4, <1>14 DEF erred

LEMMA OpsRecentStep ==
    ASSUME Ops!OpsAssumption, Ops!TypeOK, HandledOnce, RecentErrorsAreLatest, NEW r \in Requests,
           Ops!Handle(r)
    PROVE  RecentErrorsAreLatest'
<1> DEFINE erred == /\ call[r].path = "/" /\ call[r].body # "bad_json"
                    /\ answer'[r].code # 200
           m == Len(recent)
<1>1. /\ \A p, q : Before(handled, p, q) => Before(handled', p, q)
      /\ \A p \in Erred : Before(handled', p, r)
      /\ Erred' = IF erred THEN Erred \union {r} ELSE Erred
  BY OpsOrderStep
<1>2. /\ erred => \E type \in Types : recent' = Ops!RecordError(type, r)
      /\ ~erred => UNCHANGED recent
  BY OpsRecordStep
<1> HIDE DEF erred
<1>3. /\ MaxRecent \in Nat \ {0} /\ m \in 0..MaxRecent /\ recent \in Seq(Errors)
  BY Ops!OpsAssumption DEF Ops!OpsAssumption, RecentErrorsAreLatest, Ops!TypeOK, Errors, Types
<1>4. /\ \A i \in 1..m : recent[i].message \in Erred
      /\ \A i, j \in 1..m : i < j => Before(handled, recent[i].message, recent[j].message)
      /\ \A p \in Erred :
           \/ \E i \in 1..m : p = recent[i].message
           \/ m = MaxRecent /\ Before(handled, p, recent[1].message)
  BY DEF RecentErrorsAreLatest, Shown
<1>5. CASE ~erred
  BY <1>1, <1>2, <1>5 DEF RecentErrorsAreLatest, Shown
<1>6. CASE erred
  <2>1. PICK type \in Types : recent' = Ops!RecordError(type, r)
    BY <1>2, <1>6
  <2>2. /\ Len(recent') = IF m < MaxRecent THEN m + 1 ELSE MaxRecent
        /\ Len(recent') >= 1 /\ recent'[Len(recent')].message = r
        /\ \A i \in 1..(Len(recent') - 1) :
             recent'[i] = IF m < MaxRecent THEN recent[i] ELSE recent[i + 1]
    BY <1>3, <2>1, OpsBufferStep DEF RecentErrorsAreLatest
  <2>3. Erred' = Erred \union {r}
    BY <1>1, <1>6
  <2>4. CASE m < MaxRecent
    <3>1. /\ Len(recent') = m + 1 /\ recent'[m + 1].message = r
          /\ \A i \in 1..m : recent'[i].message = recent[i].message
      BY <1>3, <2>2, <2>4
    <3>2. \A i \in 1..Len(recent') : recent'[i].message \in Erred'
      BY <1>3, <1>4, <2>3, <3>1
    <3>3. \A i, j \in 1..Len(recent') :
            i < j => Before(handled', recent'[i].message, recent'[j].message)
      <4> SUFFICES ASSUME NEW i \in 1..Len(recent'), NEW j \in 1..Len(recent'), i < j
                   PROVE  Before(handled', recent'[i].message, recent'[j].message)
        OBVIOUS
      <4>1. i \in 1..m /\ (j \in 1..m \/ j = m + 1)
        BY <1>3, <3>1
      <4> QED
        BY <1>1, <1>4, <3>1, <4>1
    <3>4. \A p \in Erred' : \E i \in 1..Len(recent') : p = recent'[i].message
      <4> SUFFICES ASSUME NEW p \in Erred'
                   PROVE  \E i \in 1..Len(recent') : p = recent'[i].message
        OBVIOUS
      <4>1. CASE p = r
        BY <1>3, <3>1, <4>1
      <4>2. CASE p # r
        <5>1. PICK i \in 1..m : p = recent[i].message
          BY <1>4, <2>3, <2>4, <4>2
        <5> QED
          BY <1>3, <3>1, <5>1
      <4> QED
        BY <4>1, <4>2
    <3>5. Len(recent') <= MaxRecent
      BY <1>3, <2>4, <3>1
    <3> QED
      BY <3>2, <3>3, <3>4, <3>5 DEF RecentErrorsAreLatest, Shown
  <2>5. CASE m = MaxRecent
    <3>1. /\ Len(recent') = m /\ recent'[m].message = r
          /\ \A i \in 1..(m - 1) : recent'[i].message = recent[i + 1].message
      BY <1>3, <2>2, <2>5
    <3>2. \A i \in 1..Len(recent') : recent'[i].message \in Erred'
      BY <1>3, <1>4, <2>3, <3>1
    <3>3. \A i, j \in 1..Len(recent') :
            i < j => Before(handled', recent'[i].message, recent'[j].message)
      <4> SUFFICES ASSUME NEW i \in 1..Len(recent'), NEW j \in 1..Len(recent'), i < j
                   PROVE  Before(handled', recent'[i].message, recent'[j].message)
        OBVIOUS
      <4>1. i \in 1..(m - 1) /\ i + 1 \in 1..m
        BY <1>3, <3>1
      <4>2. CASE j = m
        BY <1>1, <1>4, <3>1, <4>1, <4>2
      <4>3. CASE j \in 1..(m - 1)
        BY <1>1, <1>3, <1>4, <3>1, <4>1, <4>3
      <4> QED
        BY <1>3, <3>1, <4>2, <4>3
    <3>4. \A p \in Erred' :
            \/ \E i \in 1..Len(recent') : p = recent'[i].message
            \/ Before(handled', p, recent'[1].message)
      <4> SUFFICES ASSUME NEW p \in Erred', \A i \in 1..Len(recent') : p # recent'[i].message
                   PROVE  Before(handled', p, recent'[1].message)
        OBVIOUS
      <4>1. p \in Erred
        BY <1>3, <2>3, <2>5, <3>1
      <4>2. CASE m = 1
        BY <1>1, <3>1, <4>1, <4>2
      <4>3. CASE m > 1
        <5>1. recent'[1].message = recent[2].message /\ 1 \in 1..m /\ 2 \in 1..m
          BY <1>3, <3>1, <4>3
        <5>2. Before(handled, recent[1].message, recent[2].message)
          BY <1>4, <5>1
        <5>3. p = recent[1].message \/ Before(handled, p, recent[1].message)
          <6>1. ASSUME NEW i \in 1..m, p = recent[i].message PROVE i = 1
            <7>1. CASE i \in 2..m
              <8>1. i - 1 \in 1..(m - 1) /\ i - 1 \in 1..Len(recent')
                BY <1>3, <3>1, <7>1
              <8>2. recent'[i - 1].message = recent[(i - 1) + 1].message /\ (i - 1) + 1 = i
                BY <3>1, <8>1
              <8> QED
                BY <6>1, <8>1, <8>2
            <7> QED
              BY <1>3, <7>1
          <6> QED
            BY <1>4, <4>1, <6>1
        <5>4. Before(handled, p, recent[2].message)
          BY <5>2, <5>3, OpsBeforeIsOrder
        <5> QED
          BY <1>1, <5>1, <5>4
      <4> QED
        BY <1>3, <2>5, <4>2, <4>3
    <3>5. Len(recent') = MaxRecent
      BY <2>5, <3>1
    <3> QED
      BY <1>3, <3>2, <3>3, <3>4, <3>5 DEF RecentErrorsAreLatest, Shown
  <2> QED
    BY <1>3, <2>4, <2>5
<1> QED
  BY <1>5, <1>6

LEMMA OpsRecentKept ==
    ASSUME RecentErrorsAreLatest, recent' = recent, handled' = handled, Erred' = Erred
    PROVE  RecentErrorsAreLatest'
BY DEF RecentErrorsAreLatest, Shown

(* The buffer shows the latest errors after every step. *)
LEMMA OpsRecentInvStep ==
    ASSUME Ops!OpsAssumption, Ops!TypeOK, HandledOnce, RecentErrorsAreLatest, [Ops!Next]_(Ops!vars)
    PROVE  RecentErrorsAreLatest'
<1>1. CASE UNCHANGED Ops!vars
  BY <1>1, OpsRecentKept DEF Ops!vars, Erred
<1>2. ASSUME NEW r \in Requests, Ops!Arrive(r) PROVE RecentErrorsAreLatest'
  <2>1. \A i \in 1..Len(handled) : call'[handled[i]] = call[handled[i]]
    <3>1. \A i \in 1..Len(handled) : handled[i] \in Requests /\ handled[i] # r
      <4>1. \A i \in 1..Len(handled) : handled[i] # r
        BY <1>2 DEF Ops!Arrive, HandledOnce
      <4> QED
        BY <4>1 DEF Ops!TypeOK
    <3> QED
      BY <1>2, <3>1 DEF Ops!Arrive, Ops!TypeOK
  <2>2. UNCHANGED <<handled, recent, answer>>
    BY <1>2 DEF Ops!Arrive
  <2>3. \A i \in 1..Len(handled) : ErredAt(i)' = ErredAt(i)
    BY <2>1, <2>2 DEF ErredAt
  <2>4. {i \in 1..Len(handled) : ErredAt(i)}' = {i \in 1..Len(handled) : ErredAt(i)}
    BY <2>2, <2>3
  <2>5. Erred' = Erred
    BY <2>2, <2>4 DEF Erred, ErredAt
  <2> QED
    BY <2>2, <2>5, OpsRecentKept
<1>3. ASSUME NEW r \in Requests, Ops!Handle(r) PROVE RecentErrorsAreLatest'
  BY <1>3, OpsRecentStep
<1>4. ASSUME NEW r \in Requests, Ops!Count(r) PROVE RecentErrorsAreLatest'
  BY <1>4, OpsRecentKept DEF Ops!Count, Erred
<1>5. CASE Ops!DependencyToggles
  BY <1>5, OpsRecentKept DEF Ops!DependencyToggles, Erred
<1>6. CASE Ops!Crash
  <2>1. Len(recent') = 0 /\ Len(handled') = 0
    BY <1>6, EmptySeq DEF Ops!Crash
  <2>2. MaxRecent \in Nat
    BY Ops!OpsAssumption DEF Ops!OpsAssumption
  <2> QED
    BY <2>1, <2>2 DEF RecentErrorsAreLatest, Shown, Erred
<1> QED
  BY <1>1, <1>2, <1>3, <1>4, <1>5, <1>6 DEF Ops!Next

-----------------------------------------------------------------------------
(* Drain mode *)

(* What a handler does to the flag, and what it makes of it. *)
LEMMA OpsFlagStep ==
    ASSUME Ops!TypeOK, NEW r \in Requests, Ops!Handle(r)
    PROVE  /\ \/ /\ call[r].path = "/ops/drain" /\ call[r].body \in {"on", "empty"}
                 /\ drain' = TRUE
              \/ /\ call[r].path = "/ops/drain" /\ call[r].body = "off"
                 /\ drain' = FALSE
              \/ /\ call[r].path = "/ops/drain" => call[r].body \notin {"on", "off", "empty"}
                 /\ drain' = drain
           /\ call[r].path = "/health" /\ drain => answer'[r].code = 503
           /\ call[r].path = "/ops/status" =>
                (answer'[r].verdict = "unhealthy" <=> drain)
<1> USE DEF Ops!Handling
<1>1. CASE Ops!SendRequest(r)
  BY <1>1 DEF Ops!SendRequest
<1>2. CASE Ops!OpsDrain(r)
  BY <1>2 DEF Ops!OpsDrain
<1>3. CASE Ops!OpsLoglevel(r)
  BY <1>3 DEF Ops!OpsLoglevel
<1>4. CASE Ops!OpsCacheRefresh(r)
  BY <1>4 DEF Ops!OpsCacheRefresh
<1>5. CASE Ops!Health(r)
  BY <1>5 DEF Ops!Health, Ops!Returns, Ops!Plain, Ops!Answer, Ops!TypeOK
<1>6. CASE Ops!OpsStatus(r)
  <2>1. answer'[r].verdict = Ops!ComputeVerdict
    BY <1>6 DEF Ops!OpsStatus, Ops!Returns, Ops!Answer, Ops!TypeOK
  <2>2. Ops!ComputeVerdict = "unhealthy" <=> drain
    BY DEF Ops!ComputeVerdict
  <2>3. call[r].path = "/ops/status" /\ drain' = drain
    BY <1>6 DEF Ops!OpsStatus
  <2> QED
    BY <2>1, <2>2, <2>3
<1>7. CASE Ops!OpsHealth(r)
  BY <1>7 DEF Ops!OpsHealth
<1>8. CASE Ops!Status(r) \/ Ops!Report(r)
  BY <1>8 DEF Ops!Status, Ops!Report
<1> QED
  BY <1>1, <1>2, <1>3, <1>4, <1>5, <1>6, <1>7, <1>8 DEF Ops!Handle

(* Whether the drain requests before i left the mode on does not depend on  *)
(* what is handled from i on.                                               *)
LEMMA OpsDrainingKept ==
    ASSUME NEW n \in Nat, \A k \in 1..n : /\ handled'[k] = handled[k]
                                          /\ call'[handled[k]] = call[handled[k]],
           NEW i \in 1..(n + 1)
    PROVE  DrainingAt(i)' <=> DrainingAt(i)
<1>1. \A j \in 1..(i - 1) : j \in 1..n /\ \A k \in (j + 1)..(i - 1) : k \in 1..n
  OBVIOUS
<1>2. \A j \in 1..(i - 1) : call'[handled'[j]] = call[handled[j]]
  BY <1>1
<1>3. \A j \in 1..(i - 1) : \A k \in (j + 1)..(i - 1) : call'[handled'[k]] = call[handled[k]]
  BY <1>1
<1> QED
  BY <1>2, <1>3 DEF DrainingAt

(* One more request decides, or leaves it as it was. *)
LEMMA OpsDrainingAfter ==
    ASSUME NEW n \in Nat, NEW r, handled'[n + 1] = r
    PROVE  DrainingAt(n + 2)' <=>
             \/ call'[r].path = "/ops/drain" /\ call'[r].body \in {"on", "empty"}
             \/ /\ ~(call'[r].path = "/ops/drain" /\ call'[r].body = "off")
                /\ DrainingAt(n + 1)'
<1>1. (n + 2) - 1 = n + 1 /\ (n + 1) - 1 = n
  OBVIOUS
<1>2. \A j \in 1..(n + 1) : j \in 1..n \/ j = n + 1
  OBVIOUS
<1>3. \A j \in 1..n : j \in 1..(n + 1)
  OBVIOUS
<1>4. \A j \in 1..n : \A k \in (j + 1)..(n + 1) : k \in (j + 1)..n \/ k = n + 1
  OBVIOUS
<1>5. \A j \in 1..n : n + 1 \in (j + 1)..(n + 1) /\ \A k \in (j + 1)..n : k \in (j + 1)..(n + 1)
  OBVIOUS
<1>6. ASSUME call'[r].path = "/ops/drain", call'[r].body \in {"on", "empty"}
      PROVE  DrainingAt(n + 2)'
  <2>1. n + 1 \in 1..(n + 1) /\ \A k \in (n + 1 + 1)..(n + 1) : FALSE
    OBVIOUS
  <2> QED
    BY <1>1, <1>6, <2>1 DEF DrainingAt
<1>7. ASSUME DrainingAt(n + 1)', ~(call'[r].path = "/ops/drain" /\ call'[r].body = "off")
      PROVE  DrainingAt(n + 2)'
  <2>1. PICK j \in 1..n : /\ call'[handled'[j]].path = "/ops/drain"
                          /\ call'[handled'[j]].body \in {"on", "empty"}
                          /\ \A k \in (j + 1)..n :
                                call'[handled'[k]].path = "/ops/drain"
                                  => call'[handled'[k]].body # "off"
    BY <1>1, <1>7 DEF DrainingAt
  <2>2. \A k \in (j + 1)..(n + 1) :
          call'[handled'[k]].path = "/ops/drain"
            => call'[handled'[k]].body # "off"
    BY <1>4, <1>7, <2>1
  <2> QED
    BY <1>1, <1>3, <2>1, <2>2 DEF DrainingAt
<1>8. ASSUME DrainingAt(n + 2)',
             ~(call'[r].path = "/ops/drain" /\ call'[r].body \in {"on", "empty"})
      PROVE  ~(call'[r].path = "/ops/drain" /\ call'[r].body = "off") /\ DrainingAt(n + 1)'
  <2>1. PICK j \in 1..(n + 1) :
                          /\ call'[handled'[j]].path = "/ops/drain"
                          /\ call'[handled'[j]].body \in {"on", "empty"}
                          /\ \A k \in (j + 1)..(n + 1) :
                                call'[handled'[k]].path = "/ops/drain"
                                  => call'[handled'[k]].body # "off"
    BY <1>1, <1>8 DEF DrainingAt
  <2>2. j \in 1..n
    BY <1>2, <1>8, <2>1
  <2>3. ~(call'[r].path = "/ops/drain" /\ call'[r].body = "off")
    BY <1>5, <2>1, <2>2
  <2>4. DrainingAt(n + 1)'
    BY <1>1, <1>5, <2>1, <2>2 DEF DrainingAt
  <2> QED
    BY <2>3, <2>4
<1> QED
  BY <1>6, <1>7, <1>8

LEMMA OpsDrainStep ==
    ASSUME Ops!TypeOK, HandledOnce, DrainInv, DrainIsObeyed, [Ops!Next]_(Ops!vars)
    PROVE  DrainInv' /\ DrainIsObeyed'
<1>0. PICK n \in Nat : n = Len(handled)
  BY DEF Ops!TypeOK
<1>1. ASSUME handled' = handled, answer' = answer, drain' = drain,
             \A k \in 1..n : call'[handled[k]] = call[handled[k]]
      PROVE  DrainInv' /\ DrainIsObeyed'
  <2>1. \A i \in 1..(n + 1) : DrainingAt(i)' <=> DrainingAt(i)
    BY <1>1, OpsDrainingKept
  <2>2. DrainInv'
    <3>1. Len(handled') = n /\ n + 1 \in 1..(n + 1)
      BY <1>0, <1>1
    <3>2. DrainingAt(n + 1)' <=> DrainingAt(n + 1)
      BY <2>1, <3>1
    <3>3. drain <=> DrainingAt(n + 1)
      BY <1>0 DEF DrainInv
    <3> QED
      BY <1>0, <1>1, <3>2, <3>3 DEF DrainInv
  <2>3. \A i \in 1..n : i \in 1..(n + 1)
    BY <1>0
  <2> QED
    BY <1>0, <1>1, <2>1, <2>2, <2>3 DEF DrainIsObeyed
<1>2. CASE UNCHANGED Ops!vars
  BY <1>1, <1>2 DEF Ops!vars
<1>3. ASSUME NEW r \in Requests, Ops!Arrive(r) PROVE DrainInv' /\ DrainIsObeyed'
  <2>1. \A i \in 1..n : handled[i] \in Requests /\ handled[i] # r
    BY <1>0, <1>3 DEF Ops!Arrive, HandledOnce, Ops!TypeOK
  <2>2. \A i \in 1..n : call'[handled[i]] = call[handled[i]]
    BY <1>3, <2>1 DEF Ops!Arrive, Ops!TypeOK
  <2> QED
    BY <1>1, <1>3, <2>2 DEF Ops!Arrive
<1>4. ASSUME NEW r \in Requests, Ops!Handle(r) PROVE DrainInv' /\ DrainIsObeyed'
  <2>1. /\ Len(handled') = n + 1 /\ handled'[n + 1] = r /\ call' = call
        /\ \A i \in 1..n : handled'[i] = handled[i] /\ answer'[handled[i]] = answer[handled[i]]
    BY <1>0, <1>4, OpsHandledStep
  <2>2. \A i \in 1..(n + 1) : DrainingAt(i)' <=> DrainingAt(i)
    BY <2>1, OpsDrainingKept
  <2>3. n + 1 \in 1..(n + 1) /\ \A i \in 1..n : i \in 1..(n + 1)
    OBVIOUS
  <2>4. drain <=> DrainingAt(n + 1)'
    BY <1>0, <2>2, <2>3 DEF DrainInv
  <2>5. DrainInv'
    <3>1. DrainingAt(n + 2)' <=>
             \/ call[r].path = "/ops/drain" /\ call[r].body \in {"on", "empty"}
             \/ /\ ~(call[r].path = "/ops/drain" /\ call[r].body = "off")
                /\ drain
      BY <2>1, <2>4, OpsDrainingAfter
    <3>2. drain' <=> DrainingAt(n + 2)'
      BY <1>4, <3>1, OpsFlagStep, ZenonT(60)
    <3> QED
      BY <2>1, <3>2 DEF DrainInv
  <2>6. ASSUME NEW i \in 1..(n + 1)
        PROVE  LET q == handled'[i] IN
               /\ call[q].path = "/health" /\ DrainingAt(i)' => answer'[q].code = 503
               /\ call[q].path = "/ops/status" =>
                    (answer'[q].verdict = "unhealthy" <=> DrainingAt(i)')
    <3>1. CASE i = n + 1
      BY <1>4, <2>1, <2>4, <3>1, OpsFlagStep
    <3>2. CASE i \in 1..n
      BY <1>0, <2>1, <2>2, <3>2 DEF DrainIsObeyed
    <3> QED
      BY <3>1, <3>2
  <2> QED
    BY <2>1, <2>5, <2>6 DEF DrainIsObeyed
<1>5. ASSUME NEW r \in Requests, Ops!Count(r) PROVE DrainInv' /\ DrainIsObeyed'
  BY <1>1, <1>5 DEF Ops!Count
<1>6. CASE Ops!DependencyToggles
  BY <1>1, <1>6 DEF Ops!DependencyToggles
<1>7. CASE Ops!Crash
  <2>1. Len(handled') = 0 /\ drain' = FALSE
    BY <1>7, EmptySeq DEF Ops!Crash
  <2>2. \A j : j \notin 1..(0 + 1 - 1)
    OBVIOUS
  <2> QED
    BY <2>1, <2>2 DEF DrainInv, DrainIsObeyed, DrainingAt
<1> QED
  BY <1>2, <1>3, <1>4, <1>5, <1>6, <1>7 DEF Ops!Next

-----------------------------------------------------------------------------
(* The theorems *)

LEMMA OpsInvInit ==
    ASSUME Ops!OpsAssumption
    PROVE  Ops!Init => OpsInv
<1> SUFFICES ASSUME Ops!Init PROVE OpsInv
  OBVIOUS
<1>1. Len(handled) = 0 /\ Len(recent) = 0
  BY EmptySeq DEF Ops!Init
<1>2. HandledOnce /\ DrainIsObeyed /\ OutcomeInv
  BY <1>1 DEF HandledOnce, DrainIsObeyed, OutcomeInv, HandledSet, Ops!Init
<1>3. RecentErrorsAreLatest
  BY <1>1, Ops!OpsAssumption DEF Ops!OpsAssumption, RecentErrorsAreLatest, Shown, Erred
<1>4. CountInv
  <2>1. Counted = {} /\ Errored = {}
    BY DEF Ops!Init, Counted, Errored, In
  <2>2. IsFiniteSet({}) /\ Cardinality({}) = 0
    BY FS_EmptySet
  <2>3. 0 < Window
    BY Ops!OpsAssumption DEF Ops!OpsAssumption
  <2> QED
    BY <2>1, <2>2, <2>3 DEF Ops!Init, CountInv, Counted, Errored, In
<1>5. DrainInv
  <2>1. \A j : j \notin 1..(0 + 1 - 1)
    OBVIOUS
  <2> QED
    BY <1>1, <2>1 DEF Ops!Init, DrainInv, DrainingAt
<1> QED
  BY <1>2, <1>3, <1>4, <1>5, OpsTypeInit DEF OpsInv

LEMMA OpsInvStep ==
    ASSUME Ops!OpsAssumption
    PROVE  OpsInv /\ [Ops!Next]_(Ops!vars) => OpsInv'
BY OpsTypeStep, OpsHandledOnceStep, OpsOutcomeStep, OpsCountStep, OpsRecentInvStep,
   OpsDrainStep DEF OpsInv

LEMMA OpsInvHolds ==
    ASSUME Ops!OpsAssumption
    PROVE  Ops!Spec => []OpsInv
BY OpsInvInit, OpsInvStep, PTL DEF Ops!Spec

(* The rank covers its share of any sample. *)
LEMMA OpsRanksCover ==
    ASSUME NEW n \in Nat \ {0}, NEW pct \in Percentiles
    PROVE  RankCovers(n, pct)
<1>1. CASE pct = 50
  BY <1>1 DEF RankCovers, Rank
<1>2. CASE pct = 95
  BY <1>2 DEF RankCovers, Rank
<1>3. CASE pct = 99
  BY <1>3 DEF RankCovers, Rank
<1> QED
  BY <1>1, <1>2, <1>3 DEF Percentiles

(* The counters, the buffer of errors and the percentiles report what the   *)
(* handlers returned, however the requests overlap and whenever the process *)
(* dies; what an exception took out of its handler is in no counter.        *)
THEOREM MetricsMatchAnswersTheorem ==
    ASSUME Ops!OpsAssumption
    PROVE  Ops!Spec => []MetricsMatchAnswers
<1>1. OpsInv => MetricsMatchAnswers
  <2> SUFFICES ASSUME OpsInv PROVE MetricsMatchAnswers
    OBVIOUS
  <2>1. LargeSamplesCover
    BY OpsRanksCover, Ops!OpsAssumption DEF Ops!OpsAssumption, LargeSamplesCover
  <2>2. latencies > 0 => latencies \in Nat \ {0}
    BY Ops!OpsAssumption DEF Ops!OpsAssumption, OpsInv, Ops!TypeOK
  <2>3. PercentilesCover
    BY <2>1, <2>2, OpsRanksCover DEF PercentilesCover
  <2>4. PastMetrics = Counted
    BY DEF OpsInv, OutcomeInv, HandledOnce, HandledSet, PastMetrics, Counted, In, Ops!TypeOK
  <2>5. CountersMatchAnswers
    BY <2>4 DEF OpsInv, CountInv, CountersMatchAnswers, Errored
  <2> QED
    BY <2>3, <2>5 DEF MetricsMatchAnswers, OpsInv
<1> QED
  BY <1>1, OpsInvHolds, PTL

(* Health and verdict follow the drain requests that were carried out, and  *)
(* no others, whatever ran between.                                         *)
THEOREM DrainIsObeyedTheorem ==
    ASSUME Ops!OpsAssumption
    PROVE  Ops!Spec => []DrainIsObeyed
<1>1. OpsInv => DrainIsObeyed
  BY DEF OpsInv
<1> QED
  BY <1>1, OpsInvHolds, PTL
=============================================================================
