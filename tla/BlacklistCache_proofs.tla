----------------------- MODULE BlacklistCache_proofs -----------------------
(***************************************************************************)
(* Machine-checked proofs about BlacklistCache, for every set of channels, *)
(* every number of table contents and every number of deaths.              *)
(***************************************************************************)
EXTENDS BlacklistCache, TLAPS

(* While a call holds an answer of RDS, its local list is a list; TypeOK is *)
(* inductive only together with this, since _write_cache copies it out.     *)
HasAnswer == pc \in {"open", "write", "store"}
AnswerIsList == HasAnswer => fetched \in Lists

LEMMA TypeInvariant == Spec => [](TypeOK /\ AnswerIsList)
<1> USE BoundsAssumption
<1>1. Init => TypeOK /\ AnswerIsList
  <2> SUFFICES ASSUME Init PROVE TypeOK /\ AnswerIsList
    OBVIOUS
  <2>1. PICK S \in SUBSET Channels : history = <<S>>
    BY DEF Init
  <2>2. history \in Seq(SUBSET Channels) /\ Len(history) = 1
    BY <2>1
  <2>3. 1 \in 1..MaxVersion /\ 0 \in 0..MaxCrashes
    OBVIOUS
  <2> QED
    BY <2>2, <2>3 DEF Init, TypeOK, Stamps, Phases, Callers, Version,
                      AnswerIsList, HasAnswer
<1>2. TypeOK /\ AnswerIsList /\ [Next]_vars => (TypeOK /\ AnswerIsList)'
  <2> SUFFICES ASSUME TypeOK, AnswerIsList, [Next]_vars
                    PROVE  TypeOK' /\ AnswerIsList'
    OBVIOUS
  <2> USE DEF TypeOK, AnswerIsList, HasAnswer, Stamps, Phases, Callers,
  Version, external, ghosts
  <2>1. CASE UNCHANGED vars
    BY <2>1 DEF vars
  <2>2. CASE TableChanges
    <3>1. PICK S \in (SUBSET Channels) \ {Table} : history' = Append(history, S)
      BY <2>2 DEF TableChanges
    <3>2. history' \in Seq(SUBSET Channels) /\ Len(history') = Len(history) + 1
      BY <3>1
    <3> QED
      BY <2>2, <3>2 DEF TableChanges
  <2>3. CASE RdsToggles
    BY <2>3 DEF RdsToggles
  <2>4. CASE Crash
    <3>1. crashes' \in 0..MaxCrashes
      BY <2>4 DEF Crash
    <3>2. file' \in Lists \union {Missing, Torn} /\ wasCached' \in BOOLEAN
      BY <2>4, Zenon DEF Crash
    <3> QED
      BY <2>4, <3>1, <3>2 DEF Crash
  <2>5. CASE Start
    BY <2>5 DEF Start
  <2>6. CASE BeginRefresh
    BY <2>6 DEF BeginRefresh
  <2>7. CASE LookupInFile
    BY <2>7, MarkersAssumption DEF LookupInFile, ReadCache, IsList
  <2>8. CASE LookupFallsThrough
    BY <2>8 DEF LookupFallsThrough
  <2>9. CASE FetchAnswers
    <3>1. [ids |-> Table, version |-> Version] \in Lists
      BY DEF Lists, Table
    <3> QED
      BY <2>9, <3>1 DEF FetchAnswers
  <2>10. CASE FetchYieldsNothing
    <3>1. Empty \in Lists
      BY DEF Empty, Lists
    <3>2. memory' \in Lists \union {NoList}
      BY <2>10, <3>1, MarkersAssumption DEF FetchYieldsNothing, YieldNothing,
         ReadCache, IsList
    <3> QED
      BY <2>10, <3>2 DEF FetchYieldsNothing, YieldNothing
  <2>11. CASE OpenCacheFile
    BY <2>11 DEF OpenCacheFile
  <2>12. CASE WriteCacheFile
    BY <2>12 DEF WriteCacheFile
  <2>13. CASE StoreInMemory
    BY <2>13 DEF StoreInMemory, Store, StoreStamp
  <2> QED
    BY <2>1, <2>2, <2>3, <2>4, <2>5, <2>6, <2>7, <2>8, <2>9, <2>10, <2>11,
       <2>12, <2>13 DEF Next, Call
<1> QED
  BY <1>1, <1>2, PTL DEF Spec

(* Type correctness: every variable keeps its type in every behaviour of    *)
(* blacklist.py's cache.                                                    *)
THEOREM TypeCorrect == Spec => []TypeOK
BY TypeInvariant, PTL

-----------------------------------------------------------------------------
(* The inductive invariant: what holds between the steps of a call, so that *)
(* the properties hold between calls.                                       *)

InCall == pc = "fetch" \/ HasAnswer

(* An answer on its way to the tiers is a non-empty content the table had   *)
(* when or after the call began; outside a call there is none.              *)
AnswerInv ==
    /\ calledAt <= Version
    /\ HasAnswer => /\ fetched \in Lists /\ fetched.ids # {}
                    /\ calledAt <= fetched.version
                    /\ fetched.version \in 1..Version
                    /\ fetched.ids = history[fetched.version]
    /\ ~HasAnswer => fetched = NoList

(* Who may be in a call, and with what in memory. *)
CallerInv ==
    /\ pc = "down" => memory = NoList /\ lastRefresh = "never"
    /\ InCall /\ caller = "initialize" => memory = NoList /\ lastRefresh = "never"
    /\ InCall /\ caller = "get_channel_ids" => memory = NoList
    /\ pc = "fetch" /\ caller = "get_channel_ids" => ~IsList(file)
    /\ lifespan => caller # "get_channel_ids"
    /\ lifespan /\ (pc = "idle" \/ (InCall /\ caller = "refresh"))
         => /\ memory # NoList
            /\ (lastRefresh = "never" <=> memory = Empty)

(* The file holds real contents only, and the tiers are filled oldest last. *)
OrderInv ==
    /\ IsList(memory) => Genuine(memory)
    /\ IsList(file) => Genuine(file) /\ file.ids # {} /\ file.version >= 1
    /\ IsList(file) /\ IsList(memory) /\ pc # "store"
         => file.version <= memory.version
    /\ HasAnswer /\ IsList(file) => file.version <= fetched.version
    /\ HasAnswer /\ IsList(memory) => memory.version <= fetched.version

CacheInv == AnswerInv /\ CallerInv /\ OrderInv

(* The markers NoList, Missing and Torn are the only values that are not    *)
(* lists.                                                                   *)
LEMMA ListOrMarker ==
    ASSUME NEW x \in Lists \union {NoList, Missing, Torn}
    PROVE  IsList(x) <=> x \in Lists
BY MarkersAssumption DEF IsList

LEMMA EmptyIsList == Empty \in Lists /\ IsList(Empty) /\ Genuine(Empty)
<1>1. Empty \in Lists
  BY DEF Empty, Lists
<1> QED
  BY <1>1, MarkersAssumption DEF IsList, Genuine

(* No step takes a past content of the table back, so what was genuine      *)
(* stays genuine.                                                           *)
LEMMA HistoryGrows ==
    ASSUME TypeOK, [Next]_vars
    PROVE  /\ Version \in Nat /\ Version' \in Nat /\ Version' >= Version
           /\ \A v \in 1..Version : history'[v] = history[v]
<1>1. CASE TableChanges
  <2>1. PICK S \in (SUBSET Channels) \ {Table} : history' = Append(history, S)
    BY <1>1 DEF TableChanges
  <2>2. history \in Seq(SUBSET Channels)
    BY DEF TypeOK
  <2> QED
    BY <2>1, <2>2 DEF Version
<1>2. CASE UNCHANGED history
  BY <1>2 DEF Version, TypeOK
<1> QED
  BY <1>1, <1>2 DEF Next, Call, vars, external, RdsToggles, Crash, Start,
     BeginRefresh, LookupInFile, LookupFallsThrough, FetchAnswers,
     FetchYieldsNothing, YieldNothing, OpenCacheFile, WriteCacheFile,
     StoreInMemory, Store, StoreStamp

LEMMA GenuineStays ==
    ASSUME TypeOK, [Next]_vars, NEW list \in Lists, Genuine(list)
    PROVE  Genuine(list)'
<1>1. /\ Version \in Nat /\ Version' \in Nat /\ Version' >= Version
      /\ \A v \in 1..Version : history'[v] = history[v]
  BY HistoryGrows
<1> QED
  BY <1>1 DEF Genuine

LEMMA CacheInvInit == Init => CacheInv
<1> SUFFICES ASSUME Init PROVE CacheInv
  OBVIOUS
<1>1. ~IsList(memory) /\ ~IsList(file)
  BY MarkersAssumption DEF Init, IsList
<1>2. calledAt <= Version
  BY DEF Init, Version
<1> QED
  BY <1>1, <1>2 DEF Init, CacheInv, AnswerInv, CallerInv, OrderInv, InCall,
     HasAnswer

(* Every step keeps the inductive invariant. *)
LEMMA CacheInvStep ==
    ASSUME TypeOK, CacheInv, [Next]_vars
    PROVE  CacheInv'
<1> USE DEF CacheInv, AnswerInv, CallerInv, OrderInv, InCall, HasAnswer
<1>1. CASE UNCHANGED vars
  BY <1>1 DEF vars, Version, Genuine, IsList
<1>2. CASE TableChanges
  <2>1. UNCHANGED <<lifespan, rdsUp, memory, lastRefresh, file, pc, caller,
                    fetched, crashes, ghosts>>
    BY <1>2 DEF TableChanges
  <2>2. /\ IsList(memory) => Genuine(memory)'
        /\ IsList(file) => Genuine(file)'
    BY <2>1, GenuineStays, ListOrMarker DEF TypeOK, Genuine
  <2>3. /\ Version \in Nat /\ Version' \in Nat /\ Version' >= Version
        /\ \A v \in 1..Version : history'[v] = history[v]
    BY HistoryGrows
  <2>4. calledAt \in Nat /\ calledAt' = calledAt
    BY <2>1 DEF TypeOK, ghosts
  <2>5. AnswerInv'
    BY <2>1, <2>3, <2>4
  <2> QED
    BY <2>1, <2>2, <2>5 DEF IsList
<1>3. CASE RdsToggles
  BY <1>3 DEF RdsToggles, ghosts, Version, Genuine, IsList
<1>4. CASE Crash
  BY <1>4, MarkersAssumption DEF Crash, external, Version, Genuine, IsList
<1>5. CASE Start
  BY <1>5, MarkersAssumption DEF Start, external, Version, Genuine, IsList
<1>6. CASE BeginRefresh
  BY <1>6, MarkersAssumption DEF BeginRefresh, external, Version, Genuine,
     IsList
<1>7. CASE LookupInFile
  <2>1. /\ pc = "idle" /\ memory = NoList /\ memory' = file /\ IsList(file)
        /\ UNCHANGED <<lifespan, history, lastRefresh, file, pc, caller,
                       fetched, calledAt>>
    BY <1>7, MarkersAssumption DEF LookupInFile, ReadCache, IsList, external,
       ghosts
  <2>2. file.version <= file.version
    BY <2>1, ListOrMarker DEF TypeOK, Lists
  <2> QED
    BY <2>1, <2>2 DEF Version, Genuine, IsList
<1>8. CASE LookupFallsThrough
  BY <1>8, MarkersAssumption DEF LookupFallsThrough, external, Version,
     Genuine, IsList, ReadCache
<1>9. CASE FetchAnswers
  <2>1. /\ fetched' = [ids |-> Table, version |-> Version]
        /\ pc = "fetch" /\ pc' = "open" /\ Table # {}
        /\ UNCHANGED <<lifespan, history, memory, lastRefresh, file, caller,
                       calledAt>>
    BY <1>9 DEF FetchAnswers, external, ghosts
  <2>2. Table \in SUBSET Channels /\ Version \in Nat /\ Version >= 1
    BY DEF TypeOK, Table, Version
  <2>3. fetched' \in Lists /\ fetched'.ids = Table /\ fetched'.version = Version
    BY <2>1, <2>2 DEF Lists
  <2>4. AnswerInv'
    BY <2>1, <2>2, <2>3 DEF Table, Version
  <2>5. CallerInv'
    BY <2>1 DEF IsList
  <2>6. OrderInv'
    <3>1. \A list : IsList(list) /\ Genuine(list) => list.version <= Version
      BY <2>2 DEF Genuine, Empty
    <3> QED
      BY <2>1, <2>3, <3>1 DEF IsList, Genuine, Version
  <2> QED
    BY <2>4, <2>5, <2>6
<1>10. CASE FetchYieldsNothing
  <2>1. /\ pc = "fetch" /\ pc' = "idle" /\ fetched' = fetched
        /\ UNCHANGED <<lifespan, history, file, caller, calledAt>>
    BY <1>10 DEF FetchYieldsNothing, YieldNothing, external, ghosts
  <2>2. caller \in Callers /\ Version' = Version
    BY <2>1 DEF TypeOK, Version
  <2>3. AnswerInv'
    BY <2>1, <2>2
  <2>4. CASE caller = "refresh"
    <3>1. memory' = memory /\ lastRefresh' = lastRefresh
      BY <1>10, <2>4 DEF FetchYieldsNothing, YieldNothing
    <3> QED
      BY <2>1, <2>2, <2>3, <2>4, <3>1 DEF IsList, Genuine
  <2>5. CASE caller = "initialize" /\ IsList(file)
    <3>1. memory' = file /\ lastRefresh' = "file"
      BY <1>10, <2>5, MarkersAssumption DEF FetchYieldsNothing, YieldNothing,
         ReadCache, IsList
    <3>2. file # NoList /\ file # Empty /\ Genuine(file) /\ file.version >= 1
      BY <2>5 DEF IsList, Empty
    <3>3. file \in Lists
      BY <2>5, ListOrMarker DEF TypeOK
    <3>4. file.version <= file.version
      BY <3>3 DEF Lists
    <3> QED
      BY <2>1, <2>2, <2>3, <2>5, <3>1, <3>2, <3>4 DEF IsList, Genuine
  <2>6. CASE caller = "initialize" /\ ~IsList(file)
    <3>1. memory' = Empty /\ lastRefresh' = "never"
      BY <1>10, <2>1, <2>6 DEF FetchYieldsNothing, YieldNothing, ReadCache
    <3> QED
      BY <2>1, <2>2, <2>3, <2>6, <3>1, EmptyIsList DEF IsList, Genuine
  <2>7. CASE caller = "get_channel_ids"
    <3>1. memory' = Empty /\ lastRefresh' = lastRefresh /\ ~lifespan
      BY <1>10, <2>7 DEF FetchYieldsNothing, YieldNothing
    <3> QED
      BY <2>1, <2>2, <2>3, <2>7, <3>1, EmptyIsList DEF IsList, Genuine
  <2> QED
    BY <2>2, <2>4, <2>5, <2>6, <2>7 DEF Callers
<1>11. CASE OpenCacheFile
  BY <1>11, MarkersAssumption DEF OpenCacheFile, external, ghosts, Version,
     Genuine, IsList
<1>12. CASE WriteCacheFile
  <2>1. /\ pc = "write" /\ pc' = "store"
        /\ UNCHANGED <<lifespan, history, memory, lastRefresh, caller, fetched,
                       calledAt>>
    BY <1>12 DEF WriteCacheFile, external
  <2>2. fetched \in Lists /\ IsList(fetched) /\ Genuine(fetched)
    BY <2>1, ListOrMarker DEF TypeOK, Genuine
  <2>3. fetched # Empty /\ fetched.version >= 1 /\ fetched.version <= fetched.version
    BY <2>1, <2>2 DEF Empty, Lists, TypeOK
  <2>4. CASE file' = fetched
    <3>1. AnswerInv' /\ CallerInv'
      BY <2>1 DEF Version, IsList
    <3>2. OrderInv'
      BY <2>1, <2>2, <2>3, <2>4 DEF IsList, Genuine, Version
    <3> QED
      BY <3>1, <3>2
  <2>5. CASE file' = file
    <3>1. AnswerInv' /\ CallerInv'
      BY <2>1 DEF Version, IsList
    <3>2. OrderInv'
      BY <2>1, <2>5 DEF IsList, Genuine, Version
    <3> QED
      BY <3>1, <3>2
  <2> QED
    BY <1>12, <2>4, <2>5 DEF WriteCacheFile
<1>13. CASE StoreInMemory
  <2>1. /\ pc = "store" /\ pc' = "idle" /\ memory' = fetched /\ fetched' = NoList
        /\ UNCHANGED <<lifespan, history, file, caller, calledAt>>
    BY <1>13 DEF StoreInMemory, Store, StoreStamp, external, ghosts
  <2>2. fetched \in Lists /\ IsList(fetched) /\ Genuine(fetched)
    BY <2>1, ListOrMarker DEF TypeOK, Genuine
  <2>3. fetched # Empty /\ fetched # NoList
    BY <2>1, <2>2, MarkersAssumption DEF Empty
  <2>4. lifespan => lastRefresh' = "rds"
    BY <1>13 DEF StoreInMemory, Store, StoreStamp
  <2> QED
    BY <2>1, <2>2, <2>3, <2>4 DEF IsList, Genuine, Version
<1> QED
  BY <1>1, <1>2, <1>3, <1>4, <1>5, <1>6, <1>7, <1>8, <1>9, <1>10, <1>11,
     <1>12, <1>13 DEF Next, Call

LEMMA CacheInvariant == Spec => [](TypeOK /\ CacheInv)
<1>1. Init => CacheInv
  BY CacheInvInit
<1>2. TypeOK /\ CacheInv /\ [Next]_vars => CacheInv'
  BY CacheInvStep
<1> QED
  BY <1>1, <1>2, TypeCorrect, PTL DEF Spec

-----------------------------------------------------------------------------
(* The theorems *)

(* No tier of the cache, and no answer on its way to one, ever holds        *)
(* anything but [] or a content the RDS table really had.                   *)
THEOREM TiersAreGenuine == Spec => []OnlyGenuineLists
<1>1. TypeOK /\ CacheInv => OnlyGenuineLists
  <2> SUFFICES ASSUME TypeOK, CacheInv, IsList(fetched) PROVE Genuine(fetched)
    BY DEF OnlyGenuineLists, CacheInv, OrderInv
  <2>1. HasAnswer
    BY DEF CacheInv, AnswerInv, IsList
  <2> QED
    BY <2>1 DEF CacheInv, AnswerInv, Genuine
<1> QED
  BY <1>1, CacheInvariant, PTL

(* A pod whose server runs lifespan() never answers a lookup without a list *)
(* in memory.                                                               *)
THEOREM PodServesAList == Spec => []ServingHasList
<1>1. CacheInv => ServingHasList
  BY DEF CacheInv, CallerInv, ServingHasList
<1> QED
  BY <1>1, CacheInvariant, PTL

(* Between calls the cache file is never newer than the list in memory.     *)
THEOREM FileLagsMemory == Spec => []FileNotAhead
<1>1. CacheInv => FileNotAhead
  BY DEF CacheInv, OrderInv, FileNotAhead
<1> QED
  BY <1>1, CacheInvariant, PTL

(* /ops/cache reports a last refresh exactly when the pod loaded a list.    *)
THEOREM StampIsTruthful == Spec => []StampTellsLoaded
<1>1. CacheInv => StampTellsLoaded
  BY DEF CacheInv, CallerInv, StampTellsLoaded
<1> QED
  BY <1>1, CacheInvariant, PTL

(* What a step can do to the list in memory: keep it, drop it with the      *)
(* process, take over an answer of RDS at least as new, take the file over  *)
(* when there was none, or settle for nothing when there was none.          *)
LEMMA MemoryStep ==
    ASSUME TypeOK, CacheInv, [Next]_vars
    PROVE  \/ memory' = memory
           \/ memory' = NoList /\ pc' = "down"
           \/ memory = NoList /\ memory' \in {file, Empty} /\ IsList(memory')
           \/ /\ HasAnswer /\ memory' = fetched
              /\ IsList(memory) => fetched.version >= memory.version
<1> USE DEF CacheInv, AnswerInv, CallerInv, OrderInv, InCall, HasAnswer
<1>1. CASE LookupInFile
  BY <1>1 DEF LookupInFile, ReadCache
<1>2. CASE FetchYieldsNothing
  <2>1. CASE caller = "refresh"
    BY <1>2, <2>1 DEF FetchYieldsNothing, YieldNothing
  <2>2. CASE caller # "refresh"
    BY <1>2, <2>2, EmptyIsList DEF FetchYieldsNothing, YieldNothing,
       ReadCache, TypeOK, Callers
  <2> QED
    BY <2>1, <2>2
<1>3. CASE StoreInMemory
  <2>1. IsList(memory) => memory.version \in Nat /\ fetched.version \in Nat
    BY <1>3, ListOrMarker DEF StoreInMemory, Store, StoreStamp, TypeOK, Lists
  <2> QED
    BY <1>3, <2>1 DEF StoreInMemory, Store, StoreStamp
<1> QED
  BY <1>1, <1>2, <1>3 DEF Next, Call, vars, TableChanges, RdsToggles, Crash,
     Start, BeginRefresh, LookupFallsThrough, FetchAnswers, OpenCacheFile,
     WriteCacheFile

(* Within one life of the process the served blacklist is never taken back  *)
(* to an older content, and never lost.                                     *)
THEOREM ServedListNeverRollsBack == Spec => NoRollback
<1>1. TypeOK /\ CacheInv /\ [Next]_vars
        => [IsList(memory) /\ pc' # "down"
              => IsList(memory') /\ memory'.version >= memory.version]_vars
  <2> SUFFICES ASSUME TypeOK, CacheInv, [Next]_vars, IsList(memory),
  pc' # "down"
               PROVE  IsList(memory') /\ memory'.version >= memory.version
    OBVIOUS
  <2>1. memory.version \in Nat /\ memory # NoList
    BY ListOrMarker DEF TypeOK, Lists, IsList
  <2>2. HasAnswer => IsList(fetched)
    BY ListOrMarker DEF TypeOK, CacheInv, AnswerInv
  <2> QED
    BY <2>1, <2>2, MemoryStep
<1> QED
  BY <1>1, CacheInvariant, PTL DEF Spec, NoRollback

(* A refresh that answers "ok" leaves a content at least as new as the one  *)
(* the table had when the request came in.                                  *)
THEOREM RefreshTakesEffect == Spec => RefreshIsFresh
<1>1. TypeOK /\ CacheInv /\ [Next]_vars
        => [pc # "idle" /\ pc' = "idle" /\ caller = "refresh"
              /\ fetched # NoList
              => IsList(memory') /\ memory'.version >= calledAt]_vars
  <2> SUFFICES ASSUME TypeOK, CacheInv, [Next]_vars, pc # "idle", pc' = "idle",
                      fetched # NoList
               PROVE  IsList(memory') /\ memory'.version >= calledAt
    OBVIOUS
  <2>1. HasAnswer /\ IsList(fetched) /\ fetched.version >= calledAt
    BY ListOrMarker DEF TypeOK, CacheInv, AnswerInv, Version
  <2>2. StoreInMemory
    BY <2>1 DEF Next, Call, vars, TableChanges, RdsToggles, Crash, Start,
       BeginRefresh, LookupInFile, LookupFallsThrough, FetchAnswers,
       FetchYieldsNothing, YieldNothing, OpenCacheFile, WriteCacheFile,
       HasAnswer
  <2> QED
    BY <2>1, <2>2 DEF StoreInMemory, Store, StoreStamp
<1> QED
  BY <1>1, CacheInvariant, PTL DEF Spec, RefreshIsFresh

(* The cache implements what BlacklistView promises: the memory tier serves *)
(* past contents of the table in order, or nothing.                         *)
THEOREM CacheImplementsView == Spec => ImplementsView
<1>1. Init => View!Init
  BY DEF Init, View!Init
<1>2. TypeOK /\ CacheInv /\ [Next]_vars => [View!Next]_(View!viewVars)
  <2> SUFFICES ASSUME TypeOK, CacheInv, [Next]_vars
               PROVE  [View!Next]_(View!viewVars)
    OBVIOUS
  <2>1. CASE UNCHANGED <<lifespan, history, memory>>
    BY <2>1 DEF View!viewVars
  <2>2. CASE TableChanges
    BY <2>2 DEF TableChanges, Version, View!Next, View!TableMoves
  <2>3. CASE history' = history /\ memory' # memory
    <3>1. CASE memory' = NoList
      BY <2>3, <3>1 DEF View!Next, View!Stop
    <3>2. CASE memory = NoList /\ memory' = Empty
      BY <2>3, <3>2 DEF View!Next, View!AdoptNothing, View!Nothing, Empty
    <3>3. CASE /\ IsList(memory') /\ memory' # Empty /\ Genuine(memory')
               /\ memory' \in Lists /\ memory'.ids # {}
               /\ memory = NoList \/ memory'.version >= memory.version
      <4>1. /\ memory'.version \in 1..Len(history)
            /\ memory'.ids = history[memory'.version]
            /\ memory' = [ids |-> memory'.ids, version |-> memory'.version]
        BY <3>3 DEF Genuine, Version, Lists
      <4> QED
        BY <2>3, <3>3, <4>1 DEF View!Next, View!Adopt
    <3>4. CASE IsList(file) /\ memory' = file /\ memory = NoList
      <4>1. file \in Lists /\ Genuine(file) /\ file # Empty /\ file.ids # {}
        BY <3>4, ListOrMarker DEF TypeOK, CacheInv, OrderInv, Empty
      <4> QED
        BY <3>3, <3>4, <4>1
    <3>5. CASE /\ HasAnswer /\ memory' = fetched
               /\ IsList(memory) => fetched.version >= memory.version
      <4>1. fetched \in Lists /\ IsList(fetched) /\ fetched.ids # {}
        BY <3>5, ListOrMarker DEF CacheInv, AnswerInv
      <4>2. Genuine(fetched) /\ fetched # Empty
        BY <3>5, <4>1 DEF CacheInv, AnswerInv, Genuine, Empty
      <4>3. memory = NoList \/ IsList(memory)
        BY ListOrMarker DEF TypeOK
      <4> QED
        BY <3>3, <3>5, <4>1, <4>2, <4>3
    <3> QED
      BY <2>3, <3>1, <3>2, <3>4, <3>5, MemoryStep
  <2> QED
    BY <2>1, <2>2, <2>3 DEF Next, Call, vars, external, RdsToggles, Crash,
       Start,
       BeginRefresh, LookupInFile, LookupFallsThrough, FetchAnswers,
       FetchYieldsNothing, YieldNothing, OpenCacheFile, WriteCacheFile,
       StoreInMemory, Store, StoreStamp
<1> QED
  BY <1>1, <1>2, CacheInvariant, PTL DEF Spec, ImplementsView, View!Spec
=============================================================================
