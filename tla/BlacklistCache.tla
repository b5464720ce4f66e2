--------------------------- MODULE BlacklistCache ---------------------------
(***************************************************************************)
(* The three-tier blacklist cache of one evergreen-tvevents pod            *)
(* (src/src/app/blacklist.py): the list in memory, the JSON file beside    *)
(* it, and the RDS table both are filled from.                             *)
(*                                                                         *)
(* A pod is one uvicorn process with one event loop, and no method of the  *)
(* cache awaits: a call that has begun runs to its end before any other    *)
(* request is served.  Only the world outside interleaves with it: the     *)
(* table changes, RDS goes up and down, and the process dies between any   *)
(* two of the steps below.  A call is therefore split at each point where  *)
(* a death or a failed system call leaves something different behind.      *)
(*                                                                         *)
(* Every list carries the version of the table it was read from.  The      *)
(* version is a ghost: no guard reads it.                                  *)
(***************************************************************************)
EXTENDS Integers, Sequences

CONSTANTS Channels,     \* the channel ids that can appear in the table
          MaxVersion,   \* bound: contents the table takes in a behaviour
          MaxCrashes,   \* bound: times the process dies in a behaviour
          NoList,       \* _channel_ids is None
          Missing,      \* the cache file does not exist
          Torn          \* the cache file is not JSON: truncated, half written

Lists == [ids : SUBSET Channels, version : Nat]

ASSUME BoundsAssumption ==
    MaxVersion \in Nat \ {0} /\ MaxCrashes \in Nat

ASSUME MarkersAssumption ==
    /\ NoList \notin Lists /\ Missing \notin Lists /\ Torn \notin Lists
    /\ NoList # Missing /\ NoList # Torn /\ Missing # Torn

VARIABLES lifespan,     \* external: the ASGI server runs lifespan() at startup
          history,      \* external: the contents the RDS table has had so far
          rdsUp,        \* external: execute_query answers instead of raising
          memory,       \* self._channel_ids
          lastRefresh,  \* self._last_refresh: what last stamped it
          file,         \* what open(cache_filepath).read() would find
          pc,           \* how far the call in progress has come
          caller,       \* the method in progress
          fetched,      \* its local channel_ids
          crashes,      \* times the process has died
          calledAt,     \* ghost: the table's version when the call began
          wasCached     \* ghost: this volume once held a complete list

vars == <<lifespan, history, rdsUp, memory, lastRefresh, file, pc, caller,
          fetched, crashes, calledAt, wasCached>>

external == <<lifespan, history, rdsUp>>
ghosts == <<calledAt, wasCached>>

-----------------------------------------------------------------------------
(* Data *)

Empty == [ids |-> {}, version |-> 0]      \* the [] literal of the fallbacks

IsList(x) == x \notin {NoList, Missing, Torn}

Version == Len(history)
Table == history[Version]

Callers == {"initialize", "refresh", "get_channel_ids"}
Stamps == {"never", "rds", "file"}
Phases == {"down", "idle", "fetch", "open", "write", "store"}

(* A mistake the properties must expose: _read_cache lets a file through    *)
(* that did not parse.                                                      *)
ReadCacheUnparsed == IF file # Missing THEN file ELSE NoList

(* _read_cache: the list in the file, or None on OSError and JSONDecodeError *)
ReadCache == IF IsList(file) THEN file ELSE NoList

Init ==
    /\ lifespan \in BOOLEAN
    /\ \E S \in SUBSET Channels : history = <<S>>
    /\ rdsUp \in BOOLEAN
    /\ memory = NoList
    /\ lastRefresh = "never"
    /\ file = Missing
    /\ pc = "down"
    /\ caller = "initialize"
    /\ fetched = NoList
    /\ crashes = 0
    /\ calledAt = 1
    /\ wasCached = FALSE

-----------------------------------------------------------------------------
(* The world outside the process *)

TableChanges ==
    /\ Version < MaxVersion
    /\ \E S \in (SUBSET Channels) \ {Table} : history' = Append(history, S)
    /\ UNCHANGED <<lifespan, rdsUp, memory, lastRefresh, file, pc, caller,
                   fetched, crashes, ghosts>>

RdsToggles ==
    /\ rdsUp' = ~rdsUp
    /\ UNCHANGED <<lifespan, history, memory, lastRefresh, file, pc, caller,
                   fetched, crashes, ghosts>>

(* The process dies (OOM kill, eviction, node loss) at any point.  Its      *)
(* memory goes; the file stays on a persistent volume and goes otherwise.   *)
Crash ==
    /\ pc # "down"
    /\ crashes < MaxCrashes
    /\ crashes' = crashes + 1
    /\ pc' = "down"
    /\ memory' = NoList
    /\ lastRefresh' = "never"
    /\ fetched' = NoList
    /\ \/ UNCHANGED <<file, wasCached>>
       \/ file' = Missing /\ wasCached' = FALSE
    /\ UNCHANGED <<external, caller, calledAt>>

-----------------------------------------------------------------------------
(* The calls *)

(* Importing the module builds the singleton; lifespan() then initializes   *)
(* it before the first request is accepted, unless the server (as the       *)
(* ASGITransport of the repository's tests) does not run it.                *)
Start ==
    /\ pc = "down"
    /\ pc' = IF lifespan THEN "fetch" ELSE "idle"
    /\ caller' = "initialize"
    /\ calledAt' = Version
    /\ UNCHANGED <<external, memory, lastRefresh, file, fetched, crashes,
                   wasCached>>

(* POST /ops/cache/refresh and POST /ops/cache/flush both call refresh(). *)
BeginRefresh ==
    /\ pc = "idle"
    /\ pc' = "fetch"
    /\ caller' = "refresh"
    /\ calledAt' = Version
    /\ UNCHANGED <<external, memory, lastRefresh, file, fetched, crashes,
                   wasCached>>

(* get_channel_ids with nothing in memory: the file, then RDS.  With a list *)
(* in memory the call returns it and changes nothing.                       *)
LookupInFile ==
    /\ pc = "idle" /\ memory = NoList
    /\ ReadCache # NoList
    /\ memory' = ReadCache
    /\ UNCHANGED <<external, lastRefresh, file, pc, caller, fetched, crashes,
                   ghosts>>

LookupFallsThrough ==
    /\ pc = "idle" /\ memory = NoList
    /\ ReadCache = NoList
    /\ pc' = "fetch"
    /\ caller' = "get_channel_ids"
    /\ calledAt' = Version
    /\ UNCHANGED <<external, memory, lastRefresh, file, fetched, crashes,
                   wasCached>>

(* _fetch_from_rds answers with at least one id. *)
FetchAnswers ==
    /\ pc = "fetch" /\ rdsUp /\ Table # {}
    /\ fetched' = [ids |-> Table, version |-> Version]
    /\ pc' = "open"
    /\ UNCHANGED <<external, memory, lastRefresh, file, caller, crashes, ghosts>>

(* _fetch_from_rds returns [], whether the query raised or the table has no *)
(* rows: `if channel_ids` cannot tell one from the other.                   *)
YieldNothing(newMemory, newPc) ==
    /\ pc = "fetch" /\ (~rdsUp \/ Table = {})
    /\ pc' = newPc
    /\ memory' = newMemory
    /\ lastRefresh' = IF caller = "initialize" /\ ReadCache # NoList
                        THEN "file" ELSE lastRefresh
    /\ UNCHANGED <<external, file, caller, fetched, crashes, ghosts>>

(* Mistakes the properties must expose here: initialize without the empty   *)
(* list as its last resort; refresh falling back to the file; refresh       *)
(* storing the empty answer; a startup given up for want of a list.         *)
NothingNoLastResort ==
    YieldNothing(CASE caller = "initialize" -> ReadCache
                   [] caller = "refresh" -> memory
                   [] caller = "get_channel_ids" -> Empty, "idle")

NothingRefreshFromFile ==
    YieldNothing(CASE caller # "get_channel_ids" /\ ReadCache # NoList -> ReadCache
                   [] caller = "refresh" /\ ReadCache = NoList -> memory
                   [] OTHER -> Empty, "idle")

NothingRefreshClears ==
    YieldNothing(IF caller = "initialize" /\ ReadCache # NoList THEN ReadCache
                                                              ELSE Empty, "idle")

NothingAbortsStartup ==
    YieldNothing(memory, IF caller = "initialize" THEN "down" ELSE "idle")

FetchYieldsNothing ==
    YieldNothing(CASE caller = "initialize" ->
                        IF ReadCache # NoList THEN ReadCache ELSE Empty
                   [] caller = "refresh" -> memory
                   [] caller = "get_channel_ids" -> Empty, "idle")

(* _write_cache, first half: open(path, "w") truncates the file, or fails   *)
(* and is swallowed.                                                        *)
OpenCacheFile ==
    /\ pc = "open"
    /\ \/ file' = Torn /\ pc' = "write"
       \/ file' = file /\ pc' = "store"
    /\ UNCHANGED <<external, memory, lastRefresh, caller, fetched, crashes,
                   ghosts>>

(* _write_cache, second half: the list reaches the disk, or the volume is   *)
(* full and what is left does not parse.                                    *)
WriteCacheFile ==
    /\ pc = "write"
    /\ pc' = "store"
    /\ \/ file' = fetched /\ wasCached' = TRUE
       \/ UNCHANGED <<file, wasCached>>
    /\ UNCHANGED <<external, memory, lastRefresh, caller, fetched, crashes,
                   calledAt>>

(* The assignments after _write_cache returns.  get_channel_ids does not    *)
(* stamp the refresh time.                                                  *)
Store(newMemory, newStamp) ==
    /\ pc = "store"
    /\ pc' = "idle"
    /\ memory' = newMemory
    /\ lastRefresh' = newStamp
    /\ fetched' = NoList
    /\ UNCHANGED <<external, file, caller, crashes, ghosts>>

StoreStamp == IF caller = "get_channel_ids" THEN lastRefresh ELSE "rds"

(* Mistakes the properties must expose here: the answer merged into the old *)
(* list; a refresh that reaches only the file; a refresh that is not        *)
(* stamped; the file read back instead of the answer.                       *)
StoreMerged ==
    Store([fetched EXCEPT !.ids =
             @ \union (IF IsList(memory) THEN memory.ids ELSE {})], StoreStamp)

StoreFileOnly == Store(IF caller = "refresh" THEN memory ELSE fetched, StoreStamp)

StoreUnstamped ==
    Store(fetched, IF caller = "initialize" THEN "rds" ELSE lastRefresh)

StoreReadBack ==
    Store(IF ReadCache # NoList THEN ReadCache ELSE fetched, StoreStamp)

StoreInMemory == Store(fetched, StoreStamp)

-----------------------------------------------------------------------------

Call == FetchAnswers \/ FetchYieldsNothing \/ OpenCacheFile \/ WriteCacheFile
        \/ StoreInMemory

Next ==
    \/ TableChanges \/ RdsToggles \/ Crash
    \/ Start \/ BeginRefresh \/ LookupInFile \/ LookupFallsThrough
    \/ Call

Spec == Init /\ [][Next]_vars

(* Kubernetes restarts a dead container, and straight-line code runs on: a  *)
(* query or a file operation returns or raises.  Nothing calls refresh(),   *)
(* so no fairness is assumed of it, nor of the world outside.               *)
Fairness == WF_vars(Start) /\ WF_vars(Call)

FairSpec == Spec /\ Fairness

-----------------------------------------------------------------------------
(* Properties *)

TypeOK ==
    /\ lifespan \in BOOLEAN
    /\ history \in Seq(SUBSET Channels) /\ Version \in 1..MaxVersion
    /\ rdsUp \in BOOLEAN
    /\ memory \in Lists \union {NoList}
    /\ lastRefresh \in Stamps
    /\ file \in Lists \union {Missing, Torn}
    /\ pc \in Phases
    /\ caller \in Callers
    /\ fetched \in Lists \union {NoList}
    /\ crashes \in 0..MaxCrashes
    /\ calledAt \in 1..MaxVersion
    /\ wasCached \in BOOLEAN

(* A list is genuine if it is the [] literal or the table once had exactly  *)
(* this content.                                                            *)
Genuine(list) ==
    \/ list = Empty
    \/ list.version \in 1..Version /\ list.ids = history[list.version]

(* What the pod looks channels up in, and what it may fall back to after a  *)
(* restart, is a content the table really had: no tier ever holds a blend   *)
(* of two versions, a half-written list, or a list RDS never returned.      *)
OnlyGenuineLists ==
    \A list \in {memory, file, fetched} : IsList(list) => Genuine(list)

(* Once lifespan() has run, a pod that takes requests holds a list, so the  *)
(* request path never reaches the file or RDS tier of get_channel_ids.      *)
ServingHasList == lifespan /\ pc = "idle" => memory # NoList

(* Between calls the file is never newer than memory: a restart that falls  *)
(* back to the file can only lose refreshes, never surprise the operator    *)
(* with a list that was not yet served.                                     *)
FileNotAhead ==
    pc = "idle" /\ IsList(file) /\ IsList(memory)
        => file.version <= memory.version

(* A pod whose /ops/cache shows no last_refresh serves no entries, and one  *)
(* that serves none it got from RDS or file shows none.                     *)
StampTellsLoaded ==
    lifespan /\ pc = "idle" => (lastRefresh = "never" <=> memory = Empty)

(* Within one life of the process the served list only moves to newer       *)
(* contents of the table, and a failed refresh never takes it away.         *)
NoRollback ==
    [][IsList(memory) /\ pc' # "down"
        => IsList(memory') /\ memory'.version >= memory.version]_vars

(* A refresh that answers "ok" leaves in memory a content the table had     *)
(* after the request came in, even when the file could not be written.      *)
RefreshIsFresh ==
    [][pc # "idle" /\ pc' = "idle" /\ caller = "refresh" /\ fetched # NoList
        => IsList(memory') /\ memory'.version >= calledAt]_vars

(* The cache implements what BlacklistView promises to its callers: the     *)
(* memory tier is the served list.                                          *)
View == INSTANCE BlacklistView WITH served <- memory
ImplementsView == View!Spec

(* Startup is never stopped by a tier: whatever RDS and the file do, a pod  *)
(* that is down comes to serve (until it is killed again).                  *)
StartupServes == (pc # "idle") ~> (pc = "idle")

-----------------------------------------------------------------------------
(* What the documents say and the code does not do *)

(* data-migration-mapping.md: with zero rows in the table the cache is an   *)
(* empty list.  Stated of every call that got the zero rows from RDS.       *)
EmptyTableEmptiesCache ==
    [][pc = "fetch" /\ rdsUp /\ Table = {} /\ pc' = "idle"
        => (IsList(memory') => memory'.ids = {})]_vars

(* adr/004-cache-strategy.md: with RDS down the JSON file continues to      *)
(* serve.  Stated of a start on a volume that once held a complete list.    *)
FileSurvivesOutage ==
    [][pc = "fetch" /\ caller = "initialize" /\ ~rdsUp /\ wasCached
        /\ pc' = "idle" => memory' # Empty]_vars

(* data-migration-mapping.md: container startup + periodic refresh.  Once   *)
(* RDS stays up and the table stays non-empty, the served list follows it.  *)
PeriodicRefresh ==
    lifespan /\ <>[](rdsUp /\ Table # {})
        => <>[](pc = "idle" => IsList(memory) /\ memory.ids = Table)
=============================================================================
