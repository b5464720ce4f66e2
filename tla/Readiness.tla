----------------------------- MODULE Readiness -----------------------------
(***************************************************************************)
(* The readiness bookkeeping of the data pipeline, dp4_redis.py of         *)
(* cntools_py3/cnlib: cookers describe a batch (record_info) and count     *)
(* what they processed for a shard of it (record_processed and its two     *)
(* siblings); jobs ask whether a range of batches is complete (is_ready)   *)
(* and summarise one in watermarks (set_reported).                         *)
(*                                                                         *)
(* All of them talk to Redis through BaseRedis: reads go to _reader, which *)
(* may be a replica that lags, writes to _writer.  When both hosts are the *)
(* same, BaseRedis makes one client of them.                               *)
(*                                                                         *)
(* A batch is named by the epoch it ends at.  The clients decode their     *)
(* answers, and no key expires (the shortest lives 14 days).               *)
(***************************************************************************)
EXTENDS Integers, FiniteSets

CONSTANTS Cookers,      \* processes that record
          Jobs,         \* processes that ask and summarise
          Shards,       \* the shards of the stream
          Kinds,        \* the counters considered, "commercial" or not
          NoShard,      \* the one name in the split of an empty string
          MaxEpoch,     \* bound: the last batch end
          BatchSecs,    \* batch_secs of the cookers
          Ranges,       \* the ranges asked for, <<start, end>>
          Amounts,      \* what one call records
          MaxInfos,     \* bound: calls that describe a batch
          MaxRecords,   \* bound: calls that count for one
          MaxCalls,     \* bound: calls of the jobs
          MaxRepeats,   \* bound: keys that scans return a second time
          None          \* no such key, no such field

Epochs == 1..MaxEpoch
Keys == Kinds \X Epochs \X Shards

ASSUME ReadinessBounds ==
    /\ MaxEpoch \in Nat \ {0} /\ BatchSecs \in Nat \ {0}
    /\ MaxInfos \in Nat /\ MaxRecords \in Nat /\ MaxCalls \in Nat /\ MaxRepeats \in Nat
    /\ {"records", "tvs"} \subseteq Kinds /\ Kinds \subseteq {"records", "commercial", "tvs"}
    /\ Ranges \subseteq {r \in (0..MaxEpoch) \X Epochs : r[1] < r[2]}
    /\ Amounts \subseteq Nat /\ IsFiniteSet(Shards) /\ NoShard \notin Shards

Infos == [shards : (SUBSET Shards) \union {{NoShard}}, start : Nat, error : BOOLEAN]
Fields == Nat \union {None}
Watermarks == [start : Nat, records : Fields, tvs : Fields]

ASSUME NoneIsNoValue == None \notin Nat \union Watermarks \union Keys

VARIABLES oneClient,  \* Clusters.rw_equal(write_host, read_host)
          writer,     \* the primary
          reader,     \* the replica
          cooker,     \* each cooker's call in progress
          job,        \* each job's call in progress, and its last answer
          calls,      \* what is bounded, so far: see MaxInfos and its siblings
          processed,  \* ghost: what the finished calls recorded for a key
          contended,  \* ghost: the keys two cookers recorded at a time
          repeated    \* ghost: the batches of which a scan returned a key twice

vars == <<oneClient, writer, reader, cooker, job, calls, processed, contended, repeated>>

Idle == [pc |-> "idle"]
NoJob(answer) == [pc |-> "idle", answer |-> answer]

Init ==
    /\ oneClient \in BOOLEAN
    /\ writer = [info |-> [e \in Epochs |-> None],
                 count |-> [k \in Keys |-> None],
                 watermark |-> [e \in Epochs |-> None]]
    /\ reader = writer
    /\ cooker = [c \in Cookers |-> Idle]
    /\ job = [j \in Jobs |-> NoJob("none")]
    /\ calls = [infos |-> 0, records |-> 0, jobs |-> 0, repeats |-> 0]
    /\ processed = [k \in Keys |-> 0]
    /\ contended = {} /\ repeated = {}

-----------------------------------------------------------------------------
(* BaseRedis *)

(* A mistake the properties must expose: two clients for one host, whose    *)
(* reads may be served by its replica.                                      *)
ReadViewReplica == reader

(* What _reader sees. *)
ReadView == IF oneClient THEN writer ELSE reader

(* The replica catches up. *)
Replicate ==
    /\ ~oneClient /\ reader # writer
    /\ reader' = writer
    /\ UNCHANGED <<oneClient, writer, cooker, job, calls, processed, contended, repeated>>

-----------------------------------------------------------------------------
(* ReadinessCookerClient *)

Scanning(j) == job[j].pc \in {"scan", "exists", "get"}

(* Ghost: what is stored of batch e is new to the scans in progress. *)
Moves(e) == job' = [j \in Jobs |-> IF Scanning(j) THEN [job[j] EXCEPT !.moved = @ \union {e}]
                                                 ELSE job[j]]

(* record_info reads the info first.  One without error from the last       *)
(* minute ends the call here; how old an info is, is left open.             *)
BeginInfo(c, e) ==
    /\ cooker[c].pc = "idle" /\ calls.infos < MaxInfos
    /\ cooker' = [cooker EXCEPT ![c] = [pc |-> "info", epoch |-> e, seen |-> ReadView.info[e]]]
    /\ calls' = [calls EXCEPT !.infos = @ + 1]
    /\ UNCHANGED <<oneClient, writer, reader, job, processed, contended, repeated>>

(* ','.join(active) in the hash, and Info's split(',') of it. *)
Split(active) == IF active = {} THEN {NoShard} ELSE active

(* get_stream_shards: the shards without an end; none if Kinesis refuses    *)
(* to tell, at whatever page of them.                                       *)
Described == SUBSET Shards

(* The stream is described; no shards are an error, and do not replace an   *)
(* info without one, as far as this cooker has seen.                        *)
StoreInfo(c) ==
    /\ cooker[c].pc = "info"
    /\ \E active \in Described :
         LET e == cooker[c].epoch
             seen == cooker[c].seen
             keep == active = {} /\ seen # None /\ ~seen.error
             info == [shards |-> Split(active), error |-> active = {},
                      start |-> IF e < BatchSecs THEN 0 ELSE e - BatchSecs]
         IN  writer' = IF keep THEN writer ELSE [writer EXCEPT !.info[e] = info]
    /\ Moves(cooker[c].epoch)
    /\ cooker' = [cooker EXCEPT ![c] = Idle]
    /\ UNCHANGED <<oneClient, reader, calls, processed, contended, repeated>>

Recording(c, k) == cooker[c].pc = "count" /\ cooker[c].key = k

(* get_processed_count and its siblings. *)
CountOrZero(count) == IF count = None THEN 0 ELSE count

(* The first half of record_processed, record_commercial_processed and      *)
(* record_tv_count: the count so far.                                       *)
BeginCount(c, k, n) ==
    /\ cooker[c].pc = "idle" /\ calls.records < MaxRecords
    /\ cooker' = [cooker EXCEPT ![c] = [pc |-> "count", key |-> k, amount |-> n,
                                         previous |-> CountOrZero(ReadView.count[k])]]
    /\ contended' = IF \E d \in Cookers \ {c} : Recording(d, k)
                      THEN contended \union {k} ELSE contended
    /\ calls' = [calls EXCEPT !.records = @ + 1]
    /\ UNCHANGED <<oneClient, writer, reader, job, processed, repeated>>

(* A mistake the properties must expose: the sum is added, not set.         *)
NewCountAdded(now, sum) == sum + CountOrZero(now)

(* SET replaces whatever is there now. *)
NewCount(now, sum) == sum

(* The second half: the sum is set on the primary. *)
StoreCount(c) ==
    /\ cooker[c].pc = "count"
    /\ LET k == cooker[c].key
           sum == cooker[c].previous + cooker[c].amount
       IN  /\ writer' = [writer EXCEPT !.count[k] = NewCount(@, sum)]
           /\ processed' = [processed EXCEPT ![k] = @ + cooker[c].amount]
           /\ Moves(k[2])
    /\ cooker' = [cooker EXCEPT ![c] = Idle]
    /\ UNCHANGED <<oneClient, reader, calls, contended, repeated>>

-----------------------------------------------------------------------------
(* ReadinessReportClient *)

Begin(j, call) ==
    /\ job[j].pc = "idle" /\ calls.jobs < MaxCalls
    /\ job' = [job EXCEPT ![j] = call]
    /\ calls' = [calls EXCEPT !.jobs = @ + 1]
    /\ UNCHANGED <<oneClient, writer, reader, cooker, processed, contended, repeated>>

Proceed(j, call) == job' = [job EXCEPT ![j] = call]
Answer(j, answer) == Proceed(j, NoJob(answer))

OnlyReads == UNCHANGED <<oneClient, writer, reader, cooker, calls, processed, contended, repeated>>
OnlyWrites == UNCHANGED <<oneClient, reader, cooker, calls, processed, contended, repeated>>

Reports(db, k) == k \in Keys /\ db.count[k] # None

(* all_shards_reporting of a report with that info: a count for each shard. *)
AllShardsReporting(db, e, info) == \A s \in info.shards : Reports(db, <<"records", e, s>>)

Overlaps(j, start, e) == job[j].start < e /\ start < job[j].end

-----------------------------------------------------------------------------
(* is_ready *)

Marked(db) == {e \in Epochs : db.watermark[e] # None}
Recorded(db) == {e \in Epochs : \E s \in Shards : Reports(db, <<"records", e, s>>)}

BeginIsReady(j, start, end) == Begin(j, [pc |-> "watermark", start |-> start, end |-> end])

(* _is_ready_watermark_single: a watermark of the batch that ends the range,*)
(* and an info that says the range is that batch; else _get_reports.        *)
CheckWatermark(j) ==
    /\ job[j].pc = "watermark"
    /\ Proceed(j, [job[j] EXCEPT !.pc = IF job[j].end \in Marked(ReadView) THEN "info"
                                                                           ELSE "reports"])
    /\ OnlyReads

CheckInfo(j) ==
    /\ job[j].pc = "info"
    /\ IF ReadView.info[job[j].end] # None /\ BatchSecs = job[j].end - job[j].start
         THEN Answer(j, "ready")
         ELSE Proceed(j, [job[j] EXCEPT !.pc = "reports"])
    /\ OnlyReads

(* _get_reports scans the watermarks first: todo are those the scan is sure *)
(* to return, unless they go meanwhile.                                     *)
ScanMarks(j) ==
    /\ job[j].pc = "reports"
    /\ Proceed(j, [pc |-> "marks", start |-> job[j].start, end |-> job[j].end,
                   todo |-> Marked(ReadView), batch |-> None])
    /\ OnlyReads

(* A watermark without its fields, or none any more, is to be deleted. *)
Invalid(j, e, mark) ==
    /\ e > job[j].start
    /\ mark # None => Overlaps(j, mark.start, e) /\ None \in {mark.records, mark.tvs}

(* ReportSummary, which has six fields, is made of five: a TypeError. *)
Summarised(j, e, mark) ==
    mark # None /\ Overlaps(j, mark.start, e) /\ None \notin {mark.records, mark.tvs}

(* The scan returns a watermark, perhaps one that came meanwhile or for the *)
(* second time, and it is read: one that is gone by now reads as empty.     *)
ReadMark(j) ==
    /\ job[j].pc = "marks"
    /\ \E e \in job[j].todo \union Marked(ReadView) :
         LET mark == ReadView.watermark[e]
             rest == [job[j] EXCEPT !.todo = @ \ {e}]
         IN  CASE Invalid(j, e, mark) -> Proceed(j, [rest EXCEPT !.pc = "delete", !.batch = e])
               [] Summarised(j, e, mark) -> Answer(j, "raised")
               [] OTHER -> Proceed(j, rest)
    /\ OnlyReads

(* By now it may be complete. *)
DeleteMark(j) ==
    /\ job[j].pc = "delete"
    /\ writer' = [writer EXCEPT !.watermark[job[j].batch] = None]
    /\ Proceed(j, [job[j] EXCEPT !.pc = "marks", !.batch = None])
    /\ OnlyWrites

(* Then the counts, in the same way.                                        *)
ScanCounts(j) ==
    /\ job[j].pc = "marks" /\ job[j].todo \intersect Marked(ReadView) = {}
    /\ Proceed(j, [pc |-> "counts", start |-> job[j].start, end |-> job[j].end,
                   todo |-> Recorded(ReadView)])
    /\ OnlyReads

(* report() reads the info, and then the counts of its shards at once.      *)
ReadInfo(j) ==
    /\ job[j].pc = "counts"
    /\ \E e \in Recorded(ReadView) :
         LET info == ReadView.info[e]
             call == [pc |-> "shards", start |-> job[j].start, end |-> job[j].end,
                      todo |-> job[j].todo \ {e}, batch |-> e, info |-> info]
         IN  IF job[j].start < e /\ info # None
               THEN Proceed(j, call)
               ELSE Proceed(j, [job[j] EXCEPT !.todo = @ \ {e}])
    /\ OnlyReads

(* Of a complete batch, again, there is no ReportSummary. *)
CheckShards(j) ==
    /\ job[j].pc = "shards"
    /\ LET e == job[j].batch
           info == job[j].info
       IN  IF AllShardsReporting(ReadView, e, info) /\ Overlaps(j, info.start, e)
             THEN Answer(j, "raised")
             ELSE Proceed(j, [pc |-> "counts", start |-> job[j].start, end |-> job[j].end,
                              todo |-> job[j].todo])
    /\ OnlyReads

(* Without a summary the range is not complete. *)
AnswerNotReady(j) ==
    /\ job[j].pc = "counts" /\ job[j].todo = {}
    /\ Answer(j, "not_ready")
    /\ OnlyReads

-----------------------------------------------------------------------------
(* set_reported *)

(* The keys of a range it looks at. *)
Countable(db, start, end) ==
    {k \in Keys : k[1] \in {"records", "tvs"} /\ start < k[2] /\ k[2] <= end /\ Reports(db, k)}

NoMaps == [e \in Epochs |-> None]

(* maps: output_maps; added: ghost, the keys whose counts are in them;      *)
(* moved: ghost, the batches something was stored of since the scan began.  *)
BeginSetReported(j, start, end) ==
    Begin(j, [pc |-> "scan", start |-> start, end |-> end,
              todo |-> Countable(ReadView, start, end), key |-> None, from |-> None,
              maps |-> NoMaps, added |-> {}, moved |-> {}])

(* The scan returns a key, perhaps for the second time, and the info of its *)
(* batch is read.                                                           *)
ReturnKey(j) ==
    /\ job[j].pc = "scan"
    /\ \E k \in Countable(ReadView, job[j].start, job[j].end) :
         LET info == ReadView.info[k[2]]
             rest == [job[j] EXCEPT !.todo = @ \ {k}]
             again == k \in job[j].added
         IN  /\ again => calls.repeats < MaxRepeats
             /\ IF info # None /\ info.start < job[j].end
                  THEN Proceed(j, [rest EXCEPT !.pc = "exists", !.key = k, !.from = info.start])
                  ELSE Proceed(j, rest)
             /\ calls' = IF again THEN [calls EXCEPT !.repeats = @ + 1] ELSE calls
             /\ repeated' = IF again THEN repeated \union {k[2]} ELSE repeated
    /\ UNCHANGED <<oneClient, writer, reader, cooker, processed, contended>>

(* One watermark among them, and none is written. *)
CheckExists(j) ==
    /\ job[j].pc = "exists"
    /\ IF job[j].key[2] \in Marked(ReadView)
         THEN Answer(j, "exists")
         ELSE Proceed(j, [job[j] EXCEPT !.pc = "get"])
    /\ OnlyReads

(* A mistake the properties must expose: the last count is kept, not added. *)
LastCount(field, n) == n

Plus(field, n) == IF field = None THEN n ELSE field + n

(* hash_map[output_field] += count, of a hash map that may have to be made. *)
AddedTo(map, k, from, n) ==
    LET old == IF map = None THEN [start |-> from, records |-> None, tvs |-> None] ELSE map
    IN  IF k[1] = "records" THEN [old EXCEPT !.records = Plus(@, n)]
                            ELSE [old EXCEPT !.tvs = Plus(@, n)]

AddCount(j) ==
    /\ job[j].pc = "get"
    /\ LET k == job[j].key
       IN  Proceed(j, [job[j] EXCEPT
                         !.maps[k[2]] = AddedTo(@, k, job[j].from, ReadView.count[k]),
                         !.added = @ \union {k}, !.pc = "scan", !.key = None, !.from = None])
    /\ OnlyReads

(* HMSET leaves the fields alone it does not name. *)
Merge(old, new) ==
    IF old = None THEN new
    ELSE [f \in DOMAIN new |-> IF new[f] = None THEN old[f] ELSE new[f]]

(* The pipeline: the watermarks are written in one transaction. *)
WriteWatermarks(j) ==
    /\ job[j].pc = "scan" /\ job[j].todo = {}
    /\ writer' = [writer EXCEPT !.watermark =
                    [e \in Epochs |-> IF job[j].maps[e] # None THEN Merge(@[e], job[j].maps[e])
                                                               ELSE @[e]]]
    /\ Answer(j, "reported")
    /\ OnlyWrites

-----------------------------------------------------------------------------

Cook(c) ==
    \/ \E e \in Epochs : BeginInfo(c, e)
    \/ StoreInfo(c)
    \/ \E k \in Keys, n \in Amounts : BeginCount(c, k, n)
    \/ StoreCount(c)

IsReady(j) ==
    \/ \E r \in Ranges : BeginIsReady(j, r[1], r[2])
    \/ CheckWatermark(j) \/ CheckInfo(j)
    \/ ScanMarks(j) \/ ReadMark(j) \/ DeleteMark(j)
    \/ ScanCounts(j) \/ ReadInfo(j) \/ CheckShards(j) \/ AnswerNotReady(j)

SetReported(j) ==
    \/ \E r \in Ranges : BeginSetReported(j, r[1], r[2])
    \/ ReturnKey(j) \/ CheckExists(j) \/ AddCount(j) \/ WriteWatermarks(j)

Next ==
    \/ Replicate
    \/ \E c \in Cookers : Cook(c)
    \/ \E j \in Jobs : IsReady(j) \/ SetReported(j)

Spec == Init /\ [][Next]_vars

-----------------------------------------------------------------------------
(* Properties *)

Databases ==
    [info : [Epochs -> Infos \union {None}], count : [Keys -> Fields],
     watermark : [Epochs -> Watermarks \union {None}]]

(* Every variable keeps its type. *)
TypeOK ==
    /\ oneClient \in BOOLEAN
    /\ writer \in Databases /\ reader \in Databases
    /\ DOMAIN cooker = Cookers /\ DOMAIN job = Jobs
    /\ calls \in [infos : 0..MaxInfos, records : 0..MaxRecords, jobs : 0..MaxCalls,
                  repeats : 0..MaxRepeats]
    /\ processed \in [Keys -> Nat]
    /\ contended \subseteq Keys /\ repeated \subseteq Epochs

(* The sum of the counts of some shards: how many units they have.  Without *)
(* recursion, so that the provers can compare two sums by inclusion.        *)
Units(count, kind, e, shards) ==
    UNION {{s} \X (1..count[<<kind, e, s>>]) : s \in shards}
Sum(count, kind, e, shards) == Cardinality(Units(count, kind, e, shards))

AtMost(n, bound) == n = None \/ n <= bound
ProcessedOf(kind, e) == Sum(processed, kind, e, Shards)

NoMoreThanRecorded(e) ==
    \A db \in {writer, reader} : db.watermark[e] # None =>
        /\ AtMost(db.watermark[e].records, ProcessedOf("records", e))
        /\ AtMost(db.watermark[e].tvs, ProcessedOf("tvs", e))

(* Nothing is counted twice, whatever replica lag, overlapping cookers and  *)
(* racing jobs do: no count is above what the cookers recorded for its key, *)
(* and no watermark above what they recorded for its batch, unless it was   *)
(* Redis that returned a key twice to a scan.                               *)
NothingCountedTwice ==
    /\ \A db \in {writer, reader}, k \in Keys : AtMost(db.count[k], processed[k])
    /\ \A e \in Epochs \ repeated : NoMoreThanRecorded(e)

(* With one client, and no two cookers recording a key at a time, nothing   *)
(* is lost either.                                                          *)
NothingLostAlone ==
    oneClient => \A k \in Keys \ contended :
        writer.count[k] # None \/ processed[k] # 0 => writer.count[k] = processed[k]

(* Nothing was stored of the batch since the scan began; and what came      *)
(* before was neither contended for nor returned twice.                     *)
Settled(j, e) ==
    e \notin job[j].moved \union repeated /\ \A k \in contended : k[2] # e

(* With one client, set_reported writes of a batch exactly what the cookers *)
(* recorded for it, if they were done with it when the scan began: whatever *)
(* is recorded of other batches meanwhile, and however many jobs summarise, *)
(* delete and write the same watermarks beside it.                          *)
SettledBatchIsSummarised ==
    [][\A j \in Jobs : oneClient /\ WriteWatermarks(j) =>
         \A e \in Epochs : job[j].maps[e] # None /\ Settled(j, e) =>
           /\ CountOrZero(writer'.watermark[e].records) = ProcessedOf("records", e)
           /\ CountOrZero(writer'.watermark[e].tvs) = ProcessedOf("tvs", e)]_vars

-----------------------------------------------------------------------------
(* What the tests and comments say and the code does not do *)

(* test_ready_watermark and test_ready_processed: a range that is complete  *)
(* is found to be so.  It is never answered with an exception.              *)
CompleteRangeIsAnswered == \A j \in Jobs : job[j].pc = "idle" => job[j].answer # "raised"

(* set_reported: a key "with properties that summarize the group".  It does *)
(* not count anything twice.                                                *)
WatermarkSummarises == \A e \in Epochs : NoMoreThanRecorded(e)

HasBoth(w) == w # None /\ w.records # None /\ w.tvs # None

(* _get_reports: "field invalid, deleting/skipping".  What it deletes lacks *)
(* a field, with one client, so that it has not read an old one.            *)
OnlyInvalidDeleted ==
    [][\A j \in Jobs : oneClient /\ DeleteMark(j) =>
         ~HasBoth(writer.watermark[job[j].batch])]_vars
=============================================================================
