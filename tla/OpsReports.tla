----------------------------- MODULE OpsReports -----------------------------
(***************************************************************************)
(* What the reports of a pod promise: the metrics, the recent errors, the  *)
(* percentiles and the drain mode, said of the requests that were handled. *)
(* OpsSurface is the machine that keeps these promises.                    *)
(***************************************************************************)
EXTENDS Integers, Sequences, FiniteSets

CONSTANTS Requests,     \* the requests of a behaviour
          MaxRecent,    \* _MAX_RECENT_ERRORS
          Window,       \* maxlen of _request_latencies
          Sizes         \* sizes of a sample the percentiles are considered for

VARIABLES call,             \* what each request asks for
          phase,            \* how far it has come
          answer,           \* what its handler returned
          recent,           \* _recent_errors
          requestCount,     \* _request_count
          errorCount,       \* _error_count
          latencies,        \* Len(_request_latencies)
          handled           \* ghost: the requests handled in this life, in order

-----------------------------------------------------------------------------
(* The metrics *)

In(phases) == {r \in Requests : phase[r] \in phases}

HandledSet == {handled[i] : i \in 1..Len(handled)}

(* An exception leaves the handler of this request (ops_drain, ops_loglevel *)
(* on JSON that is no object): the client is answered 500 by the server.    *)
Raises(r) == call[r].body = "not_object"

(* Handled, returned by the handler, and past metrics_middleware.           *)
PastMetrics == {r \in HandledSet : ~Raises(r) /\ phase[r] # "answered"}

(* Of the requests handled in this life those whose handler returned are    *)
(* counted, each once, when they have left the middleware, and as an error  *)
(* exactly if the answer is a 5xx; a 500 that is an escaped exception is in *)
(* no counter at all.                                                       *)
CountersMatchAnswers ==
    /\ requestCount = Cardinality(PastMetrics)
    /\ errorCount = Cardinality({r \in PastMetrics : answer[r].code >= 500})
    /\ latencies = IF requestCount < Window THEN requestCount ELSE Window

(* The requests whose handler recorded an error in this life. *)
Erred ==
    {handled[k] : k \in {i \in 1..Len(handled) : /\ call[handled[i]].path = "/"
                                                 /\ call[handled[i]].body # "bad_json"
                                                 /\ answer[handled[i]].code # 200}}

Shown == {recent[i].message : i \in 1..Len(recent)}

Before(seq, r, s) ==
    \E i, j \in 1..Len(seq) : i < j /\ seq[i] = r /\ seq[j] = s

(* /ops/errors shows errors only, in the order in which they came, and the  *)
(* latest: what it does not show came earlier, and the buffer is full.      *)
RecentErrorsAreLatest ==
    /\ Len(recent) <= MaxRecent
    /\ Shown \subseteq Erred
    /\ \A i, j \in 1..Len(recent) : i < j =>
         Before(handled, recent[i].message, recent[j].message)
    /\ \A r \in Erred \ Shown : Len(recent) = MaxRecent /\ Before(handled, r, recent[1].message)

(* A mistake the properties must expose: the index taken for a rank, which  *)
(* starts at one.                                                           *)
RankOfIndex(n, pct) == IF n = 0 THEN 0 ELSE (n * pct) \div 100

(* _percentile: which of n sorted latencies it takes, none of an empty list *)
Rank(n, pct) ==
    IF n = 0 THEN 0
    ELSE LET idx == (n * pct) \div 100 IN 1 + IF idx < n THEN idx ELSE n - 1

(* The latency reported as a percentile is the first one that more than so  *)
(* many percent of the sample do not exceed.                                *)
RankCovers(n, pct) ==
    /\ Rank(n, pct) \in 1..n
    /\ Rank(n, pct) * 100 > pct * n
    /\ (Rank(n, pct) - 1) * 100 <= pct * n

Percentiles == {50, 95, 99}
LargeSamplesCover == \A n \in Sizes, pct \in Percentiles : RankCovers(n, pct)
PercentilesCover ==
    LargeSamplesCover /\ (latencies > 0 => \A pct \in Percentiles : RankCovers(latencies, pct))

(* What /ops/metrics and /ops/errors report is what the handlers returned.  *)
MetricsMatchAnswers ==
    CountersMatchAnswers /\ RecentErrorsAreLatest /\ PercentilesCover

-----------------------------------------------------------------------------
(* Drain mode *)

(* The last drain request before position i that was carried out asked for  *)
(* drain; one that failed, for whatever reason, does not count.             *)
DrainingAt(i) ==
    \E j \in 1..(i - 1) :
        /\ call[handled[j]].path = "/ops/drain"
        /\ call[handled[j]].body \in {"on", "empty"}
        /\ \A k \in (j + 1)..(i - 1) :
             call[handled[k]].path = "/ops/drain" =>
                 call[handled[k]].body # "off"

(* From the moment a drain request is carried out until it is taken back or *)
(* the process dies, every /health is 503 and every /ops/status verdict is  *)
(* "unhealthy"; and nothing else makes a verdict "unhealthy".               *)
DrainIsObeyed ==
    \A i \in 1..Len(handled) :
        LET r == handled[i] IN
        /\ call[r].path = "/health" /\ DrainingAt(i) => answer[r].code = 503
        /\ call[r].path = "/ops/status" =>
             (answer[r].verdict = "unhealthy" <=> DrainingAt(i))

-----------------------------------------------------------------------------
(* What the documents say and the code does not do *)

(* routes.py: "Health checks return 503 when draining", and /status is the  *)
(* "Health check endpoint" the probes call.                                 *)
HealthChecksFailWhenDraining ==
    \A i \in 1..Len(handled) :
        call[handled[i]].path \in {"/health", "/status"} /\ DrainingAt(i)
          => answer[handled[i]].code = 503

(* routes.py: metrics_middleware is "to collect Golden Signals / RED        *)
(* metrics for every request".  Once nobody is on its way out, every        *)
(* request handled in this life is in the count.                            *)
EveryRequestIsCounted == In({"answered"}) = {} => requestCount = Len(handled)
=============================================================================
