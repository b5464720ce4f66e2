----------------------------- MODULE OpsSurface -----------------------------
(***************************************************************************)
(* What one pod tells its operators: the middlewares, the in-process       *)
(* metrics, the buffer of recent errors, drain mode, and the endpoints     *)
(* that read and change them (src/src/app/routes.py).                      *)
(*                                                                         *)
(* A request gives the event loop up on its way in through the two         *)
(* middlewares, where a handler awaits its body, and on its way out, when  *)
(* metrics_middleware resumes after call_next.  Handlers do not await      *)
(* otherwise, so the state changes in three steps per request: Arrive,     *)
(* Handle, Count.  Other requests come in between.                         *)
(***************************************************************************)
EXTENDS OpsReports

CONSTANTS Calls,        \* what they can ask for: see AllCalls
          MaxErrorRate, \* the 10.0 of ops_status, in percent
          MaxCrashes,   \* bound: times the process dies in a behaviour
          NoCall        \* the request has not come in

Call(path, bodies) == {[path |-> path, body |-> b] : b \in bodies}

(* The endpoints, and the bodies their handlers tell apart.  "read" stands  *)
(* for the endpoints that only report: /status has its own place because    *)
(* the probes call it.  "not_object" is a body that is JSON and has no get  *)
(* (for /ops/loglevel also one whose level has no upper).                   *)
AllCalls ==
    Call("/", {"bad_json", "invalid", "broken", "good"})
    \union Call("/ops/drain", {"bad_json", "not_object", "on", "off", "empty"})
    \union Call("/ops/loglevel", {"bad_json", "not_object", "unknown", "DEBUG", "ERROR"})
    \union Call("/ops/cache/refresh", {"none"})
    \union Call("/health", {"none"}) \union Call("/status", {"none"})
    \union Call("/ops/status", {"none"}) \union Call("/ops/health", {"none"})
    \union Call("read", {"none"})

ASSUME OpsAssumption ==
    /\ Calls \subseteq AllCalls /\ NoCall \notin AllCalls
    /\ MaxRecent \in Nat \ {0} /\ Window \in Nat \ {0} /\ MaxCrashes \in Nat
    /\ MaxErrorRate \in 0..100 /\ Sizes \subseteq Nat \ {0}

VARIABLES rdsUp, kafkaUp,   \* external: the dependencies answer
          drain,            \* _drain_mode, as the truth value it is used as
          logLevel,         \* of the root logger
          crashes           \* times the process has died

vars == <<rdsUp, kafkaUp, call, phase, answer, drain, logLevel, recent,
          requestCount, errorCount, latencies, crashes, handled>>

external == <<rdsUp, kafkaUp>>
metrics == <<requestCount, errorCount, latencies>>

-----------------------------------------------------------------------------
(* Data *)

Phases == {"new", "reading", "answered", "counted", "escaped", "gone"}
Verdicts == {"none", "healthy", "degraded", "unhealthy"}
Codes == {200, 400, 500, 503}

Answer(code, verdict) == [code |-> code, verdict |-> verdict]
Plain(code) == Answer(code, "none")
NoAnswer == Answer(500, "none")      \* what uvicorn says of an escaped exception

(* A mistake the properties must expose: a full buffer takes no more.       *)
RecordErrorUntilFull(type, r) ==
    IF Len(recent) < MaxRecent THEN Append(recent, [type |-> type, message |-> r])
                               ELSE recent

(* _record_error: append, and drop the oldest beyond the cap. *)
RecordError(type, r) ==
    LET all == Append(recent, [type |-> type, message |-> r])
    IN  IF Len(all) > MaxRecent THEN Tail(all) ELSE all

DepsOk == rdsUp /\ kafkaUp

(* error_rate > 10.0, with the guard against no requests at all *)
ErrorRateHigh == requestCount > 0 /\ errorCount * 100 > MaxErrorRate * requestCount

ComputeVerdict ==
    IF drain THEN "unhealthy"
    ELSE IF ~DepsOk \/ ErrorRateHigh THEN "degraded" ELSE "healthy"

Init ==
    /\ rdsUp \in BOOLEAN /\ kafkaUp \in BOOLEAN
    /\ call = [r \in Requests |-> NoCall]
    /\ phase = [r \in Requests |-> "new"]
    /\ answer = [r \in Requests |-> NoAnswer]
    /\ drain = FALSE /\ logLevel = "WARNING"
    /\ recent = << >>
    /\ requestCount = 0 /\ errorCount = 0 /\ latencies = 0
    /\ crashes = 0 /\ handled = << >>

-----------------------------------------------------------------------------
(* The middlewares *)

(* log_request_middleware logs the request, or skips it, and passes it on;  *)
(* metrics_middleware takes the time and passes it on.                      *)
Arrive(r) ==
    /\ phase[r] = "new"
    /\ \E c \in Calls : call' = [call EXCEPT ![r] = c]
    /\ phase' = [phase EXCEPT ![r] = "reading"]
    /\ UNCHANGED <<external, answer, drain, logLevel, recent, metrics, crashes,
                   handled>>

(* A mistake the properties must expose: every 4xx counted as an error.     *)
CountClientErrors(r) ==
    /\ phase[r] = "answered"
    /\ phase' = [phase EXCEPT ![r] = "counted"]
    /\ requestCount' = requestCount + 1
    /\ errorCount' = IF answer[r].code >= 400 THEN errorCount + 1 ELSE errorCount
    /\ latencies' = IF latencies < Window THEN latencies + 1 ELSE Window
    /\ UNCHANGED <<external, call, answer, drain, logLevel, recent, crashes,
                   handled>>

(* metrics_middleware after call_next has returned a response. *)
Count(r) ==
    /\ phase[r] = "answered"
    /\ phase' = [phase EXCEPT ![r] = "counted"]
    /\ requestCount' = requestCount + 1
    /\ errorCount' = IF answer[r].code >= 500 THEN errorCount + 1 ELSE errorCount
    /\ latencies' = IF latencies < Window THEN latencies + 1 ELSE Window
    /\ UNCHANGED <<external, call, answer, drain, logLevel, recent, crashes,
                   handled>>

-----------------------------------------------------------------------------
(* The handlers *)

Returns(r, a) ==
    /\ phase' = [phase EXCEPT ![r] = "answered"]
    /\ answer' = [answer EXCEPT ![r] = a]

(* An exception a handler does not catch passes metrics_middleware before   *)
(* the lines that count.                                                    *)
Escapes(r) ==
    /\ phase' = [phase EXCEPT ![r] = "escaped"]
    /\ UNCHANGED answer

Handling(r, path) ==
    /\ phase[r] = "reading" /\ call[r].path = path
    /\ handled' = Append(handled, r)
    /\ UNCHANGED <<external, call, metrics, crashes>>

(* POST /: a body that is no JSON is answered before anything is recorded.  *)
SendRequest(r) ==
    /\ Handling(r, "/")
    /\ \/ /\ call[r].body = "bad_json"
          /\ Returns(r, Plain(400)) /\ UNCHANGED recent
       \/ /\ call[r].body = "invalid"
          /\ Returns(r, Plain(400))
          /\ recent' = RecordError("TvEventsDefaultError", r)
       \/ /\ call[r].body = "broken" \/ (call[r].body = "good" /\ ~kafkaUp)
          /\ Returns(r, Plain(500))
          /\ recent' = RecordError("TvEventsCatchallError", r)
       \/ /\ call[r].body = "good" /\ kafkaUp
          /\ Returns(r, Plain(200)) /\ UNCHANGED recent
    /\ UNCHANGED <<drain, logLevel>>

(* A mistake the properties must expose: any answer but 200 switches drain  *)
(* mode off, because the flag is set before the body is looked at.          *)
OpsDrainEarly(r) ==
    /\ Handling(r, "/ops/drain")
    /\ IF call[r].body = "not_object" THEN Escapes(r)
       ELSE Returns(r, Plain(IF call[r].body = "bad_json" THEN 400 ELSE 200))
    /\ drain' = (call[r].body \in {"on", "empty"})
    /\ UNCHANGED <<logLevel, recent>>

(* POST /ops/drain: body.get("enabled", True); a body that is JSON but no   *)
(* object has no get.                                                       *)
OpsDrain(r) ==
    /\ Handling(r, "/ops/drain")
    /\ \/ /\ call[r].body = "bad_json"
          /\ Returns(r, Plain(400)) /\ UNCHANGED drain
       \/ /\ call[r].body = "not_object"
          /\ Escapes(r) /\ UNCHANGED drain
       \/ /\ call[r].body \in {"on", "off", "empty"}
          /\ Returns(r, Plain(200))
          /\ drain' = (call[r].body # "off")
    /\ UNCHANGED <<logLevel, recent>>

OpsLoglevel(r) ==
    /\ Handling(r, "/ops/loglevel")
    /\ \/ /\ call[r].body \in {"bad_json", "unknown"}
          /\ Returns(r, Plain(400)) /\ UNCHANGED logLevel
       \/ /\ call[r].body = "not_object"
          /\ Escapes(r) /\ UNCHANGED logLevel
       \/ /\ call[r].body \in {"DEBUG", "ERROR"}
          /\ Returns(r, Plain(200))
          /\ logLevel' = call[r].body
    /\ UNCHANGED <<drain, recent>>

(* POST /ops/cache/refresh and /ops/cache/flush: 500 when RDS is down or    *)
(* the table is empty.                                                      *)
OpsCacheRefresh(r) ==
    /\ Handling(r, "/ops/cache/refresh")
    /\ \E code \in {200, 500} :
         /\ code = 200 => rdsUp
         /\ Returns(r, Plain(code))
    /\ UNCHANGED <<drain, logLevel, recent>>

Health(r) ==
    /\ Handling(r, "/health")
    /\ Returns(r, Plain(IF drain \/ ~DepsOk THEN 503 ELSE 200))
    /\ UNCHANGED <<drain, logLevel, recent>>

OpsStatus(r) ==
    /\ Handling(r, "/ops/status")
    /\ Returns(r, Answer(200, ComputeVerdict))
    /\ UNCHANGED <<drain, logLevel, recent>>

OpsHealth(r) ==
    /\ Handling(r, "/ops/health")
    /\ Returns(r, Answer(200, IF DepsOk THEN "healthy" ELSE "degraded"))
    /\ UNCHANGED <<drain, logLevel, recent>>

(* What the chart's probes call. *)
Status(r) ==
    /\ Handling(r, "/status")
    /\ Returns(r, Plain(200))
    /\ UNCHANGED <<drain, logLevel, recent>>

(* The endpoints that answer 200 with a report: /ops/config, dependencies,  *)
(* cache, errors, metrics, circuits, scale.                                 *)
Report(r) ==
    /\ Handling(r, "read")
    /\ Returns(r, Plain(200))
    /\ UNCHANGED <<drain, logLevel, recent>>

Handle(r) ==
    \/ SendRequest(r) \/ OpsDrain(r) \/ OpsLoglevel(r) \/ OpsCacheRefresh(r)
    \/ Health(r) \/ OpsStatus(r) \/ OpsHealth(r) \/ Status(r)
    \/ Report(r)

-----------------------------------------------------------------------------
(* The world outside *)

DependencyToggles ==
    /\ \/ rdsUp' = ~rdsUp /\ UNCHANGED kafkaUp
       \/ kafkaUp' = ~kafkaUp /\ UNCHANGED rdsUp
    /\ UNCHANGED <<call, phase, answer, drain, logLevel, recent, metrics, crashes,
                   handled>>

(* All of this is module state: a new process starts from nothing. *)
Crash ==
    /\ crashes < MaxCrashes
    /\ crashes' = crashes + 1
    /\ phase' = [r \in Requests |-> IF phase[r] = "new" THEN "new" ELSE "gone"]
    /\ drain' = FALSE /\ logLevel' = "WARNING"
    /\ recent' = << >>
    /\ requestCount' = 0 /\ errorCount' = 0 /\ latencies' = 0
    /\ handled' = << >>
    /\ UNCHANGED <<external, call, answer>>

Next ==
    \/ \E r \in Requests : Arrive(r) \/ Handle(r) \/ Count(r)
    \/ DependencyToggles \/ Crash

Spec == Init /\ [][Next]_vars

-----------------------------------------------------------------------------
(* Properties *)

(* Every variable keeps its type. *)
TypeOK ==
    /\ rdsUp \in BOOLEAN /\ kafkaUp \in BOOLEAN
    /\ call \in [Requests -> Calls \union {NoCall}]
    /\ phase \in [Requests -> Phases]
    /\ answer \in [Requests -> [code : Codes, verdict : Verdicts]]
    /\ drain \in BOOLEAN /\ logLevel \in {"WARNING", "DEBUG", "ERROR"}
    /\ recent \in Seq([type : {"TvEventsDefaultError", "TvEventsCatchallError"},
                       message : Requests])
    /\ requestCount \in Nat
    /\ errorCount \in 0..requestCount
    /\ latencies \in 0..Window
    /\ crashes \in 0..MaxCrashes
    /\ handled \in Seq(Requests)
=============================================================================
