--------------------------- MODULE LegacyService ---------------------------
(***************************************************************************)
(* The service evergreen-tvevents was before the rebuild                   *)
(* (rebuild-inputs/evergreen-tvevents/repo): one container whose entrypoint *)
(* writes the blacklist to a file and then starts gunicorn with several    *)
(* worker processes.  Each worker caches the list on its own, from the     *)
(* file or else from RDS (dbhelper.py), and sends an event to its          *)
(* firehoses in parallel (utils.py) with the retries of cnlib's Firehose.  *)
(*                                                                         *)
(* A worker runs its requests as greenlets.  They give way in the puts,    *)
(* not while the list is loaded: files and psycopg2 block the process.     *)
(***************************************************************************)
EXTENDS Integers, FiniteSets

CONSTANTS Workers,           \* gunicorn's worker processes
          Events,            \* the requests, one event each
          Channels,          \* the ids of channels
          NoChannel,         \* an event without ChannelId
          Situations,        \* settings and events: [active, debug, kind]
          UnavailableRetries,\* service_unavailable_retries
          RecordRetryLimit,  \* record_retry_limit
          MaxChanges,        \* bound: changes of the table
          MaxDeaths,         \* bound: deaths of a worker or of the container
          None,              \* no list, nobody
          Missing, Torn      \* a file that cannot be opened, or not be parsed

Outlets == {"evergreen", "legacy"}
Firehoses == Outlets \X {"main", "debug"}
Lists == SUBSET Channels
Initializer == "initializer"
Kinds == [channel : Channels \union {NoChannel}, blocked : BOOLEAN, valid : BOOLEAN]

ASSUME LegacyBounds ==
    /\ UnavailableRetries \in Nat \ {0} /\ RecordRetryLimit \in Nat \ {0}
    /\ MaxChanges \in Nat /\ MaxDeaths \in Nat
    /\ Initializer \notin Workers /\ NoChannel \notin Channels
    /\ Missing # Torn /\ \A list \in Lists : list \notin {None, Missing, Torn}
    /\ \A s \in Situations :
         /\ s.active \subseteq Outlets /\ s.debug \in BOOLEAN
         /\ DOMAIN s.kind \subseteq Events /\ \A e \in DOMAIN s.kind : s.kind[e] \in Kinds

VARIABLES active,    \* the outlets SEND_EVERGREEN and SEND_LEGACY enable
          debug,     \* TVEVENTS_DEBUG
          table,     \* external: the ids in the RDS table
          file,      \* BLACKLIST_CHANNEL_IDS_CACHE_FILEPATH
          memory,    \* _blacklisted_channel_ids, in each worker
          loader,    \* the load in progress, in each worker and at startup
          request,   \* how far the handler of each event has come
          sends,     \* the sends in progress of each event, per firehose
          delivered, \* external: the records the firehoses have taken
          budget,    \* changes and deaths so far
          initial,   \* ghost: the list the initializer has put in the file
          gaveUp     \* ghost: the sends that gave up

cache == <<table, file, memory, loader, budget, initial>>
traffic == <<sends, delivered, gaveUp>>
vars == <<active, debug, cache, request, traffic>>

Processes == Workers \union {Initializer}
Posted == DOMAIN request
Idle == [pc |-> "idle"]

Init ==
    /\ \E s \in Situations :
         /\ active = s.active /\ debug = s.debug
         /\ request = [e \in DOMAIN s.kind |-> [stage |-> "unsent", kind |-> s.kind[e]]]
    /\ table \in Lists
    /\ file = Missing
    /\ memory = [w \in Workers |-> None]
    /\ loader = [p \in Processes |-> IF p = Initializer THEN [pc |-> "fetch"] ELSE Idle]
    /\ sends = [e \in Posted |-> << >>]
    /\ delivered = [f \in Firehoses |-> {}]
    /\ budget = [changes |-> 0, deaths |-> 0]
    /\ initial = None
    /\ gaveUp = {}

-----------------------------------------------------------------------------
(* dbhelper.py: loading the list *)

Serving == loader[Initializer] = Idle

(* The load ends with a list in the memory of the process.  The initializer *)
(* is a process of its own, and takes its memory along.                     *)
Loaded(p, list) ==
    /\ loader' = [loader EXCEPT ![p] = Idle]
    /\ memory' = IF p = Initializer THEN memory ELSE [memory EXCEPT ![p] = list]

(* A mistake the properties must expose: RDS is asked before the file.      *)
ReadFileLast(w) ==
    /\ loader[w].pc = "read"
    /\ loader' = [loader EXCEPT ![w].pc = "fetch"]
    /\ UNCHANGED <<active, debug, table, file, memory, budget, initial, request, traffic>>

(* blacklisted_channel_ids, in a worker without a list: the file first.  A  *)
(* file that does not parse raises a ValueError, which ends the request.    *)
ReadFile(w) ==
    /\ loader[w].pc = "read"
    /\ CASE file = Missing ->
              /\ loader' = [loader EXCEPT ![w].pc = "fetch"]
              /\ UNCHANGED <<memory, request>>
         [] file = Torn ->
              /\ loader' = [loader EXCEPT ![w] = Idle]
              /\ request' = [request EXCEPT ![loader[w].for].stage = "rejected"]
              /\ UNCHANGED memory
         [] OTHER -> Loaded(w, file) /\ UNCHANGED request
    /\ UNCHANGED <<active, debug, table, file, budget, initial, traffic>>

(* _connect and _execute: [] for an empty table and for any failure.        *)
Rows == {table, {}}

(* Without rows a worker's list is empty; in the initializer                *)
(* initialize_blacklisted_channel_ids_cache raises, and the entrypoint      *)
(* continues without a file.                                                *)
Fetch(p) ==
    /\ loader[p].pc = "fetch"
    /\ \E rows \in Rows :
         IF rows = {} THEN Loaded(p, {})
         ELSE /\ loader' = [loader EXCEPT ![p] = [pc |-> "open", list |-> rows]]
              /\ UNCHANGED memory
    /\ UNCHANGED <<active, debug, table, file, budget, initial, request, traffic>>

(* store_data_in_channel_ids_cache: open truncates; an IOError is swallowed *)
OpenFile(p) ==
    /\ loader[p].pc = "open"
    /\ \/ /\ file' = Torn
          /\ loader' = [loader EXCEPT ![p].pc = "write"]
          /\ UNCHANGED memory
       \/ UNCHANGED file /\ Loaded(p, loader[p].list)
    /\ UNCHANGED <<active, debug, table, budget, initial, request, traffic>>

(* ... and so is one of the write.  Over a list that another process wrote  *)
(* after this one truncated, the end of a longer one may be left.           *)
WriteFile(p) ==
    /\ loader[p].pc = "write"
    /\ LET list == loader[p].list
           written == IF file \in {Torn, list} THEN {list} ELSE {list, Torn}
       IN  /\ file' \in written \union {file}
           /\ initial' = IF p = Initializer /\ file' = list THEN list ELSE initial
           /\ Loaded(p, list)
    /\ UNCHANGED <<active, debug, table, budget, request, traffic>>

-----------------------------------------------------------------------------
(* routes.py and utils.py: the handler of an event *)

(* The worker is not held up by a load. *)
Runs(e, stage) == request[e].stage = stage /\ loader[request[e].worker] = Idle

(* gunicorn hands the request to a worker. *)
Accept(e, w) ==
    /\ Serving /\ request[e].stage = "unsent"
    /\ request' = [request EXCEPT ![e] = [stage |-> "received", worker |-> w, kind |-> @.kind]]
    /\ UNCHANGED <<active, debug, cache, traffic>>

Queued(stage) == [f \in active \X {stage} |-> [pc |-> "queued"]]

(* The records go to the debug firehoses first if they are to be hidden and *)
(* debugging is on; else the main ones follow at once.                      *)
Deliver(e, hidden) ==
    LET stage == IF hidden /\ debug THEN "debug" ELSE "main"
    IN  /\ request' = [request EXCEPT ![e] = [stage |-> stage, worker |-> @.worker,
                                               kind |-> @.kind, hide |-> hidden,
                                               form |-> IF stage = "main" /\ hidden
                                                          THEN "hidden" ELSE "clear"]]
        /\ sends' = [sends EXCEPT ![e] = Queued(stage)]

Refuse(e) == request' = [request EXCEPT ![e].stage = "rejected"] /\ UNCHANGED sends

(* Content that is blocked needs no lookup. *)
LooksUp(kind) == kind.valid /\ ~kind.blocked /\ kind.channel # NoChannel

(* validate_request, generate_output_json and should_obfuscate_channel, up  *)
(* to a lookup in a worker that has no list yet.                            *)
Handle(e) ==
    /\ Runs(e, "received")
    /\ LET kind == request[e].kind
           list == memory[request[e].worker]
       IN  IF LooksUp(kind) /\ list = None
             THEN /\ loader' = [loader EXCEPT ![request[e].worker] = [pc |-> "read", for |-> e]]
                  /\ UNCHANGED <<request, sends>>
             ELSE /\ IF kind.valid
                       THEN Deliver(e, kind.blocked \/ (LooksUp(kind) /\ kind.channel \in list))
                       ELSE Refuse(e)
                  /\ UNCHANGED loader
    /\ UNCHANGED <<active, debug, table, file, memory, budget, initial, delivered, gaveUp>>

SendsOver(e) == sends[e] = << >>

(* A mistake the properties must expose: the executor is not waited for.    *)
OverwriteAtOnce(e) ==
    /\ Runs(e, "debug")
    /\ request' = [request EXCEPT ![e].stage = "main", ![e].form = "hidden"]
    /\ sends' = [sends EXCEPT ![e] =
                   [f \in DOMAIN @ \union (active \X {"main"}) |->
                      IF f \in DOMAIN @ THEN @[f] ELSE [pc |-> "queued"]]]
    /\ UNCHANGED <<active, debug, cache, delivered, gaveUp>>

(* The executor is left when all its sends are done: then the dict is       *)
(* overwritten, and sent to the main firehoses.                             *)
Overwrite(e) ==
    /\ Runs(e, "debug") /\ SendsOver(e)
    /\ request' = [request EXCEPT ![e].stage = "main", ![e].form = "hidden"]
    /\ sends' = [sends EXCEPT ![e] = Queued("main")]
    /\ UNCHANGED <<active, debug, cache, delivered, gaveUp>>

Answer(e) ==
    /\ Runs(e, "main") /\ SendsOver(e)
    /\ request' = [request EXCEPT ![e].stage = "ok"]
    /\ UNCHANGED <<active, debug, cache, traffic>>

-----------------------------------------------------------------------------
(* firehose.py: the sends, each in a thread of its own *)

Sending(e, f, pc) ==
    /\ f \in DOMAIN sends[e] /\ sends[e][f].pc = pc
    /\ loader[request[e].worker] = Idle

(* send: the dict is dumped when its thread comes to it. *)
StartSend(e, f) ==
    /\ Sending(e, f, "queued")
    /\ sends' = [sends EXCEPT ![e][f] = [pc |-> "put", form |-> request[e].form,
                                         retries |-> UnavailableRetries, failures |-> 0]]
    /\ UNCHANGED <<active, debug, cache, request, delivered, gaveUp>>

Finished(e, f) == [g \in DOMAIN sends[e] \ {f} |-> sends[e][g]]
Takes(e, f) == delivered' = [delivered EXCEPT ![f] = @ \union {<<e, sends[e][f].form>>}]

PutSucceeds(e, f) ==
    /\ Sending(e, f, "put")
    /\ Takes(e, f)
    /\ sends' = [sends EXCEPT ![e] = Finished(e, f)]
    /\ UNCHANGED <<active, debug, cache, request, gaveUp>>

(* A mistake the properties must expose: the first send that gives up       *)
(* cancels those beside it.                                                 *)
GiveUpAll(e, f) == sends' = [sends EXCEPT ![e] = << >>] /\ gaveUp' = gaveUp \union {<<e, f>>}

(* The exception of a send is logged, and the others go on. *)
GiveUp(e, f) ==
    /\ sends' = [sends EXCEPT ![e] = Finished(e, f)]
    /\ gaveUp' = gaveUp \union {<<e, f>>}

(* A mistake the properties must expose: nobody counts the failures.        *)
PutFailsUncounted(e, f) ==
    /\ Sending(e, f, "put")
    /\ sends' = [sends EXCEPT ![e][f].retries = UnavailableRetries]
    /\ UNCHANGED <<active, debug, cache, request, delivered, gaveUp>>

(* FailedPutCount: the record is put once more, with all the retries again, *)
(* until the limit.                                                         *)
PutFails(e, f) ==
    /\ Sending(e, f, "put")
    /\ LET failures == sends[e][f].failures + 1
       IN  IF failures >= RecordRetryLimit THEN GiveUp(e, f)
           ELSE /\ sends' = [sends EXCEPT ![e][f].failures = failures,
                                          ![e][f].retries = UnavailableRetries]
                /\ UNCHANGED gaveUp
    /\ UNCHANGED <<active, debug, cache, request, delivered>>

(* A ClientError, which may come of a put that was carried out, is retried  *)
(* after a pause.  Another exception ends the send at once.                 *)
PutRaises(e, f) ==
    /\ Sending(e, f, "put")
    /\ Takes(e, f) \/ UNCHANGED delivered
    /\ \/ GiveUp(e, f)
       \/ /\ sends[e][f].retries > 1
          /\ sends' = [sends EXCEPT ![e][f].retries = @ - 1]
          /\ UNCHANGED gaveUp
    /\ UNCHANGED <<active, debug, cache, request>>

-----------------------------------------------------------------------------
(* The surroundings *)

TableChanges ==
    /\ budget.changes < MaxChanges
    /\ budget' = [budget EXCEPT !.changes = @ + 1]
    /\ table' \in Lists \ {table}
    /\ UNCHANGED <<active, debug, file, memory, loader, initial, request, traffic>>

InFlight(e) == request[e].stage \in {"received", "debug", "main"}

(* The requests of these workers end without an answer. *)
Lose(workers) ==
    LET lost == {e \in Posted : InFlight(e) /\ request[e].worker \in workers}
    IN  /\ request' = [e \in Posted |-> IF e \in lost THEN [request[e] EXCEPT !.stage = "lost"]
                                                      ELSE request[e]]
        /\ sends' = [e \in Posted |-> IF e \in lost THEN << >> ELSE sends[e]]

(* A worker is killed, by gunicorn's timeout while a load blocks it, say,   *)
(* and started anew; after --max-requests without a request in it.          *)
WorkerDies(w) ==
    /\ Serving /\ budget.deaths < MaxDeaths
    /\ budget' = [budget EXCEPT !.deaths = @ + 1]
    /\ Lose({w})
    /\ memory' = [memory EXCEPT ![w] = None]
    /\ loader' = [loader EXCEPT ![w] = Idle]
    /\ UNCHANGED <<active, debug, table, file, initial, delivered, gaveUp>>

(* The container is replaced: /tmp is empty, and the entrypoint finds no    *)
(* file.                                                                    *)
ContainerRestarts ==
    /\ budget.deaths < MaxDeaths
    /\ budget' = [budget EXCEPT !.deaths = @ + 1]
    /\ Lose(Workers)
    /\ file' = Missing /\ initial' = None
    /\ memory' = [w \in Workers |-> None]
    /\ loader' = [p \in Processes |-> IF p = Initializer THEN [pc |-> "fetch"] ELSE Idle]
    /\ UNCHANGED <<active, debug, table, delivered, gaveUp>>

-----------------------------------------------------------------------------

Load(p) == ReadFile(p) \/ Fetch(p) \/ OpenFile(p) \/ WriteFile(p)

Send(e, f) == StartSend(e, f) \/ PutSucceeds(e, f) \/ PutFails(e, f) \/ PutRaises(e, f)

Serve(e) ==
    \/ Handle(e) \/ Overwrite(e) \/ Answer(e)
    \/ \E f \in Firehoses : Send(e, f)

Next ==
    \/ \E p \in Processes : Load(p)
    \/ \E e \in Posted : Serve(e) \/ \E w \in Workers : Accept(e, w)
    \/ TableChanges
    \/ \E w \in Workers : WorkerDies(w)
    \/ ContainerRestarts

(* While a process or a greenlet can go on, one of them does; boto3's       *)
(* timeouts end every put one way or another.                               *)
Progress == (\E p \in Processes : Load(p)) \/ (\E e \in Posted : Serve(e))
Fairness == WF_vars(Progress)

Spec == Init /\ [][Next]_vars /\ Fairness

-----------------------------------------------------------------------------
(* Properties *)

Stages == {"unsent", "received", "debug", "main", "ok", "rejected", "lost"}
Forms == {"clear", "hidden"}

(* Every variable keeps its type. *)
TypeOK ==
    /\ active \subseteq Outlets /\ debug \in BOOLEAN
    /\ table \in Lists /\ file \in Lists \union {Missing, Torn}
    /\ memory \in [Workers -> Lists \union {None}] /\ initial \in Lists \union {None}
    /\ \A p \in Processes :
         /\ loader[p].pc \in {"idle", "read", "fetch", "open", "write"}
         /\ loader[p].pc = "read" => p \in Workers /\ loader[p].for \in Posted
         /\ loader[p].pc \in {"open", "write"} => loader[p].list \in Lists \ {{}}
    /\ Posted \subseteq Events
    /\ \A e \in Posted : request[e].stage \in Stages /\ request[e].kind \in Kinds
    /\ \A e \in Posted : DOMAIN sends[e] \subseteq Firehoses
    /\ delivered \in [Firehoses -> SUBSET (Events \X Forms)]
    /\ budget \in [changes : 0..MaxChanges, deaths : 0..MaxDeaths]
    /\ gaveUp \subseteq Events \X Firehoses

(* Once the entrypoint has written the file, its list is the one every      *)
(* worker decides by for the container's life, and the file stays fit to    *)
(* read, whatever the table, RDS and deaths of workers do.                  *)
StartupListGoverns ==
    initial # None =>
        /\ file = initial
        /\ \A w \in Workers : memory[w] \in {None, initial}

(* A main firehose never gets an event in the clear that is blocked, or     *)
(* hidden by the list its worker had; a debug firehose gets it in the clear *)
(* only.                                                                    *)
FormsAreKept ==
    \A e \in Posted, o \in Outlets :
        /\ <<e, "hidden">> \notin delivered[<<o, "debug">>]
        /\ <<e, "clear">> \in delivered[<<o, "main">>] =>
             /\ ~request[e].kind.blocked /\ ~request[e].hide
             /\ delivered[<<o, "debug">>] \intersect ({e} \X Forms) = {}

(* An event that is answered OK is at every outlet that is on, except where *)
(* that outlet's own send gave up: one failing firehose costs no other.     *)
OkMeansTriedEverywhere ==
    \A e \in Posted, o \in active :
        request[e].stage = "ok" =>
            \/ <<e, <<o, "main">>>> \in gaveUp
            \/ \E form \in Forms : <<e, form>> \in delivered[<<o, "main">>]

(* A request a worker has taken is answered, or lost with its worker.       *)
InStage(e, stages) == e \in Posted /\ request[e].stage \in stages

EveryRequestAnswered ==
    \A e \in Events : InStage(e, {"received"}) ~> InStage(e, {"ok", "rejected", "lost"})

-----------------------------------------------------------------------------
(* What a comment says and the code does not do *)

(* blacklisted_channel_ids: "If cache is missing or unreadable, fetch from  *)
(* RDS and update cache."  A cache file never costs a valid event.          *)
UnreadableCacheIsFetched ==
    \A e \in Posted : request[e].stage = "rejected" => ~request[e].kind.valid
=============================================================================
