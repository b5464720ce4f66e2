---------------------------- MODULE EventPayload ----------------------------
(***************************************************************************)
(* One event from its post to its answer, with its content: send_request   *)
(* and push_changes_to_kafka around the functions of EventTypes.           *)
(*                                                                         *)
(* EventDelivery lets a payload be good or bad as it likes and knows a     *)
(* record by its form only.  Here the payload decides, and the topics hold *)
(* the records themselves; the handler implements EventDelivery.  Other    *)
(* attempts, refreshes and crashes are left to EventDelivery.              *)
(***************************************************************************)
EXTENDS EventTypes, LegacyParity

CONSTANTS Inputs,       \* the posts considered: [body, hashMatches]
          ChannelIds,   \* the ids a blacklist can hold
          Envs          \* the settings of the three toggles considered

VARIABLES input,        \* what the TV posts
          env,          \* SEND_EVERGREEN, SEND_LEGACY and TVEVENTS_DEBUG
          blacklist,    \* the ids in blacklist_cache's memory
          reached,        \* how far the handler has come
          output,       \* output_json
          pending,      \* the topics of the send_to_kafka in progress
          log,          \* external: what each Kafka topic holds
          refused,      \* ghost: the topic whose send_message raised
          known          \* ghost: what EventDelivery knows of the input

payloadVars == <<input, env, blacklist, reached, output, pending, log, refused, known>>
context == <<input, env, blacklist, known>>

-----------------------------------------------------------------------------
(* The abstract handler *)

NoTopic == "none"
NoId == "unknown"
Attempt == <<"event", 1>>

Hidden(record) == Value(record, <<"channelid">>) = String("OBFUSCATED")
Form(record) == IF Hidden(record) THEN "obfuscated" ELSE "clear"

Validation == ValidateRequest(input.body, input.hashMatches)

(* Where EventDelivery says a payload like this one fails. *)
Defect ==
    CASE Validation = "refuses" -> "validate"
      [] Validation = "raises" -> "generate"
      [] Validation = "passes" ->
           CASE GenerateOutcome(input.body) = "refuses" -> "validate"
             [] GenerateOutcome(input.body) = "raises" -> "generate"
             [] OTHER -> "none"

KindOfInput ==
    IF Defect # "none"
      THEN [channel |-> NoId, blocked |-> FALSE, defect |-> Defect]
      ELSE LET out == GenerateOutput(input.body)
               id == Value(out, <<"channelid">>)
           IN  [channel |-> IF id # Null /\ id.text \in ChannelIds THEN id.text ELSE NoId,
                blocked |-> IsBlocked(Value(out, <<"iscontentblocked">>)),
                defect |-> "none"]

(* _get_kafka_topics *)
KafkaTopics(debug) ==
    (IF env.evergreen THEN <<IF debug THEN "evergreen-debug" ELSE "evergreen">> ELSE << >>)
      \o (IF env.legacy THEN <<IF debug THEN "legacy-debug" ELSE "legacy">> ELSE << >>)

Sends(topics, form) == [i \in 1..Len(topics) |-> [topic |-> topics[i], form |-> form]]

(* The sends the handler still has to make. *)
Remaining ==
    CASE reached = "debug" -> Sends(pending, Form(output))
                              \o Sends(KafkaTopics(FALSE), "obfuscated")
      [] reached = "main" -> Sends(pending, Form(output))
      [] OTHER -> << >>

Status ==
    CASE reached \in {"validated", "generated"} -> "waiting"
      [] reached \in {"debug", "main"} -> IF Remaining = << >> THEN "ok" ELSE "running"
      [] OTHER -> reached

Delivery == INSTANCE EventDelivery WITH
    Events <- {"event"}, Channels <- ChannelIds, NoChannel <- NoId,
    MaxAttempts <- 1, MaxCrashes <- 0,
    Kinds <- [channel : ChannelIds \union {NoId}, blocked : BOOLEAN,
              defect : {"none", "validate", "generate"}],
    kind <- [event \in {"event"} |-> known],
    status <- [attempt \in {Attempt} |-> Status],
    pending <- [attempt \in {Attempt} |-> Remaining],
    log <- [topic \in DOMAIN log |->
              [i \in 1..Len(log[topic]) |->
                 [attempt |-> Attempt, form |-> Form(log[topic][i])]]],
    crashes <- 0,
    refused <- [attempt \in {Attempt} |-> refused]

(* No TV names a channel as a hidden one is named, and no id stands for none. *)
ASSUME PayloadAssumption ==
    /\ Envs \subseteq Delivery!Toggles
    /\ NoId \notin ChannelIds
    /\ \A post \in Inputs :
         /\ ValidateRequest(post.body, post.hashMatches) = "passes"
         /\ GenerateOutcome(post.body) = "passes"
         => ~Hidden(GenerateOutput(post.body))

-----------------------------------------------------------------------------

PayloadInit ==
    /\ input \in Inputs
    /\ env \in Envs
    /\ blacklist \in SUBSET ChannelIds
    /\ reached = "unsent"
    /\ output = << >>
    /\ pending = << >>
    /\ log = [topic \in Delivery!Topics |-> << >>]
    /\ refused = NoTopic
    /\ known = KindOfInput

(* The TV posts, and the handler comes to await the body. *)
Post ==
    /\ reached = "unsent"
    /\ reached' = "waiting"
    /\ UNCHANGED <<context, output, pending, log, refused>>

(* The exceptions of the try block: a TvEventsDefaultError is answered with *)
(* its 400, anything else with a 500.                                       *)
AfterCheck(outcome, next) ==
    CASE outcome = "refuses" -> "rejected"
      [] outcome = "raises" -> "failed"
      [] outcome = "passes" -> next

Validate ==
    /\ reached = "waiting"
    /\ reached' = AfterCheck(Validation, "validated")
    /\ UNCHANGED <<context, output, pending, log, refused>>

Generate ==
    /\ reached = "validated"
    /\ reached' = AfterCheck(GenerateOutcome(input.body), "generated")
    /\ output' = IF reached' = "generated" THEN GenerateOutput(input.body) ELSE output
    /\ UNCHANGED <<context, pending, log, refused>>

(* push_changes_to_kafka: the decision, and the debug topics if it is to    *)
(* hide the channel and debugging is on.                                    *)
Decide ==
    /\ reached = "generated"
    /\ IF ShouldObfuscateChannel(output, blacklist)
         THEN /\ reached' = "debug"
              /\ pending' = IF env.debug THEN KafkaTopics(TRUE) ELSE << >>
         ELSE /\ reached' = "main"
              /\ pending' = KafkaTopics(FALSE)
    /\ UNCHANGED <<context, output, log, refused>>

(* A mistake the properties must expose: the main topics are served without *)
(* the overwrite when there was no debug topic to serve first.              *)
HideChannelIfDebug ==
    /\ reached = "debug" /\ pending = << >>
    /\ output' = IF env.debug THEN ObfuscateChannelFields(output) ELSE output
    /\ reached' = "main"
    /\ pending' = KafkaTopics(FALSE)
    /\ UNCHANGED <<context, log, refused>>

(* obfuscate_channel_fields writes into the dict the debug topics got. *)
HideChannel ==
    /\ reached = "debug" /\ pending = << >>
    /\ output' = ObfuscateChannelFields(output)
    /\ reached' = "main"
    /\ pending' = KafkaTopics(FALSE)
    /\ UNCHANGED <<context, log, refused>>

Publish(topic) == log' = [log EXCEPT ![topic] = Append(@, output)]

SendSucceeds ==
    /\ pending # << >>
    /\ Publish(Head(pending))
    /\ pending' = Tail(pending)
    /\ UNCHANGED <<context, reached, output, refused>>

SendFails ==
    /\ pending # << >>
    /\ Publish(Head(pending)) \/ UNCHANGED log
    /\ reached' = "failed"
    /\ pending' = << >>
    /\ refused' = Head(pending)
    /\ UNCHANGED <<context, output>>

AnswerOk ==
    /\ reached = "main" /\ pending = << >>
    /\ reached' = "ok"
    /\ UNCHANGED <<context, output, pending, log, refused>>

PayloadNext ==
    \/ Post \/ Validate \/ Generate \/ Decide \/ HideChannel
    \/ SendSucceeds \/ SendFails \/ AnswerOk

PayloadSpec == PayloadInit /\ [][PayloadNext]_payloadVars

-----------------------------------------------------------------------------
(* Properties *)

(* Every variable keeps its type; the output is made once and overwritten   *)
(* at most once.                                                            *)
PayloadTypeOK ==
    /\ env \in Delivery!Toggles /\ blacklist \subseteq ChannelIds
    /\ known \in [channel : ChannelIds \union {NoId}, blocked : BOOLEAN,
                  defect : {"none", "validate", "generate"}]
    /\ reached \in {"unsent", "waiting", "validated", "generated", "debug", "main",
                    "ok", "rejected", "failed"}
    /\ output # << >> =>
         output \in {GenerateOutput(input.body),
                    ObfuscateChannelFields(GenerateOutput(input.body))}
    /\ pending \in Seq(Delivery!Topics)
    /\ DOMAIN log = Delivery!Topics
    /\ refused \in Delivery!Topics \union {NoTopic}

On(topics) == UNION {{log[topic][i] : i \in 1..Len(log[topic])} : topic \in topics}

(* The content-level handler behaves as EventDelivery says of a payload     *)
(* with its outcome, its channel and its flag: sends, forms, order, answer. *)
ImplementsDelivery == Delivery!Spec

(* Paths to the values of an object, by position; deep enough for Inputs.   *)
Positions(v) == 1..Len(v.fields)
At(v, path) == FoldLeft(LAMBDA node, i : node.fields[i][2], v, path)
ScalarPaths(v) ==
    LET one == {<<i>> : i \in Positions(v)}
        Below(paths) == UNION {{Append(path, i) : i \in Positions(At(v, path))} : path \in paths}
    IN  {path \in one \union Below(one) \union Below(Below(one)) : ~IsObject(At(v, path))}

NameAt(v, path) == At(v, Front(path)).fields[Last(path)][1]
KeyAt(v, path) ==
    Key(IF Len(path) = 1 THEN "" ELSE NameAt(v, Front(path)), NameAt(v, path))
Before(p, q) ==
    \E i \in 1..Len(p) : i <= Len(q) /\ p[i] < q[i] /\ \A j \in 1..(i - 1) : p[j] = q[j]

(* The keys the code sets itself, beside the payload's. *)
OwnKeys ==
    {<<"namespace">>, <<"appid">>, <<"eventtype">>, StartTime, PanelState} \union ChannelFields

(* The NATIVEAPP Timestamp goes under a name of its own. *)
PublishedKey(data, path) ==
    IF EventTypeOf(input.body) = "NATIVEAPP_TELEMETRY" /\ KeyAt(data, path) = <<"timestamp">>
      THEN <<"eventdata", "timestamp">> ELSE KeyAt(data, path)

(* Whatever the nesting, a scalar of EventData ends on the topics under the *)
(* name of the object around it and its own, unless a later one has the     *)
(* same or the code sets that key.                                          *)
EventDataSurvives ==
    \A record \in On(DOMAIN log) :
        LET data == EventData(input.body)
            paths == ScalarPaths(data)
        IN  \A path \in paths :
               LET key == PublishedKey(data, path)
               IN  \/ key \in OwnKeys
                   \/ \E later \in paths : Before(path, later) /\ KeyAt(data, later) = key
                   \/ Value(record, key) = At(data, path)

(* A main topic never learns the channel of an event that is blocked or     *)
(* whose channel is blacklisted, whether the flag came as a Boolean or a    *)
(* string, and the id as a string or a number; and it learns the channel of *)
(* every other event.                                                       *)
ChannelHidden ==
    LET data == EventData(input.body)
        id == Get(data, "ChannelId")
        flag == Get(data, "IsContentBlocked")
        own == {id, Get(data, "ProgramId"), Get(data, "ChannelName")} \ {Null}
        hides == (id.type \in {"string", "number"} /\ id.text \in blacklist) \/ flag.text = "True"
    IN  \A record \in On(Delivery!MainTopics) :
           /\ hides => \A key \in ChannelFields : Value(record, key) \notin own
           /\ Hidden(record) => hides

(* ... and hiding it is all that is done: the main record differs from the  *)
(* debug one only in the three fields.                                      *)
OnlyChannelHidden ==
    \A record \in On(Delivery!MainTopics), copy \in On(Delivery!DebugTopics) :
        /\ DOMAIN record = DOMAIN copy \union ChannelFields
        /\ \A key \in DOMAIN copy \ ChannelFields : record[key] = copy[key]

(* An ACR record that names one half of a channel number names the other,   *)
(* in a heartbeat too, and says that it is one.                             *)
ChannelDataComplete ==
    \A record \in On(DOMAIN log) :
        EventTypeOf(input.body) = "ACR_TUNER_DATA" =>
            /\ <<"channeldata", "majorid">> \in DOMAIN record
                 <=> <<"channeldata", "minorid">> \in DOMAIN record
            /\ Has(EventData(input.body), "Heartbeat")
                 => record[<<"eventtype">>] = String("Heartbeat")

(* The rebuild takes an event, and makes of it the record, that the service *)
(* before it did (docs/feature-parity.md), but for the differences listed   *)
(* in LegacyParity.                                                         *)
MatchesLegacy ==
    LET body == input.body
        accepted == LegacyAccepts(body, input.hashMatches)
    IN  /\ reached \in {"rejected", "failed"} /\ refused = NoTopic
             => ~accepted \/ TakesLess(body)
        /\ reached = "generated" =>
             \/ TakesMore(body)
             \/ accepted /\ (output = LegacyOutput(body) \/ KeepsMore(body))

-----------------------------------------------------------------------------
(* What a comment says and the code does not do *)

(* unix_time_to_ms: "Convert a timestamp to milliseconds".  The start time  *)
(* of a program that reaches a topic is a number of milliseconds.           *)
StartTimeInMilliseconds ==
    \A record \in On(DOMAIN log) :
        EventTypeOf(input.body) = "ACR_TUNER_DATA" /\ StartTime \in DOMAIN record
          => record[StartTime] = Number("milliseconds")
=============================================================================
