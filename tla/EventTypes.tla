----------------------------- MODULE EventTypes -----------------------------
(***************************************************************************)
(* What evergreen-tvevents does with the content of one event: the checks  *)
(* of src/src/app/validation.py, the three event types and the flattening  *)
(* of src/src/app/event_type.py, the output of src/src/app/output.py and   *)
(* the hiding of channels of src/src/app/obfuscation.py.  All of it is a   *)
(* function of the payload and the blacklist.                              *)
(*                                                                         *)
(* A JSON value is a record of its type, its text (a scalar) and its       *)
(* fields (an object: name and value, in the order of the document).  The  *)
(* texts are representatives: "7" is a small number, "epoch" a sensible    *)
(* time, "huge" one no datetime holds.  A wrongly typed object is null.    *)
(***************************************************************************)
EXTENDS Integers, Sequences, FiniteSets, TLC, SequencesExt

Json(type, text, fields) == [type |-> type, text |-> text, fields |-> fields]
String(text) == Json("string", text, << >>)
Number(text) == Json("number", text, << >>)
Bool(text) == Json("bool", text, << >>)
Null == Json("null", "None", << >>)
Object(fields) == Json("object", "dict", fields)

IsObject(v) == v.type = "object"
Names(v) == {v.fields[i][1] : i \in 1..Len(v.fields)}
Has(v, name) == IsObject(v) /\ name \in Names(v)
HasAny(v, names) == IsObject(v) /\ names \intersect Names(v) # {}

(* dict.get(name) *)
Get(v, name) ==
    IF Has(v, name)
      THEN v.fields[CHOOSE i \in 1..Len(v.fields) : v.fields[i][1] = name][2]
      ELSE Null

(* payload.get("EventData", {}) *)
EventData(payload) ==
    IF Has(payload, "EventData") THEN Get(payload, "EventData") ELSE Object(<< >>)

-----------------------------------------------------------------------------
(* Flattening.  A key of the output is the sequence of the lower-cased      *)
(* words that underscores join.                                             *)

Words ==
    [tvid |-> <<"tvid">>, client |-> <<"client">>, h |-> <<"h">>,
     EventType |-> <<"eventtype">>, timestamp |-> <<"timestamp">>,
     Timestamp |-> <<"timestamp">>, Time |-> <<"time">>, Namespace |-> <<"namespace">>,
     NameSpace |-> <<"namespace">>, namespace |-> <<"namespace">>,
     appId |-> <<"appid">>, AppId |-> <<"appid">>,
     ChannelId |-> <<"channelid">>, channelId |-> <<"channelid">>,
     ProgramId |-> <<"programid">>, ChannelName |-> <<"channelname">>,
     IsContentBlocked |-> <<"iscontentblocked">>,
     Data |-> <<"data">>, Inner |-> <<"inner">>, Heartbeat |-> <<"heartbeat">>,
     channelData |-> <<"channeldata">>, majorId |-> <<"majorid">>,
     minorId |-> <<"minorid">>, programData |-> <<"programdata">>,
     startTime |-> <<"starttime">>,
     programData_startTime |-> <<"programdata", "starttime">>,
     resolution |-> <<"resolution">>, vRes |-> <<"vres">>, hRes |-> <<"hres">>,
     TvEvent |-> <<"tvevent">>,
     PanelData |-> <<"paneldata">>, PanelState |-> <<"panelstate">>,
     WakeupReason |-> <<"wakeupreason">>,
     PanelData_PanelState |-> <<"paneldata", "panelstate">>]

Key(prefix, name) == IF prefix = "" THEN Words[name] ELSE Words[prefix] \o Words[name]

(* bound: objects in objects *)
MaxNesting == 5

Fields[nesting \in 0..MaxNesting] ==
    IF nesting = 0 THEN {<< >>}
    ELSE Seq(STRING \X [type : STRING, text : STRING, fields : Fields[nesting - 1]])

(* An ignored field leaves what an empty object leaves: nothing. *)
Without(fields, ignored) ==
    [i \in 1..Len(fields) |->
        IF fields[i][1] \in ignored THEN <<fields[i][1], Object(<< >>)>> ELSE fields[i]]

(* A mistake the properties must expose: the ignored keys handed on. *)
LeavesWithout[prefix \in STRING, fields \in Fields[MaxNesting], ignored \in SUBSET STRING] ==
    FlattenSeq([i \in 1..Len(fields) |->
        LET name == fields[i][1]  value == fields[i][2]
        IN  IF IsObject(value)
              THEN LeavesWithout[name, Without(value.fields, ignored), ignored]
              ELSE << <<Key(prefix, name), value>> >>])
LeavesIgnoredBelow(v, ignored) == LeavesWithout["", Without(v.fields, ignored), ignored]

(* flatten_request_json visits the scalars in the order of the document.    *)
(* One level down neither the outer prefix nor ignore_keys is handed on.    *)
LeavesUnder[prefix \in STRING, fields \in Fields[MaxNesting]] ==
    FlattenSeq([i \in 1..Len(fields) |->
        LET name == fields[i][1]  value == fields[i][2]
        IN  IF IsObject(value) THEN LeavesUnder[name, value.fields]
                               ELSE << <<Key(prefix, name), value>> >>])
Leaves(v, ignored) == LeavesUnder["", Without(v.fields, ignored)]

(* out[key] = value, for each leaf: the last one under a key stays. *)
Collected(leaves) ==
    [key \in {leaves[i][1] : i \in 1..Len(leaves)} |->
        leaves[SelectLastInSeq(leaves, LAMBDA leaf : leaf[1] = key)][2]]

Flatten(v, ignored) == Collected(Leaves(v, ignored))

Value(out, key) == IF key \in DOMAIN out THEN out[key] ELSE Null

-----------------------------------------------------------------------------
(* Validation.  A check passes, refuses the payload (a TvEventsDefaultError) *)
(* or raises something nobody foresaw.                                      *)

FirstOf(outcomes) ==
    IF \A i \in 1..Len(outcomes) : outcomes[i] = "passes" THEN "passes"
    ELSE outcomes[SelectInSeq(outcomes, LAMBDA o : o # "passes")]

Requires(condition) == IF condition THEN "passes" ELSE "refuses"
NeedsObject(v) == IF IsObject(v) THEN "passes" ELSE "raises"

RequiredParams == {"tvid", "client", "h", "EventType", "timestamp"}

(* It looks into TvEvent if there is one, and else into what it was given. *)
VerifyRequiredParams(v, params) ==
    LET checked == IF Has(v, "TvEvent") THEN Get(v, "TvEvent") ELSE v
    IN  FirstOf(<<NeedsObject(checked), Requires(params \subseteq Names(checked))>>)

(* int(ts) takes a Boolean and a numeral in a string too; datetime refuses  *)
(* the huge.                                                                *)
TimestampCheck(v) ==
    Requires(\/ v.type = "number" /\ v.text # "huge"
             \/ v.type = "bool"
             \/ v.type = "string" /\ v.text \in {"epoch", "7"})

(* What `if value` skips; none of the numbers is zero. *)
Falsy == {Null, String(""), Bool("False"), Object(<< >>)}

ValidateNativeApp(data) ==
    FirstOf(<<NeedsObject(data),
              IF Get(data, "Timestamp") \in Falsy THEN "passes"
              ELSE TimestampCheck(Get(data, "Timestamp"))>>)

TunerData == {"channelData", "programData"}

VerifyIn(v, name, params) ==
    IF Has(v, name) THEN VerifyRequiredParams(Get(v, name), params) ELSE "passes"

(* A mistake the properties must expose: the data beside the heartbeat is   *)
(* verified, not the data in it.                                            *)
ValidateAcrTunerBeside(data) ==
    LET params == IF Has(data, "Heartbeat") THEN Get(data, "Heartbeat") ELSE data
    IN  FirstOf(<<NeedsObject(data),
                  Requires(Has(data, "Heartbeat") => ~HasAny(data, TunerData)),
                  NeedsObject(params),
                  Requires(HasAny(params, TunerData)),
                  VerifyIn(data, "channelData", {"majorId", "minorId"}),
                  VerifyIn(data, "resolution", {"vRes", "hRes"})>>)

(* A heartbeat excludes tuner data beside it and needs some in it. *)
ValidateAcrTuner(data) ==
    LET params == IF Has(data, "Heartbeat") THEN Get(data, "Heartbeat") ELSE data
    IN  FirstOf(<<NeedsObject(data),
                  Requires(Has(data, "Heartbeat") => ~HasAny(data, TunerData)),
                  NeedsObject(params),
                  Requires(HasAny(params, TunerData)),
                  VerifyIn(params, "channelData", {"majorId", "minorId"}),
                  VerifyIn(params, "resolution", {"vRes", "hRes"})>>)

Upper == [ON |-> "ON", OFF |-> "OFF", on |-> "ON", off |-> "OFF",
          On |-> "ON", Off |-> "OFF"]

(* panel_data_schema *)
PanelDataFits(panel) ==
    /\ Get(panel, "Timestamp").type = "number"
    /\ Get(panel, "PanelState").type = "string"
    /\ Get(panel, "PanelState").text \in DOMAIN Upper
    /\ Get(panel, "WakeupReason") = Number("7")

(* When EventData itself is no object, the handler of the ValidationError   *)
(* pops an empty path and raises an IndexError.                             *)
ValidatePlatform(data) ==
    LET panel == Get(data, "PanelData")
    IN  FirstOf(<<NeedsObject(data),
                  Requires(IsObject(panel) /\ PanelDataFits(panel)),
                  TimestampCheck(Get(panel, "Timestamp"))>>)

EventTypeOf(payload) == Get(Get(payload, "TvEvent"), "EventType").text

(* The key event_type_map is looked up with; an object cannot be one.       *)
Hashable(payload) == ~IsObject(Get(Get(payload, "TvEvent"), "EventType"))

(* validate_request.  A mismatch of the URL's parameters is only logged.    *)
ValidateRequest(payload, hashMatches) ==
    LET data == EventData(payload)
        type == EventTypeOf(payload)
    IN  FirstOf(<<VerifyRequiredParams(payload, RequiredParams),
                  IF Has(payload, "TvEvent") THEN "passes" ELSE "raises",
                  TimestampCheck(Get(Get(payload, "TvEvent"), "timestamp")),
                  Requires(hashMatches),
                  IF Hashable(payload) THEN "passes" ELSE "raises",
                  CASE type = "NATIVEAPP_TELEMETRY" -> ValidateNativeApp(data)
                    [] type = "ACR_TUNER_DATA" -> ValidateAcrTuner(data)
                    [] type = "PLATFORM_TELEMETRY" -> ValidatePlatform(data)
                    [] OTHER -> "passes">>)

-----------------------------------------------------------------------------
(* Output generation *)

StartTime == <<"programdata", "starttime">>
PanelState == <<"paneldata", "panelstate">>

(* ts * 1000: of a numeral in a string, a thousand copies of it. *)
UnixTimeToMs(v) == IF v.type = "string" THEN String("copies") ELSE Number("milliseconds")

(* The last of the spellings that is there, in the order of the options.    *)
NamespaceIn(v) ==
    FoldLeft(LAMBDA namespace, option :
                 IF Has(v, option) THEN Get(v, option) ELSE namespace,
             Null, <<"Namespace", "NameSpace", "namespace">>)

(* What generate_output_json raises, of a payload that passed validation.   *)
GenerateOutcome(payload) ==
    LET type == EventTypeOf(payload)
        data == EventData(payload)
    IN  CASE type = "NATIVEAPP_TELEMETRY" ->
               IF Has(data, "Timestamp") THEN "passes" ELSE "raises"
          [] type = "ACR_TUNER_DATA" ->
               IF StartTime \in DOMAIN Flatten(data, {})
                 THEN TimestampCheck(Flatten(data, {})[StartTime]) ELSE "passes"
          [] type = "PLATFORM_TELEMETRY" ->
               IF Value(Flatten(data, {}), PanelState).type = "string"
                 THEN "passes" ELSE "raises"
          [] OTHER -> NeedsObject(data)

NativeAppOutput(data) ==
    (<<"eventdata", "timestamp">> :> Get(data, "Timestamp"))
      @@ Flatten(data, {"Timestamp"})

AcrTunerOutput(data) ==
    LET flat == Flatten(data, {})
    IN  (IF Has(data, "Heartbeat") THEN <<"eventtype">> :> String("Heartbeat") ELSE << >>)
          @@ (IF StartTime \in DOMAIN flat THEN StartTime :> UnixTimeToMs(flat[StartTime])
                                           ELSE << >>)
          @@ flat

PlatformOutput(data) ==
    LET flat == Flatten(data, {})
        state == flat[PanelState].text
    IN  (PanelState :> String(IF state \in DOMAIN Upper THEN Upper[state] ELSE state))
          @@ flat

(* namespace and appid of the event type overwrite those of EventData, with *)
(* null where the event type knows none.                                    *)
Identity(namespace, appid) == (<<"namespace">> :> namespace) @@ (<<"appid">> :> appid)

TypedOutput(payload) ==
    LET type == EventTypeOf(payload)
        data == EventData(payload)
        tvEvent == Get(payload, "TvEvent")
    IN  CASE type = "NATIVEAPP_TELEMETRY" ->
               Identity(NamespaceIn(data), Get(data, "AppId")) @@ NativeAppOutput(data)
          [] type = "ACR_TUNER_DATA" ->
               Identity(NamespaceIn(tvEvent), Get(tvEvent, "appId")) @@ AcrTunerOutput(data)
          [] type = "PLATFORM_TELEMETRY" -> Identity(Null, Null) @@ PlatformOutput(data)
          [] OTHER -> Flatten(data, {})

GenerateOutput(payload) ==
    LET tvEvent == Get(payload, "TvEvent")
    IN  TypedOutput(payload)
          @@ (<<"tvevent", "timestamp">> :> Get(tvEvent, "timestamp"))
          @@ (<<"tvevent", "eventtype">> :> Get(tvEvent, "EventType"))
          @@ (<<"zoo">> :> String("zoo"))
          @@ Flatten(tvEvent, {"h", "timestamp", "EventType"})

-----------------------------------------------------------------------------
(* Hiding channels *)

(* The flag as a Boolean, or as a string that says true in any case; another *)
(* value as Python takes it for true.                                       *)
IsBlocked(v) ==
    CASE v.type = "string" -> v.text \in {"true", "True"}
      [] v.type = "bool" -> v.text = "True"
      [] OTHER -> v.type = "number"

(* A mistake the properties must expose: the id is not turned into a string. *)
IsBlacklistedAsIs(v, ids) == v.type = "string" /\ v.text \in ids

(* is_blacklisted: str(channel_id) in the list. *)
IsBlacklisted(v, ids) == v # Null /\ v.text \in ids

ShouldObfuscateChannel(out, ids) ==
    \/ IsBlocked(Value(out, <<"iscontentblocked">>))
    \/ IsBlacklisted(Value(out, <<"channelid">>), ids)

ChannelFields == {<<"channelid">>, <<"programid">>, <<"channelname">>}

(* A mistake the properties must expose: a new dict instead of an update.   *)
ObfuscateChannelFieldsOnly(out) == [key \in ChannelFields |-> String("OBFUSCATED")]

ObfuscateChannelFields(out) ==
    [key \in DOMAIN out \union ChannelFields |->
        IF key \in ChannelFields THEN String("OBFUSCATED") ELSE out[key]]
=============================================================================
