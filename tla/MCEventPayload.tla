--------------------------- MODULE MCEventPayload ---------------------------
(***************************************************************************)
(* Model-checking instance of EventPayload: for each event type the fields *)
(* its code looks at, present, absent and ill-formed, beside channels,     *)
(* flags and nested objects.                                               *)
(***************************************************************************)
EXTENDS EventPayload

Absent == {<< >>}
Field(name, values) == {<< <<name, v>> >> : v \in values}
Optional(name, values) == Absent \union Field(name, values)

(* Every object made of one choice from each part, in order. *)
Assemble(parts) ==
    FoldLeft(LAMBDA made, part : {m \o p : m \in made, p \in part}, {<< >>}, parts)
Objects(parts) == {Object(fields) : fields \in Assemble(parts)}
One(parts) == CHOOSE v \in Objects(parts) : TRUE

Times == {Number("epoch"), Number("huge"), String("epoch"), String("word"), Null}

(* What int() or a truth value makes something else of. *)
OddTimes == {String(""), Bool("False"), Bool("True"), Object(<< >>)}

ChannelParts ==
    <<Optional("ChannelId", {String("7"), Number("7"), String("other")}),
      {<< >>, << <<"ProgramId", String("program")>>, <<"ChannelName", String("name")>> >>},
      Optional("IsContentBlocked", {Bool("True"), String("True"), String("False")})>>

FewChannelParts ==
    <<Optional("ChannelId", {String("7")}), Optional("IsContentBlocked", {Bool("True")})>>

Nested ==
    Object(<< <<"Timestamp", Number("7")>>,
              <<"Inner", Object(<< <<"tvid", String("inner")>> >>)>>,
              <<"AppId", String("nested")>> >>)

NativeApp ==
    Objects(<<Optional("Timestamp", Times), Optional("Data", {Nested}),
              Optional("NameSpace", {String("app")})>> \o ChannelParts)
      \union Objects(<<Field("Timestamp", {Number("epoch")}), Field("Time", {Number("7")})>>)
      \union Objects(<<Field("Timestamp", OddTimes)>>)
      \union Objects(<<Optional("Timestamp", {Number("epoch")}),
                       Field("TvEvent", {Object(<< >>), Nested})>>)

Channel(minor) ==
    Objects(<<Field("majorId", {Number("7")}), minor>>)
Channels == Channel(Field("minorId", {Number("7")})) \union Channel(Absent) \union {Null}
Programs == Objects(<<Optional("startTime", Times)>>)
Resolutions == Objects(<<Field("vRes", {Number("7")}), Optional("hRes", {Number("7")})>>)
                 \union {Null}

Tuner ==
    Assemble(<<Optional("channelData", Channels), Optional("programData", Programs)>>)
Heartbeats == {Object(fields) : fields \in Tuner} \union {Null}

AcrTuner ==
    Objects(<<Tuner, Optional("resolution", Resolutions)>> \o FewChannelParts)
      \union Objects(<<Field("Heartbeat", Heartbeats),
                       Optional("channelData", {One(<<Field("majorId", {Number("7")})>>)}),
                       Optional("ChannelId", {String("7")})>>)
      \union Objects(<<Field("programData", Objects(<<Field("startTime", OddTimes)>>))>>)
      \union Objects(<<Field("programData", Programs),
                       Field("programData_startTime", {Number("7"), String("word")})>>)

Panels ==
    Objects(<<Optional("Timestamp", Times),
              Optional("PanelState", {String("ON"), String("on"), String("word"), Null}),
              Optional("WakeupReason", {Number("7"), Number("huge")})>>)

Platform ==
    Objects(<<Optional("PanelData", Panels \union {Null}),
              Optional("ChannelId", {String("7")}),
              Optional("PanelData_PanelState", {Number("7"), String("OFF")})>>)

DataOf ==
    [NATIVEAPP_TELEMETRY |-> NativeApp, ACR_TUNER_DATA |-> AcrTuner,
     PLATFORM_TELEMETRY |-> Platform,
     SOMETHING_ELSE |-> Objects(<<Optional("Data", {Nested})>> \o FewChannelParts)]

TypedEvent(type, time) ==
    << <<"tvid", String("tv")>>, <<"client", String("client")>>,
       <<"h", String("hash")>>, <<"EventType", type>>, <<"timestamp", time>> >>
TvEvent(type, time, extras) == Object(TypedEvent(String(type), time) \o extras)

Usual(type) ==
    TvEvent(type, Number("epoch"), << <<"Namespace", String("tv")>>, <<"appId", String("acr")>> >>)

(* Well-formed around every EventData; and every other way to be wrong.     *)
MCInputs ==
    LET Body(type, datas) ==
            Objects(<<Field("TvEvent", {Usual(type)}), datas>>)
        typed == UNION {Body(type, Field("EventData", DataOf[type] \union {Null}))
                          \union Body(type, Absent) : type \in DOMAIN DataOf}
        odd == Objects(<<Field("TvEvent",
                   {TvEvent("SOMETHING_ELSE", time, << >>) : time \in Times \union OddTimes}
                     \union {Object(TypedEvent(Object(<< >>), Number("epoch")))}
                     \union {Object(<< <<"tvid", String("tv")>> >>), Null}),
                   Optional("EventData", {Object(<< >>)})>>)
                 \union {Null, Object(Usual("SOMETHING_ELSE").fields), Object(<< >>)}
    IN  [body : typed \union odd, hashMatches : {TRUE}]
          \union [body : Body("SOMETHING_ELSE", Absent), hashMatches : {FALSE}]

MCEnvs == [evergreen : BOOLEAN, legacy : BOOLEAN, debug : BOOLEAN]
=============================================================================
