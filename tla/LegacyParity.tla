---------------------------- MODULE LegacyParity ----------------------------
(***************************************************************************)
(* What the service before the rebuild did with the content of an event    *)
(* (rebuild-inputs/evergreen-tvevents/repo/app: utils.py, event_type.py),  *)
(* as functions of the payload like those of EventTypes, and what it did   *)
(* otherwise.  Every exception of its handler becomes a 400, so a payload  *)
(* is accepted or it is not.                                               *)
(***************************************************************************)
EXTENDS EventTypes

Passes(outcome) == outcome = "passes"

(* validate_request up to the type: any KeyError or TypeError refuses too.  *)
LegacyRequiredParams(payload) ==
    Passes(VerifyRequiredParams(payload, RequiredParams)) /\ Has(payload, "TvEvent")

(* timestamp_check divides and converts what it gets: no numeral in a       *)
(* string, but None and '' pass.                                            *)
Unset == {Null, String("")}
LegacyTimestampCheck(v) ==
    v \in Unset \/ v.type = "bool" \/ (v.type = "number" /\ v.text # "huge")

(* EventType.__init__ subscripts payload["EventData"].                      *)
LegacyTyped(payload) == Has(payload, "EventData")

(* The parameters are looked for in a "TvEvent" of EventData if it has one, *)
(* the time is read from EventData itself.                                  *)
LegacyNativeApp(data) ==
    /\ Passes(VerifyRequiredParams(data, {"Timestamp"}))
    /\ Has(data, "Timestamp")
    /\ LegacyTimestampCheck(Get(data, "Timestamp"))

LegacyVerifyIn(v, name, params) ==
    Has(v, name) => Passes(VerifyRequiredParams(Get(v, name), params))

(* validate_heartbeat_event, or some tuner data. *)
LegacyAcrTuner(data) ==
    LET heartbeat == Has(data, "Heartbeat")
        params == IF heartbeat THEN Get(data, "Heartbeat") ELSE data
    IN  /\ IsObject(data) /\ HasAny(params, TunerData)
        /\ heartbeat => ~HasAny(data, TunerData)
        /\ LegacyVerifyIn(params, "channelData", {"majorId", "minorId"})
        /\ LegacyVerifyIn(params, "resolution", {"vRes", "hRes"})

(* The schema, applied twice, and the time. *)
LegacyPlatform(data) ==
    LET panel == Get(data, "PanelData")
    IN  PanelDataFits(panel) /\ LegacyTimestampCheck(Get(panel, "Timestamp"))

LegacyValidates(payload, hashMatches) ==
    LET data == Get(payload, "EventData")
        type == EventTypeOf(payload)
    IN  /\ LegacyRequiredParams(payload)
        /\ LegacyTimestampCheck(Get(Get(payload, "TvEvent"), "timestamp"))
        /\ hashMatches /\ Hashable(payload)
        /\ CASE type = "NATIVEAPP_TELEMETRY" -> LegacyTyped(payload) /\ LegacyNativeApp(data)
             [] type = "ACR_TUNER_DATA" -> LegacyTyped(payload) /\ LegacyAcrTuner(data)
             [] type = "PLATFORM_TELEMETRY" -> LegacyTyped(payload) /\ LegacyPlatform(data)
             [] OTHER -> TRUE

-----------------------------------------------------------------------------
(* Output *)

(* ignore_keys is the string 'Timestamp', and `in` looks for a part of it.  *)
PartsOfTimestamp == {"Timestamp", "Time"}

LegacyNativeAppOutput(data) ==
    (<<"eventdata", "timestamp">> :> Get(data, "Timestamp"))
      @@ Flatten(data, PartsOfTimestamp)

(* A start time of None or '' is left as it is. *)
LegacyAcrTunerOutput(data) ==
    LET flat == Flatten(data, {})
    IN  (IF Has(data, "Heartbeat") THEN <<"eventtype">> :> String("Heartbeat") ELSE << >>)
          @@ (IF Value(flat, StartTime) \notin Unset
            THEN StartTime :> UnixTimeToMs(flat[StartTime]) ELSE << >>)
          @@ flat

(* generate_output_json raises for a start time that is no time, without an *)
(* EventData to flatten, and for every PLATFORM_TELEMETRY event: that type  *)
(* has no attribute namespace, which is read of each.                       *)
LegacyGenerates(payload) ==
    LET data == Get(payload, "EventData")
        type == EventTypeOf(payload)
    IN  CASE type = "NATIVEAPP_TELEMETRY" -> TRUE
          [] type = "ACR_TUNER_DATA" -> LegacyTimestampCheck(Value(Flatten(data, {}), StartTime))
          [] type = "PLATFORM_TELEMETRY" -> FALSE
          [] OTHER -> IsObject(data)

LegacyTypedOutput(payload) ==
    LET data == Get(payload, "EventData")
        tvEvent == Get(payload, "TvEvent")
        type == EventTypeOf(payload)
    IN  CASE type = "NATIVEAPP_TELEMETRY" ->
               Identity(NamespaceIn(data), Get(data, "AppId")) @@ LegacyNativeAppOutput(data)
          [] type = "ACR_TUNER_DATA" ->
               Identity(NamespaceIn(tvEvent), Get(tvEvent, "appId")) @@ LegacyAcrTunerOutput(data)
          [] OTHER -> Flatten(data, {})

LegacyOutput(payload) ==
    LET tvEvent == Get(payload, "TvEvent")
    IN  LegacyTypedOutput(payload)
          @@ (<<"tvevent", "timestamp">> :> Get(tvEvent, "timestamp"))
          @@ (<<"tvevent", "eventtype">> :> Get(tvEvent, "EventType"))
          @@ (<<"zoo">> :> String("zoo"))
          @@ Flatten(tvEvent, {"h", "timestamp", "EventType"})

LegacyAccepts(payload, hashMatches) ==
    LegacyValidates(payload, hashMatches) /\ LegacyGenerates(payload)

-----------------------------------------------------------------------------
(* Where the rebuild does otherwise *)

(* It takes events the service refused: without EventData, of the type      *)
(* PLATFORM_TELEMETRY, with a numeral in a string for a time, or of         *)
(* NATIVEAPP_TELEMETRY with a "TvEvent" in EventData or {} for a time ...   *)
TakesMore(payload) ==
    LET data == EventData(payload)
    IN  \/ ~Has(payload, "EventData")
        \/ EventTypeOf(payload) = "PLATFORM_TELEMETRY"
        \/ Get(Get(payload, "TvEvent"), "timestamp").type = "string"
        \/ EventTypeOf(payload) = "NATIVEAPP_TELEMETRY"
             /\ \/ Has(data, "TvEvent")
                \/ Get(data, "Timestamp").type = "string"
                \/ Get(data, "Timestamp") = Object(<< >>)
        \/ EventTypeOf(payload) = "ACR_TUNER_DATA"
             /\ Value(Flatten(data, {}), StartTime).type = "string"

(* ... refuses a null or "" for the time of the event or of a program ...   *)
TakesLess(payload) ==
    LET flat == Flatten(EventData(payload), {})
    IN  \/ Get(Get(payload, "TvEvent"), "timestamp") \in Unset
        \/ EventTypeOf(payload) = "ACR_TUNER_DATA" /\ StartTime \in DOMAIN flat
             /\ flat[StartTime] \in Unset

(* ... and keeps the NATIVEAPP fields whose names are part of "Timestamp".  *)
KeepsMore(payload) ==
    /\ EventTypeOf(payload) = "NATIVEAPP_TELEMETRY"
    /\ Names(EventData(payload)) \intersect (PartsOfTimestamp \ {"Timestamp"}) # {}
=============================================================================
