--------------------------- MODULE EventDelivery ---------------------------
(***************************************************************************)
(* POST / of one evergreen-tvevents pod, from the await of the body to the *)
(* answer: send_request in src/src/app/routes.py, push_changes_to_kafka    *)
(* and send_to_kafka in src/src/app/output.py, and the decision to         *)
(* obfuscate in src/src/app/obfuscation.py.                                *)
(*                                                                         *)
(* The pod is one event loop.  send_request gives it up only while it      *)
(* awaits request.json(); from there to the answer nothing else runs, but  *)
(* the brokers can fail and the process can die between any two sends.     *)
(*                                                                         *)
(* A TV posts an event and posts it again, up to MaxAttempts times, when   *)
(* it gets a 500, loses the connection, or stops waiting; the attempt it   *)
(* stopped waiting for may still be served.                                *)
(***************************************************************************)
EXTENDS Integers, Sequences, FiniteSets

CONSTANTS Events,        \* the events the TVs have to report
          Channels,      \* the channel ids an event or a blacklist can name
          NoChannel,     \* the payload has no channelid
          Kinds,         \* the payloads considered
          Envs,          \* the settings of the three toggles considered
          MaxAttempts,   \* bound: times a TV posts one event
          MaxCrashes,    \* bound: times the process dies in a behaviour
          NoTopic        \* no send has failed

(* What a payload is to this code: its channel, its iscontentblocked flag,  *)
(* and how it fails, if it does: in request.json(), in a check (with a      *)
(* TvEventsDefaultError), or in generate_output_json or a check that did    *)
(* not foresee it (with any other exception).  EventPayload has the content *)
(* that decides.                                                            *)
Defects == {"none", "body", "validate", "generate"}

Payloads == [channel : Channels \union {NoChannel}, blocked : BOOLEAN,
             defect : Defects]

Toggles == [evergreen : BOOLEAN, legacy : BOOLEAN, debug : BOOLEAN]

ASSUME InputsAssumption ==
    /\ Kinds \subseteq Payloads /\ NoChannel \notin Channels
    /\ Envs \subseteq Toggles
ASSUME AttemptsAssumption == MaxAttempts \in Nat \ {0} /\ MaxCrashes \in Nat

MainTopics == {"evergreen", "legacy"}
DebugTopics == {"evergreen-debug", "legacy-debug"}
Topics == MainTopics \union DebugTopics

ASSUME NoTopicAssumption == NoTopic \notin Topics

Forms == {"clear", "obfuscated"}
Attempts == Events \X (1..MaxAttempts)

VARIABLES env,        \* SEND_EVERGREEN, SEND_LEGACY and TVEVENTS_DEBUG
          kind,       \* the payload of each event
          blacklist,  \* the ids in blacklist_cache's memory
          status,     \* how far each attempt has come
          pending,    \* the send_message calls each handler still has to make
          log,        \* external: what each Kafka topic holds, oldest first
          crashes,    \* times the process has died
          refused     \* ghost: the topic whose send_message raised

vars == <<env, kind, blacklist, status, pending, log, crashes, refused>>

-----------------------------------------------------------------------------
(* Data *)

Statuses == {"unsent", "waiting", "running", "ok", "rejected", "failed", "lost"}
Answered == {"ok", "rejected", "failed"}

Payload(a) == kind[a[1]]

(* A mistake the properties must expose: send_message is awaited, so that   *)
(* another handler runs between two sends.                                  *)
LoopAlwaysFree == TRUE

(* No handler stands between two of its sends. *)
LoopFree == \A a \in Attempts : pending[a] = << >>

(* should_obfuscate_channel, with is_blacklisted: None is never blacklisted. *)
ShouldObfuscate(p) == p.blocked \/ p.channel \in blacklist

(* _get_kafka_topics *)
KafkaTopics(debug) ==
    (IF env.evergreen THEN <<IF debug THEN "evergreen-debug" ELSE "evergreen">>
                      ELSE << >>)
    \o (IF env.legacy THEN <<IF debug THEN "legacy-debug" ELSE "legacy">>
                      ELSE << >>)

SendAll(topics, form) ==
    [i \in 1..Len(topics) |-> [topic |-> topics[i], form |-> form]]

(* A mistake the properties must expose: the fields are overwritten before  *)
(* the debug topics are served.                                             *)
PlanOverwrittenFirst(p) ==
    LET form == IF ShouldObfuscate(p) THEN "obfuscated" ELSE "clear"
    IN  (IF ShouldObfuscate(p) /\ env.debug THEN SendAll(KafkaTopics(TRUE), form)
                                            ELSE << >>)
          \o SendAll(KafkaTopics(FALSE), form)

(* push_changes_to_kafka: the debug topics get the payload as it came, then *)
(* the channel fields are overwritten in place, then the main topics follow. *)
Plan(p) ==
    IF ShouldObfuscate(p)
      THEN (IF env.debug THEN SendAll(KafkaTopics(TRUE), "clear") ELSE << >>)
             \o SendAll(KafkaTopics(FALSE), "obfuscated")
      ELSE SendAll(KafkaTopics(FALSE), "clear")

Init ==
    /\ env \in Envs
    /\ kind \in [Events -> Kinds]
    /\ blacklist \in SUBSET Channels
    /\ status = [a \in Attempts |-> "unsent"]
    /\ pending = [a \in Attempts |-> << >>]
    /\ log = [t \in Topics |-> << >>]
    /\ crashes = 0
    /\ refused = [a \in Attempts |-> NoTopic]

-----------------------------------------------------------------------------
(* The TV *)

(* The first post of an event, or the next one when the TV has no answer    *)
(* that settles the last: it failed, it was lost, or the TV stopped waiting. *)
Post(a) ==
    /\ status[a] = "unsent"
    /\ \A n \in 1..MaxAttempts : n + 1 = a[2] =>
         status[<<a[1], n>>] \in {"waiting", "running", "failed", "lost"}
    /\ status' = [status EXCEPT ![a] = "waiting"]
    /\ UNCHANGED <<env, kind, blacklist, pending, log, crashes, refused>>

-----------------------------------------------------------------------------
(* The handler.  While an attempt is "waiting" it awaits request.json().    *)

Settle(a, answer) == status' = [status EXCEPT ![a] = answer]

(* The body is no JSON, or the TV goes away before all of it was read:      *)
(* request.json() raises and the answer is 400.                             *)
BodyFails(a) ==
    /\ status[a] = "waiting" /\ LoopFree
    /\ Settle(a, "rejected")
    /\ UNCHANGED <<env, kind, blacklist, pending, log, crashes, refused>>

(* A TvEventsDefaultError before anything is sent, from validate_request or *)
(* from the ACR start time generate_output_json checks: its status, 400.    *)
ValidationFails(a) ==
    /\ status[a] = "waiting" /\ LoopFree
    /\ Payload(a).defect = "validate"
    /\ Settle(a, "rejected")
    /\ UNCHANGED <<env, kind, blacklist, pending, log, crashes, refused>>

(* Any other exception there: a 500, before anything is sent. *)
GenerationFails(a) ==
    /\ status[a] = "waiting" /\ LoopFree
    /\ Payload(a).defect = "generate"
    /\ Settle(a, "failed")
    /\ UNCHANGED <<env, kind, blacklist, pending, log, crashes, refused>>

(* A mistake the properties must expose: the answer is given at once and    *)
(* the sends are left to a background task.                                 *)
StartInBackground(a) ==
    /\ status[a] = "waiting" /\ LoopFree
    /\ Payload(a).defect = "none"
    /\ pending' = [pending EXCEPT ![a] = Plan(Payload(a))]
    /\ Settle(a, "ok")
    /\ UNCHANGED <<env, kind, blacklist, log, crashes, refused>>

(* The payload is good: the decision to obfuscate is taken here, once, and  *)
(* fixes every send that follows.  With no active topic the answer is 200.  *)
StartDelivery(a) ==
    /\ status[a] = "waiting" /\ LoopFree
    /\ Payload(a).defect = "none"
    /\ pending' = [pending EXCEPT ![a] = Plan(Payload(a))]
    /\ Settle(a, IF pending'[a] = << >> THEN "ok" ELSE "running")
    /\ UNCHANGED <<env, kind, blacklist, log, crashes, refused>>

Publish(a, send) ==
    log' = [log EXCEPT ![send.topic] = Append(@, [attempt |-> a, form |-> send.form])]

(* send_message returns: the next topic, or after the last one the answer. *)
SendSucceeds(a) ==
    /\ pending[a] # << >>
    /\ Publish(a, Head(pending[a]))
    /\ pending' = [pending EXCEPT ![a] = Tail(@)]
    /\ IF pending'[a] = << >> THEN Settle(a, "ok") ELSE UNCHANGED status
    /\ UNCHANGED <<env, kind, blacklist, crashes, refused>>

(* send_message raises, whether or not the broker has stored the record:    *)
(* the topics after it are not tried.                                       *)
SendRaises(a) ==
    /\ pending[a] # << >>
    /\ Publish(a, Head(pending[a])) \/ UNCHANGED log
    /\ pending' = [pending EXCEPT ![a] = << >>]
    /\ refused' = [refused EXCEPT ![a] = Head(pending[a]).topic]
    /\ UNCHANGED <<env, kind, blacklist, crashes>>

(* Mistakes the properties must expose: the exception logged and forgotten; *)
(* the exception lost, and the answer with it.                              *)
SendFailsQuietly(a) == SendRaises(a) /\ Settle(a, "ok")
SendFailsUnanswered(a) == SendRaises(a) /\ UNCHANGED status

(* The exception becomes the answer: 500. *)
SendFails(a) == SendRaises(a) /\ Settle(a, "failed")

-----------------------------------------------------------------------------
(* Around the handler *)

(* A mistake the properties must expose: refresh() runs in a thread.        *)
BlacklistMovesAnyTime ==
    /\ \E S \in (SUBSET Channels) \ {blacklist} : blacklist' = S
    /\ UNCHANGED <<env, kind, status, pending, log, crashes, refused>>

(* refresh() runs as a whole when no handler holds the loop; what it can    *)
(* bring is BlacklistCache's business.                                      *)
BlacklistMoves ==
    /\ LoopFree
    /\ \E S \in (SUBSET Channels) \ {blacklist} : blacklist' = S
    /\ UNCHANGED <<env, kind, status, pending, log, crashes, refused>>

(* The process dies: every attempt in it loses its connection.  The next    *)
(* life starts with whatever initialize() finds.                            *)
LoseProcess ==
    /\ status' = [a \in Attempts |->
                    IF status[a] \in {"waiting", "running"} THEN "lost" ELSE status[a]]
    /\ pending' = [a \in Attempts |-> << >>]
    /\ UNCHANGED <<env, kind, log, refused>>

Crash ==
    /\ crashes < MaxCrashes
    /\ crashes' = crashes + 1
    /\ LoseProcess
    /\ blacklist' \in SUBSET Channels

Handle(a) ==
    \/ BodyFails(a) \/ ValidationFails(a) \/ GenerationFails(a)
    \/ StartDelivery(a)
    \/ SendSucceeds(a) \/ SendFails(a)

Next ==
    \/ \E a \in Attempts : Post(a) \/ Handle(a)
    \/ BlacklistMoves \/ Crash

Spec == Init /\ [][Next]_vars

(* A coroutine that can run is run (asyncio's ready queue is FIFO), and a   *)
(* body arrives or its connection ends.  TVs need not post or retry.        *)
Fairness == \A a \in Attempts : WF_vars(Handle(a))

FairSpec == Spec /\ Fairness

-----------------------------------------------------------------------------
(* Properties *)

(* Every variable keeps its type. *)
TypeOK ==
    /\ env \in Envs
    /\ kind \in [Events -> Kinds]
    /\ blacklist \in SUBSET Channels
    /\ status \in [Attempts -> Statuses]
    /\ pending \in [Attempts -> Seq([topic : Topics, form : Forms])]
    /\ log \in [Topics -> Seq([attempt : Attempts, form : Forms])]
    /\ crashes \in 0..MaxCrashes
    /\ refused \in [Attempts -> Topics \union {NoTopic}]

ActiveMain == {t \in MainTopics : env[t]}
ActiveDebug == {t \in DebugTopics :
                  env[IF t = "legacy-debug" THEN "legacy" ELSE "evergreen"]}

Holds(t, a) == \E i \in 1..Len(log[t]) : log[t][i].attempt = a

(* Where the records of an attempt stand in a topic, and their forms. *)
Offsets(t, a) == {i \in 1..Len(log[t]) : log[t][i].attempt = a}
FormOf(t, a) == {log[t][i].form : i \in Offsets(t, a)}

(* What a main topic receives in the clear is neither content-blocked nor   *)
(* on the blacklist at the moment it is sent, although the decision was     *)
(* taken before the first send of the attempt.                              *)
NothingSensitiveInClear ==
    [][\A t \in MainTopics :
         Len(log'[t]) > Len(log[t]) =>
           LET r == log'[t][Len(log'[t])]
           IN  r.form = "clear" => ~ShouldObfuscate(Payload(r.attempt))]_vars

(* A 200 means that every active main topic holds the event, once, in one   *)
(* and the same form; if that is the obfuscated form and debugging is on,   *)
(* every active debug topic holds the original.                             *)
OkMeansDelivered ==
    \A a \in Attempts : status[a] = "ok" =>
        \E form \in Forms :
            /\ \A t \in ActiveMain :
                 log[t] # << >> /\ FormOf(t, a) = {form}
                 /\ Cardinality({i \in 1..Len(log[t]) : log[t][i].attempt = a}) = 1
            /\ form = "obfuscated" /\ env.debug =>
                 \A t \in ActiveDebug : FormOf(t, a) = {"clear"}

(* What an attempt leaves behind is a prefix of its plan, however it ends:  *)
(* nothing on a main topic before all of the debug topics, nothing on the   *)
(* legacy topic before the evergreen one; a rejected attempt leaves nothing. *)
PartialDeliveryIsPrefix ==
    \A a \in Attempts :
        /\ status[a] = "rejected" => \A t \in Topics : ~Holds(t, a)
        /\ Holds("legacy", a) /\ env.evergreen => FormOf("evergreen", a) = FormOf("legacy", a)
        /\ Holds("legacy-debug", a) /\ env.evergreen => Holds("evergreen-debug", a)
        /\ \A t \in ActiveMain, d \in ActiveDebug :
             Holds(t, a) /\ Holds(d, a) => FormOf(t, a) = {"obfuscated"}
        /\ \A t \in ActiveMain, d \in ActiveDebug :
             FormOf(t, a) = {"obfuscated"} /\ env.debug => FormOf(d, a) = {"clear"}

(* The two main topics hold the attempts they both hold in the same order.  *)
TopicsAgreeOnOrder ==
    \A i, j \in 1..Len(log["evergreen"]), k, l \in 1..Len(log["legacy"]) :
        /\ i < j
        /\ log["evergreen"][i].attempt = log["legacy"][k].attempt
        /\ log["evergreen"][j].attempt = log["legacy"][l].attempt
        => k < l

(* An attempt that has been answered or lost sends nothing any more, nor a  *)
(* second record of what it sent.                                           *)
NoSendAfterAnswer ==
    [][\A a \in Attempts : status[a] \in Answered \union {"lost"} =>
         \A t \in Topics : Offsets(t, a)' = Offsets(t, a)]_vars

(* Every post gets an answer, unless the process dies under it. *)
EveryPostAnswered ==
    \A a \in Attempts : status[a] = "waiting" ~> status[a] \in Answered \union {"lost"}

-----------------------------------------------------------------------------
(* What the documents say and the code does not do *)

(* feature-parity.md: "Same parallel delivery pattern".  A topic that       *)
(* fails does not keep the event from the other one.                        *)
TopicsFailIndependently ==
    \A a \in Attempts : status[a] = "failed" /\ refused[a] # NoTopic =>
        \A t \in ActiveMain \ {refused[a]} : Holds(t, a)
=============================================================================
