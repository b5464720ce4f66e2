------------------------ MODULE EventDelivery_proofs ------------------------
(***************************************************************************)
(* Machine-checked proofs about EventDelivery, for every set of events,    *)
(* payloads and toggle settings and every number of posts and of deaths.   *)
(***************************************************************************)
EXTENDS EventDelivery, FiniteSetTheorems, SequenceTheorems, TLAPS

-----------------------------------------------------------------------------
(* The inductive invariant: a plan without its sequences.  A plan serves a  *)
(* set of topics, in the order of Rank, each in one form.                   *)

Rank(t) == CASE t = "evergreen-debug" -> 1
             [] t = "legacy-debug" -> 2
             [] t = "evergreen" -> 3
             [] t = "legacy" -> 4

Sends == [topic : Topics, form : Forms]

(* What the plan of a payload serves, where it is obfuscated or is not. *)
PlanTopics(obfuscate) ==
    ActiveMain \union (IF obfuscate /\ env.debug THEN ActiveDebug ELSE {})

PlanForm(obfuscate, t) ==
    IF obfuscate /\ t \in MainTopics THEN "obfuscated" ELSE "clear"

(* The records of attempt a are those of a plan up to some point, each once. *)
SentInOrder(a, obfuscate) ==
    \A t \in Topics : \A i \in 1..Len(log[t]) : log[t][i].attempt = a =>
        /\ t \in PlanTopics(obfuscate)
        /\ log[t][i].form = PlanForm(obfuscate, t)
        /\ \A j \in 1..Len(log[t]) : log[t][j].attempt = a => j = i
        /\ \A u \in PlanTopics(obfuscate) : Rank(u) < Rank(t) => Holds(u, a)

(* The sends of a list are those of a plan, in its order. *)
InPlan(sends, obfuscate) ==
    \A i \in 1..Len(sends) :
        /\ sends[i].topic \in PlanTopics(obfuscate)
        /\ sends[i].form = PlanForm(obfuscate, sends[i].topic)
        /\ \A j \in 1..Len(sends) :
             i < j => Rank(sends[i].topic) < Rank(sends[j].topic)

Serves(sends, t) == \E i \in 1..Len(sends) : sends[i].topic = t

(* The sends that are left are the rest of the plan of attempt a. *)
RestOfPlan(a, obfuscate) ==
    /\ InPlan(pending[a], obfuscate)
    /\ \A t \in PlanTopics(obfuscate) : Holds(t, a) <=> ~Serves(pending[a], t)

(* How far an attempt is, by its status.  While it is running, its plan is  *)
(* the one the blacklist in force now would give it.                        *)
AttemptInv(a) ==
    /\ status[a] = "running" <=> pending[a] # << >>
    /\ status[a] \in {"unsent", "waiting", "rejected"} =>
         \A t \in Topics : ~Holds(t, a)
    /\ status[a] = "running" =>
         \E obfuscate \in BOOLEAN :
            /\ obfuscate <=> ShouldObfuscate(Payload(a))
            /\ SentInOrder(a, obfuscate)
            /\ RestOfPlan(a, obfuscate)
    /\ status[a] \in {"failed", "lost"} =>
         \E obfuscate \in BOOLEAN : SentInOrder(a, obfuscate)
    /\ status[a] = "ok" =>
         \E obfuscate \in BOOLEAN :
            /\ SentInOrder(a, obfuscate)
            /\ \A t \in PlanTopics(obfuscate) : Holds(t, a)

(* One attempt at most has sends left, and what it has sent is the last the *)
(* topics hold.                                                             *)
OneSending ==
    \A a \in Attempts : pending[a] # << >> =>
        /\ \A b \in Attempts : pending[b] # << >> => b = a
        /\ \A t \in Topics : \A i \in 1..Len(log[t]) :
             log[t][i].attempt = a => i = Len(log[t])

DeliveryInv ==
    /\ \A a \in Attempts : AttemptInv(a)
    /\ OneSending
    /\ TopicsAgreeOnOrder

-----------------------------------------------------------------------------
(* What _get_kafka_topics and push_changes_to_kafka make *)

LEMMA PairOfTopics ==
    ASSUME NEW x, NEW y
    PROVE  <<x>> \o <<y>> = <<x, y>>
<1> DEFINE S == {x, y}
           s == <<x>> \o <<y>>
<1>1. <<x>> \in Seq(S) /\ <<y>> \in Seq(S) /\ <<x, y>> \in Seq(S)
  OBVIOUS
<1>2. s \in Seq(S) /\ Len(s) = 2
  BY <1>1, ConcatProperties
<1>3. s[1] = x /\ s[2] = y
  BY <1>1, ConcatProperties
<1> HIDE DEF s, S
<1>4. \A i \in 1..Len(s) : s[i] = <<x, y>>[i]
  BY <1>2, <1>3
<1>5. s = <<x, y>>
  BY <1>1, <1>2, <1>4, SeqEqual
<1> QED
  BY <1>5 DEF s

(* SendAll keeps the topics, in their order, and gives each its form. *)
LEMMA SendAllOfList ==
    ASSUME NEW T \in Seq(Topics), NEW form \in Forms
    PROVE  /\ SendAll(T, form) \in Seq(Sends)
           /\ Len(SendAll(T, form)) = Len(T)
           /\ \A i \in 1..Len(T) : SendAll(T, form)[i] = [topic |-> T[i], form |-> form]
<1> DEFINE r == [i \in 1..Len(T) |-> [topic |-> T[i], form |-> form]]
<1>1. Len(T) \in Nat /\ \A i \in 1..Len(T) : T[i] \in Topics
  BY ElementOfSeq, LenProperties
<1>2. r \in [1..Len(T) -> Sends]
  BY <1>1 DEF Sends
<1>3. r \in Seq(Sends)
  BY <1>1, <1>2, SeqDef
<1>4. Len(r) = Len(T)
  BY <1>1, <1>3, LenProperties
<1>5. \A i \in 1..Len(T) : r[i] = [topic |-> T[i], form |-> form]
  OBVIOUS
<1> QED
  BY <1>3, <1>4, <1>5 DEF SendAll

(* The topics are the active ones, evergreen before legacy. *)
LEMMA TopicList ==
    ASSUME env \in Toggles, NEW debug \in BOOLEAN
    PROVE  LET T == KafkaTopics(debug)
               active == IF debug THEN ActiveDebug ELSE ActiveMain
           IN  /\ T \in Seq(Topics)
               /\ \A i \in 1..Len(T) : T[i] \in active
               /\ \A i, j \in 1..Len(T) : i < j => Rank(T[i]) < Rank(T[j])
               /\ \A t \in active : \E i \in 1..Len(T) : T[i] = t
<1> DEFINE T == KafkaTopics(debug)
           active == IF debug THEN ActiveDebug ELSE ActiveMain
           e == IF debug THEN "evergreen-debug" ELSE "evergreen"
           l == IF debug THEN "legacy-debug" ELSE "legacy"
<1>1. env.evergreen \in BOOLEAN /\ env.legacy \in BOOLEAN
  BY DEF Toggles
<1>2. /\ e \in Topics /\ l \in Topics /\ e # l /\ Rank(e) < Rank(l)
      /\ active = {t \in {e, l} : IF t = e THEN env.evergreen ELSE env.legacy}
  BY DEF Topics, MainTopics, DebugTopics, ActiveMain, ActiveDebug, Rank
<1>3. CASE env.evergreen /\ env.legacy
  <2>1. T = <<e, l>>
    BY <1>3, PairOfTopics DEF KafkaTopics
  <2>2. active = {e, l}
    BY <1>2, <1>3
  <2> HIDE DEF T, active, e, l
  <2> QED
    BY <1>2, <2>1, <2>2 DEF T, active
<1>4. CASE env.evergreen /\ ~env.legacy
  <2>1. T = <<e>>
    BY <1>4 DEF KafkaTopics
  <2>2. active = {e}
    BY <1>2, <1>4
  <2> HIDE DEF T, active, e, l
  <2> QED
    BY <1>2, <2>1, <2>2 DEF T, active
<1>5. CASE ~env.evergreen /\ env.legacy
  <2>1. T = <<l>>
    BY <1>5 DEF KafkaTopics
  <2>2. active = {l}
    BY <1>2, <1>5
  <2> HIDE DEF T, active, e, l
  <2> QED
    BY <1>2, <2>1, <2>2 DEF T, active
<1>6. CASE ~env.evergreen /\ ~env.legacy
  <2>1. T = << >>
    BY <1>6 DEF KafkaTopics
  <2>2. active = {}
    BY <1>2, <1>6
  <2> HIDE DEF T, active, e, l
  <2> QED
    BY <1>2, <2>1, <2>2 DEF T, active
<1> QED
  BY <1>1, <1>3, <1>4, <1>5, <1>6

(* The plan of a payload serves the topics PlanTopics names, each once, in  *)
(* order and in its form.                                                   *)
LEMMA PlanIsInPlan ==
    ASSUME env \in Toggles, NEW p
    PROVE  LET obfuscate == ShouldObfuscate(p)
           IN  /\ Plan(p) \in Seq(Sends)
               /\ InPlan(Plan(p), obfuscate)
               /\ \A t \in PlanTopics(obfuscate) : Serves(Plan(p), t)
<1> DEFINE ob == ShouldObfuscate(p)
           M == KafkaTopics(FALSE)
           D == KafkaTopics(TRUE)
           P == Plan(p)
<1>1. /\ M \in Seq(Topics)
      /\ \A i \in 1..Len(M) : M[i] \in ActiveMain
      /\ \A i, j \in 1..Len(M) : i < j => Rank(M[i]) < Rank(M[j])
      /\ \A t \in ActiveMain : \E i \in 1..Len(M) : M[i] = t
  BY TopicList
<1>2. /\ D \in Seq(Topics)
      /\ \A i \in 1..Len(D) : D[i] \in ActiveDebug
      /\ \A i, j \in 1..Len(D) : i < j => Rank(D[i]) < Rank(D[j])
      /\ \A t \in ActiveDebug : \E i \in 1..Len(D) : D[i] = t
  BY TopicList
<1>3. /\ \A t \in ActiveMain : t \in MainTopics /\ t \in Topics /\ Rank(t) \in Nat
      /\ \A t \in ActiveDebug : t \notin MainTopics /\ t \in Topics /\ Rank(t) \in Nat
      /\ \A t \in ActiveMain, d \in ActiveDebug : Rank(d) < Rank(t)
  BY DEF ActiveMain, ActiveDebug, MainTopics, DebugTopics, Topics, Rank
<1>4. \A form \in Forms : /\ SendAll(M, form) \in Seq(Sends)
                          /\ Len(SendAll(M, form)) = Len(M)
                          /\ \A i \in 1..Len(M) :
                               SendAll(M, form)[i] = [topic |-> M[i], form |-> form]
  BY <1>1, SendAllOfList
<1>5. /\ SendAll(D, "clear") \in Seq(Sends)
      /\ Len(SendAll(D, "clear")) = Len(D)
      /\ \A i \in 1..Len(D) : SendAll(D, "clear")[i] = [topic |-> D[i], form |-> "clear"]
  BY <1>2, SendAllOfList DEF Forms
<1>6. "clear" \in Forms /\ "obfuscated" \in Forms
  BY DEF Forms
<1>7. CASE ob /\ env.debug
  <2> DEFINE A == SendAll(D, "clear")
             B == SendAll(M, "obfuscated")
  <2>1. P = A \o B
    BY <1>7 DEF Plan
  <2>2. /\ P \in Seq(Sends) /\ Len(P) = Len(D) + Len(M)
        /\ Len(D) \in Nat /\ Len(M) \in Nat
        /\ \A i \in 1..Len(P) :
             P[i] = IF i <= Len(D) THEN [topic |-> D[i], form |-> "clear"]
                    ELSE [topic |-> M[i - Len(D)], form |-> "obfuscated"]
    <3> HIDE DEF A, B, M, D, P
    <3>1. A \in Seq(Sends) /\ B \in Seq(Sends) /\ Len(A) = Len(D) /\ Len(B) = Len(M)
      BY <1>4, <1>5, <1>6 DEF A, B
    <3>2. Len(D) \in Nat /\ Len(M) \in Nat
      BY <1>1, <1>2
    <3>3. P \in Seq(Sends) /\ Len(P) = Len(D) + Len(M)
      <4>1. A \o B \in Seq(Sends) /\ Len(A \o B) = Len(A) + Len(B)
        BY <3>1, ConcatProperties
      <4> QED
        BY <2>1, <3>1, <4>1
    <3>4. \A i \in 1..Len(P) : P[i] = IF i <= Len(D) THEN A[i] ELSE B[i - Len(D)]
      BY <2>1, <3>1, <3>2, <3>3, ConcatProperties
    <3>5. \A i \in 1..Len(P) : i <= Len(D) => i \in 1..Len(D)
      BY <3>2, <3>3
    <3>6. \A i \in 1..Len(P) : ~(i <= Len(D)) => i - Len(D) \in 1..Len(M)
      BY <3>2, <3>3
    <3> QED
      BY <1>4, <1>5, <1>6, <3>2, <3>3, <3>4, <3>5, <3>6 DEF A, B
  <2>3. PlanTopics(ob) = ActiveMain \union ActiveDebug
    BY <1>7 DEF PlanTopics
  <2> HIDE DEF M, D, P, ob, A, B
  <2>4. InPlan(P, ob)
    <3>1. ASSUME NEW i \in 1..Len(P)
          PROVE  /\ P[i].topic \in PlanTopics(ob)
                 /\ P[i].form = PlanForm(ob, P[i].topic)
      <4>1. CASE i <= Len(D)
        <5>1. i \in 1..Len(D) /\ P[i].topic = D[i] /\ P[i].form = "clear"
          BY <2>2, <4>1
        <5> QED
          BY <5>1, <1>2, <1>3, <2>3 DEF PlanForm
      <4>2. CASE ~(i <= Len(D))
        <5>1. i - Len(D) \in 1..Len(M) /\ P[i].topic = M[i - Len(D)] /\ P[i].form = "obfuscated"
          BY <2>2, <4>2
        <5> QED
          BY <5>1, <1>1, <1>3, <1>7, <2>3 DEF PlanForm
      <4> QED
        BY <4>1, <4>2
    <3>2. ASSUME NEW i \in 1..Len(P), NEW j \in 1..Len(P), i < j
          PROVE  Rank(P[i].topic) < Rank(P[j].topic)
      <4>1. CASE j <= Len(D)
        <5>1. /\ i \in 1..Len(D) /\ j \in 1..Len(D)
              /\ P[i].topic = D[i] /\ P[j].topic = D[j]
          BY <2>2, <3>2, <4>1
        <5> QED
          BY <5>1, <3>2, <1>2
      <4>2. CASE i <= Len(D) /\ ~(j <= Len(D))
        <5>1. /\ i \in 1..Len(D) /\ j - Len(D) \in 1..Len(M)
              /\ P[i].topic = D[i] /\ P[j].topic = M[j - Len(D)]
          BY <2>2, <3>2, <4>2
        <5> QED
          BY <5>1, <1>1, <1>2, <1>3
      <4>3. CASE ~(i <= Len(D))
        <5>1. /\ i - Len(D) \in 1..Len(M) /\ j - Len(D) \in 1..Len(M)
              /\ i - Len(D) < j - Len(D)
              /\ P[i].topic = M[i - Len(D)] /\ P[j].topic = M[j - Len(D)]
          BY <2>2, <3>2, <4>3
        <5> QED
          BY <5>1, <1>1
      <4> QED
        BY <4>1, <4>2, <4>3
    <3> QED
      BY <3>1, <3>2 DEF InPlan
  <2>5. ASSUME NEW t \in PlanTopics(ob)
        PROVE  Serves(P, t)
    <3>1. CASE t \in ActiveMain
      <4>1. PICK i \in 1..Len(M) : M[i] = t
        BY <1>1, <3>1
      <4>2. i + Len(D) \in 1..Len(P) /\ ~(i + Len(D) <= Len(D)) /\ i + Len(D) - Len(D) = i
        BY <2>2
      <4>3. P[i + Len(D)].topic = t
        BY <2>2, <4>1, <4>2
      <4> QED
        BY <4>2, <4>3 DEF Serves
    <3>2. CASE t \in ActiveDebug
      <4>1. PICK i \in 1..Len(D) : D[i] = t
        BY <1>2, <3>2
      <4>2. i \in 1..Len(P) /\ i <= Len(D)
        BY <2>2
      <4>3. P[i].topic = t
        BY <2>2, <4>1, <4>2
      <4> QED
        BY <4>2, <4>3 DEF Serves
    <3> QED
      BY <2>3, <3>1, <3>2
  <2> QED
    BY <2>2, <2>4, <2>5 DEF P, ob
<1>8. CASE ~(ob /\ env.debug)
  <2> DEFINE form == IF ob THEN "obfuscated" ELSE "clear"
  <2>1. P = SendAll(M, form)
    <3>1. SendAll(M, form) \in Seq(Sends)
      BY <1>4, <1>6
    <3>2. << >> \o SendAll(M, form) = SendAll(M, form)
      BY <3>1
    <3> QED
      BY <1>8, <3>2 DEF Plan
  <2>2. /\ P \in Seq(Sends) /\ Len(P) = Len(M)
        /\ \A i \in 1..Len(P) : P[i] = [topic |-> M[i], form |-> form]
    BY <1>4, <1>6, <2>1
  <2>3. PlanTopics(ob) = ActiveMain
    BY <1>8 DEF PlanTopics
  <2>4. \A t \in ActiveMain : PlanForm(ob, t) = form
    BY <1>3 DEF PlanForm
  <2> HIDE DEF M, D, P, ob, form
  <2>5. ASSUME NEW i \in 1..Len(P)
        PROVE  i \in 1..Len(M) /\ P[i].topic = M[i] /\ P[i].form = form
    <3>1. P[i] = [topic |-> M[i], form |-> form]
      BY <2>2
    <3> QED
      BY <2>2, <3>1
  <2>6. InPlan(P, ob)
    BY <1>1, <2>2, <2>3, <2>4, <2>5 DEF InPlan
  <2>7. \A t \in PlanTopics(ob) : Serves(P, t)
    BY <1>1, <2>2, <2>3, <2>5 DEF Serves
  <2> QED
    BY <2>2, <2>6, <2>7 DEF P, ob
<1> QED
  BY <1>7, <1>8

-----------------------------------------------------------------------------
(* Type correctness *)

LEMMA InputsStay ==
    ASSUME [Next]_vars
    PROVE  UNCHANGED <<env, kind>>
BY DEF Next, vars, Post, Handle, BodyFails, ValidationFails, GenerationFails,
   StartDelivery, SendSucceeds, SendFails, SendRaises, BlacklistMoves, Crash,
   LoseProcess

LEMMA PublishKeepsType ==
    ASSUME TypeOK, NEW a \in Attempts, NEW send \in Sends, Publish(a, send)
    PROVE  log' \in [Topics -> Seq([attempt : Attempts, form : Forms])]
<1>1. send.topic \in Topics /\ send.form \in Forms
  BY DEF Sends
<1>2. [attempt |-> a, form |-> send.form] \in [attempt : Attempts, form : Forms]
  BY <1>1
<1>3. Append(log[send.topic], [attempt |-> a, form |-> send.form])
        \in Seq([attempt : Attempts, form : Forms])
  BY <1>1, <1>2, AppendProperties DEF TypeOK
<1> QED
  BY <1>1, <1>3 DEF Publish, TypeOK

LEMMA HeadAndTail ==
    ASSUME TypeOK, NEW a \in Attempts, pending[a] # << >>
    PROVE  /\ pending[a] \in Seq(Sends)
           /\ Head(pending[a]) \in Sends /\ Head(pending[a]) = pending[a][1]
           /\ Tail(pending[a]) \in Seq(Sends)
           /\ Len(pending[a]) \in Nat /\ Len(pending[a]) >= 1
           /\ Len(Tail(pending[a])) = Len(pending[a]) - 1
           /\ \A i \in 1..Len(Tail(pending[a])) : Tail(pending[a])[i] = pending[a][i + 1]
<1>1. pending[a] \in Seq(Sends)
  BY DEF TypeOK, Sends
<1> QED
  BY <1>1

LEMMA TypeInvariant == Spec => []TypeOK
<1>1. Init => TypeOK
  <2> SUFFICES ASSUME Init PROVE TypeOK
    OBVIOUS
  <2>1. 0 \in 0..MaxCrashes
    BY AttemptsAssumption
  <2> QED
    BY <2>1 DEF Init, TypeOK, Statuses
<1>2. TypeOK /\ [Next]_vars => TypeOK'
  <2> SUFFICES ASSUME TypeOK, [Next]_vars PROVE TypeOK'
    OBVIOUS
  <2>1. CASE UNCHANGED vars
    BY <2>1 DEF vars, TypeOK
  <2>2. ASSUME NEW a \in Attempts, Post(a) PROVE TypeOK'
    BY <2>2 DEF Post, TypeOK, Statuses
  <2>3. ASSUME NEW a \in Attempts, BodyFails(a) PROVE TypeOK'
    BY <2>3 DEF BodyFails, Settle, TypeOK, Statuses
  <2>4. ASSUME NEW a \in Attempts, ValidationFails(a) PROVE TypeOK'
    BY <2>4 DEF ValidationFails, Settle, TypeOK, Statuses
  <2>5. ASSUME NEW a \in Attempts, GenerationFails(a) PROVE TypeOK'
    BY <2>5 DEF GenerationFails, Settle, TypeOK, Statuses
  <2>6. ASSUME NEW a \in Attempts, StartDelivery(a) PROVE TypeOK'
    <3>1. Plan(Payload(a)) \in Seq(Sends)
      BY PlanIsInPlan, InputsAssumption DEF TypeOK
    <3> QED
      BY <2>6, <3>1 DEF StartDelivery, Settle, TypeOK, Statuses, Sends
  <2>7. ASSUME NEW a \in Attempts, SendSucceeds(a) PROVE TypeOK'
    <3>1. pending[a] # << >> /\ Publish(a, Head(pending[a]))
      BY <2>7 DEF SendSucceeds
    <3>2. log' \in [Topics -> Seq([attempt : Attempts, form : Forms])]
      BY <3>1, HeadAndTail, PublishKeepsType
    <3>3. pending' \in [Attempts -> Seq(Sends)]
      BY <2>7, <3>1, HeadAndTail DEF SendSucceeds, TypeOK, Sends
    <3>4. status' \in [Attempts -> Statuses]
      BY <2>7 DEF SendSucceeds, Settle, TypeOK, Statuses
    <3> QED
      BY <2>7, <3>2, <3>3, <3>4 DEF SendSucceeds, TypeOK, Sends
  <2>8. ASSUME NEW a \in Attempts, SendFails(a) PROVE TypeOK'
    <3>1. /\ pending[a] # << >>
          /\ Publish(a, Head(pending[a])) \/ UNCHANGED log
          /\ pending' = [pending EXCEPT ![a] = << >>]
          /\ refused' = [refused EXCEPT ![a] = Head(pending[a]).topic]
          /\ status' = [status EXCEPT ![a] = "failed"]
          /\ UNCHANGED <<env, kind, blacklist, crashes>>
      BY <2>8 DEF SendFails, SendRaises, Settle
    <3>2. log' \in [Topics -> Seq([attempt : Attempts, form : Forms])]
      BY <3>1, HeadAndTail, PublishKeepsType DEF TypeOK
    <3>3. Head(pending[a]).topic \in Topics
      BY <3>1, HeadAndTail DEF Sends
    <3>4. refused' \in [Attempts -> Topics \union {NoTopic}]
      BY <3>1, <3>3 DEF TypeOK
    <3>5. status' \in [Attempts -> Statuses]
      BY <3>1 DEF TypeOK, Statuses
    <3>6. pending' \in [Attempts -> Seq(Sends)]
      <4>1. pending \in [Attempts -> Seq(Sends)]
        BY DEF TypeOK, Sends
      <4>2. << >> \in Seq(Sends)
        OBVIOUS
      <4> QED
        BY <3>1, <4>1, <4>2
    <3> QED
      BY <3>1, <3>2, <3>4, <3>5, <3>6 DEF TypeOK, Sends
  <2>9. CASE BlacklistMoves
    BY <2>9 DEF BlacklistMoves, TypeOK
  <2>10. CASE Crash
    <3>1. crashes' \in 0..MaxCrashes
      BY <2>10, AttemptsAssumption DEF Crash, TypeOK
    <3>2. status' \in [Attempts -> Statuses]
      BY <2>10 DEF Crash, LoseProcess, TypeOK, Statuses
    <3>3. pending' \in [Attempts -> Seq(Sends)]
      BY <2>10 DEF Crash, LoseProcess
    <3> QED
      BY <2>10, <3>1, <3>2, <3>3 DEF Crash, LoseProcess, TypeOK, Sends
  <2> QED
    BY <2>1, <2>2, <2>3, <2>4, <2>5, <2>6, <2>7, <2>8, <2>9, <2>10
       DEF Next, Handle
<1> QED
  BY <1>1, <1>2, PTL DEF Spec

(* Type correctness: every variable keeps its type in every behaviour of    *)
(* send_request and push_changes_to_kafka.                                  *)
THEOREM TypeCorrect == Spec => []TypeOK
BY TypeInvariant

-----------------------------------------------------------------------------
(* What a step does to the topics *)

(* Where the topics stay, what they say of every attempt stays. *)
LEMMA TopicsStay ==
    ASSUME UNCHANGED <<env, log>>
    PROVE  /\ \A b, t : Holds(t, b)' <=> Holds(t, b)
           /\ \A o : PlanTopics(o)' = PlanTopics(o)
           /\ \A b, o : SentInOrder(b, o)' <=> SentInOrder(b, o)
           /\ TopicsAgreeOnOrder' <=> TopicsAgreeOnOrder
BY DEF Holds, PlanTopics, ActiveMain, ActiveDebug, SentInOrder, TopicsAgreeOnOrder

(* A record is appended to one topic, and is of one attempt. *)
LEMMA PublishAppends ==
    ASSUME TypeOK, NEW a \in Attempts, NEW send \in Sends, Publish(a, send),
           UNCHANGED env
    PROVE  /\ Len(log'[send.topic]) = Len(log[send.topic]) + 1
           /\ log'[send.topic][Len(log[send.topic]) + 1]
                = [attempt |-> a, form |-> send.form]
           /\ \A t \in Topics : Len(log[t]) \in Nat
           /\ \A t \in Topics : t # send.topic => log'[t] = log[t]
           /\ \A i \in 1..Len(log[send.topic]) :
                log'[send.topic][i] = log[send.topic][i]
           /\ \A o : PlanTopics(o)' = PlanTopics(o)
           /\ \A b \in Attempts, t \in Topics :
                Holds(t, b)' <=> Holds(t, b) \/ (b = a /\ t = send.topic)
<1> DEFINE u == send.topic
           r == [attempt |-> a, form |-> send.form]
           Records == [attempt : Attempts, form : Forms]
<1>1. u \in Topics /\ r \in Records
  BY DEF Sends
<1>2. /\ log \in [Topics -> Seq(Records)]
      /\ log' = [log EXCEPT ![u] = Append(@, r)]
  BY DEF TypeOK, Publish
<1>3. \A t \in Topics : log[t] \in Seq(Records) /\ Len(log[t]) \in Nat
  BY <1>2, LenProperties
<1> HIDE DEF Records, r
<1>4. log'[u] = Append(log[u], r) /\ \A t \in Topics : t # u => log'[t] = log[t]
  BY <1>1, <1>2
<1>5. /\ Len(log'[u]) = Len(log[u]) + 1
      /\ log'[u][Len(log[u]) + 1] = r
      /\ \A i \in 1..Len(log[u]) : log'[u][i] = log[u][i]
  BY <1>1, <1>3, <1>4, AppendProperties
<1>6. \A o : PlanTopics(o)' = PlanTopics(o)
  BY DEF PlanTopics, ActiveMain, ActiveDebug
<1>7. r.attempt = a
  BY DEF r
<1> HIDE DEF u
<1>8. ASSUME NEW b \in Attempts, NEW t \in Topics
      PROVE  Holds(t, b)' <=> Holds(t, b) \/ (b = a /\ t = u)
  <2>1. CASE t # u
    BY <1>4, <2>1 DEF Holds
  <2>2. CASE t = u
    <3>1. ASSUME Holds(u, b) PROVE Holds(u, b)'
      <4>1. PICK i \in 1..Len(log[u]) : log[u][i].attempt = b
        BY <3>1 DEF Holds
      <4>2. i \in 1..Len(log'[u]) /\ log'[u][i].attempt = b
        BY <1>1, <1>3, <1>5, <4>1
      <4> QED
        BY <4>2 DEF Holds
    <3>2. ASSUME b = a PROVE Holds(u, b)'
      <4>1. Len(log[u]) + 1 \in 1..Len(log'[u])
        BY <1>1, <1>3, <1>5
      <4> QED
        BY <1>5, <1>7, <3>2, <4>1 DEF Holds
    <3>3. ASSUME Holds(u, b)', b # a PROVE Holds(u, b)
      <4>1. PICK i \in 1..Len(log'[u]) : log'[u][i].attempt = b
        BY <3>3 DEF Holds
      <4>2. i # Len(log[u]) + 1
        BY <1>5, <1>7, <3>3, <4>1
      <4>3. i \in 1..Len(log[u])
        BY <1>1, <1>3, <1>5, <4>2
      <4> QED
        BY <1>5, <4>1, <4>3 DEF Holds
    <3> QED
      BY <2>2, <3>1, <3>2, <3>3
  <2> QED
    BY <2>1, <2>2
<1> QED
  BY <1>3, <1>4, <1>5, <1>6, <1>8 DEF u, r

-----------------------------------------------------------------------------
(* Every step keeps the inductive invariant *)

LEMMA DeliveryInvInit == Init => DeliveryInv
BY DEF Init, DeliveryInv, AttemptInv, OneSending, TopicsAgreeOnOrder, Holds,
   Topics, MainTopics

(* A step that changes no topic and no list of sends, and moves no attempt  *)
(* but one, from an attempt without sends to one that has been answered.    *)
LEMMA QuietStep ==
    ASSUME TypeOK, DeliveryInv, UNCHANGED <<env, kind, blacklist, pending, log>>,
           NEW a \in Attempts, NEW answer \in {"waiting", "rejected", "failed"},
           status[a] \in {"unsent", "waiting"}, Settle(a, answer)
    PROVE  DeliveryInv'
<1>1. /\ \A b, t : Holds(t, b)' <=> Holds(t, b)
      /\ \A o : PlanTopics(o)' = PlanTopics(o)
      /\ \A b, o : SentInOrder(b, o)' <=> SentInOrder(b, o)
      /\ TopicsAgreeOnOrder' <=> TopicsAgreeOnOrder
  BY TopicsStay
<1>2. /\ status'[a] = answer
      /\ \A b \in Attempts : b # a => status'[b] = status[b]
  BY DEF Settle, TypeOK
<1>3. \A b, o : RestOfPlan(b, o)' <=> RestOfPlan(b, o)
  BY <1>1 DEF RestOfPlan, InPlan, Serves, PlanForm
<1>4. \A b : ShouldObfuscate(Payload(b))' <=> ShouldObfuscate(Payload(b))
  BY DEF ShouldObfuscate, Payload
<1>5. ASSUME NEW b \in Attempts PROVE AttemptInv(b)'
  <2>1. AttemptInv(b)
    BY DEF DeliveryInv
  <2>2. CASE b = a
    <3>1. pending'[a] = << >> /\ \A t \in Topics : ~Holds(t, a)
      BY <2>1, <2>2 DEF AttemptInv
    <3>2. SentInOrder(a, TRUE)
      BY <3>1 DEF SentInOrder, Holds
    <3> QED
      BY <1>1, <1>2, <2>2, <3>1, <3>2 DEF AttemptInv
  <2>3. CASE b # a
    BY <1>1, <1>2, <1>3, <1>4, <2>1, <2>3 DEF AttemptInv
  <2> QED
    BY <2>2, <2>3
<1>6. OneSending'
  BY DEF DeliveryInv, OneSending
<1> QED
  BY <1>1, <1>5, <1>6 DEF DeliveryInv

(* The start of a delivery: the plan is all that is left. *)
LEMMA StartStep ==
    ASSUME TypeOK, DeliveryInv, NEW a \in Attempts, StartDelivery(a)
    PROVE  DeliveryInv'
<1> DEFINE P == Plan(Payload(a))
<1>0. PICK o \in BOOLEAN : o = ShouldObfuscate(Payload(a))
  BY DEF ShouldObfuscate
<1>1. /\ status[a] = "waiting" /\ \A b \in Attempts : pending[b] = << >>
      /\ pending' = [pending EXCEPT ![a] = P]
      /\ status' = [status EXCEPT ![a] = IF P = << >> THEN "ok" ELSE "running"]
      /\ UNCHANGED <<env, kind, blacklist, log>>
  BY DEF StartDelivery, Settle, LoopFree, TypeOK
<1>2. /\ P \in Seq(Sends) /\ InPlan(P, o)
      /\ \A t \in PlanTopics(o) : Serves(P, t)
  BY <1>0, PlanIsInPlan, InputsAssumption DEF TypeOK
<1>3. /\ \A b, t : Holds(t, b)' <=> Holds(t, b)
      /\ \A p : PlanTopics(p)' = PlanTopics(p)
      /\ \A b, p : SentInOrder(b, p)' <=> SentInOrder(b, p)
      /\ TopicsAgreeOnOrder' <=> TopicsAgreeOnOrder
  BY <1>1, TopicsStay
<1>4. \A b \in Attempts : b # a => status'[b] = status[b] /\ pending'[b] = << >>
  BY <1>1 DEF TypeOK
<1>5. pending'[a] = P /\ status'[a] = IF P = << >> THEN "ok" ELSE "running"
  BY <1>1 DEF TypeOK
<1>6. \A t \in Topics : ~Holds(t, a)
  BY <1>1 DEF DeliveryInv, AttemptInv
<1>7. AttemptInv(a)'
  <2>1. PlanTopics(o) \subseteq Topics
    BY DEF PlanTopics, ActiveMain, ActiveDebug, Topics
  <2>2. SentInOrder(a, o)
    BY <1>6 DEF SentInOrder, Holds
  <2>3. ShouldObfuscate(Payload(a))' <=> o
    BY <1>0, <1>1 DEF ShouldObfuscate, Payload
  <2> HIDE DEF P
  <2>4. CASE P = << >>
    <3>1. \A t \in PlanTopics(o) : FALSE
      BY <1>2, <2>4 DEF Serves
    <3> QED
      BY <1>3, <1>5, <2>2, <2>4, <3>1 DEF AttemptInv
  <2>5. CASE P # << >>
    <3>1. InPlan(pending[a], o)'
      BY <1>2, <1>3, <1>5 DEF InPlan, PlanForm
    <3>2. \A t \in PlanTopics(o) : Serves(pending[a], t)'
      BY <1>2, <1>5 DEF Serves
    <3>3. RestOfPlan(a, o)'
      BY <1>3, <1>6, <2>1, <3>1, <3>2 DEF RestOfPlan
    <3> QED
      BY <1>3, <1>5, <2>2, <2>3, <2>5, <3>3 DEF AttemptInv
  <2> QED
    BY <2>4, <2>5
<1>8. ASSUME NEW b \in Attempts, b # a PROVE AttemptInv(b)'
  <2>1. AttemptInv(b) /\ status[b] # "running"
    BY <1>1 DEF DeliveryInv, AttemptInv
  <2> QED
    BY <1>3, <1>4, <1>8, <2>1 DEF AttemptInv
<1>9. OneSending'
  <2>1. \A t \in Topics : \A i \in 1..Len(log'[t]) : log'[t][i].attempt # a
    BY <1>1, <1>6 DEF Holds
  <2> QED
    BY <1>4, <2>1 DEF OneSending
<1> QED
  BY <1>3, <1>7, <1>8, <1>9 DEF DeliveryInv

(* The head of the rest of a plan comes before what stays, and is not held. *)
LEMMA HeadOfRest ==
    ASSUME TypeOK, NEW a \in Attempts, pending[a] # << >>, NEW o \in BOOLEAN,
           RestOfPlan(a, o)
    PROVE  LET h == Head(pending[a])
               rest == Tail(pending[a])
           IN  /\ h.topic \in PlanTopics(o) /\ h.form = PlanForm(o, h.topic)
               /\ ~Holds(h.topic, a)
               /\ InPlan(rest, o) /\ ~Serves(rest, h.topic)
               /\ \A t \in PlanTopics(o) :
                    /\ Serves(pending[a], t) <=> t = h.topic \/ Serves(rest, t)
                    /\ Rank(t) < Rank(h.topic) => Holds(t, a)
<1> DEFINE s == pending[a]
           h == Head(s)
           rest == Tail(s)
<1>1. /\ s \in Seq(Sends) /\ h \in Sends /\ h = s[1] /\ rest \in Seq(Sends)
      /\ Len(s) \in Nat /\ Len(s) >= 1 /\ Len(rest) = Len(s) - 1
      /\ \A i \in 1..Len(rest) : rest[i] = s[i + 1]
  BY HeadAndTail
<1>2. /\ InPlan(s, o)
      /\ \A t \in PlanTopics(o) : Holds(t, a) <=> ~Serves(s, t)
  BY DEF RestOfPlan
<1> HIDE DEF s, h, rest
<1>3. 1 \in 1..Len(s) /\ \A i \in 1..Len(rest) : i + 1 \in 1..Len(s)
  BY <1>1
<1>4. h.topic \in PlanTopics(o) /\ h.form = PlanForm(o, h.topic)
  BY <1>1, <1>2, <1>3 DEF InPlan
<1>5. \A t : Serves(s, t) <=> t = h.topic \/ Serves(rest, t)
  <2>1. \A t : Serves(s, t) => t = h.topic \/ Serves(rest, t)
    <3> SUFFICES ASSUME NEW t, NEW i \in 1..Len(s), s[i].topic = t
                 PROVE  t = h.topic \/ Serves(rest, t)
      BY DEF Serves
    <3>1. CASE i = 1
      BY <1>1, <3>1
    <3>2. CASE i # 1
      <4>1. i - 1 \in 1..Len(rest) /\ (i - 1) + 1 = i
        BY <1>1, <3>2
      <4>2. rest[i - 1] = s[i]
        BY <1>1, <4>1
      <4> QED
        BY <4>1, <4>2 DEF Serves
    <3> QED
      BY <3>1, <3>2
  <2>2. \A t : t = h.topic \/ Serves(rest, t) => Serves(s, t)
    BY <1>1, <1>3 DEF Serves
  <2> QED
    BY <2>1, <2>2
<1>6. \A i \in 1..Len(rest) : Rank(h.topic) < Rank(rest[i].topic)
  <2> SUFFICES ASSUME NEW i \in 1..Len(rest)
               PROVE  Rank(h.topic) < Rank(rest[i].topic)
    OBVIOUS
  <2>1. i + 1 \in 1..Len(s) /\ 1 < i + 1 /\ rest[i] = s[i + 1]
    BY <1>1, <1>3
  <2> QED
    BY <1>1, <1>2, <1>3, <2>1 DEF InPlan
<1>7. InPlan(rest, o)
  <2> SUFFICES ASSUME NEW i \in 1..Len(rest)
               PROVE  /\ rest[i].topic \in PlanTopics(o)
                      /\ rest[i].form = PlanForm(o, rest[i].topic)
                      /\ \A j \in 1..Len(rest) :
                           i < j => Rank(rest[i].topic) < Rank(rest[j].topic)
    BY DEF InPlan
  <2>1. i + 1 \in 1..Len(s) /\ rest[i] = s[i + 1]
    BY <1>1, <1>3
  <2>2. ASSUME NEW j \in 1..Len(rest), i < j
        PROVE  Rank(rest[i].topic) < Rank(rest[j].topic)
    <3>1. j + 1 \in 1..Len(s) /\ rest[j] = s[j + 1] /\ i + 1 < j + 1
      BY <1>1, <1>3, <2>2
    <3> QED
      BY <1>2, <2>1, <3>1 DEF InPlan
  <2> QED
    BY <1>2, <2>1, <2>2 DEF InPlan
<1>8. \A t \in PlanTopics(o) : Rank(t) \in Nat
  BY DEF PlanTopics, ActiveMain, ActiveDebug, MainTopics, DebugTopics, Rank
<1>9. ~Serves(rest, h.topic)
  BY <1>4, <1>6, <1>8 DEF Serves
<1>10. ASSUME NEW t \in PlanTopics(o), Rank(t) < Rank(h.topic)
       PROVE  Holds(t, a)
  <2>1. ~Serves(rest, t)
    <3> SUFFICES ASSUME NEW i \in 1..Len(rest), rest[i].topic = t
                 PROVE  FALSE
      BY DEF Serves
    <3> QED
      BY <1>4, <1>6, <1>8, <1>10
  <2>2. t # h.topic
    BY <1>8, <1>10
  <2> QED
    BY <1>2, <1>5, <2>1, <2>2
<1>11. ~Holds(h.topic, a)
  BY <1>2, <1>4, <1>5
<1> QED
  BY <1>4, <1>5, <1>7, <1>9, <1>10, <1>11 DEF s, h, rest

(* The next send of a plan reaches its topic. *)
LEMMA PublishStep ==
    ASSUME TypeOK, DeliveryInv, NEW a \in Attempts, pending[a] # << >>,
           Publish(a, Head(pending[a])), UNCHANGED env,
           NEW o \in BOOLEAN, SentInOrder(a, o), RestOfPlan(a, o)
    PROVE  /\ SentInOrder(a, o)'
           /\ \A b \in Attempts, p \in BOOLEAN :
                b # a /\ SentInOrder(b, p) => SentInOrder(b, p)'
           /\ TopicsAgreeOnOrder'
           /\ \A t \in Topics : \A i \in 1..Len(log'[t]) :
                log'[t][i].attempt = a => i = Len(log'[t])
           /\ \A t \in PlanTopics(o) :
                Holds(t, a)' <=> ~Serves(Tail(pending[a]), t)
<1> DEFINE h == Head(pending[a])
           u == h.topic
           n == Len(log[u])
<1>1. h \in Sends
  BY HeadAndTail
<1>2. /\ u \in PlanTopics(o) /\ h.form = PlanForm(o, u)
      /\ ~Holds(u, a)
      /\ ~Serves(Tail(pending[a]), u)
      /\ \A t \in PlanTopics(o) :
           /\ Serves(pending[a], t) <=> t = u \/ Serves(Tail(pending[a]), t)
           /\ Rank(t) < Rank(u) => Holds(t, a)
  BY HeadOfRest
<1>3. /\ Len(log'[u]) = n + 1
      /\ log'[u][n + 1] = [attempt |-> a, form |-> h.form]
      /\ \A t \in Topics : Len(log[t]) \in Nat
      /\ \A t \in Topics : t # u => log'[t] = log[t]
      /\ \A i \in 1..n : log'[u][i] = log[u][i]
      /\ \A p : PlanTopics(p)' = PlanTopics(p)
      /\ \A b \in Attempts, t \in Topics : Holds(t, b)' <=> Holds(t, b) \/ (b = a /\ t = u)
  BY <1>1, PublishAppends, SMTT(30)
<1>4. u \in Topics /\ \A p : PlanTopics(p) \subseteq Topics
  BY <1>1 DEF Sends, PlanTopics, ActiveMain, ActiveDebug, Topics
<1>5. \A i \in 1..n : log[u][i].attempt # a
  BY <1>2 DEF Holds
<1> HIDE DEF h, u, n
<1>6. n \in Nat
  BY <1>3, <1>4 DEF n
<1>7. \A i \in 1..Len(log'[u]) : i \in 1..n \/ i = n + 1
  BY <1>3, <1>6
<1>8. /\ \A i \in 1..Len(log'[u]) : log'[u][i].attempt = a <=> i = n + 1
      /\ log'[u][n + 1].form = h.form
  BY <1>3, <1>5, <1>7
<1>9. SentInOrder(a, o)'
  <2> SUFFICES ASSUME NEW t \in Topics, NEW i \in 1..Len(log'[t]), log'[t][i].attempt = a
               PROVE  /\ t \in PlanTopics(o)
                      /\ log'[t][i].form = PlanForm(o, t)
                      /\ \A j \in 1..Len(log'[t]) : log'[t][j].attempt = a => j = i
                      /\ \A v \in PlanTopics(o) : Rank(v) < Rank(t) => Holds(v, a)'
    BY <1>3 DEF SentInOrder, PlanForm
  <2>1. CASE t = u
    <3>1. i = n + 1
      BY <1>8, <2>1
    <3> QED
      BY <1>2, <1>3, <1>4, <1>8, <2>1, <3>1
  <2>2. CASE t # u
    BY <1>3, <1>4, <2>2 DEF SentInOrder
  <2> QED
    BY <2>1, <2>2
<1>10. ASSUME NEW b \in Attempts, NEW p \in BOOLEAN, b # a, SentInOrder(b, p)
       PROVE  SentInOrder(b, p)'
  <2> SUFFICES ASSUME NEW t \in Topics, NEW i \in 1..Len(log'[t]), log'[t][i].attempt = b
               PROVE  /\ t \in PlanTopics(p)
                      /\ log'[t][i].form = PlanForm(p, t)
                      /\ \A j \in 1..Len(log'[t]) : log'[t][j].attempt = b => j = i
                      /\ \A v \in PlanTopics(p) : Rank(v) < Rank(t) => Holds(v, b)'
    BY <1>3 DEF SentInOrder, PlanForm
  <2>1. /\ i \in 1..Len(log[t]) /\ log'[t][i] = log[t][i]
        /\ \A j \in 1..Len(log'[t]) : log'[t][j].attempt = b =>
             j \in 1..Len(log[t]) /\ log'[t][j] = log[t][j]
    <3>1. CASE t = u
      BY <1>3, <1>7, <1>8, <1>10, <3>1 DEF n
    <3>2. CASE t # u
      BY <1>3, <3>2
    <3> QED
      BY <3>1, <3>2
  <2> QED
    BY <1>3, <1>4, <1>10, <2>1, SMTT(30) DEF SentInOrder
<1>11. \A t \in Topics : \A i \in 1..Len(log'[t]) :
         log'[t][i].attempt = a => i = Len(log'[t])
  <2>1. \A t \in Topics : \A i \in 1..Len(log[t]) :
          log[t][i].attempt = a => i = Len(log[t])
    BY DEF DeliveryInv, OneSending
  <2> QED
    BY <1>3, <1>8, <2>1
<1>12. TopicsAgreeOnOrder'
  <2> DEFINE E == log["evergreen"]
             L == log["legacy"]
  <2> SUFFICES ASSUME NEW i \in 1..Len(E'), NEW j \in 1..Len(E'),
                      NEW k \in 1..Len(L'), NEW l \in 1..Len(L'),
                      i < j, E'[i].attempt = L'[k].attempt,
                      E'[j].attempt = L'[l].attempt
               PROVE  k < l
    BY DEF TopicsAgreeOnOrder
  <2>1. "evergreen" \in Topics /\ "legacy" \in Topics
    BY DEF Topics, MainTopics
  <2>2. Len(E) \in Nat /\ Len(L) \in Nat
    BY <1>3, <2>1
  <2>3. TopicsAgreeOnOrder
    BY DEF DeliveryInv
  <2>4. CASE u = "legacy"
    <3>1. E' = E /\ Len(L') = n + 1 /\ n = Len(L)
      BY <1>3, <2>1, <2>4 DEF n
    <3>2. l = n + 1 => k < l
      <4> SUFFICES ASSUME l = n + 1, k = n + 1 PROVE FALSE
        BY <1>6, <3>1
      <4>1. E[i].attempt = a
        BY <1>8, <2>4, <3>1
      <4>2. i = Len(E)
        BY <1>11, <2>1, <3>1, <4>1
      <4> QED
        BY <2>2, <3>1, <4>2
    <3>3. l # n + 1 => k # n + 1
      <4> SUFFICES ASSUME k = n + 1 PROVE FALSE
        OBVIOUS
      <4>1. E[i].attempt = a
        BY <1>8, <2>4, <3>1
      <4>2. i = Len(E)
        BY <1>11, <2>1, <3>1, <4>1
      <4> QED
        BY <2>2, <3>1, <4>2
    <3>4. CASE l # n + 1
      <4>1. k \in 1..Len(L) /\ l \in 1..Len(L)
        BY <1>7, <2>4, <3>1, <3>3, <3>4
      <4>2. L'[k] = L[k] /\ L'[l] = L[l]
        BY <1>3, <2>4, <3>1, <4>1
      <4> QED
        BY <2>3, <3>1, <4>1, <4>2 DEF TopicsAgreeOnOrder
    <3> QED
      BY <3>2, <3>4
  <2>5. CASE u = "evergreen"
    <3>1. L' = L /\ Len(E') = n + 1 /\ n = Len(E)
      BY <1>3, <2>1, <2>5 DEF n
    <3>2. ~Holds("legacy", a)
      <4> SUFFICES ASSUME NEW m \in 1..Len(L), L[m].attempt = a PROVE FALSE
        BY DEF Holds
      <4>1. Rank("evergreen") < Rank("legacy")
        BY DEF Rank
      <4>2. \A v \in PlanTopics(o) : Rank(v) < Rank("legacy") => Holds(v, a)
        BY <2>1 DEF SentInOrder
      <4> QED
        BY <1>2, <2>5, <4>1, <4>2
    <3>3. \A m \in 1..Len(L) : L[m].attempt # a
      BY <3>2 DEF Holds
    <3>4. j # n + 1
      BY <1>8, <2>5, <3>1, <3>3
    <3>5. i \in 1..n /\ j \in 1..n
      BY <1>6, <1>7, <2>5, <3>1, <3>4
    <3>6. E'[i] = E[i] /\ E'[j] = E[j]
      BY <1>3, <2>5, <3>5
    <3> QED
      BY <2>3, <3>1, <3>5, <3>6 DEF TopicsAgreeOnOrder
  <2>6. CASE u # "legacy" /\ u # "evergreen"
    <3>1. L' = L /\ E' = E
      BY <1>3, <2>1, <2>6
    <3> QED
      BY <2>3, <3>1 DEF TopicsAgreeOnOrder
  <2> QED
    BY <2>4, <2>5, <2>6
<1>13. \A t \in PlanTopics(o) : Holds(t, a)' <=> ~Serves(Tail(pending[a]), t)
  <2>1. \A t \in PlanTopics(o) : Holds(t, a) <=> ~Serves(pending[a], t)
    BY DEF RestOfPlan
  <2> QED
    BY <1>2, <1>3, <1>4, <2>1
<1> QED
  BY <1>9, <1>10, <1>11, <1>12, <1>13

(* A step of the attempt that is sending leaves the others where they were. *)
LEMMA OthersStay ==
    ASSUME TypeOK, DeliveryInv, NEW a \in Attempts, pending[a] # << >>,
           UNCHANGED <<env, kind, blacklist>>,
           Publish(a, Head(pending[a])) \/ UNCHANGED log,
           \A b \in Attempts : b # a =>
             status'[b] = status[b] /\ pending'[b] = pending[b],
           NEW b \in Attempts, b # a
    PROVE  pending'[b] = << >> /\ AttemptInv(b)'
<1>1. pending[b] = << >> /\ pending'[b] = << >>
  BY DEF DeliveryInv, OneSending
<1>2. AttemptInv(b) /\ status[b] # "running" /\ status'[b] = status[b]
  BY <1>1 DEF DeliveryInv, AttemptInv
<1>3. PICK o \in BOOLEAN : SentInOrder(a, o) /\ RestOfPlan(a, o)
  BY DEF DeliveryInv, AttemptInv
<1>4. /\ \A t \in Topics : Holds(t, b)' <=> Holds(t, b)
      /\ \A p : PlanTopics(p)' = PlanTopics(p)
      /\ \A p \in BOOLEAN : SentInOrder(b, p) => SentInOrder(b, p)'
  <2>1. CASE Publish(a, Head(pending[a]))
    <3>1. /\ \A t \in Topics : Holds(t, b)' <=> Holds(t, b)
          /\ \A p : PlanTopics(p)' = PlanTopics(p)
      BY <2>1, HeadAndTail, PublishAppends
    <3>2. \A p \in BOOLEAN : SentInOrder(b, p) => SentInOrder(b, p)'
      BY <1>3, <2>1, PublishStep
    <3> QED
      BY <3>1, <3>2
  <2>2. CASE UNCHANGED log
    BY <2>2, TopicsStay
  <2> QED
    BY <2>1, <2>2
<1>5. \A p : PlanTopics(p) \subseteq Topics
  BY DEF PlanTopics, ActiveMain, ActiveDebug, Topics
<1> QED
  BY <1>1, <1>2, <1>4, <1>5 DEF AttemptInv

LEMMA SendSucceedsStep ==
    ASSUME TypeOK, DeliveryInv, NEW a \in Attempts, SendSucceeds(a)
    PROVE  DeliveryInv'
<1>1. /\ pending[a] # << >> /\ Publish(a, Head(pending[a]))
      /\ pending' = [pending EXCEPT ![a] = Tail(pending[a])]
      /\ status' = IF pending'[a] = << >> THEN [status EXCEPT ![a] = "ok"] ELSE status
      /\ UNCHANGED <<env, kind, blacklist>>
  BY DEF SendSucceeds, Settle
<1>2. /\ pending'[a] = Tail(pending[a])
      /\ status'[a] = IF pending'[a] = << >> THEN "ok" ELSE status[a]
      /\ \A b \in Attempts : b # a =>
           status'[b] = status[b] /\ pending'[b] = pending[b]
  BY <1>1 DEF TypeOK
<1>3. status[a] = "running"
  BY <1>1 DEF DeliveryInv, AttemptInv
<1>4. PICK o \in BOOLEAN : /\ o <=> ShouldObfuscate(Payload(a))
                           /\ SentInOrder(a, o) /\ RestOfPlan(a, o)
  BY <1>3 DEF DeliveryInv, AttemptInv
<1>5. /\ SentInOrder(a, o)'
      /\ TopicsAgreeOnOrder'
      /\ \A t \in Topics : \A i \in 1..Len(log'[t]) :
           log'[t][i].attempt = a => i = Len(log'[t])
      /\ \A t \in PlanTopics(o) : Holds(t, a)' <=> ~Serves(Tail(pending[a]), t)
  BY <1>1, <1>4, PublishStep
<1>6. PlanTopics(o)' = PlanTopics(o) /\ InPlan(Tail(pending[a]), o)
  BY <1>1, <1>4, HeadAndTail, PublishAppends, HeadOfRest
<1>7. AttemptInv(a)'
  <2>1. CASE Tail(pending[a]) = << >>
    <3>1. \A t \in PlanTopics(o) : Holds(t, a)'
      <4>1. \A t : ~Serves(<< >>, t)
        BY DEF Serves
      <4> QED
        BY <1>5, <2>1, <4>1
    <3> QED
      BY <1>2, <1>5, <1>6, <2>1, <3>1 DEF AttemptInv
  <2>2. CASE Tail(pending[a]) # << >>
    <3>1. InPlan(pending[a], o)'
      BY <1>2, <1>6 DEF InPlan, PlanForm
    <3>2. \A t \in PlanTopics(o) : Holds(t, a)' <=> ~Serves(pending[a], t)'
      BY <1>2, <1>5 DEF Serves
    <3>3. RestOfPlan(a, o)'
      BY <1>6, <3>1, <3>2 DEF RestOfPlan
    <3>4. ShouldObfuscate(Payload(a))' <=> o
      BY <1>1, <1>4 DEF ShouldObfuscate, Payload
    <3> QED
      BY <1>2, <1>3, <1>5, <2>2, <3>3, <3>4 DEF AttemptInv
  <2> QED
    BY <2>1, <2>2
<1>8. \A b \in Attempts : b # a => pending'[b] = << >> /\ AttemptInv(b)'
  BY <1>1, <1>2, OthersStay
<1>9. OneSending'
  BY <1>5, <1>8 DEF OneSending
<1> QED
  BY <1>5, <1>7, <1>8, <1>9 DEF DeliveryInv

LEMMA SendFailsStep ==
    ASSUME TypeOK, DeliveryInv, NEW a \in Attempts, SendFails(a)
    PROVE  DeliveryInv'
<1>1. /\ pending[a] # << >>
      /\ Publish(a, Head(pending[a])) \/ UNCHANGED log
      /\ pending' = [pending EXCEPT ![a] = << >>]
      /\ status' = [status EXCEPT ![a] = "failed"]
      /\ UNCHANGED <<env, kind, blacklist>>
  BY DEF SendFails, SendRaises, Settle
<1>2. /\ pending'[a] = << >> /\ status'[a] = "failed"
      /\ \A b \in Attempts : b # a =>
           status'[b] = status[b] /\ pending'[b] = pending[b]
  BY <1>1 DEF TypeOK
<1>3. PICK o \in BOOLEAN : SentInOrder(a, o) /\ RestOfPlan(a, o)
  BY <1>1 DEF DeliveryInv, AttemptInv
<1>4. SentInOrder(a, o)' /\ TopicsAgreeOnOrder'
  <2>1. CASE Publish(a, Head(pending[a]))
    BY <1>1, <1>3, <2>1, PublishStep
  <2>2. CASE UNCHANGED log
    BY <1>1, <1>3, <2>2, TopicsStay DEF DeliveryInv
  <2> QED
    BY <1>1, <2>1, <2>2
<1>5. AttemptInv(a)'
  BY <1>2, <1>4 DEF AttemptInv
<1>6. \A b \in Attempts : b # a => pending'[b] = << >> /\ AttemptInv(b)'
  BY <1>1, <1>2, OthersStay
<1>7. OneSending'
  BY <1>2, <1>6 DEF OneSending
<1> QED
  BY <1>4, <1>5, <1>6, <1>7 DEF DeliveryInv

(* The blacklist changes only where no attempt has a plan to keep. *)
LEMMA BlacklistStep ==
    ASSUME TypeOK, DeliveryInv, BlacklistMoves
    PROVE  DeliveryInv'
<1>1. /\ \A b \in Attempts : pending[b] = << >>
      /\ UNCHANGED <<env, kind, status, pending, log>>
  BY DEF BlacklistMoves, LoopFree
<1>2. /\ \A b, t : Holds(t, b)' <=> Holds(t, b)
      /\ \A o : PlanTopics(o)' = PlanTopics(o)
      /\ \A b, o : SentInOrder(b, o)' <=> SentInOrder(b, o)
      /\ TopicsAgreeOnOrder' <=> TopicsAgreeOnOrder
  BY <1>1, TopicsStay
<1>3. ASSUME NEW b \in Attempts PROVE AttemptInv(b)'
  <2>1. AttemptInv(b) /\ status[b] # "running"
    BY <1>1 DEF DeliveryInv, AttemptInv
  <2> QED
    BY <1>1, <1>2, <2>1 DEF AttemptInv
<1> QED
  BY <1>1, <1>2, <1>3 DEF DeliveryInv, OneSending

LEMMA CrashStep ==
    ASSUME TypeOK, DeliveryInv, Crash
    PROVE  DeliveryInv'
<1>1. /\ \A b \in Attempts :
           /\ pending'[b] = << >>
           /\ status'[b] = IF status[b] \in {"waiting", "running"} THEN "lost"
                           ELSE status[b]
      /\ UNCHANGED <<env, kind, log>>
  BY DEF Crash, LoseProcess
<1>2. /\ \A b, t : Holds(t, b)' <=> Holds(t, b)
      /\ \A o : PlanTopics(o)' = PlanTopics(o)
      /\ \A b, o : SentInOrder(b, o)' <=> SentInOrder(b, o)
      /\ TopicsAgreeOnOrder' <=> TopicsAgreeOnOrder
  BY <1>1, TopicsStay
<1>3. ASSUME NEW b \in Attempts PROVE AttemptInv(b)'
  <2>1. AttemptInv(b)
    BY DEF DeliveryInv
  <2>2. CASE status[b] = "waiting"
    <3>1. SentInOrder(b, TRUE)
      BY <2>1, <2>2 DEF AttemptInv, SentInOrder, Holds
    <3> QED
      BY <1>1, <1>2, <2>2, <3>1 DEF AttemptInv
  <2>3. CASE status[b] = "running"
    BY <1>1, <1>2, <2>1, <2>3 DEF AttemptInv
  <2>4. CASE status[b] \notin {"waiting", "running"}
    BY <1>1, <1>2, <2>1, <2>4 DEF AttemptInv
  <2> QED
    BY <2>2, <2>3, <2>4
<1>4. OneSending'
  BY <1>1 DEF OneSending
<1> QED
  BY <1>2, <1>3, <1>4 DEF DeliveryInv

LEMMA DeliveryInvStep ==
    ASSUME TypeOK, DeliveryInv, [Next]_vars
    PROVE  DeliveryInv'
<1>1. CASE UNCHANGED vars
  <2>1. /\ \A b, t : Holds(t, b)' <=> Holds(t, b)
        /\ \A o : PlanTopics(o)' = PlanTopics(o)
        /\ \A b, o : SentInOrder(b, o)' <=> SentInOrder(b, o)
        /\ TopicsAgreeOnOrder' <=> TopicsAgreeOnOrder
    BY <1>1, TopicsStay DEF vars
  <2>2. \A b, o : RestOfPlan(b, o)' <=> RestOfPlan(b, o)
    BY <1>1, <2>1 DEF vars, RestOfPlan, InPlan, Serves, PlanForm
  <2>3. \A b : ShouldObfuscate(Payload(b))' <=> ShouldObfuscate(Payload(b))
    BY <1>1 DEF vars, ShouldObfuscate, Payload
  <2>4. \A b \in Attempts : AttemptInv(b)'
    BY <1>1, <2>1, <2>2, <2>3 DEF vars, DeliveryInv, AttemptInv
  <2> QED
    BY <1>1, <2>1, <2>4 DEF vars, DeliveryInv, OneSending
<1>2. ASSUME NEW a \in Attempts, Post(a) PROVE DeliveryInv'
  BY <1>2, QuietStep DEF Post, Settle
<1>3. ASSUME NEW a \in Attempts, BodyFails(a) PROVE DeliveryInv'
  BY <1>3, QuietStep DEF BodyFails
<1>4. ASSUME NEW a \in Attempts, ValidationFails(a) PROVE DeliveryInv'
  BY <1>4, QuietStep DEF ValidationFails
<1>5. ASSUME NEW a \in Attempts, GenerationFails(a) PROVE DeliveryInv'
  BY <1>5, QuietStep DEF GenerationFails
<1>6. ASSUME NEW a \in Attempts, StartDelivery(a) PROVE DeliveryInv'
  BY <1>6, StartStep
<1>7. ASSUME NEW a \in Attempts, SendSucceeds(a) PROVE DeliveryInv'
  BY <1>7, SendSucceedsStep
<1>8. ASSUME NEW a \in Attempts, SendFails(a) PROVE DeliveryInv'
  BY <1>8, SendFailsStep
<1>9. CASE BlacklistMoves
  BY <1>9, BlacklistStep
<1>10. CASE Crash
  BY <1>10, CrashStep
<1> QED
  BY <1>1, <1>2, <1>3, <1>4, <1>5, <1>6, <1>7, <1>8, <1>9, <1>10
     DEF Next, Handle

LEMMA DeliveryInvariant == Spec => [](TypeOK /\ DeliveryInv)
<1>1. Init => DeliveryInv
  BY DeliveryInvInit
<1>2. TypeOK /\ DeliveryInv /\ [Next]_vars => DeliveryInv'
  BY DeliveryInvStep
<1> QED
  BY <1>1, <1>2, TypeInvariant, PTL DEF Spec

-----------------------------------------------------------------------------
(* What the inductive invariant says of the answers and of the topics *)

(* In a plan every record of an attempt on a topic has the plan's form, and *)
(* there is one of it.                                                      *)
LEMMA RecordsOfPlan ==
    ASSUME TypeOK, NEW a \in Attempts, NEW o \in BOOLEAN, SentInOrder(a, o),
           NEW t \in Topics, Holds(t, a)
    PROVE  /\ t \in PlanTopics(o)
           /\ FormOf(t, a) = {PlanForm(o, t)}
           /\ log[t] # << >>
           /\ Cardinality({i \in 1..Len(log[t]) : log[t][i].attempt = a}) = 1
           /\ \A u \in PlanTopics(o) : Rank(u) < Rank(t) => Holds(u, a)
<1>1. PICK i \in 1..Len(log[t]) : log[t][i].attempt = a
  BY DEF Holds
<1>2. /\ t \in PlanTopics(o) /\ log[t][i].form = PlanForm(o, t)
      /\ \A j \in 1..Len(log[t]) : log[t][j].attempt = a => j = i
      /\ \A u \in PlanTopics(o) : Rank(u) < Rank(t) => Holds(u, a)
  BY <1>1 DEF SentInOrder
<1>3. {j \in 1..Len(log[t]) : log[t][j].attempt = a} = {i}
  BY <1>1, <1>2
<1>4. FormOf(t, a) = {PlanForm(o, t)}
  BY <1>2, <1>3 DEF FormOf, Offsets
<1>5. log[t] # << >>
  BY <1>1
<1>6. Cardinality({i}) = 1
  BY FS_Singleton
<1> QED
  BY <1>2, <1>3, <1>4, <1>5, <1>6

LEMMA OkMeansDeliveredHolds ==
    ASSUME TypeOK, DeliveryInv
    PROVE  OkMeansDelivered
<1> SUFFICES ASSUME NEW a \in Attempts, status[a] = "ok"
             PROVE  \E form \in Forms :
                      /\ \A t \in ActiveMain :
                           /\ log[t] # << >> /\ FormOf(t, a) = {form}
                           /\ Cardinality({i \in 1..Len(log[t]) : log[t][i].attempt = a}) = 1
                      /\ form = "obfuscated" /\ env.debug =>
                           \A t \in ActiveDebug : FormOf(t, a) = {"clear"}
  BY DEF OkMeansDelivered
<1>1. PICK o \in BOOLEAN : SentInOrder(a, o) /\ \A t \in PlanTopics(o) : Holds(t, a)
  BY DEF DeliveryInv, AttemptInv
<1> DEFINE form == IF o THEN "obfuscated" ELSE "clear"
<1>2. form \in Forms /\ (form = "obfuscated" <=> o)
  BY DEF Forms
<1>3. \A t \in ActiveMain : t \in Topics /\ t \in PlanTopics(o) /\ PlanForm(o, t) = form
  BY DEF ActiveMain, Topics, PlanTopics, PlanForm
<1>4. o /\ env.debug => \A t \in ActiveDebug :
        t \in Topics /\ t \in PlanTopics(o) /\ PlanForm(o, t) = "clear"
  BY DEF ActiveDebug, Topics, MainTopics, DebugTopics, PlanTopics, PlanForm
<1> HIDE DEF form
<1>5. \A t \in ActiveMain :
        /\ log[t] # << >> /\ FormOf(t, a) = {form}
        /\ Cardinality({i \in 1..Len(log[t]) : log[t][i].attempt = a}) = 1
  <2> SUFFICES ASSUME NEW t \in ActiveMain
               PROVE  /\ log[t] # << >> /\ FormOf(t, a) = {form}
                      /\ Cardinality({i \in 1..Len(log[t]) : log[t][i].attempt = a}) = 1
    OBVIOUS
  <2>1. t \in Topics /\ Holds(t, a) /\ PlanForm(o, t) = form
    BY <1>1, <1>3
  <2> QED
    BY <1>1, <2>1, RecordsOfPlan
<1>6. ASSUME form = "obfuscated", env.debug, NEW t \in ActiveDebug
      PROVE  FormOf(t, a) = {"clear"}
  <2>1. t \in Topics /\ Holds(t, a) /\ PlanForm(o, t) = "clear"
    BY <1>1, <1>2, <1>4, <1>6
  <2> QED
    BY <1>1, <2>1, RecordsOfPlan, ZenonT(60)
<1> QED
  BY <1>2, <1>5, <1>6

LEMMA PartialDeliveryHolds ==
    ASSUME TypeOK, DeliveryInv
    PROVE  PartialDeliveryIsPrefix
<1> SUFFICES ASSUME NEW a \in Attempts
             PROVE  /\ status[a] = "rejected" => \A t \in Topics : ~Holds(t, a)
                    /\ Holds("legacy", a) /\ env.evergreen =>
                         FormOf("evergreen", a) = FormOf("legacy", a)
                    /\ Holds("legacy-debug", a) /\ env.evergreen =>
                         Holds("evergreen-debug", a)
                    /\ \A t \in ActiveMain, d \in ActiveDebug :
                         Holds(t, a) /\ Holds(d, a) => FormOf(t, a) = {"obfuscated"}
                    /\ \A t \in ActiveMain, d \in ActiveDebug :
                         FormOf(t, a) = {"obfuscated"} /\ env.debug =>
                           FormOf(d, a) = {"clear"}
  BY DEF PartialDeliveryIsPrefix
<1>1. AttemptInv(a) /\ status[a] \in Statuses
  BY DEF DeliveryInv, TypeOK
<1>2. \E o \in BOOLEAN : SentInOrder(a, o)
  <2>1. (\A t \in Topics : ~Holds(t, a)) => SentInOrder(a, TRUE)
    BY DEF SentInOrder, Holds
  <2> QED
    BY <1>1, <2>1 DEF AttemptInv, Statuses
<1>3. PICK o \in BOOLEAN : SentInOrder(a, o)
  BY <1>2
<1>4. /\ "legacy" \in Topics /\ "legacy-debug" \in Topics
      /\ "evergreen" \in MainTopics /\ "legacy" \in MainTopics
      /\ "evergreen-debug" \in DebugTopics
      /\ Rank("evergreen") < Rank("legacy")
      /\ Rank("evergreen-debug") < Rank("legacy-debug")
      /\ \A t \in ActiveMain : t \in MainTopics /\ t \in Topics /\ t \notin ActiveDebug
      /\ \A d \in ActiveDebug : d \notin MainTopics /\ d \in Topics /\ d \notin ActiveMain
      /\ \A t \in ActiveMain, d \in ActiveDebug : Rank(d) < Rank(t)
  BY DEF ActiveMain, ActiveDebug, MainTopics, DebugTopics, Topics, Rank
<1>5. ASSUME Holds("legacy", a), env.evergreen
      PROVE  FormOf("evergreen", a) = FormOf("legacy", a)
  <2>1. "evergreen" \in ActiveMain
    BY <1>4, <1>5 DEF ActiveMain
  <2>2. Holds("evergreen", a)
    BY <1>3, <1>4, <1>5, <2>1, RecordsOfPlan DEF PlanTopics
  <2>3. PlanForm(o, "evergreen") = PlanForm(o, "legacy") /\ "evergreen" \in Topics
    BY <1>4, <2>1 DEF PlanForm
  <2>4. FormOf("evergreen", a) = {PlanForm(o, "evergreen")}
    BY <1>3, <2>2, <2>3, RecordsOfPlan
  <2>5. FormOf("legacy", a) = {PlanForm(o, "legacy")}
    BY <1>3, <1>4, <1>5, RecordsOfPlan
  <2> QED
    BY <2>3, <2>4, <2>5
<1>6. ASSUME Holds("legacy-debug", a), env.evergreen
      PROVE  Holds("evergreen-debug", a)
  <2>1. "evergreen-debug" \in ActiveDebug
    BY <1>4, <1>6 DEF ActiveDebug
  <2>2. "legacy-debug" \in PlanTopics(o)
    BY <1>3, <1>4, <1>6, RecordsOfPlan
  <2>3. "legacy-debug" \notin ActiveMain
    BY DEF ActiveMain, MainTopics
  <2>4. "evergreen-debug" \in PlanTopics(o)
    BY <2>1, <2>2, <2>3 DEF PlanTopics
  <2> QED
    BY <1>3, <1>4, <1>6, <2>4, RecordsOfPlan
<1>7. ASSUME NEW t \in ActiveMain, NEW d \in ActiveDebug, Holds(t, a), Holds(d, a)
      PROVE  FormOf(t, a) = {"obfuscated"}
  <2>1. d \in PlanTopics(o)
    BY <1>3, <1>4, <1>7, RecordsOfPlan
  <2>2. o
    BY <1>4, <2>1 DEF PlanTopics
  <2> QED
    BY <1>3, <1>4, <1>7, <2>2, RecordsOfPlan DEF PlanForm
<1>8. ASSUME NEW t \in ActiveMain, NEW d \in ActiveDebug,
             FormOf(t, a) = {"obfuscated"}, env.debug
      PROVE  FormOf(d, a) = {"clear"}
  <2>1. "obfuscated" \in FormOf(t, a)
    BY <1>8
  <2>2. Holds(t, a)
    BY <2>1 DEF FormOf, Offsets, Holds
  <2>3. PlanForm(o, t) = "obfuscated"
    <3>1. t \in Topics
      BY <1>4
    <3>2. FormOf(t, a) = {PlanForm(o, t)}
      BY <1>3, <2>2, <3>1, RecordsOfPlan
    <3>. QED
      BY <1>8, <3>2
  <2>4. o
    BY <2>3 DEF PlanForm
  <2>5. d \in PlanTopics(o) /\ PlanForm(o, d) = "clear"
    BY <1>4, <1>8, <2>4 DEF PlanTopics, PlanForm
  <2>6. Holds(d, a)
    BY <1>3, <1>4, <2>2, <2>5, RecordsOfPlan
  <2> QED
    BY <1>3, <1>4, <2>5, <2>6, RecordsOfPlan
<1> QED
  BY <1>1, <1>5, <1>6, <1>7, <1>8 DEF AttemptInv

-----------------------------------------------------------------------------
(* The theorems *)

(* A 200 means that every active main topic holds the event, once, in one   *)
(* form, and with debugging on the debug topics hold what was obfuscated:   *)
(* push_changes_to_kafka awaits every send before send_request answers.     *)
THEOREM OkMeansDeliveredTheorem == Spec => []OkMeansDelivered
<1>1. TypeOK /\ DeliveryInv => OkMeansDelivered
  BY OkMeansDeliveredHolds
<1> QED
  BY <1>1, DeliveryInvariant, PTL

(* However an attempt ends, what it leaves on the topics is a prefix of the *)
(* sends push_changes_to_kafka planned for it.                              *)
THEOREM PartialDeliveryTheorem == Spec => []PartialDeliveryIsPrefix
<1>1. TypeOK /\ DeliveryInv => PartialDeliveryIsPrefix
  BY PartialDeliveryHolds
<1> QED
  BY <1>1, DeliveryInvariant, PTL

(* The two main topics never disagree on the order of two attempts: the     *)
(* event loop serves one attempt's sends before it takes the next.          *)
THEOREM TopicsAgreeTheorem == Spec => []TopicsAgreeOnOrder
<1>1. TypeOK /\ DeliveryInv => TopicsAgreeOnOrder
  BY DEF DeliveryInv
<1> QED
  BY <1>1, DeliveryInvariant, PTL

(* Only the two actions of a handler between its sends reach a topic.       *)
LEMMA StepsThatPublish ==
    ASSUME TypeOK, DeliveryInv, [Next]_vars, log' # log
    PROVE  /\ UNCHANGED <<env, kind, blacklist>>
           /\ \E a \in Attempts : /\ pending[a] # << >> /\ status[a] = "running"
                                  /\ Publish(a, Head(pending[a]))
<1>1. /\ UNCHANGED <<env, kind, blacklist>>
      /\ \E a \in Attempts : pending[a] # << >> /\ Publish(a, Head(pending[a]))
  BY DEF Next, vars, Post, Handle, BodyFails, ValidationFails, GenerationFails,
     StartDelivery, SendSucceeds, SendFails, SendRaises, BlacklistMoves, Crash,
     LoseProcess
<1> QED
  BY <1>1 DEF DeliveryInv, AttemptInv

LEMMA NothingSensitiveStep ==
    ASSUME TypeOK, DeliveryInv, [Next]_vars
    PROVE  \A t \in MainTopics : Len(log'[t]) > Len(log[t]) =>
             LET r == log'[t][Len(log'[t])]
             IN  r.form = "clear" => ~ShouldObfuscate(Payload(r.attempt))
<1> SUFFICES ASSUME NEW t \in MainTopics, Len(log'[t]) > Len(log[t]),
                    log'[t][Len(log'[t])].form = "clear"
             PROVE  ~ShouldObfuscate(Payload(log'[t][Len(log'[t])].attempt))
  OBVIOUS
<1>1. t \in Topics /\ Len(log[t]) \in Nat
  BY DEF Topics, TypeOK
<1>2. log' # log
  BY <1>1
<1>3. PICK a \in Attempts : /\ pending[a] # << >> /\ status[a] = "running"
                            /\ Publish(a, Head(pending[a])) /\ UNCHANGED env
  BY <1>2, StepsThatPublish
<1>4. PICK o \in BOOLEAN : /\ o <=> ShouldObfuscate(Payload(a))
                           /\ RestOfPlan(a, o)
  BY <1>3 DEF DeliveryInv, AttemptInv
<1> DEFINE h == Head(pending[a])
<1>5. h \in Sends /\ h.form = PlanForm(o, h.topic)
  BY <1>3, <1>4, HeadAndTail, HeadOfRest
<1>6. /\ Len(log'[h.topic]) = Len(log[h.topic]) + 1
      /\ log'[h.topic][Len(log[h.topic]) + 1] = [attempt |-> a, form |-> h.form]
      /\ \A u \in Topics : u # h.topic => log'[u] = log[u]
  BY <1>3, <1>5, PublishAppends DEF Sends
<1>7. t = h.topic
  BY <1>1, <1>6
<1>8. log'[t][Len(log'[t])] = [attempt |-> a, form |-> h.form]
  BY <1>6, <1>7
<1>9. h.form = "clear" /\ log'[t][Len(log'[t])].attempt = a
  BY <1>8
<1>10. ~o
  BY <1>5, <1>7, <1>9 DEF PlanForm
<1> QED
  BY <1>4, <1>9, <1>10

(* Nothing that is blocked, or blacklisted at that moment, reaches a main   *)
(* topic in the clear: between is_blacklisted and the last send_message no  *)
(* refresh can run.                                                         *)
THEOREM NothingSensitiveTheorem == Spec => NothingSensitiveInClear
<1>1. TypeOK /\ DeliveryInv /\ [Next]_vars =>
        [\A t \in MainTopics :
           Len(log'[t]) > Len(log[t]) =>
             LET r == log'[t][Len(log'[t])]
             IN  r.form = "clear" => ~ShouldObfuscate(Payload(r.attempt))]_vars
  BY NothingSensitiveStep
<1> QED
  BY <1>1, DeliveryInvariant, PTL DEF Spec, NothingSensitiveInClear

LEMMA NoSendAfterAnswerStep ==
    ASSUME TypeOK, DeliveryInv, [Next]_vars, NEW a \in Attempts,
           status[a] \in Answered \union {"lost"}, NEW t \in Topics
    PROVE  Offsets(t, a)' = Offsets(t, a)
<1>1. CASE log' = log
  BY <1>1 DEF Offsets
<1>2. CASE log' # log
  <2>1. PICK b \in Attempts : /\ pending[b] # << >> /\ status[b] = "running"
                              /\ Publish(b, Head(pending[b])) /\ UNCHANGED env
    BY <1>2, StepsThatPublish
  <2>2. a # b
    BY <2>1 DEF Answered
  <2> DEFINE h == Head(pending[b])
  <2>3. h \in Sends
    BY <2>1, HeadAndTail
  <2>4. /\ Len(log'[h.topic]) = Len(log[h.topic]) + 1
        /\ log'[h.topic][Len(log[h.topic]) + 1] = [attempt |-> b, form |-> h.form]
        /\ Len(log[h.topic]) \in Nat
        /\ \A u \in Topics : u # h.topic => log'[u] = log[u]
        /\ \A i \in 1..Len(log[h.topic]) : log'[h.topic][i] = log[h.topic][i]
    BY <2>1, <2>3, PublishAppends, SMTT(30) DEF Sends
  <2>5. CASE t # h.topic
    BY <2>4, <2>5 DEF Offsets
  <2>6. CASE t = h.topic
    <3>1. \A j \in 1..Len(log'[t]) :
            j \in 1..Len(log[t]) \/ (j = Len(log[t]) + 1 /\ log'[t][j].attempt = b)
      BY <2>4, <2>6
    <3>2. \A j \in 1..Len(log[t]) :
            j \in 1..Len(log'[t]) /\ log'[t][j].attempt = log[t][j].attempt
      BY <2>4, <2>6, SMTT(30)
    <3> QED
      BY <2>2, <3>1, <3>2 DEF Offsets
  <2> QED
    BY <2>5, <2>6
<1> QED
  BY <1>1, <1>2

(* An attempt that has its answer, or has lost its connection with the      *)
(* process, adds nothing to any topic.                                      *)
THEOREM NoSendAfterAnswerTheorem == Spec => NoSendAfterAnswer
<1>1. TypeOK /\ DeliveryInv /\ [Next]_vars =>
        [\A a \in Attempts : status[a] \in Answered \union {"lost"} =>
           \A t \in Topics : Offsets(t, a)' = Offsets(t, a)]_vars
  BY NoSendAfterAnswerStep
<1> QED
  BY <1>1, DeliveryInvariant, PTL DEF Spec, NoSendAfterAnswer
=============================================================================
