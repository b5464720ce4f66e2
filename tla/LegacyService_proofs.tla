----------------------- MODULE LegacyService_proofs -----------------------
(***************************************************************************)
(* Machine-checked proofs about LegacyService, for every set of workers,   *)
(* events and channels and every setting of the retries; and about         *)
(* EventPayload, for every set of payloads: that the rebuild makes of them *)
(* what this service made, and that its handler implements EventDelivery.  *)
(***************************************************************************)
EXTENDS LegacyService, EventPayload, SequenceTheorems, WellFoundedInduction, TLAPS

-----------------------------------------------------------------------------
(* The inductive invariant: types *)

LoaderStates ==
    {Idle} \union [pc : {"read"}, for : Events]
      \union [pc : {"fetch"}] \union [pc : {"fetch"}, for : Events]
      \union [pc : {"open", "write"}, list : Lists \ {{}}]

Unsent == [stage : {"unsent"}, kind : Kinds]
Taken == [stage : {"received", "rejected", "lost"}, worker : Workers, kind : Kinds]
Sent == [stage : {"debug", "main", "ok", "lost"}, worker : Workers, kind : Kinds,
         hide : BOOLEAN, form : Forms]

SendStates ==
    [pc : {"queued"}] \union [pc : {"put"}, form : Forms, retries : Int, failures : Int]

SendMaps == UNION {[fs -> SendStates] : fs \in SUBSET Firehoses}

StatesOK ==
    /\ active \subseteq Outlets /\ debug \in BOOLEAN
    /\ table \in Lists /\ file \in Lists \union {Missing, Torn}
    /\ memory \in [Workers -> Lists \union {None}] /\ initial \in Lists \union {None}
    /\ loader \in [Processes -> LoaderStates]
    /\ Posted \subseteq Events /\ request \in [Posted -> Unsent \union Taken \union Sent]
    /\ sends \in [Posted -> SendMaps]
    /\ delivered \in [Firehoses -> SUBSET (Events \X Forms)]
    /\ budget \in [changes : 0..MaxChanges, deaths : 0..MaxDeaths]
    /\ gaveUp \subseteq Events \X Firehoses

-----------------------------------------------------------------------------
(* The inductive invariant: the list *)

(* Until the initializer is done no worker has a request or a list. *)
NotServingInv ==
    ~Serving => /\ \A w \in Workers : memory[w] = None /\ loader[w] = Idle
                /\ \A e \in Posted : ~InFlight(e)

(* A load is on behalf of a request that waits for it. *)
ReadInv ==
    /\ loader[Initializer].pc # "read"
    /\ \A w \in Workers :
         loader[w].pc = "read" => /\ loader[w].for \in Posted
                                  /\ request[loader[w].for].stage = "received"
                                  /\ request[loader[w].for].worker = w

(* Once the file has the initializer's list, no worker goes on to RDS. *)
GovernInv ==
    initial # None =>
        /\ Serving /\ file = initial
        /\ \A w \in Workers : /\ memory[w] \in {None, initial}
                              /\ loader[w].pc \in {"idle", "read"}

ListInv == NotServingInv /\ ReadInv /\ GovernInv

-----------------------------------------------------------------------------
(* The inductive invariant: the events *)

Reached(e, stage) == \E o \in Outlets, form \in Forms : <<e, form>> \in delivered[<<o, stage>>]

FormsOf(e) ==
    \A o \in Outlets :
        /\ <<e, "hidden">> \notin delivered[<<o, "debug">>]
        /\ <<e, "clear">> \in delivered[<<o, "main">>] =>
             /\ ~request[e].kind.blocked /\ ~request[e].hide
             /\ ~Reached(e, "debug")

(* A main firehose that is on has the event, gave up, or is being sent to. *)
Tried(e) ==
    \A o \in active :
        \/ <<o, "main">> \in DOMAIN sends[e]
        \/ <<e, <<o, "main">>>> \in gaveUp
        \/ \E form \in Forms : <<e, form>> \in delivered[<<o, "main">>]

(* What is sent is what the handler holds, and only in its two stages. *)
SendsInv(e) ==
    /\ request[e].stage \notin {"debug", "main"} => DOMAIN sends[e] = {}
    /\ request[e].stage \in {"debug", "main"} =>
         /\ DOMAIN sends[e] \subseteq active \X {request[e].stage}
         /\ \A f \in DOMAIN sends[e] : sends[e][f].pc = "put" => sends[e][f].form = request[e].form

StageInv(e) ==
    /\ request[e].stage \in {"unsent", "received", "rejected"} =>
         ~Reached(e, "debug") /\ ~Reached(e, "main")
    /\ request[e].stage = "debug" =>
         /\ ~Reached(e, "main")
         /\ request[e].hide /\ request[e].form = "clear"
    /\ request[e].stage = "main" =>
         /\ request[e].form = IF request[e].hide THEN "hidden" ELSE "clear"
         /\ ~request[e].hide => ~request[e].kind.blocked /\ ~Reached(e, "debug")
         /\ Tried(e)
    /\ request[e].stage = "ok" => Tried(e)

EventInv(e) == SendsInv(e) /\ StageInv(e) /\ FormsOf(e)

EventsInv == \A e \in Posted : EventInv(e)

LegacyInv == StatesOK /\ ListInv /\ EventsInv

-----------------------------------------------------------------------------
(* Types *)

LEMMA LoaderFields ==
    ASSUME StatesOK, NEW p \in Processes
    PROVE  /\ loader[p].pc \in {"idle", "read", "fetch", "open", "write"}
           /\ loader[p].pc = "idle" <=> loader[p] = Idle
           /\ loader[p].pc = "read" => loader[p].for \in Events
           /\ loader[p].pc \in {"open", "write"} => loader[p].list \in Lists \ {{}}
BY DEF StatesOK, LoaderStates, Idle

(* The loader's pc moves on, and what it holds stays. *)
LEMMA LoaderMoves ==
    ASSUME StatesOK, NEW p \in Processes, NEW r
    PROVE  /\ loader[p].pc = "read" /\ r = [loader[p] EXCEPT !.pc = "fetch"] =>
                r \in LoaderStates /\ r.pc = "fetch"
           /\ loader[p].pc = "open" /\ r = [loader[p] EXCEPT !.pc = "write"] =>
                r \in LoaderStates /\ r.pc = "write" /\ r.list = loader[p].list
<1>1. ASSUME loader[p].pc = "read", r = [loader[p] EXCEPT !.pc = "fetch"]
      PROVE  r \in LoaderStates /\ r.pc = "fetch"
  <2>1. loader[p] \in [pc : {"read"}, for : Events]
    BY <1>1 DEF StatesOK, LoaderStates, Idle
  <2>2. r \in [pc : {"fetch"}, for : Events]
    BY <1>1, <2>1
  <2> QED
    BY <2>2 DEF LoaderStates
<1>2. ASSUME loader[p].pc = "open", r = [loader[p] EXCEPT !.pc = "write"]
      PROVE  r \in LoaderStates /\ r.pc = "write" /\ r.list = loader[p].list
  <2>1. loader[p] \in [pc : {"open", "write"}, list : Lists \ {{}}]
    BY <1>2 DEF StatesOK, LoaderStates, Idle
  <2>2. r \in [pc : {"open", "write"}, list : Lists \ {{}}] /\ r.pc = "write"
        /\ r.list = loader[p].list
    BY <1>2, <2>1
  <2> QED
    BY <2>2 DEF LoaderStates
<1> QED
  BY <1>1, <1>2

LEMMA LoadedOK ==
    ASSUME StatesOK, NEW p \in Processes, NEW list \in Lists, Loaded(p, list)
    PROVE  /\ loader' \in [Processes -> LoaderStates]
           /\ memory' \in [Workers -> Lists \union {None}]
           /\ loader'[p] = Idle
           /\ \A q \in Processes \ {p} : loader'[q] = loader[q]
           /\ p = Initializer => memory' = memory
           /\ p # Initializer => memory'[p] = list
           /\ \A w \in Workers \ {p} : memory'[w] = memory[w]
BY DEF StatesOK, Loaded, LoaderStates, Processes

LEMMA RequestFields ==
    ASSUME StatesOK, NEW e \in Posted
    PROVE  /\ e \in Events /\ request[e].stage \in Stages /\ request[e].kind \in Kinds
           /\ request[e].stage = "unsent" => request[e] \in Unsent
           /\ request[e].stage \in {"received", "rejected"} => request[e] \in Taken
           /\ request[e].stage \in {"debug", "main", "ok"} => request[e] \in Sent
           /\ InFlight(e) => request[e].worker \in Workers
BY DEF StatesOK, Unsent, Taken, Sent, Stages, InFlight

(* The handler goes to its next stage with the kind and the worker it has.  *)
LEMMA RequestMoves ==
    ASSUME StatesOK, NEW e \in Posted, NEW r
    PROVE  /\ request[e].stage = "received" /\ r = [request[e] EXCEPT !.stage = "rejected"] =>
                /\ r \in Taken /\ r.stage = "rejected" /\ r.kind = request[e].kind
           /\ request[e].stage = "main" /\ r = [request[e] EXCEPT !.stage = "ok"] =>
                /\ r \in Sent /\ r.stage = "ok" /\ r.kind = request[e].kind
                /\ r.hide = request[e].hide /\ r.form = request[e].form
           /\ request[e].stage = "debug"
              /\ r = [request[e] EXCEPT !.stage = "main", !.form = "hidden"] =>
                /\ r \in Sent /\ r.stage = "main" /\ r.kind = request[e].kind
                /\ r.hide = request[e].hide /\ r.form = "hidden"
           /\ InFlight(e) /\ r = [request[e] EXCEPT !.stage = "lost"] =>
                /\ r \in Taken \union Sent /\ r.stage = "lost" /\ r.kind = request[e].kind
                /\ request[e].stage \in {"debug", "main"} => r.hide = request[e].hide
<1> USE RequestFields
<1>1. ASSUME request[e] \in Taken PROVE /\ [request[e] EXCEPT !.stage = "rejected"] \in Taken
                                        /\ [request[e] EXCEPT !.stage = "lost"] \in Taken
  BY <1>1 DEF Taken
<1>2. ASSUME request[e] \in Sent
      PROVE  /\ [request[e] EXCEPT !.stage = "ok"] \in Sent
             /\ [request[e] EXCEPT !.stage = "lost"] \in Sent
             /\ [request[e] EXCEPT !.stage = "main", !.form = "hidden"] \in Sent
  BY <1>2 DEF Sent, Forms
<1>3. CASE request[e].stage = "received"
  BY <1>1, <1>3 DEF Taken
<1>4. CASE request[e].stage = "main"
  BY <1>2, <1>4 DEF Sent
<1>5. CASE request[e].stage = "debug"
  BY <1>2, <1>5 DEF Sent
<1> QED
  BY <1>3, <1>4, <1>5 DEF InFlight

LEMMA SendFields ==
    ASSUME StatesOK, NEW e \in Posted
    PROVE  /\ DOMAIN sends[e] \subseteq Firehoses
           /\ sends[e] = [f \in DOMAIN sends[e] |-> sends[e][f]]
           /\ \A f \in DOMAIN sends[e] : sends[e][f] \in SendStates
BY DEF StatesOK, SendMaps

(* The send of one firehose changes. *)
LEMMA SendMoves ==
    ASSUME StatesOK, NEW e \in Posted, NEW f \in DOMAIN sends[e], NEW r \in SendStates,
           sends' = [sends EXCEPT ![e][f] = r]
    PROVE  /\ sends' \in [Posted -> SendMaps]
           /\ DOMAIN sends'[e] = DOMAIN sends[e]
           /\ sends'[e][f] = r
           /\ \A g \in DOMAIN sends[e] : g # f => sends'[e][g] = sends[e][g]
           /\ \A d \in Posted : d # e => sends'[d] = sends[d]
<1>1. PICK S : S = [sends[e] EXCEPT ![f] = r]
  OBVIOUS
<1>2. /\ DOMAIN sends[e] \subseteq Firehoses
      /\ sends[e] = [g \in DOMAIN sends[e] |-> sends[e][g]]
      /\ \A g \in DOMAIN sends[e] : sends[e][g] \in SendStates
  BY SendFields
<1>3. S \in [DOMAIN sends[e] -> SendStates]
  BY <1>1, <1>2
<1>4. S \in SendMaps
  BY <1>2, <1>3 DEF SendMaps
<1>5. sends' = [sends EXCEPT ![e] = S]
  BY <1>1
<1>6. sends'[e] = S
  BY <1>5 DEF StatesOK
<1> QED
  BY <1>1, <1>3, <1>4, <1>5, <1>6 DEF StatesOK

(* The send of one firehose is over. *)
LEMMA SendEnds ==
    ASSUME StatesOK, NEW e \in Posted, NEW f \in DOMAIN sends[e],
           sends' = [sends EXCEPT ![e] = Finished(e, f)]
    PROVE  /\ sends' \in [Posted -> SendMaps]
           /\ DOMAIN sends'[e] = DOMAIN sends[e] \ {f}
           /\ \A g \in DOMAIN sends[e] \ {f} : sends'[e][g] = sends[e][g]
           /\ \A d \in Posted : d # e => sends'[d] = sends[d]
<1>1. PICK S : S = [g \in DOMAIN sends[e] \ {f} |-> sends[e][g]]
  OBVIOUS
<1>2. /\ DOMAIN sends[e] \subseteq Firehoses
      /\ \A g \in DOMAIN sends[e] : sends[e][g] \in SendStates
  BY SendFields
<1>3. S \in [DOMAIN sends[e] \ {f} -> SendStates] /\ DOMAIN S = DOMAIN sends[e] \ {f}
  BY <1>1, <1>2
<1>4. S \in SendMaps
  BY <1>2, <1>3 DEF SendMaps
<1>5. sends' = [sends EXCEPT ![e] = S]
  BY <1>1 DEF Finished
<1> QED
  BY <1>1, <1>3, <1>4, <1>5 DEF StatesOK

(* A stage begins. *)
LEMMA QueuedOK ==
    ASSUME StatesOK, NEW stage \in {"debug", "main"}
    PROVE  /\ Queued(stage) \in SendMaps
           /\ DOMAIN Queued(stage) = active \X {stage}
           /\ \A f \in active \X {stage} : Queued(stage)[f].pc = "queued"
<1>1. active \X {stage} \subseteq Firehoses
  BY DEF StatesOK, Firehoses
<1>2. Queued(stage) \in [active \X {stage} -> SendStates]
  BY DEF Queued, SendStates
<1> QED
  BY <1>1, <1>2 DEF SendMaps, Queued

(* The request of one event changes. *)
LEMMA RequestSet ==
    ASSUME StatesOK, NEW e \in Posted, NEW r \in Unsent \union Taken \union Sent,
           request' = [request EXCEPT ![e] = r]
    PROVE  /\ Posted' = Posted
           /\ request' \in [Posted' -> Unsent \union Taken \union Sent]
           /\ request'[e] = r
           /\ \A d \in Posted : d # e => request'[d] = request[d]
<1>1. request \in [Posted -> Unsent \union Taken \union Sent]
  BY DEF StatesOK
<1> HIDE DEF Posted
<1>2. request' \in [Posted -> Unsent \union Taken \union Sent] /\ request'[e] = r
  BY <1>1
<1>3. \A d \in Posted : d # e => request'[d] = request[d]
  BY <1>1
<1>4. Posted' = Posted
  BY <1>2 DEF Posted
<1> QED
  BY <1>2, <1>3, <1>4

(* The requests of some workers are lost. *)
LEMMA LoseMoves ==
    ASSUME StatesOK, NEW workers, Lose(workers)
    PROVE  /\ Posted' = Posted
           /\ request' \in [Posted' -> Unsent \union Taken \union Sent]
           /\ sends' \in [Posted' -> SendMaps]
           /\ \A e \in Posted :
                LET lost == InFlight(e) /\ request[e].worker \in workers
                IN  /\ lost => /\ request'[e] = [request[e] EXCEPT !.stage = "lost"]
                               /\ DOMAIN sends'[e] = {}
                    /\ ~lost => request'[e] = request[e] /\ sends'[e] = sends[e]
<1>1. /\ request \in [Posted -> Unsent \union Taken \union Sent]
      /\ sends \in [Posted -> SendMaps]
  BY DEF StatesOK
<1>2. PICK lost : lost = {e \in Posted : InFlight(e) /\ request[e].worker \in workers}
  OBVIOUS
<1>3. /\ request' = [e \in Posted |-> IF e \in lost THEN [request[e] EXCEPT !.stage = "lost"]
                                                    ELSE request[e]]
      /\ sends' = [e \in Posted |-> IF e \in lost THEN << >> ELSE sends[e]]
  BY <1>2 DEF Lose
<1>4. Posted' = Posted
  BY <1>3 DEF Posted
<1>5. \A e \in lost : [request[e] EXCEPT !.stage = "lost"] \in Taken \union Sent
  BY <1>2, RequestMoves
<1>6. << >> \in SendMaps /\ DOMAIN << >> = {}
  <2>1. << >> \in [{} -> SendStates]
    OBVIOUS
  <2> QED
    BY <2>1 DEF SendMaps
<1> HIDE DEF Posted
<1>7. /\ request' \in [Posted' -> Unsent \union Taken \union Sent]
      /\ sends' \in [Posted' -> SendMaps]
  BY <1>1, <1>3, <1>4, <1>5, <1>6
<1> QED
  BY <1>2, <1>3, <1>4, <1>6, <1>7

LEMMA LoadStates ==
    ASSUME StatesOK, ReadInv, NEW p \in Processes, Load(p)
    PROVE  StatesOK'
<1>1. Idle \in LoaderStates
  BY DEF LoaderStates
<1>2. loader \in [Processes -> LoaderStates] /\ Posted \subseteq Events
  BY DEF StatesOK
<1>3. CASE ReadFile(p)
  <2>1. loader[p].pc = "read" /\ p \in Workers
    BY <1>3 DEF ReadFile, ReadInv, Processes
  <2>2. CASE file = Missing
    <3>1. PICK r : r = [loader[p] EXCEPT !.pc = "fetch"]
      OBVIOUS
    <3>2. loader' = [loader EXCEPT ![p] = r] /\ UNCHANGED <<memory, request>>
      BY <1>3, <2>2, <3>1, LegacyBounds DEF ReadFile
    <3>3. loader' \in [Processes -> LoaderStates]
      BY <1>2, <2>1, <3>1, <3>2, LoaderMoves
    <3> QED
      BY <1>3, <3>2, <3>3 DEF ReadFile, traffic, StatesOK, Posted
  <2>3. CASE file = Torn
    <3>1. PICK e \in Posted : e = loader[p].for
      BY <2>1 DEF ReadInv
    <3>2. request[e].stage = "received"
      BY <2>1, <3>1 DEF ReadInv
    <3>3. PICK r : r = [request[e] EXCEPT !.stage = "rejected"]
      OBVIOUS
    <3>4. /\ loader' = [loader EXCEPT ![p] = Idle] /\ memory' = memory
          /\ request' = [request EXCEPT ![e] = r]
      BY <1>3, <2>3, <3>1, <3>3, LegacyBounds DEF ReadFile
    <3>5. r \in Taken
      BY <3>2, <3>3, RequestMoves
    <3>6. Posted' = Posted /\ request' \in [Posted' -> Unsent \union Taken \union Sent]
      BY <3>4, <3>5, RequestSet
    <3>7. loader' \in [Processes -> LoaderStates]
      BY <1>1, <1>2, <3>4
    <3> QED
      BY <1>3, <3>4, <3>6, <3>7 DEF ReadFile, traffic, StatesOK
  <2>4. CASE file \in Lists
    <3>1. Loaded(p, file) /\ UNCHANGED request
      BY <1>3, <2>4, LegacyBounds DEF ReadFile
    <3>2. /\ loader' \in [Processes -> LoaderStates]
          /\ memory' \in [Workers -> Lists \union {None}]
      BY <2>4, <3>1, LoadedOK
    <3> QED
      BY <1>3, <3>1, <3>2 DEF ReadFile, traffic, StatesOK, Posted
  <2> QED
    BY <2>2, <2>3, <2>4 DEF StatesOK
<1>4. CASE Fetch(p)
  <2>1. PICK rows \in Rows :
           IF rows = {} THEN Loaded(p, {})
           ELSE /\ loader' = [loader EXCEPT ![p] = [pc |-> "open", list |-> rows]]
                /\ UNCHANGED memory
    BY <1>4 DEF Fetch
  <2>2. rows \in Lists /\ {} \in Lists
    BY DEF Rows, StatesOK, Lists
  <2>3. /\ loader' \in [Processes -> LoaderStates]
        /\ memory' \in [Workers -> Lists \union {None}]
    <3>1. CASE rows = {}
      BY <2>1, <2>2, <3>1, LoadedOK
    <3>2. CASE rows # {}
      <4>1. [pc |-> "open", list |-> rows] \in LoaderStates
        BY <2>2, <3>2 DEF LoaderStates
      <4> QED
        BY <1>2, <2>1, <3>2, <4>1 DEF StatesOK
    <3> QED
      BY <3>1, <3>2
  <2> QED
    BY <1>4, <2>3 DEF Fetch, traffic, StatesOK, Posted
<1>5. CASE OpenFile(p)
  <2>1. loader[p].pc = "open" /\ loader[p].list \in Lists
    BY <1>5, LoaderFields DEF OpenFile
  <2>2. CASE file' = Torn /\ loader' = [loader EXCEPT ![p].pc = "write"] /\ UNCHANGED memory
    <3>1. PICK r : r = [loader[p] EXCEPT !.pc = "write"]
      OBVIOUS
    <3>2. r \in LoaderStates
      BY <2>1, <3>1, LoaderMoves
    <3>3. loader' = [loader EXCEPT ![p] = r]
      BY <2>2, <3>1
    <3>4. loader' \in [Processes -> LoaderStates]
      BY <1>2, <3>2, <3>3
    <3> QED
      BY <1>5, <2>2, <3>4 DEF OpenFile, traffic, StatesOK, Posted
  <2>3. CASE UNCHANGED file /\ Loaded(p, loader[p].list)
    <3>1. /\ loader' \in [Processes -> LoaderStates]
          /\ memory' \in [Workers -> Lists \union {None}]
      BY <2>1, <2>3, LoadedOK
    <3> QED
      BY <1>5, <2>3, <3>1 DEF OpenFile, traffic, StatesOK, Posted
  <2> QED
    BY <1>5, <2>2, <2>3 DEF OpenFile
<1>6. CASE WriteFile(p)
  <2>1. PICK list \in Lists : list = loader[p].list
    BY <1>6, LoaderFields DEF WriteFile
  <2>2. Loaded(p, list) /\ file' \in {file, list, Torn} /\ initial' \in {initial, list}
    BY <1>6, <2>1 DEF WriteFile
  <2>3. /\ loader' \in [Processes -> LoaderStates]
        /\ memory' \in [Workers -> Lists \union {None}]
    BY <2>2, LoadedOK
  <2> QED
    BY <1>6, <2>2, <2>3 DEF WriteFile, traffic, StatesOK, Posted
<1> QED
  BY <1>3, <1>4, <1>5, <1>6 DEF Load

LEMMA AcceptStates ==
    ASSUME StatesOK, NEW e \in Posted, NEW w \in Workers, Accept(e, w)
    PROVE  /\ StatesOK'
           /\ request[e].stage = "unsent"
           /\ request'[e].stage = "received" /\ request'[e].worker = w
           /\ request'[e].kind = request[e].kind
           /\ \A d \in Posted : d # e => request'[d] = request[d]
           /\ Posted' = Posted
<1>1. PICK r : r = [stage |-> "received", worker |-> w, kind |-> request[e].kind]
  OBVIOUS
<1>2. r \in Taken
  BY <1>1, RequestFields DEF Taken
<1>3. request' = [request EXCEPT ![e] = r] /\ request[e].stage = "unsent"
  BY <1>1 DEF Accept
<1>4. /\ Posted' = Posted /\ request' \in [Posted' -> Unsent \union Taken \union Sent]
      /\ request'[e] = r /\ \A d \in Posted : d # e => request'[d] = request[d]
  BY <1>2, <1>3, RequestSet
<1>5. StatesOK'
  BY <1>4 DEF Accept, cache, traffic, StatesOK
<1> QED
  BY <1>1, <1>3, <1>4, <1>5

(* The handler sends its first records. *)
LEMMA DeliverOK ==
    ASSUME StatesOK, NEW e \in Posted, request[e].stage = "received",
           NEW hidden \in BOOLEAN, Deliver(e, hidden)
    PROVE  /\ Posted' = Posted
           /\ request' \in [Posted' -> Unsent \union Taken \union Sent]
           /\ sends' \in [Posted' -> SendMaps]
           /\ request'[e].stage = IF hidden /\ debug THEN "debug" ELSE "main"
           /\ request'[e].kind = request[e].kind /\ request'[e].hide = hidden
           /\ request'[e].form = IF ~debug /\ hidden THEN "hidden" ELSE "clear"
           /\ DOMAIN sends'[e] = active \X {request'[e].stage}
           /\ \A f \in DOMAIN sends'[e] : sends'[e][f].pc = "queued"
           /\ \A d \in Posted : d # e => request'[d] = request[d] /\ sends'[d] = sends[d]
<1>1. PICK stage \in {"debug", "main"} : stage = IF hidden /\ debug THEN "debug" ELSE "main"
  OBVIOUS
<1>2. PICK r : r = [stage |-> stage, worker |-> request[e].worker, kind |-> request[e].kind,
                    hide |-> hidden,
                    form |-> IF stage = "main" /\ hidden THEN "hidden" ELSE "clear"]
  OBVIOUS
<1>3. request' = [request EXCEPT ![e] = r] /\ sends' = [sends EXCEPT ![e] = Queued(stage)]
  BY <1>1, <1>2 DEF Deliver
<1>4. request[e].worker \in Workers /\ request[e].kind \in Kinds
  BY RequestFields DEF InFlight
<1>5. r \in Sent
  BY <1>2, <1>4 DEF Sent, Forms
<1>6. /\ Posted' = Posted /\ request' \in [Posted' -> Unsent \union Taken \union Sent]
      /\ request'[e] = r /\ \A d \in Posted : d # e => request'[d] = request[d]
  BY <1>3, <1>5, RequestSet
<1>7. /\ Queued(stage) \in SendMaps
      /\ DOMAIN Queued(stage) = active \X {stage}
      /\ \A f \in active \X {stage} : Queued(stage)[f].pc = "queued"
  BY QueuedOK
<1>8. sends \in [Posted -> SendMaps]
  BY DEF StatesOK
<1> HIDE DEF Posted
<1>9. /\ sends' \in [Posted' -> SendMaps] /\ sends'[e] = Queued(stage)
      /\ \A d \in Posted : d # e => sends'[d] = sends[d]
  BY <1>3, <1>6, <1>7, <1>8
<1>10. r.stage = stage /\ r.kind = request[e].kind /\ r.hide = hidden
       /\ r.form = IF ~debug /\ hidden THEN "hidden" ELSE "clear"
  BY <1>1, <1>2
<1> QED
  BY <1>1, <1>6, <1>7, <1>9, <1>10

LEMMA RefuseOK ==
    ASSUME StatesOK, NEW e \in Posted, request[e].stage = "received", Refuse(e)
    PROVE  /\ Posted' = Posted
           /\ request' \in [Posted' -> Unsent \union Taken \union Sent]
           /\ request'[e].stage = "rejected" /\ request'[e].kind = request[e].kind
           /\ sends' = sends
           /\ \A d \in Posted : d # e => request'[d] = request[d]
<1>1. PICK r : r = [request[e] EXCEPT !.stage = "rejected"]
  OBVIOUS
<1>2. request' = [request EXCEPT ![e] = r] /\ sends' = sends
  BY <1>1 DEF Refuse
<1>3. r \in Taken /\ r.stage = "rejected" /\ r.kind = request[e].kind
  BY <1>1, RequestMoves
<1> QED
  BY <1>2, <1>3, RequestSet

(* What Handle comes to: a load, a refusal, or the first records. *)
LEMMA HandleIs ==
    ASSUME StatesOK, NEW e \in Posted, Handle(e)
    PROVE  /\ request[e].stage = "received" /\ request[e].worker \in Workers
           /\ loader[request[e].worker] = Idle
           /\ UNCHANGED <<active, debug, table, file, memory, budget, initial, delivered, gaveUp>>
           /\ \/ /\ memory[request[e].worker] = None
                 /\ loader' = [loader EXCEPT ![request[e].worker] = [pc |-> "read", for |-> e]]
                 /\ UNCHANGED <<request, sends>>
              \/ Refuse(e) /\ UNCHANGED loader
              \/ \E hidden \in BOOLEAN : /\ Deliver(e, hidden) /\ UNCHANGED loader
                                         /\ request[e].kind.blocked => hidden
<1>1. request[e].kind.blocked \in BOOLEAN
  BY RequestFields DEF Kinds
<1> QED
  BY <1>1, RequestFields DEF Handle, Runs, InFlight, LooksUp

LEMMA HandleStates ==
    ASSUME StatesOK, NEW e \in Posted, Handle(e)
    PROVE  StatesOK'
<1>1. /\ request[e].stage = "received" /\ request[e].worker \in Workers
      /\ UNCHANGED <<active, debug, table, file, memory, budget, initial, delivered, gaveUp>>
  BY HandleIs
<1>2. CASE /\ loader' = [loader EXCEPT ![request[e].worker] = [pc |-> "read", for |-> e]]
           /\ UNCHANGED <<request, sends>>
  <2>1. [pc |-> "read", for |-> e] \in LoaderStates
    BY RequestFields DEF LoaderStates
  <2>2. loader' \in [Processes -> LoaderStates]
    BY <1>2, <2>1 DEF StatesOK
  <2> QED
    BY <1>1, <1>2, <2>2 DEF StatesOK, Posted
<1>3. CASE Refuse(e) /\ UNCHANGED loader
  <2>1. /\ Posted' = Posted /\ request' \in [Posted' -> Unsent \union Taken \union Sent]
        /\ sends' = sends
    BY <1>1, <1>3, RefuseOK
  <2> QED
    BY <1>1, <1>3, <2>1 DEF StatesOK
<1>4. ASSUME NEW hidden \in BOOLEAN, Deliver(e, hidden), UNCHANGED loader PROVE StatesOK'
  <2>1. /\ Posted' = Posted /\ request' \in [Posted' -> Unsent \union Taken \union Sent]
        /\ sends' \in [Posted' -> SendMaps]
    BY <1>1, <1>4, DeliverOK
  <2> QED
    BY <1>1, <1>4, <2>1 DEF StatesOK
<1> QED
  BY <1>2, <1>3, <1>4, HandleIs

LEMMA OverwriteStates ==
    ASSUME StatesOK, NEW e \in Posted, Overwrite(e)
    PROVE  /\ StatesOK' /\ Posted' = Posted
           /\ request'[e].stage = "main" /\ request'[e].form = "hidden"
           /\ request'[e].hide = request[e].hide /\ request'[e].kind = request[e].kind
           /\ DOMAIN sends'[e] = active \X {"main"}
           /\ \A f \in DOMAIN sends'[e] : sends'[e][f].pc = "queued"
           /\ \A d \in Posted : d # e => request'[d] = request[d] /\ sends'[d] = sends[d]
<1>1. PICK r : r = [request[e] EXCEPT !.stage = "main", !.form = "hidden"]
  OBVIOUS
<1>2. /\ request[e].stage = "debug"
      /\ request' = [request EXCEPT ![e] = r] /\ sends' = [sends EXCEPT ![e] = Queued("main")]
  BY <1>1 DEF Overwrite, Runs, StatesOK
<1>3. /\ r \in Sent /\ r.stage = "main" /\ r.kind = request[e].kind
      /\ r.hide = request[e].hide /\ r.form = "hidden"
  BY <1>1, <1>2, RequestMoves
<1>4. /\ Posted' = Posted /\ request' \in [Posted' -> Unsent \union Taken \union Sent]
      /\ request'[e] = r /\ \A d \in Posted : d # e => request'[d] = request[d]
  BY <1>2, <1>3, RequestSet
<1>5. /\ Queued("main") \in SendMaps
      /\ DOMAIN Queued("main") = active \X {"main"}
      /\ \A f \in active \X {"main"} : Queued("main")[f].pc = "queued"
  BY QueuedOK
<1>6. sends \in [Posted -> SendMaps]
  BY DEF StatesOK
<1>7. /\ sends' \in [Posted' -> SendMaps] /\ sends'[e] = Queued("main")
      /\ \A d \in Posted : d # e => sends'[d] = sends[d]
  <2> HIDE DEF Posted
  <2> QED
    BY <1>2, <1>4, <1>5, <1>6
<1>8. StatesOK'
  BY <1>4, <1>7 DEF Overwrite, cache, StatesOK
<1> QED
  BY <1>3, <1>4, <1>5, <1>7, <1>8

LEMMA AnswerStates ==
    ASSUME StatesOK, NEW e \in Posted, Answer(e)
    PROVE  /\ StatesOK' /\ Posted' = Posted
           /\ request[e].stage = "main" /\ request'[e].stage = "ok"
           /\ request'[e].hide = request[e].hide /\ request'[e].kind = request[e].kind
           /\ \A d \in Posted : d # e => request'[d] = request[d]
<1>1. PICK r : r = [request[e] EXCEPT !.stage = "ok"]
  OBVIOUS
<1>2. request[e].stage = "main" /\ request' = [request EXCEPT ![e] = r]
  BY <1>1 DEF Answer, Runs
<1>3. /\ r \in Sent /\ r.stage = "ok" /\ r.kind = request[e].kind
      /\ r.hide = request[e].hide
  BY <1>1, <1>2, RequestMoves
<1>4. /\ Posted' = Posted /\ request' \in [Posted' -> Unsent \union Taken \union Sent]
      /\ request'[e] = r /\ \A d \in Posted : d # e => request'[d] = request[d]
  BY <1>2, <1>3, RequestSet
<1>5. StatesOK'
  BY <1>4 DEF Answer, cache, traffic, StatesOK
<1> QED
  BY <1>2, <1>3, <1>4, <1>5

(* A send goes on, with the form it has or, at its start, the handler's. *)
SendGoesOn(e, f) ==
    /\ DOMAIN sends'[e] = DOMAIN sends[e]
    /\ \A g \in DOMAIN sends[e] : g # f => sends'[e][g] = sends[e][g]
    /\ sends'[e][f].pc = "put"
    /\ \/ sends'[e][f].form = request[e].form
       \/ sends[e][f].pc = "put" /\ sends'[e][f].form = sends[e][f].form

(* A send is over, and has delivered or given up. *)
SendIsOver(e, f) ==
    /\ DOMAIN sends'[e] = DOMAIN sends[e] \ {f}
    /\ \A g \in DOMAIN sends[e] \ {f} : sends'[e][g] = sends[e][g]
    /\ <<e, f>> \in gaveUp' \/ (sends[e][f].pc = "put" /\ Takes(e, f))

LEMMA SendIs ==
    ASSUME StatesOK, NEW e \in Posted, SendsInv(e), NEW f \in Firehoses, Send(e, f)
    PROVE  /\ StatesOK' /\ Posted' = Posted
           /\ f \in DOMAIN sends[e]
           /\ UNCHANGED <<active, debug, cache, request>>
           /\ gaveUp \subseteq gaveUp'
           /\ UNCHANGED delivered \/ (sends[e][f].pc = "put" /\ Takes(e, f))
           /\ \A d \in Posted : d # e => sends'[d] = sends[d]
           /\ SendGoesOn(e, f) \/ SendIsOver(e, f)
<1>1. f \in DOMAIN sends[e] /\ UNCHANGED <<active, debug, cache, request>> /\ Posted' = Posted
  BY DEF Send, StartSend, PutSucceeds, PutFails, PutRaises, Sending, Posted
<1>2. /\ request[e].stage \in {"debug", "main"} /\ request[e] \in Sent
      /\ request[e].form \in Forms
  BY <1>1, RequestFields DEF SendsInv, Sent
<1>3. sends[e][f].pc = "put" =>
        /\ sends[e][f] \in [pc : {"put"}, form : Forms, retries : Int, failures : Int]
        /\ sends[e][f].form \in Forms
  BY <1>1, SendFields DEF SendStates
<1>4. sends[e][f].pc = "put" /\ Takes(e, f) =>
        delivered' \in [Firehoses -> SUBSET (Events \X Forms)]
  BY <1>3, RequestFields DEF Takes, StatesOK
<1>5. ASSUME sends' \in [Posted -> SendMaps], gaveUp' \subseteq Events \X Firehoses,
             UNCHANGED delivered \/ (sends[e][f].pc = "put" /\ Takes(e, f))
      PROVE  StatesOK'
  BY <1>1, <1>4, <1>5 DEF StatesOK, cache
<1>6. gaveUp \union {<<e, f>>} \subseteq Events \X Firehoses
  BY RequestFields DEF StatesOK
<1>7. gaveUp \subseteq Events \X Firehoses
  BY DEF StatesOK
<1>8. ASSUME GiveUp(e, f),
             UNCHANGED delivered \/ (sends[e][f].pc = "put" /\ Takes(e, f))
      PROVE  /\ StatesOK' /\ gaveUp \subseteq gaveUp'
             /\ \A d \in Posted : d # e => sends'[d] = sends[d]
             /\ SendIsOver(e, f)
  <2>1. sends' = [sends EXCEPT ![e] = Finished(e, f)] /\ gaveUp' = gaveUp \union {<<e, f>>}
    BY <1>8 DEF GiveUp
  <2>2. /\ sends' \in [Posted -> SendMaps]
        /\ DOMAIN sends'[e] = DOMAIN sends[e] \ {f}
        /\ \A g \in DOMAIN sends[e] \ {f} : sends'[e][g] = sends[e][g]
        /\ \A d \in Posted : d # e => sends'[d] = sends[d]
    BY <1>1, <2>1, SendEnds
  <2> QED
    BY <1>5, <1>6, <1>8, <2>1, <2>2 DEF SendIsOver
<1>9. ASSUME NEW r, sends' = [sends EXCEPT ![e][f] = r], UNCHANGED gaveUp,
             r \in [pc : {"put"}, form : Forms, retries : Int, failures : Int],
             r.form = request[e].form \/ (sends[e][f].pc = "put" /\ r.form = sends[e][f].form),
             UNCHANGED delivered \/ (sends[e][f].pc = "put" /\ Takes(e, f))
      PROVE  /\ StatesOK' /\ gaveUp \subseteq gaveUp'
             /\ \A d \in Posted : d # e => sends'[d] = sends[d]
             /\ SendGoesOn(e, f)
  <2>1. r \in SendStates /\ r.pc = "put"
    BY <1>9 DEF SendStates
  <2>2. /\ sends' \in [Posted -> SendMaps]
        /\ DOMAIN sends'[e] = DOMAIN sends[e]
        /\ sends'[e][f] = r
        /\ \A g \in DOMAIN sends[e] : g # f => sends'[e][g] = sends[e][g]
        /\ \A d \in Posted : d # e => sends'[d] = sends[d]
    BY <1>1, <1>9, <2>1, SendMoves
  <2> QED
    BY <1>5, <1>7, <1>9, <2>1, <2>2 DEF SendGoesOn
<1>10. CASE StartSend(e, f)
  <2>1. PICK r : r = [pc |-> "put", form |-> request[e].form,
                      retries |-> UnavailableRetries, failures |-> 0]
    OBVIOUS
  <2>2. /\ r \in [pc : {"put"}, form : Forms, retries : Int, failures : Int]
        /\ r.form = request[e].form
    BY <1>2, <2>1, LegacyBounds
  <2>3. sends' = [sends EXCEPT ![e][f] = r] /\ UNCHANGED <<delivered, gaveUp>>
    BY <1>10, <2>1 DEF StartSend
  <2> QED
    BY <1>1, <1>9, <2>2, <2>3
<1>11. CASE PutSucceeds(e, f)
  <2>1. /\ sends[e][f].pc = "put" /\ Takes(e, f)
        /\ sends' = [sends EXCEPT ![e] = Finished(e, f)] /\ UNCHANGED gaveUp
    BY <1>11 DEF PutSucceeds, Sending
  <2>2. /\ sends' \in [Posted -> SendMaps]
        /\ DOMAIN sends'[e] = DOMAIN sends[e] \ {f}
        /\ \A g \in DOMAIN sends[e] \ {f} : sends'[e][g] = sends[e][g]
        /\ \A d \in Posted : d # e => sends'[d] = sends[d]
    BY <1>1, <2>1, SendEnds
  <2> QED
    BY <1>1, <1>5, <1>7, <2>1, <2>2 DEF SendIsOver
<1>12. CASE PutFails(e, f)
  <2>1. sends[e][f].pc = "put" /\ UNCHANGED delivered
    BY <1>12 DEF PutFails, Sending
  <2>2. PICK failures \in Int : failures = sends[e][f].failures + 1
    BY <1>3, <2>1
  <2>3. PICK r : r = [sends[e][f] EXCEPT !.failures = failures, !.retries = UnavailableRetries]
    OBVIOUS
  <2>4. /\ r \in [pc : {"put"}, form : Forms, retries : Int, failures : Int]
        /\ r.form = sends[e][f].form
    <3>1. UnavailableRetries \in Int
      BY LegacyBounds
    <3>2. sends[e][f] \in [pc : {"put"}, form : Forms, retries : Int, failures : Int]
      BY <1>3, <2>1
    <3> QED
      BY <2>3, <3>1, <3>2
  <2>5. CASE GiveUp(e, f)
    BY <1>1, <1>8, <2>1, <2>5
  <2>6. CASE /\ sends' = [sends EXCEPT ![e][f].failures = failures,
                                       ![e][f].retries = UnavailableRetries]
             /\ UNCHANGED gaveUp
    <3>1. sends' = [sends EXCEPT ![e][f] = r]
      BY <1>1, <2>3, <2>6, SendFields DEF StatesOK
    <3> QED
      BY <1>1, <1>9, <2>1, <2>4, <2>6, <3>1
  <2> QED
    BY <1>12, <2>2, <2>5, <2>6 DEF PutFails
<1>13. CASE PutRaises(e, f)
  <2>1. sends[e][f].pc = "put" /\ (Takes(e, f) \/ UNCHANGED delivered)
    BY <1>13 DEF PutRaises, Sending
  <2>2. CASE GiveUp(e, f)
    BY <1>1, <1>8, <2>1, <2>2
  <2>3. CASE sends' = [sends EXCEPT ![e][f].retries = @ - 1] /\ UNCHANGED gaveUp
    <3>1. PICK r : r = [sends[e][f] EXCEPT !.retries = @ - 1]
      OBVIOUS
    <3>2. /\ r \in [pc : {"put"}, form : Forms, retries : Int, failures : Int]
          /\ r.form = sends[e][f].form
      BY <1>3, <2>1, <3>1
    <3>3. sends' = [sends EXCEPT ![e][f] = r]
      BY <2>3, <3>1
    <3> QED
      BY <1>1, <1>9, <2>1, <2>3, <3>2, <3>3
  <2> QED
    BY <1>13, <2>2, <2>3 DEF PutRaises
<1> QED
  BY <1>10, <1>11, <1>12, <1>13 DEF Send

LEMMA SurroundingsStates ==
    ASSUME StatesOK, TableChanges \/ (\E w \in Workers : WorkerDies(w)) \/ ContainerRestarts
    PROVE  StatesOK'
<1>1. Idle \in LoaderStates /\ [pc |-> "fetch"] \in LoaderStates
  BY DEF LoaderStates
<1>2. budget' \in [changes : 0..MaxChanges, deaths : 0..MaxDeaths]
  <2>1. /\ budget.changes \in 0..MaxChanges /\ budget.deaths \in 0..MaxDeaths
        /\ budget = [changes |-> budget.changes, deaths |-> budget.deaths]
    BY DEF StatesOK
  <2>2. \/ budget.changes < MaxChanges /\ budget' = [budget EXCEPT !.changes = @ + 1]
        \/ budget.deaths < MaxDeaths /\ budget' = [budget EXCEPT !.deaths = @ + 1]
    BY DEF TableChanges, WorkerDies, ContainerRestarts
  <2>3. \/ /\ budget.changes < MaxChanges
           /\ budget' = [changes |-> budget.changes + 1, deaths |-> budget.deaths]
        \/ /\ budget.deaths < MaxDeaths
           /\ budget' = [changes |-> budget.changes, deaths |-> budget.deaths + 1]
    BY <2>1, <2>2
  <2> QED
    BY <2>1, <2>3, LegacyBounds
<1>3. CASE TableChanges
  BY <1>2, <1>3 DEF TableChanges, traffic, StatesOK, Posted
<1>4. ASSUME NEW w \in Workers, WorkerDies(w) PROVE StatesOK'
  <2>1. /\ Posted' = Posted /\ request' \in [Posted' -> Unsent \union Taken \union Sent]
        /\ sends' \in [Posted' -> SendMaps]
    BY <1>4, LoseMoves DEF WorkerDies
  <2>2. /\ memory' \in [Workers -> Lists \union {None}]
        /\ loader' \in [Processes -> LoaderStates]
    BY <1>1, <1>4 DEF WorkerDies, StatesOK
  <2> QED
    BY <1>2, <1>4, <2>1, <2>2 DEF WorkerDies, StatesOK
<1>5. CASE ContainerRestarts
  <2>1. /\ Posted' = Posted /\ request' \in [Posted' -> Unsent \union Taken \union Sent]
        /\ sends' \in [Posted' -> SendMaps]
    BY <1>5, LoseMoves DEF ContainerRestarts
  <2>2. /\ memory' \in [Workers -> Lists \union {None}]
        /\ loader' \in [Processes -> LoaderStates]
    BY <1>1, <1>5 DEF ContainerRestarts
  <2> QED
    BY <1>2, <1>5, <2>1, <2>2 DEF ContainerRestarts, StatesOK
<1> QED
  BY <1>3, <1>4, <1>5

-----------------------------------------------------------------------------
(* The list, step by step *)

LEMMA WorkerLoads ==
    ASSUME StatesOK, ListInv, NEW w \in Workers, loader[w].pc # "idle"
    PROVE  /\ Serving
           /\ loader[w].pc # "read" => initial = None
BY DEF ListInv, NotServingInv, GovernInv, Idle

LEMMA ListLoad ==
    ASSUME StatesOK, ListInv, NEW p \in Processes, Load(p)
    PROVE  ListInv'
<1>1. p \in Workers \/ p = Initializer
  BY DEF Processes
<1>2. Initializer \in Processes /\ Initializer \notin Workers /\ Workers \subseteq Processes
  BY LegacyBounds DEF Processes
<1>3. loader \in [Processes -> LoaderStates] /\ Idle.pc = "idle"
  BY DEF StatesOK, Idle
<1>4. CASE ReadFile(p)
  <2>1. loader[p].pc = "read" /\ p \in Workers /\ Serving
    BY <1>1, <1>4, WorkerLoads DEF ReadFile, ListInv, ReadInv
  <2>2. initial \in Lists \union {None} /\ UNCHANGED <<file, initial>>
    BY <1>4 DEF ReadFile, StatesOK
  <2>3. CASE file = Missing
    <3>1. PICK r : r = [loader[p] EXCEPT !.pc = "fetch"]
      OBVIOUS
    <3>2. loader' = [loader EXCEPT ![p] = r] /\ UNCHANGED <<memory, request>>
      BY <1>4, <2>3, <3>1, LegacyBounds DEF ReadFile
    <3>3. r.pc = "fetch"
      BY <2>1, <3>1, LoaderMoves
    <3>4. /\ loader'[p].pc = "fetch" /\ loader'[Initializer] = loader[Initializer]
          /\ \A q \in Processes : q # p => loader'[q] = loader[q]
      BY <1>2, <1>3, <2>1, <3>2, <3>3
    <3>5. initial = None /\ Posted' = Posted
      BY <2>2, <2>3, <3>2, LegacyBounds DEF ListInv, GovernInv, Posted
    <3> QED
      BY <1>2, <2>1, <2>2, <3>2, <3>4, <3>5
         DEF ListInv, NotServingInv, ReadInv, GovernInv, Serving
  <2>4. CASE file = Torn
    <3>1. PICK e \in Posted : e = loader[p].for
      BY <2>1 DEF ListInv, ReadInv
    <3>2. request[e].stage = "received" /\ request[e].worker = p
      BY <2>1, <3>1 DEF ListInv, ReadInv
    <3>3. PICK r : r = [request[e] EXCEPT !.stage = "rejected"]
      OBVIOUS
    <3>4. /\ loader' = [loader EXCEPT ![p] = Idle] /\ memory' = memory
          /\ request' = [request EXCEPT ![e] = r]
      BY <1>4, <2>4, <3>1, <3>3, LegacyBounds DEF ReadFile
    <3>5. r \in Taken
      BY <3>2, <3>3, RequestMoves
    <3>6. Posted' = Posted /\ \A d \in Posted : d # e => request'[d] = request[d]
      BY <3>4, <3>5, RequestSet
    <3>7. /\ loader'[p].pc = "idle" /\ loader'[Initializer] = loader[Initializer]
          /\ \A q \in Processes : q # p => loader'[q] = loader[q]
      BY <1>2, <1>3, <2>1, <3>4
    <3>8. initial = None
      BY <2>2, <2>4, LegacyBounds DEF ListInv, GovernInv
    <3> QED
      BY <1>2, <2>1, <2>2, <3>2, <3>6, <3>7, <3>8
         DEF ListInv, NotServingInv, ReadInv, GovernInv, Serving
  <2>5. CASE file \in Lists
    <3>1. Loaded(p, file) /\ UNCHANGED request
      BY <1>4, <2>5, LegacyBounds DEF ReadFile
    <3>2. /\ loader'[p] = Idle
          /\ \A q \in Processes \ {p} : loader'[q] = loader[q]
          /\ memory'[p] = file /\ \A w \in Workers \ {p} : memory'[w] = memory[w]
      BY <1>2, <2>1, <2>5, <3>1, LoadedOK
    <3>3. Posted' = Posted
      BY <3>1 DEF Posted
    <3> QED
      BY <1>2, <1>3, <2>1, <2>2, <3>1, <3>2, <3>3
         DEF ListInv, NotServingInv, ReadInv, GovernInv, Serving
  <2> QED
    BY <2>3, <2>4, <2>5 DEF StatesOK
<1>5. CASE Fetch(p) \/ OpenFile(p) \/ WriteFile(p)
  <2>1. loader[p].pc \in {"fetch", "open", "write"} /\ UNCHANGED request /\ Posted' = Posted
    BY <1>5 DEF Fetch, OpenFile, WriteFile, Posted
  <2>2. /\ initial = None
        /\ loader[p] # Idle
    BY <1>1, <1>3, <2>1, WorkerLoads DEF ListInv, GovernInv, Serving
  <2>3. /\ \A q \in Processes : q # p => loader'[q] = loader[q]
        /\ \A w \in Workers : w # p => memory'[w] = memory[w]
    <3>1. ASSUME NEW list, Loaded(p, list)
          PROVE  /\ \A q \in Processes : q # p => loader'[q] = loader[q]
                 /\ \A w \in Workers : w # p => memory'[w] = memory[w]
      BY <3>1 DEF Loaded, StatesOK
    <3>2. ASSUME NEW r, loader' = [loader EXCEPT ![p] = r], UNCHANGED memory
          PROVE  /\ \A q \in Processes : q # p => loader'[q] = loader[q]
                 /\ \A w \in Workers : w # p => memory'[w] = memory[w]
      BY <3>2 DEF StatesOK
    <3>3. ASSUME loader' = [loader EXCEPT ![p].pc = "write"], UNCHANGED memory
          PROVE  /\ \A q \in Processes : q # p => loader'[q] = loader[q]
                 /\ \A w \in Workers : w # p => memory'[w] = memory[w]
      BY <3>3 DEF StatesOK
    <3> QED
      BY <1>5, <3>1, <3>2, <3>3 DEF Fetch, OpenFile, WriteFile
  <2>4. loader'[p].pc # "read"
    <3>1. ASSUME NEW list, Loaded(p, list) PROVE loader'[p].pc # "read"
      BY <1>3, <3>1 DEF Loaded
    <3>2. ASSUME NEW list, loader' = [loader EXCEPT ![p] = [pc |-> "open", list |-> list]]
          PROVE  loader'[p].pc # "read"
      BY <1>3, <3>2
    <3>3. ASSUME loader[p].pc = "open", loader' = [loader EXCEPT ![p].pc = "write"]
          PROVE  loader'[p].pc # "read"
      <4>1. PICK r : r = [loader[p] EXCEPT !.pc = "write"]
        OBVIOUS
      <4>2. loader' = [loader EXCEPT ![p] = r] /\ r.pc = "write"
        BY <3>3, <4>1, LoaderMoves
      <4> QED
        BY <1>3, <4>2
    <3> QED
      BY <1>5, <3>1, <3>2, <3>3 DEF Fetch, OpenFile, WriteFile
  <2>5. CASE p \in Workers
    <3>1. Serving /\ p # Initializer /\ initial' = None
      BY <1>2, <1>5, <2>1, <2>2, <2>5, WorkerLoads DEF Fetch, OpenFile, WriteFile
    <3> QED
      BY <1>2, <2>1, <2>3, <2>4, <2>5, <3>1
         DEF ListInv, NotServingInv, ReadInv, GovernInv, Serving
  <2>6. CASE p = Initializer
    <3>1. ~Serving /\ \A w \in Workers : memory[w] = None /\ loader[w] = Idle
      BY <2>2, <2>6 DEF Serving, ListInv, NotServingInv
    <3>2. \A w \in Workers : memory'[w] = None /\ loader'[w] = Idle
      BY <1>2, <2>3, <2>6, <3>1
    <3>3. \A e \in Posted' : ~InFlight(e)'
      BY <2>1, <3>1 DEF ListInv, NotServingInv, InFlight
    <3>4. initial' # None => loader'[p] = Idle /\ file' = initial'
      <4>1. CASE WriteFile(p)
        BY <1>3, <2>2, <4>1 DEF WriteFile, Loaded
      <4>2. CASE Fetch(p) \/ OpenFile(p)
        BY <2>2, <4>2 DEF Fetch, OpenFile
      <4> QED
        BY <1>5, <4>1, <4>2
    <3> QED
      BY <1>3, <2>4, <2>6, <3>2, <3>3, <3>4
         DEF ListInv, NotServingInv, ReadInv, GovernInv, Serving
  <2> QED
    BY <1>1, <2>5, <2>6
<1> QED
  BY <1>4, <1>5 DEF Load

(* The requests move on, without a load. *)
LEMMA ListKept ==
    ASSUME StatesOK, ListInv, Posted' = Posted,
           UNCHANGED <<loader, memory, file, initial>>,
           \A e \in Posted : InFlight(e)' => Serving,
           \A e \in Posted : request[e].stage = "received" /\ request'[e] # request[e] =>
                                loader[request[e].worker] = Idle
    PROVE  ListInv'
<1>1. NotServingInv' /\ GovernInv'
  BY DEF ListInv, NotServingInv, GovernInv, Serving
<1>2. \A w \in Workers : loader[w].pc = "read" => request'[loader[w].for] = request[loader[w].for]
  BY DEF ListInv, ReadInv, Idle
<1> QED
  BY <1>1, <1>2 DEF ListInv, ReadInv

LEMMA ListServe ==
    ASSUME StatesOK, ListInv, EventsInv, NEW e \in Posted,
           Serve(e) \/ \E w \in Workers : Accept(e, w)
    PROVE  ListInv'
<1>1. \A d \in Posted : InFlight(d) => Serving
  BY DEF ListInv, NotServingInv
<1>2. ASSUME NEW w \in Workers, Accept(e, w) PROVE ListInv'
  <2>1. /\ request[e].stage = "unsent" /\ Posted' = Posted
        /\ \A d \in Posted : d # e => request'[d] = request[d]
    BY <1>2, AcceptStates
  <2> QED
    BY <1>2, <2>1, ListKept DEF Accept, cache
<1>3. CASE Handle(e)
  <2>1. /\ request[e].stage = "received" /\ request[e].worker \in Workers
        /\ loader[request[e].worker] = Idle /\ Serving
        /\ UNCHANGED <<file, memory, initial>>
    BY <1>1, <1>3, HandleIs DEF InFlight
  <2>2. CASE /\ loader' = [loader EXCEPT ![request[e].worker] = [pc |-> "read", for |-> e]]
             /\ UNCHANGED <<request, sends>>
    <3>1. PICK w \in Workers : w = request[e].worker
      BY <2>1
    <3>2. PICK r : r = [pc |-> "read", for |-> e]
      OBVIOUS
    <3>3. loader' = [loader EXCEPT ![w] = r]
      BY <2>2, <3>1, <3>2
    <3>4. /\ loader'[w].pc = "read" /\ loader'[w].for = e
          /\ loader'[Initializer] = loader[Initializer]
          /\ \A v \in Workers : v # w => loader'[v] = loader[v]
      BY <3>2, <3>3, LegacyBounds DEF StatesOK, Processes
    <3>5. Posted' = Posted
      BY <2>2 DEF Posted
    <3> QED
      BY <2>1, <2>2, <3>1, <3>4, <3>5
         DEF ListInv, NotServingInv, ReadInv, GovernInv, Serving
  <2>3. ASSUME UNCHANGED loader, Posted' = Posted,
               \A d \in Posted : d # e => request'[d] = request[d]
        PROVE  ListInv'
    BY <1>1, <2>1, <2>3, ListKept
  <2>4. CASE Refuse(e) /\ UNCHANGED loader
    BY <2>1, <2>3, <2>4, RefuseOK
  <2>5. ASSUME NEW hidden \in BOOLEAN, Deliver(e, hidden), UNCHANGED loader PROVE ListInv'
    BY <2>1, <2>3, <2>5, DeliverOK
  <2> QED
    BY <1>3, <2>2, <2>4, <2>5, HandleIs
<1>4. CASE Overwrite(e)
  <2>1. /\ Posted' = Posted /\ request[e].stage = "debug"
        /\ \A d \in Posted : d # e => request'[d] = request[d]
    BY <1>4, OverwriteStates DEF Overwrite, Runs
  <2>2. \A d \in Posted : InFlight(d)' => Serving
    BY <1>1, <2>1 DEF InFlight
  <2> QED
    BY <1>4, <2>1, <2>2, ListKept DEF Overwrite, cache
<1>5. CASE Answer(e)
  <2>1. /\ Posted' = Posted /\ request[e].stage = "main"
        /\ \A d \in Posted : d # e => request'[d] = request[d]
    BY <1>5, AnswerStates
  <2>2. \A d \in Posted : InFlight(d)' => Serving
    BY <1>1, <2>1 DEF InFlight
  <2> QED
    BY <1>5, <2>1, <2>2, ListKept DEF Answer, cache
<1>6. ASSUME NEW f \in Firehoses, Send(e, f) PROVE ListInv'
  <2>1. UNCHANGED <<cache, request>> /\ Posted' = Posted
    BY <1>6, SendIs DEF EventsInv, EventInv
  <2> QED
    BY <1>1, <2>1, ListKept DEF cache, InFlight
<1> QED
  BY <1>2, <1>3, <1>4, <1>5, <1>6 DEF Serve

LEMMA ListSurroundings ==
    ASSUME StatesOK, ListInv,
           TableChanges \/ (\E w \in Workers : WorkerDies(w)) \/ ContainerRestarts
    PROVE  ListInv'
<1>1. Initializer \notin Workers
  BY LegacyBounds
<1>2. CASE TableChanges
  BY <1>2 DEF TableChanges, ListInv, NotServingInv, ReadInv, GovernInv, Serving, InFlight, Posted
<1>3. ASSUME NEW w \in Workers, WorkerDies(w) PROVE ListInv'
  <2>1. /\ Posted' = Posted
        /\ \A e \in Posted : request[e].worker # w => request'[e] = request[e]
    <3>1. Lose({w})
      BY <1>3 DEF WorkerDies
    <3>2. /\ Posted' = Posted
          /\ \A e \in Posted : ~(InFlight(e) /\ request[e].worker \in {w}) =>
                                  request'[e] = request[e]
      BY <3>1, LoseMoves
    <3> QED
      BY <3>2
  <2>2. /\ Serving /\ UNCHANGED <<file, initial>>
        /\ memory'[w] = None /\ loader'[w].pc = "idle"
        /\ loader'[Initializer] = loader[Initializer]
        /\ \A v \in Workers : v # w => memory'[v] = memory[v] /\ loader'[v] = loader[v]
    BY <1>1, <1>3 DEF WorkerDies, StatesOK, Idle, Processes
  <2>3. ReadInv'
    BY <2>1, <2>2 DEF ListInv, ReadInv
  <2>4. NotServingInv' /\ GovernInv'
    BY <2>2 DEF ListInv, NotServingInv, GovernInv, Serving
  <2> QED
    BY <2>3, <2>4 DEF ListInv
<1>4. CASE ContainerRestarts
  <2>1. Posted' = Posted /\ \A e \in Posted : ~InFlight(e)'
    <3>1. Posted' = Posted
      BY <1>4, LoseMoves DEF ContainerRestarts
    <3>2. ASSUME NEW e \in Posted PROVE ~InFlight(e)'
      <4>1. CASE InFlight(e)
        <5>1. request'[e] = [request[e] EXCEPT !.stage = "lost"]
          BY <1>4, <4>1, LoseMoves, RequestFields DEF ContainerRestarts
        <5>2. request'[e].stage = "lost"
          BY <4>1, <5>1, RequestMoves
        <5> QED
          BY <5>2 DEF InFlight
      <4>2. CASE ~InFlight(e)
        <5>1. request'[e] = request[e]
          BY <1>4, <4>2, LoseMoves DEF ContainerRestarts
        <5> QED
          BY <4>2, <5>1 DEF InFlight
      <4> QED
        BY <4>1, <4>2
    <3> QED
      BY <3>1, <3>2
  <2>2. /\ initial' = None /\ loader'[Initializer].pc = "fetch"
        /\ \A w \in Workers : memory'[w] = None /\ loader'[w] = Idle
    BY <1>1, <1>4 DEF ContainerRestarts, Processes
  <2> QED
    BY <2>1, <2>2 DEF ListInv, NotServingInv, ReadInv, GovernInv, Idle
<1> QED
  BY <1>2, <1>3, <1>4

-----------------------------------------------------------------------------
(* The events, step by step *)

(* The others' events, and this one when its handler and sends rest. *)
LEMMA EventRests ==
    ASSUME NEW d \in Posted, EventInv(d), request'[d] = request[d], sends'[d] = sends[d],
           active \subseteq Outlets, active' = active, gaveUp \subseteq gaveUp',
           \A f \in Firehoses, form \in Forms :
              <<d, form>> \in delivered'[f] <=> <<d, form>> \in delivered[f]
    PROVE  EventInv(d)'
<1>1. \A o \in Outlets, stage \in {"debug", "main"}, form \in Forms :
         <<d, form>> \in delivered'[<<o, stage>>] <=> <<d, form>> \in delivered[<<o, stage>>]
  BY DEF Firehoses
<1>2. /\ Reached(d, "debug")' <=> Reached(d, "debug")
      /\ Reached(d, "main")' <=> Reached(d, "main")
  BY <1>1 DEF Reached
<1>3. FormsOf(d)'
  BY <1>1, <1>2 DEF EventInv, FormsOf, Forms
<1>4. SendsInv(d)'
  BY DEF EventInv, SendsInv
<1>5. ASSUME Tried(d) PROVE Tried(d)'
  BY <1>1, <1>5 DEF Tried
<1>6. StageInv(d)'
  BY <1>2, <1>5 DEF EventInv, StageInv
<1> QED
  BY <1>3, <1>4, <1>6 DEF EventInv

LEMMA EventServe ==
    ASSUME StatesOK, EventsInv, NEW e \in Posted,
           Handle(e) \/ Overwrite(e) \/ Answer(e) \/ \E w \in Workers : Accept(e, w)
    PROVE  EventsInv'
<1> USE DEF Forms
<1>1. EventInv(e) /\ active \subseteq Outlets
  BY DEF EventsInv, StatesOK
<1>2. ASSUME Posted' = Posted, EventInv(e)', UNCHANGED <<active, delivered, gaveUp>>,
             \A d \in Posted : d # e => request'[d] = request[d] /\ sends'[d] = sends[d]
      PROVE  EventsInv'
  <2>1. \A d \in Posted : d # e => EventInv(d)'
    BY <1>1, <1>2, EventRests DEF EventsInv
  <2> QED
    BY <1>2, <2>1 DEF EventsInv
<1>3. ASSUME UNCHANGED delivered
      PROVE  \A stage \in {"debug", "main"} : Reached(e, stage)' <=> Reached(e, stage)
  BY <1>3 DEF Reached
<1>4. ASSUME NEW w \in Workers, Accept(e, w) PROVE EventsInv'
  <2>1. /\ Posted' = Posted
        /\ request[e].stage = "unsent" /\ request'[e].stage = "received"
        /\ request'[e].kind = request[e].kind
        /\ \A d \in Posted : d # e => request'[d] = request[d]
    BY <1>4, AcceptStates
  <2>2. UNCHANGED <<active, sends, delivered, gaveUp>>
    BY <1>4 DEF Accept, traffic
  <2>3. SendsInv(e)' /\ StageInv(e)'
    BY <1>1, <1>3, <2>1, <2>2 DEF EventInv, SendsInv, StageInv
  <2>4. FormsOf(e)'
    BY <1>1, <2>1, <2>2 DEF EventInv, StageInv, FormsOf, Reached
  <2> QED
    BY <1>2, <2>1, <2>2, <2>3, <2>4 DEF EventInv
<1>5. CASE Handle(e)
  <2>1. /\ request[e].stage = "received" /\ UNCHANGED <<active, debug, delivered, gaveUp>>
    BY <1>5, HandleIs
  <2>2. ~Reached(e, "debug") /\ ~Reached(e, "main")
    BY <1>1, <2>1 DEF EventInv, StageInv
  <2>3. FormsOf(e)'
    BY <2>1, <2>2 DEF FormsOf, Reached
  <2>4. CASE UNCHANGED <<request, sends>>
    <3>1. EventInv(e)'
      BY <1>1, <2>1, <2>4, EventRests
    <3> QED
      BY <1>2, <2>1, <2>4, <3>1 DEF Posted
  <2>5. CASE Refuse(e)
    <3>1. /\ Posted' = Posted /\ request'[e].stage = "rejected" /\ sends' = sends
          /\ \A d \in Posted : d # e => request'[d] = request[d]
      BY <2>1, <2>5, RefuseOK
    <3>2. SendsInv(e)' /\ StageInv(e)'
      BY <1>1, <1>3, <2>1, <2>2, <3>1 DEF EventInv, SendsInv, StageInv
    <3> QED
      BY <1>2, <2>1, <2>3, <3>1, <3>2 DEF EventInv
  <2>6. ASSUME NEW hidden \in BOOLEAN, Deliver(e, hidden), request[e].kind.blocked => hidden
        PROVE  EventsInv'
    <3>1. /\ Posted' = Posted
          /\ request'[e].stage = IF hidden /\ debug THEN "debug" ELSE "main"
          /\ request'[e].kind = request[e].kind /\ request'[e].hide = hidden
          /\ request'[e].form = IF ~debug /\ hidden THEN "hidden" ELSE "clear"
          /\ DOMAIN sends'[e] = active \X {request'[e].stage}
          /\ \A f \in DOMAIN sends'[e] : sends'[e][f].pc = "queued"
          /\ \A d \in Posted : d # e => request'[d] = request[d] /\ sends'[d] = sends[d]
      BY <2>1, <2>6, DeliverOK
    <3>2. SendsInv(e)'
      BY <2>1, <3>1 DEF SendsInv
    <3>3. request'[e].stage = "main" => Tried(e)'
      BY <2>1, <3>1 DEF Tried
    <3>4. StageInv(e)'
      BY <1>3, <2>1, <2>2, <2>6, <3>1, <3>3 DEF StageInv
    <3> QED
      BY <1>2, <2>1, <2>3, <3>1, <3>2, <3>4 DEF EventInv
  <2> QED
    BY <1>5, <2>4, <2>5, <2>6, HandleIs
<1>6. CASE Overwrite(e)
  <2>1. /\ Posted' = Posted
        /\ request'[e].stage = "main" /\ request'[e].form = "hidden"
        /\ request'[e].hide = request[e].hide /\ request'[e].kind = request[e].kind
        /\ DOMAIN sends'[e] = active \X {"main"}
        /\ \A f \in DOMAIN sends'[e] : sends'[e][f].pc = "queued"
        /\ \A d \in Posted : d # e => request'[d] = request[d] /\ sends'[d] = sends[d]
    BY <1>6, OverwriteStates
  <2>2. request[e].stage = "debug" /\ UNCHANGED <<active, delivered, gaveUp>>
    BY <1>6 DEF Overwrite, Runs
  <2>3. request[e].hide
    BY <1>1, <2>2 DEF EventInv, StageInv
  <2>4. SendsInv(e)' /\ Tried(e)'
    BY <2>1, <2>2 DEF SendsInv, Tried
  <2>5. StageInv(e)'
    BY <2>1, <2>3, <2>4 DEF StageInv
  <2>6. FormsOf(e)'
    BY <1>1, <2>1, <2>2 DEF EventInv, FormsOf, Reached
  <2> QED
    BY <1>2, <2>1, <2>2, <2>4, <2>5, <2>6 DEF EventInv
<1>7. CASE Answer(e)
  <2>1. /\ Posted' = Posted
        /\ request[e].stage = "main" /\ request'[e].stage = "ok"
        /\ request'[e].hide = request[e].hide /\ request'[e].kind = request[e].kind
        /\ \A d \in Posted : d # e => request'[d] = request[d]
    BY <1>7, AnswerStates
  <2>2. /\ UNCHANGED <<active, sends, delivered, gaveUp>>
        /\ DOMAIN sends[e] = {}
    BY <1>7 DEF Answer, traffic, SendsOver
  <2>3. Tried(e)
    BY <1>1, <2>1 DEF EventInv, StageInv
  <2>4. Tried(e)' /\ SendsInv(e)'
    BY <2>1, <2>2, <2>3 DEF Tried, SendsInv
  <2>5. StageInv(e)'
    BY <2>1, <2>4 DEF StageInv
  <2>6. FormsOf(e)'
    BY <1>1, <2>1, <2>2 DEF EventInv, FormsOf, Reached
  <2> QED
    BY <1>2, <2>1, <2>2, <2>4, <2>5, <2>6 DEF EventInv
<1> QED
  BY <1>4, <1>5, <1>6, <1>7

(* A put that is carried out delivers the form the send has. *)
LEMMA TakesIs ==
    ASSUME StatesOK, NEW e \in Posted, NEW f \in Firehoses, Takes(e, f),
           sends[e][f].form \in Forms
    PROVE  /\ \A g \in Firehoses \ {f} : delivered'[g] = delivered[g]
           /\ delivered'[f] = delivered[f] \union {<<e, sends[e][f].form>>}
BY DEF StatesOK, Takes

LEMMA EventSend ==
    ASSUME StatesOK, EventsInv, NEW e \in Posted, NEW f \in Firehoses, Send(e, f)
    PROVE  EventsInv'
<1>1. EventInv(e) /\ active \subseteq Outlets
  BY DEF EventsInv, StatesOK
<1>2. /\ Posted' = Posted /\ f \in DOMAIN sends[e]
      /\ UNCHANGED <<active, request>>
      /\ gaveUp \subseteq gaveUp'
      /\ UNCHANGED delivered \/ (sends[e][f].pc = "put" /\ Takes(e, f))
      /\ \A d \in Posted : d # e => sends'[d] = sends[d]
      /\ SendGoesOn(e, f) \/ SendIsOver(e, f)
  BY <1>1, SendIs DEF EventInv
<1>3. /\ request[e].stage \in {"debug", "main"}
      /\ \A g \in DOMAIN sends[e] : sends[e][g].pc = "put" => sends[e][g].form = request[e].form
      /\ DOMAIN sends[e] \subseteq active \X {request[e].stage}
  BY <1>1, <1>2 DEF EventInv, SendsInv
<1>4. request[e].form \in Forms
  BY <1>3, RequestFields DEF Sent
<1>5. PICK o \in active : f = <<o, request[e].stage>>
  BY <1>2, <1>3
<1>6. /\ \A g \in Firehoses \ {f} : delivered'[g] = delivered[g]
      /\ \/ delivered'[f] = delivered[f]
         \/ delivered'[f] = delivered[f] \union {<<e, request[e].form>>}
  BY <1>2, <1>3, <1>4, TakesIs
<1>7. sends[e][f].pc = "put" /\ Takes(e, f) => <<e, request[e].form>> \in delivered'[f]
  BY <1>3, <1>2, <1>4, TakesIs
<1>8. \A d \in Posted : d # e => EventInv(d)'
  BY <1>1, <1>2, <1>6, EventRests DEF EventsInv
<1>9. SendsInv(e)'
  BY <1>2, <1>3 DEF SendsInv, SendGoesOn, SendIsOver
<1>10. \A p \in Outlets, stage \in {"debug", "main"}, form \in Forms :
          /\ <<e, form>> \in delivered[<<p, stage>>] => <<e, form>> \in delivered'[<<p, stage>>]
          /\ <<e, form>> \in delivered'[<<p, stage>>] =>
               \/ <<e, form>> \in delivered[<<p, stage>>]
               \/ stage = request[e].stage /\ form = request[e].form
  <2>1. ASSUME NEW p \in Outlets, NEW stage \in {"debug", "main"}
        PROVE  <<p, stage>> \in Firehoses
    BY DEF Firehoses
  <2>2. ASSUME NEW p \in Outlets, NEW stage \in {"debug", "main"}, NEW form \in Forms
        PROVE  /\ <<e, form>> \in delivered[<<p, stage>>] =>
                    <<e, form>> \in delivered'[<<p, stage>>]
               /\ <<e, form>> \in delivered'[<<p, stage>>] =>
                    \/ <<e, form>> \in delivered[<<p, stage>>]
                    \/ stage = request[e].stage /\ form = request[e].form
    <3>1. CASE <<p, stage>> = f
      <4>1. stage = request[e].stage
        BY <1>5, <3>1
      <4> QED
        BY <1>6, <3>1, <4>1
    <3>2. CASE <<p, stage>> # f
      BY <1>6, <2>1, <3>2
    <3> QED
      BY <3>1, <3>2
  <2> QED
    BY <2>2
<1>11. CASE request[e].stage = "debug"
  <2>1. /\ ~Reached(e, "main") /\ request[e].hide /\ request[e].form = "clear"
    BY <1>1, <1>11 DEF EventInv, StageInv
  <2>2. ~Reached(e, "main")'
    BY <1>10, <1>11, <2>1 DEF Reached
  <2>3. StageInv(e)'
    BY <1>2, <1>11, <2>1, <2>2 DEF StageInv
  <2>4. FormsOf(e)'
    BY <1>1, <1>10, <2>1, <2>2 DEF EventInv, FormsOf, Reached, Forms
  <2> QED
    BY <1>2, <1>8, <1>9, <2>3, <2>4 DEF EventsInv, EventInv
<1>12. CASE request[e].stage = "main"
  <2>1. /\ request[e].form = IF request[e].hide THEN "hidden" ELSE "clear"
        /\ ~request[e].hide => ~request[e].kind.blocked /\ ~Reached(e, "debug")
        /\ Tried(e)
    BY <1>1, <1>12 DEF EventInv, StageInv
  <2>2. ~Reached(e, "debug") => ~Reached(e, "debug")'
    BY <1>10, <1>12 DEF Reached
  <2>3. ASSUME NEW p \in active
        PROVE  \/ <<p, "main">> \in DOMAIN sends'[e]
               \/ <<e, <<p, "main">>>> \in gaveUp'
               \/ \E form \in Forms : <<e, form>> \in delivered'[<<p, "main">>]
    <3>1. CASE <<p, "main">> = f
      <4>1. CASE SendGoesOn(e, f)
        BY <1>2, <3>1, <4>1 DEF SendGoesOn
      <4>2. CASE SendIsOver(e, f)
        BY <1>4, <1>7, <3>1, <4>2 DEF SendIsOver
      <4> QED
        BY <1>2, <4>1, <4>2
    <3>2. CASE <<p, "main">> # f
      <4>1. CASE <<p, "main">> \in DOMAIN sends[e]
        BY <1>2, <3>2, <4>1 DEF SendGoesOn, SendIsOver
      <4>2. CASE <<e, <<p, "main">>>> \in gaveUp
        BY <1>2, <4>2
      <4>3. CASE \E form \in Forms : <<e, form>> \in delivered[<<p, "main">>]
        BY <1>1, <1>10, <4>3
      <4> QED
        BY <2>1, <4>1, <4>2, <4>3 DEF Tried
    <3> QED
      BY <3>1, <3>2
  <2>4. Tried(e)'
    BY <1>2, <2>3 DEF Tried
  <2>5. StageInv(e)'
    BY <1>2, <1>12, <2>1, <2>2, <2>4 DEF StageInv
  <2>6. FormsOf(e)'
    <3>1. \A p \in Outlets : <<e, "hidden">> \notin delivered'[<<p, "debug">>]
      BY <1>1, <1>10, <1>12 DEF EventInv, FormsOf, Forms
    <3>2. ASSUME NEW p \in Outlets, <<e, "clear">> \in delivered'[<<p, "main">>]
          PROVE  ~request[e].kind.blocked /\ ~request[e].hide /\ ~Reached(e, "debug")
      <4>1. \/ <<e, "clear">> \in delivered[<<p, "main">>]
            \/ request[e].form = "clear"
        BY <1>10, <3>2 DEF Forms
      <4> QED
        BY <1>1, <2>1, <4>1 DEF EventInv, FormsOf
    <3> QED
      BY <1>2, <2>2, <3>1, <3>2 DEF FormsOf
  <2> QED
    BY <1>2, <1>8, <1>9, <2>5, <2>6 DEF EventsInv, EventInv
<1> QED
  BY <1>3, <1>11, <1>12

LEMMA EventLost ==
    ASSUME StatesOK, EventsInv, NEW workers, Lose(workers),
           UNCHANGED <<active, debug, delivered, gaveUp>>
    PROVE  EventsInv'
<1>1. /\ Posted' = Posted
      /\ \A e \in Posted :
           LET lost == InFlight(e) /\ request[e].worker \in workers
           IN  /\ lost => /\ request'[e] = [request[e] EXCEPT !.stage = "lost"]
                          /\ DOMAIN sends'[e] = {}
               /\ ~lost => request'[e] = request[e] /\ sends'[e] = sends[e]
  BY LoseMoves
<1>2. ASSUME NEW e \in Posted PROVE EventInv(e)'
  <2>1. EventInv(e) /\ active \subseteq Outlets
    BY DEF EventsInv, StatesOK
  <2>2. CASE ~(InFlight(e) /\ request[e].worker \in workers)
    BY <1>1, <2>1, <2>2, EventRests
  <2>3. CASE InFlight(e) /\ request[e].worker \in workers
    <3>1. DOMAIN sends'[e] = {} /\ request'[e] = [request[e] EXCEPT !.stage = "lost"]
      BY <1>1, <2>3
    <3>2. /\ request'[e].stage = "lost" /\ request'[e].kind = request[e].kind
          /\ request[e].stage \in {"debug", "main"} => request'[e].hide = request[e].hide
      BY <2>3, <3>1, RequestMoves
    <3>3. SendsInv(e)' /\ StageInv(e)'
      BY <3>1, <3>2 DEF SendsInv, StageInv
    <3>4. FormsOf(e)'
      <4>1. CASE request[e].stage \in {"debug", "main"}
        BY <2>1, <3>2, <4>1 DEF EventInv, FormsOf, Reached
      <4>2. CASE request[e].stage = "received"
        BY <2>1, <4>2 DEF EventInv, StageInv, FormsOf, Reached, Forms
      <4> QED
        BY <2>3, <4>1, <4>2 DEF InFlight
    <3> QED
      BY <3>3, <3>4 DEF EventInv
  <2> QED
    BY <2>2, <2>3
<1> QED
  BY <1>1, <1>2 DEF EventsInv

(* A load that finds a torn file ends the request it was for. *)
LEMMA EventLoad ==
    ASSUME StatesOK, ListInv, EventsInv, NEW p \in Processes, Load(p)
    PROVE  EventsInv'
<1>1. UNCHANGED <<active, sends, delivered, gaveUp>>
  BY DEF Load, ReadFile, Fetch, OpenFile, WriteFile, traffic
<1>2. active \subseteq Outlets
  BY DEF StatesOK
<1>3. CASE UNCHANGED request
  <2>1. Posted' = Posted
    BY <1>3 DEF Posted
  <2> QED
    BY <1>1, <1>2, <1>3, <2>1, EventRests DEF EventsInv
<1>4. CASE ReadFile(p) /\ file = Torn
  <2>1. loader[p].pc = "read" /\ p \in Workers
    BY <1>4 DEF ReadFile, ListInv, ReadInv, Processes
  <2>2. PICK e \in Posted : e = loader[p].for
    BY <2>1 DEF ListInv, ReadInv
  <2>3. request[e].stage = "received"
    BY <2>1, <2>2 DEF ListInv, ReadInv
  <2>4. PICK r : r = [request[e] EXCEPT !.stage = "rejected"]
    OBVIOUS
  <2>5. request' = [request EXCEPT ![e] = r]
    BY <1>4, <2>2, <2>4, LegacyBounds DEF ReadFile
  <2>6. r \in Taken /\ r.stage = "rejected" /\ r.kind = request[e].kind
    BY <2>3, <2>4, RequestMoves
  <2>7. /\ Posted' = Posted /\ request'[e] = r
        /\ \A d \in Posted : d # e => request'[d] = request[d]
    BY <2>5, <2>6, RequestSet
  <2>8. EventInv(e)
    BY DEF EventsInv
  <2>9. ~Reached(e, "debug") /\ ~Reached(e, "main")
    BY <2>3, <2>8 DEF EventInv, StageInv
  <2>10. EventInv(e)'
    <3>1. SendsInv(e)'
      BY <1>1, <2>3, <2>6, <2>7, <2>8 DEF EventInv, SendsInv
    <3>2. StageInv(e)'
      BY <1>1, <2>6, <2>7, <2>9 DEF StageInv, Reached
    <3>3. FormsOf(e)'
      BY <1>1, <2>9 DEF FormsOf, Reached, Forms
    <3> QED
      BY <3>1, <3>2, <3>3 DEF EventInv
  <2>11. \A d \in Posted : d # e => EventInv(d)'
    BY <1>1, <1>2, <2>7, EventRests DEF EventsInv
  <2> QED
    BY <2>7, <2>10, <2>11 DEF EventsInv
<1> QED
  BY <1>3, <1>4, LegacyBounds DEF Load, ReadFile, Fetch, OpenFile, WriteFile, StatesOK

-----------------------------------------------------------------------------
(* The invariant holds in every state *)

LEMMA LegacyInit == Init => LegacyInv
<1> SUFFICES ASSUME Init PROVE LegacyInv
  OBVIOUS
<1>1. PICK s \in Situations :
         /\ active = s.active /\ debug = s.debug
         /\ request = [e \in DOMAIN s.kind |-> [stage |-> "unsent", kind |-> s.kind[e]]]
  BY DEF Init
<1>2. /\ active \subseteq Outlets /\ debug \in BOOLEAN
      /\ DOMAIN s.kind \subseteq Events /\ \A e \in DOMAIN s.kind : s.kind[e] \in Kinds
  BY <1>1, LegacyBounds
<1>3. Posted = DOMAIN s.kind
  BY <1>1 DEF Posted
<1>4. request \in [Posted -> Unsent] /\ \A e \in Posted : request[e].stage = "unsent"
  BY <1>1, <1>2, <1>3 DEF Unsent
<1>5. << >> \in SendMaps /\ DOMAIN << >> = {}
  <2>1. << >> \in [{} -> SendStates]
    OBVIOUS
  <2> QED
    BY <2>1 DEF SendMaps
<1>6. sends \in [Posted -> SendMaps] /\ \A e \in Posted : DOMAIN sends[e] = {}
  BY <1>5 DEF Init
<1>7. /\ loader \in [Processes -> LoaderStates]
      /\ loader[Initializer].pc = "fetch"
      /\ \A w \in Workers : loader[w] = Idle
  <2>1. Idle \in LoaderStates /\ [pc |-> "fetch"] \in LoaderStates
    BY DEF LoaderStates
  <2> QED
    BY <2>1, LegacyBounds DEF Init, Processes
<1>8. budget \in [changes : 0..MaxChanges, deaths : 0..MaxDeaths]
  BY LegacyBounds DEF Init
<1>9. delivered \in [Firehoses -> SUBSET (Events \X Forms)]
      /\ \A f \in Firehoses : delivered[f] = {}
  BY DEF Init
<1>10. StatesOK
  <2>1. request \in [Posted -> Unsent \union Taken \union Sent]
    BY <1>4
  <2> QED
    BY <1>2, <1>3, <1>6, <1>7, <1>8, <1>9, <2>1 DEF Init, StatesOK
<1>11. ListInv
  <2>1. initial = None /\ \A w \in Workers : memory[w] = None
    BY DEF Init
  <2>2. \A e \in Posted : ~InFlight(e)
    BY <1>4 DEF InFlight
  <2>3. NotServingInv
    BY <1>7, <2>1, <2>2 DEF NotServingInv
  <2>4. ReadInv
    BY <1>7 DEF ReadInv, Idle
  <2> QED
    BY <2>1, <2>3, <2>4 DEF ListInv, GovernInv
<1>12. EventsInv
  <2> SUFFICES ASSUME NEW e \in Posted PROVE EventInv(e)
    BY DEF EventsInv
  <2>1. \A o \in Outlets, stage \in {"debug", "main"} : delivered[<<o, stage>>] = {}
    BY <1>9 DEF Firehoses
  <2>2. ~Reached(e, "debug") /\ ~Reached(e, "main") /\ FormsOf(e)
    BY <2>1 DEF Reached, FormsOf
  <2>3. SendsInv(e) /\ StageInv(e)
    BY <1>4, <1>6, <2>2 DEF SendsInv, StageInv
  <2> QED
    BY <2>2, <2>3 DEF EventInv
<1> QED
  BY <1>10, <1>11, <1>12 DEF LegacyInv

LEMMA LegacyStep == LegacyInv /\ [Next]_vars => LegacyInv'
<1> SUFFICES ASSUME LegacyInv, [Next]_vars PROVE LegacyInv'
  OBVIOUS
<1>1. StatesOK /\ ListInv /\ ReadInv /\ EventsInv
  BY DEF LegacyInv, ListInv
<1>2. ASSUME NEW p \in Processes, Load(p) PROVE LegacyInv'
  BY <1>1, <1>2, LoadStates, ListLoad, EventLoad DEF LegacyInv
<1>3. ASSUME NEW e \in Posted, Serve(e) PROVE LegacyInv'
  <2>1. ListInv'
    BY <1>1, <1>3, ListServe
  <2>2. CASE Handle(e) \/ Overwrite(e) \/ Answer(e)
    BY <1>1, <2>1, <2>2, HandleStates, OverwriteStates, AnswerStates, EventServe DEF LegacyInv
  <2>3. ASSUME NEW f \in Firehoses, Send(e, f) PROVE LegacyInv'
    <3>1. SendsInv(e)
      BY <1>1 DEF EventsInv, EventInv
    <3> QED
      BY <1>1, <2>1, <2>3, <3>1, SendIs, EventSend DEF LegacyInv
  <2> QED
    BY <1>3, <2>2, <2>3 DEF Serve
<1>4. ASSUME NEW e \in Posted, NEW w \in Workers, Accept(e, w) PROVE LegacyInv'
  BY <1>1, <1>4, AcceptStates, ListServe, EventServe DEF LegacyInv
<1>5. CASE TableChanges
  <2>1. /\ UNCHANGED <<active, request, sends, delivered, gaveUp>>
        /\ Posted' = Posted /\ active \subseteq Outlets
    BY <1>1, <1>5 DEF TableChanges, traffic, Posted, StatesOK
  <2>2. EventsInv'
    BY <1>1, <2>1, EventRests DEF EventsInv
  <2> QED
    BY <1>1, <1>5, <2>2, SurroundingsStates, ListSurroundings DEF LegacyInv
<1>6. ASSUME NEW w \in Workers, WorkerDies(w) PROVE LegacyInv'
  <2>1. EventsInv'
    BY <1>1, <1>6, EventLost DEF WorkerDies
  <2> QED
    BY <1>1, <1>6, <2>1, SurroundingsStates, ListSurroundings DEF LegacyInv
<1>7. CASE ContainerRestarts
  <2>1. EventsInv'
    BY <1>1, <1>7, EventLost DEF ContainerRestarts
  <2> QED
    BY <1>1, <1>7, <2>1, SurroundingsStates, ListSurroundings DEF LegacyInv
<1>8. CASE UNCHANGED vars
  <2>1. /\ UNCHANGED <<active, debug, cache, request, traffic>>
        /\ Posted' = Posted /\ active \subseteq Outlets
    BY <1>1, <1>8 DEF vars, Posted, StatesOK
  <2>2. EventsInv'
    BY <1>1, <2>1, EventRests DEF EventsInv, traffic
  <2>3. ListInv'
    BY <1>1, <2>1 DEF ListInv, NotServingInv, ReadInv, GovernInv, Serving, InFlight, cache
  <2>4. StatesOK'
    BY <1>1, <2>1 DEF StatesOK, cache, traffic
  <2> QED
    BY <2>2, <2>3, <2>4 DEF LegacyInv
<1> QED
  BY <1>2, <1>3, <1>4, <1>5, <1>6, <1>7, <1>8 DEF Next

LEMMA LegacyInvariant == Spec => []LegacyInv
  BY LegacyInit, LegacyStep, PTL DEF Spec

-----------------------------------------------------------------------------
(* What follows *)

(* Every variable keeps its type, whatever the settings and the events.     *)
THEOREM TypeCorrect == Spec => []TypeOK
<1>1. LegacyInv => TypeOK
  <2> SUFFICES ASSUME LegacyInv PROVE TypeOK
    OBVIOUS
  <2>1. StatesOK /\ ReadInv
    BY DEF LegacyInv, ListInv
  <2>2. \A p \in Processes :
          /\ loader[p].pc \in {"idle", "read", "fetch", "open", "write"}
          /\ loader[p].pc = "read" => p \in Workers /\ loader[p].for \in Posted
          /\ loader[p].pc \in {"open", "write"} => loader[p].list \in Lists \ {{}}
    BY <2>1, LoaderFields DEF ReadInv, Processes
  <2>3. \A e \in Posted : request[e].stage \in Stages /\ request[e].kind \in Kinds
    BY <2>1, RequestFields
  <2>4. \A e \in Posted : DOMAIN sends[e] \subseteq Firehoses
    BY <2>1, SendFields
  <2> QED
    BY <2>1, <2>2, <2>3, <2>4 DEF StatesOK, TypeOK
<1> QED
  BY <1>1, LegacyInvariant, PTL

(* store_data_in_channel_ids_cache of the entrypoint settles it for the     *)
(* container's life: once it has written the file, no worker ever decides   *)
(* by another list, because none asks RDS again while the file can be read. *)
THEOREM StartupListGovernsTheorem == Spec => []StartupListGoverns
<1>1. LegacyInv => StartupListGoverns
  BY DEF LegacyInv, ListInv, GovernInv, StartupListGoverns
<1> QED
  BY <1>1, LegacyInvariant, PTL

(* utils.py overwrites the dict between the debug and the main firehoses:   *)
(* however the threads and the workers interleave, fail and retry, no       *)
(* firehose gets the form meant for the other.                              *)
THEOREM FormsAreKeptTheorem == Spec => []FormsAreKept
<1>1. LegacyInv => FormsAreKept
  <2> SUFFICES ASSUME LegacyInv, NEW e \in Posted, NEW o \in Outlets
               PROVE  /\ <<e, "hidden">> \notin delivered[<<o, "debug">>]
                      /\ <<e, "clear">> \in delivered[<<o, "main">>] =>
                           /\ ~request[e].kind.blocked /\ ~request[e].hide
                           /\ delivered[<<o, "debug">>] \intersect ({e} \X Forms) = {}
    BY DEF FormsAreKept
  <2>1. FormsOf(e)
    BY DEF LegacyInv, EventsInv, EventInv
  <2>2. ~Reached(e, "debug") => delivered[<<o, "debug">>] \intersect ({e} \X Forms) = {}
    BY DEF Reached
  <2> QED
    BY <2>1, <2>2 DEF FormsOf
<1> QED
  BY <1>1, LegacyInvariant, PTL

(* The handler answers OK when all its sends are over: each main firehose   *)
(* that is on has the event or its own send gave up, however many puts      *)
(* were retried at the others.                                              *)
THEOREM OkMeansTriedEverywhereTheorem == Spec => []OkMeansTriedEverywhere
<1>1. LegacyInv => OkMeansTriedEverywhere
  <2> SUFFICES ASSUME LegacyInv, NEW e \in Posted, NEW o \in active, request[e].stage = "ok"
               PROVE  \/ <<e, <<o, "main">>>> \in gaveUp
                      \/ \E form \in Forms : <<e, form>> \in delivered[<<o, "main">>]
    BY DEF OkMeansTriedEverywhere
  <2>1. SendsInv(e) /\ StageInv(e)
    BY DEF LegacyInv, EventsInv, EventInv
  <2>2. Tried(e) /\ DOMAIN sends[e] = {}
    BY <2>1 DEF SendsInv, StageInv
  <2> QED
    BY <2>2 DEF Tried
<1> QED
  BY <1>1, LegacyInvariant, PTL

-----------------------------------------------------------------------------
(* EventPayload: the checks of a payload *)

(* A check answers one of three outcomes. *)
Outcomes == {"passes", "refuses", "raises"}

(* Every set of positions has a first one. *)
LEMMA FirstPosition ==
    ASSUME NEW T \in SUBSET Nat, T # {}
    PROVE  \E m \in T : \A n \in T : m <= n
<1> DEFINE Less == {pair \in Nat \X Nat : pair[1] < pair[2]}
<1>1. IsWellFoundedOn(Less, Nat)
  BY NatLessThanWellFounded DEF OpToRel
<1> HIDE DEF Less
<1>2. PICK m \in T : \A n \in T : ~(<<n, m>> \in Less)
  BY <1>1, WFMin
<1>3. ASSUME NEW n \in T PROVE m <= n
  <2>1. n \in Nat /\ m \in Nat /\ (n < m => <<n, m>> \in Less)
    BY DEF Less
  <2> QED BY <1>2, <2>1
<1> QED BY <1>3

(* FirstOf passes if every check does, and else answers what one of them    *)
(* did that does not pass.                                                  *)
LEMMA FirstOutcome ==
    ASSUME NEW outcomes \in Seq(Outcomes)
    PROVE  /\ FirstOf(outcomes) \in Outcomes
           /\ FirstOf(outcomes) = "passes" <=>
                \A i \in 1..Len(outcomes) : outcomes[i] = "passes"
<1>1. CASE \A i \in 1..Len(outcomes) : outcomes[i] = "passes"
  BY <1>1 DEF FirstOf, Outcomes
<1>2. CASE \E i \in 1..Len(outcomes) : outcomes[i] # "passes"
  <2> DEFINE stops == {i \in 1..Len(outcomes) : outcomes[i] # "passes"}
  <2>1. stops \in SUBSET Nat /\ stops # {}
    BY <1>2
  <2>2. PICK first \in stops : \A n \in stops : first <= n
    BY <2>1, FirstPosition
  <2>3. Min(stops) \in stops
    BY <2>2 DEF Min
  <2>4. FirstOf(outcomes) = outcomes[Min(stops)]
    BY <1>2, <2>1 DEF FirstOf, SelectInSeq
  <2> QED
    BY <1>2, <2>3, <2>4
<1> QED
  BY <1>1, <1>2

LEMMA ChecksAnswer ==
    ASSUME NEW v, NEW name, NEW params, NEW condition
    PROVE  /\ Requires(condition) \in Outcomes
           /\ NeedsObject(v) \in Outcomes
           /\ TimestampCheck(v) \in Outcomes
           /\ VerifyRequiredParams(v, params) \in Outcomes
           /\ VerifyIn(v, name, params) \in Outcomes
<1>1. \A c : Requires(c) \in Outcomes
  BY DEF Requires, Outcomes
<1>2. \A w : NeedsObject(w) \in Outcomes
  BY DEF NeedsObject, Outcomes
<1>3. TimestampCheck(v) \in Outcomes
  BY <1>1 DEF TimestampCheck
<1>4. \A w : VerifyRequiredParams(w, params) \in Outcomes
  <2> TAKE w
  <2> DEFINE checked == IF Has(w, "TvEvent") THEN Get(w, "TvEvent") ELSE w
             both == <<NeedsObject(checked), Requires(params \subseteq Names(checked))>>
  <2>1. both \in Seq(Outcomes)
    BY <1>1, <1>2
  <2>2. FirstOf(both) \in Outcomes
    BY <2>1, FirstOutcome
  <2> QED
    BY <2>2 DEF VerifyRequiredParams
<1>5. VerifyIn(v, name, params) \in Outcomes
  BY <1>4 DEF VerifyIn, Outcomes
<1> QED
  BY <1>1, <1>2, <1>3, <1>4, <1>5

(* Checks one after the other pass if each does. *)
LEMMA TwoPass ==
    ASSUME NEW a \in Outcomes, NEW b \in Outcomes
    PROVE  /\ FirstOf(<<a, b>>) \in Outcomes
           /\ FirstOf(<<a, b>>) = "passes" <=> a = "passes" /\ b = "passes"
<1>1. <<a, b>> \in Seq(Outcomes)
  OBVIOUS
<1>2. (\A i \in 1..Len(<<a, b>>) : <<a, b>>[i] = "passes") <=> a = "passes" /\ b = "passes"
  OBVIOUS
<1> QED
  BY <1>1, <1>2, FirstOutcome

LEMMA ThreePass ==
    ASSUME NEW a \in Outcomes, NEW b \in Outcomes, NEW c \in Outcomes
    PROVE  /\ FirstOf(<<a, b, c>>) \in Outcomes
           /\ FirstOf(<<a, b, c>>) = "passes" <=> a = "passes" /\ b = "passes" /\ c = "passes"
<1>1. <<a, b, c>> \in Seq(Outcomes)
  OBVIOUS
<1>2. (\A i \in 1..Len(<<a, b, c>>) : <<a, b, c>>[i] = "passes")
        <=> a = "passes" /\ b = "passes" /\ c = "passes"
  OBVIOUS
<1> QED
  BY <1>1, <1>2, FirstOutcome

LEMMA SixPass ==
    ASSUME NEW a \in Outcomes, NEW b \in Outcomes, NEW c \in Outcomes, NEW d \in Outcomes,
           NEW e \in Outcomes, NEW f \in Outcomes
    PROVE  /\ FirstOf(<<a, b, c, d, e, f>>) \in Outcomes
           /\ FirstOf(<<a, b, c, d, e, f>>) = "passes"
                <=> /\ a = "passes" /\ b = "passes" /\ c = "passes" /\ d = "passes"
                    /\ e = "passes" /\ f = "passes"
<1>1. <<a, b, c, d, e, f>> \in Seq(Outcomes)
  OBVIOUS
<1>2. (\A i \in 1..Len(<<a, b, c, d, e, f>>) : <<a, b, c, d, e, f>>[i] = "passes")
        <=> /\ a = "passes" /\ b = "passes" /\ c = "passes" /\ d = "passes"
            /\ e = "passes" /\ f = "passes"
  OBVIOUS
<1> QED
  BY <1>1, <1>2, FirstOutcome

(* When the checks of one type, and those of a request, pass. *)
LEMMA NativeAppPasses ==
    ASSUME NEW data
    PROVE  /\ ValidateNativeApp(data) \in Outcomes
           /\ ValidateNativeApp(data) = "passes" <=>
                /\ IsObject(data)
                /\ Get(data, "Timestamp") \notin Falsy
                     => TimestampCheck(Get(data, "Timestamp")) = "passes"
<1> DEFINE time == IF Get(data, "Timestamp") \in Falsy THEN "passes"
                   ELSE TimestampCheck(Get(data, "Timestamp"))
<1>1. NeedsObject(data) \in Outcomes /\ (NeedsObject(data) = "passes" <=> IsObject(data))
  BY DEF NeedsObject, Outcomes
<1>2. time \in Outcomes
  BY ChecksAnswer DEF Outcomes
<1>3. ValidateNativeApp(data) = FirstOf(<<NeedsObject(data), time>>)
  BY DEF ValidateNativeApp
<1> HIDE DEF time
<1>4. /\ FirstOf(<<NeedsObject(data), time>>) \in Outcomes
      /\ FirstOf(<<NeedsObject(data), time>>) = "passes"
           <=> NeedsObject(data) = "passes" /\ time = "passes"
  BY <1>1, <1>2, TwoPass
<1> QED
  BY <1>1, <1>3, <1>4 DEF time

LEMMA AcrTunerPasses ==
    ASSUME NEW data, NEW params,
           params = IF Has(data, "Heartbeat") THEN Get(data, "Heartbeat") ELSE data
    PROVE  /\ ValidateAcrTuner(data) \in Outcomes
           /\ ValidateAcrTuner(data) = "passes" <=>
                /\ IsObject(data) /\ IsObject(params) /\ HasAny(params, TunerData)
                /\ Has(data, "Heartbeat") => ~HasAny(data, TunerData)
                /\ VerifyIn(params, "channelData", {"majorId", "minorId"}) = "passes"
                /\ VerifyIn(params, "resolution", {"vRes", "hRes"}) = "passes"
<1> DEFINE a == NeedsObject(data)
           b == Requires(Has(data, "Heartbeat") => ~HasAny(data, TunerData))
           c == NeedsObject(params)
           d == Requires(HasAny(params, TunerData))
           e == VerifyIn(params, "channelData", {"majorId", "minorId"})
           f == VerifyIn(params, "resolution", {"vRes", "hRes"})
<1>1. /\ a \in Outcomes /\ b \in Outcomes /\ c \in Outcomes /\ d \in Outcomes
      /\ e \in Outcomes /\ f \in Outcomes
  BY ChecksAnswer
<1>2. /\ a = "passes" <=> IsObject(data)
      /\ b = "passes" <=> (Has(data, "Heartbeat") => ~HasAny(data, TunerData))
      /\ c = "passes" <=> IsObject(params)
      /\ d = "passes" <=> HasAny(params, TunerData)
  BY DEF NeedsObject, Requires
<1>3. ValidateAcrTuner(data) = FirstOf(<<a, b, c, d, e, f>>)
  BY DEF ValidateAcrTuner
<1> HIDE DEF a, b, c, d, e, f
<1>4. /\ FirstOf(<<a, b, c, d, e, f>>) \in Outcomes
      /\ FirstOf(<<a, b, c, d, e, f>>) = "passes"
           <=> /\ a = "passes" /\ b = "passes" /\ c = "passes" /\ d = "passes"
               /\ e = "passes" /\ f = "passes"
  BY <1>1, SixPass
<1>5. ValidateAcrTuner(data) = "passes"
        <=> /\ a = "passes" /\ b = "passes" /\ c = "passes" /\ d = "passes"
            /\ e = "passes" /\ f = "passes"
  BY <1>3, <1>4
<1>6. ValidateAcrTuner(data) \in Outcomes
  BY <1>3, <1>4
<1> QED
  BY <1>2, <1>5, <1>6 DEF e, f

LEMMA PlatformAnswers ==
    ASSUME NEW data
    PROVE  ValidatePlatform(data) \in Outcomes
<1> DEFINE panel == Get(data, "PanelData")
           a == NeedsObject(data)
           b == Requires(IsObject(panel) /\ PanelDataFits(panel))
           c == TimestampCheck(Get(panel, "Timestamp"))
<1>1. a \in Outcomes /\ b \in Outcomes /\ c \in Outcomes
  BY ChecksAnswer
<1>2. ValidatePlatform(data) = FirstOf(<<a, b, c>>)
  BY DEF ValidatePlatform
<1> HIDE DEF a, b, c
<1> QED
  BY <1>1, <1>2, ThreePass

(* What the type of an event checks. *)
TypeCheck(payload) ==
    LET type == EventTypeOf(payload)
        data == EventData(payload)
    IN  CASE type = "NATIVEAPP_TELEMETRY" -> ValidateNativeApp(data)
          [] type = "ACR_TUNER_DATA" -> ValidateAcrTuner(data)
          [] type = "PLATFORM_TELEMETRY" -> ValidatePlatform(data)
          [] OTHER -> "passes"

LEMMA TypeChecks ==
    ASSUME NEW payload
    PROVE  TypeCheck(payload) \in Outcomes
<1> DEFINE type == EventTypeOf(payload)
           data == EventData(payload)
<1>1. /\ ValidateNativeApp(data) \in Outcomes /\ ValidateAcrTuner(data) \in Outcomes
      /\ ValidatePlatform(data) \in Outcomes /\ "passes" \in Outcomes
  BY NativeAppPasses, AcrTunerPasses, PlatformAnswers DEF Outcomes
<1>2. CASE type = "NATIVEAPP_TELEMETRY"
  BY <1>1, <1>2 DEF TypeCheck
<1>3. CASE type = "ACR_TUNER_DATA"
  BY <1>1, <1>3 DEF TypeCheck
<1>4. CASE type = "PLATFORM_TELEMETRY"
  BY <1>1, <1>4 DEF TypeCheck
<1>5. CASE type \notin {"NATIVEAPP_TELEMETRY", "ACR_TUNER_DATA", "PLATFORM_TELEMETRY"}
  BY <1>1, <1>5 DEF TypeCheck
<1> QED
  BY <1>2, <1>3, <1>4, <1>5

LEMMA RequestPasses ==
    ASSUME NEW payload, NEW hashMatches
    PROVE  /\ ValidateRequest(payload, hashMatches) \in Outcomes
           /\ ValidateRequest(payload, hashMatches) = "passes" <=>
                /\ VerifyRequiredParams(payload, RequiredParams) = "passes"
                /\ Has(payload, "TvEvent")
                /\ TimestampCheck(Get(Get(payload, "TvEvent"), "timestamp")) = "passes"
                /\ hashMatches /\ Hashable(payload)
                /\ TypeCheck(payload) = "passes"
<1> DEFINE a == VerifyRequiredParams(payload, RequiredParams)
           b == IF Has(payload, "TvEvent") THEN "passes" ELSE "raises"
           c == TimestampCheck(Get(Get(payload, "TvEvent"), "timestamp"))
           d == Requires(hashMatches)
           e == IF Hashable(payload) THEN "passes" ELSE "raises"
           f == TypeCheck(payload)
<1>1. a \in Outcomes /\ c \in Outcomes /\ d \in Outcomes /\ f \in Outcomes
  BY ChecksAnswer, TypeChecks
<1>2. /\ b \in Outcomes /\ e \in Outcomes
      /\ b = "passes" <=> Has(payload, "TvEvent")
      /\ d = "passes" <=> hashMatches
      /\ e = "passes" <=> Hashable(payload)
  BY DEF Requires, Outcomes
<1>3. ValidateRequest(payload, hashMatches) = FirstOf(<<a, b, c, d, e, f>>)
  BY DEF ValidateRequest, TypeCheck
<1> HIDE DEF a, b, c, d, e, f
<1>4. /\ FirstOf(<<a, b, c, d, e, f>>) \in Outcomes
      /\ FirstOf(<<a, b, c, d, e, f>>) = "passes"
           <=> /\ a = "passes" /\ b = "passes" /\ c = "passes" /\ d = "passes"
               /\ e = "passes" /\ f = "passes"
  BY <1>1, <1>2, SixPass
<1> QED
  BY <1>2, <1>3, <1>4 DEF a, c, f

LEMMA GenerateAnswers ==
    ASSUME NEW payload
    PROVE  GenerateOutcome(payload) \in Outcomes
<1> DEFINE type == EventTypeOf(payload)
<1>1. \A v : TimestampCheck(v) \in Outcomes /\ NeedsObject(v) \in Outcomes
  BY ChecksAnswer
<1>2. "passes" \in Outcomes /\ "raises" \in Outcomes
  BY DEF Outcomes
<1>3. CASE type = "NATIVEAPP_TELEMETRY"
  BY <1>2, <1>3 DEF GenerateOutcome
<1>4. CASE type = "ACR_TUNER_DATA"
  BY <1>1, <1>2, <1>4 DEF GenerateOutcome
<1>5. CASE type = "PLATFORM_TELEMETRY"
  BY <1>2, <1>5 DEF GenerateOutcome
<1>6. CASE type \notin {"NATIVEAPP_TELEMETRY", "ACR_TUNER_DATA", "PLATFORM_TELEMETRY"}
  BY <1>1, <1>6 DEF GenerateOutcome
<1> QED
  BY <1>3, <1>4, <1>5, <1>6

-----------------------------------------------------------------------------
(* The rebuild and the service before it: what they accept *)

(* A payload the rebuild takes, which is not one of those it takes anew. *)
LEMMA TakenWasAccepted ==
    ASSUME NEW payload, NEW hashMatches,
           ValidateRequest(payload, hashMatches) = "passes",
           GenerateOutcome(payload) = "passes",
           ~TakesMore(payload)
    PROVE  LegacyAccepts(payload, hashMatches)
<1> DEFINE type == EventTypeOf(payload)
           data == EventData(payload)
           time == Get(Get(payload, "TvEvent"), "timestamp")
<1>1. /\ VerifyRequiredParams(payload, RequiredParams) = "passes" /\ Has(payload, "TvEvent")
      /\ TimestampCheck(time) = "passes" /\ hashMatches /\ TypeCheck(payload) = "passes"
      /\ Hashable(payload)
  BY RequestPasses
<1>2. Has(payload, "EventData") /\ Get(payload, "EventData") = data
  BY DEF TakesMore, EventData
<1>3. \A v : TimestampCheck(v) = "passes" /\ v.type # "string" => LegacyTimestampCheck(v)
  BY DEF TimestampCheck, Requires, LegacyTimestampCheck
<1>4. LegacyTimestampCheck(time)
  BY <1>1, <1>3 DEF TakesMore
<1>5. LegacyRequiredParams(payload) /\ LegacyTyped(payload)
  BY <1>1, <1>2 DEF LegacyRequiredParams, LegacyTyped, Passes
<1>6. CASE type = "NATIVEAPP_TELEMETRY"
  <2>1. Has(data, "Timestamp") /\ IsObject(data)
    BY <1>6 DEF GenerateOutcome, Has
  <2>2. /\ ~Has(data, "TvEvent") /\ Get(data, "Timestamp").type # "string"
        /\ Get(data, "Timestamp") # Object(<< >>)
    BY <1>6 DEF TakesMore
  <2>3. LegacyTimestampCheck(Get(data, "Timestamp"))
    <3>1. Get(data, "Timestamp") \notin Falsy
            => TimestampCheck(Get(data, "Timestamp")) = "passes"
      BY <1>1, <1>6, NativeAppPasses DEF TypeCheck
    <3>2. ASSUME Get(data, "Timestamp") \in Falsy
          PROVE  Get(data, "Timestamp") \in {Null, Bool("False")}
      <4>1. String("").type = "string"
        BY DEF String, Json
      <4>2. Get(data, "Timestamp") # String("")
        BY <2>2, <4>1
      <4> QED
        BY <2>2, <3>2, <4>2 DEF Falsy
    <3>3. LegacyTimestampCheck(Null) /\ LegacyTimestampCheck(Bool("False"))
      BY DEF LegacyTimestampCheck, Unset, Bool, Json
    <3> QED
      BY <1>3, <2>2, <3>1, <3>2, <3>3
  <2>4. VerifyRequiredParams(data, {"Timestamp"}) = "passes"
    <3>1. NeedsObject(data) = "passes" /\ Requires({"Timestamp"} \subseteq Names(data)) = "passes"
      BY <2>1 DEF NeedsObject, Requires, Has
    <3>2. /\ NeedsObject(data) \in Outcomes
          /\ Requires({"Timestamp"} \subseteq Names(data)) \in Outcomes
      BY <3>1 DEF Outcomes
    <3>3. FirstOf(<<NeedsObject(data), Requires({"Timestamp"} \subseteq Names(data))>>) = "passes"
      BY <3>1, <3>2, TwoPass
    <3> QED
      BY <2>2, <3>3 DEF VerifyRequiredParams
  <2>5. LegacyNativeApp(data)
    BY <2>1, <2>3, <2>4 DEF LegacyNativeApp, Passes
  <2> QED
    BY <1>1, <1>2, <1>4, <1>5, <1>6, <2>5 DEF LegacyAccepts, LegacyValidates, LegacyGenerates
<1>7. CASE type = "ACR_TUNER_DATA"
  <2> DEFINE params == IF Has(data, "Heartbeat") THEN Get(data, "Heartbeat") ELSE data
             start == Value(Flatten(data, {}), StartTime)
  <2>1. /\ IsObject(data) /\ HasAny(params, TunerData)
        /\ Has(data, "Heartbeat") => ~HasAny(data, TunerData)
        /\ VerifyIn(params, "channelData", {"majorId", "minorId"}) = "passes"
        /\ VerifyIn(params, "resolution", {"vRes", "hRes"}) = "passes"
    BY <1>1, <1>7, AcrTunerPasses DEF TypeCheck
  <2>2. LegacyAcrTuner(data)
    BY <2>1 DEF LegacyAcrTuner, LegacyVerifyIn, VerifyIn, Passes
  <2>3. start.type # "string"
    BY <1>7 DEF TakesMore
  <2>4. LegacyTimestampCheck(start)
    <3>1. CASE StartTime \in DOMAIN Flatten(data, {})
      BY <1>3, <1>7, <2>3, <3>1 DEF GenerateOutcome, Value
    <3>2. CASE StartTime \notin DOMAIN Flatten(data, {})
      BY <3>2 DEF Value, LegacyTimestampCheck, Unset
    <3> QED
      BY <3>1, <3>2
  <2> QED
    BY <1>1, <1>2, <1>4, <1>5, <1>7, <2>2, <2>4
    DEF LegacyAccepts, LegacyValidates, LegacyGenerates
<1>8. type # "PLATFORM_TELEMETRY"
  BY DEF TakesMore
<1>9. CASE type \notin {"NATIVEAPP_TELEMETRY", "ACR_TUNER_DATA", "PLATFORM_TELEMETRY"}
  <2>1. IsObject(data)
    BY <1>9 DEF GenerateOutcome, NeedsObject
  <2> QED
    BY <1>1, <1>2, <1>4, <1>5, <1>9, <2>1 DEF LegacyAccepts, LegacyValidates, LegacyGenerates
<1> QED
  BY <1>6, <1>7, <1>8, <1>9

(* A payload the service before took, which is not one of those the rebuild *)
(* takes no longer.                                                         *)
LEMMA AcceptedIsTaken ==
    ASSUME NEW payload, NEW hashMatches,
           LegacyAccepts(payload, hashMatches),
           ~TakesLess(payload)
    PROVE  /\ ValidateRequest(payload, hashMatches) = "passes"
           /\ GenerateOutcome(payload) = "passes"
<1> DEFINE type == EventTypeOf(payload)
           data == EventData(payload)
           time == Get(Get(payload, "TvEvent"), "timestamp")
<1>1. /\ LegacyRequiredParams(payload) /\ LegacyTimestampCheck(time) /\ hashMatches
      /\ Hashable(payload) /\ LegacyGenerates(payload)
  BY DEF LegacyAccepts, LegacyValidates
<1>2. VerifyRequiredParams(payload, RequiredParams) = "passes" /\ Has(payload, "TvEvent")
  BY <1>1 DEF LegacyRequiredParams, Passes
<1>3. \A v : LegacyTimestampCheck(v) /\ v \notin Unset => TimestampCheck(v) = "passes"
  BY DEF TimestampCheck, Requires, LegacyTimestampCheck
<1>4. TimestampCheck(time) = "passes"
  BY <1>1, <1>3 DEF TakesLess
<1>5. type # "PLATFORM_TELEMETRY"
  BY <1>1 DEF LegacyGenerates
<1>6. SUFFICES TypeCheck(payload) = "passes" /\ GenerateOutcome(payload) = "passes"
  BY <1>1, <1>2, <1>4, RequestPasses
<1>7. Has(payload, "EventData") => Get(payload, "EventData") = data
  BY DEF EventData
<1>8. CASE type = "NATIVEAPP_TELEMETRY"
  <2>1. LegacyTyped(payload) /\ LegacyNativeApp(Get(payload, "EventData"))
    BY <1>8 DEF LegacyAccepts, LegacyValidates
  <2>2. Has(data, "Timestamp") /\ LegacyTimestampCheck(Get(data, "Timestamp"))
    BY <1>7, <2>1 DEF LegacyTyped, LegacyNativeApp
  <2>3. ValidateNativeApp(data) = "passes"
    BY <1>3, <2>2, NativeAppPasses DEF Has, Unset, Falsy
  <2> QED
    BY <1>8, <2>2, <2>3 DEF TypeCheck, GenerateOutcome
<1>9. CASE type = "ACR_TUNER_DATA"
  <2> DEFINE params == IF Has(data, "Heartbeat") THEN Get(data, "Heartbeat") ELSE data
             start == Value(Flatten(data, {}), StartTime)
  <2>1. LegacyTyped(payload) /\ LegacyAcrTuner(Get(payload, "EventData"))
    BY <1>9 DEF LegacyAccepts, LegacyValidates
  <2>2. /\ IsObject(data) /\ HasAny(params, TunerData)
        /\ Has(data, "Heartbeat") => ~HasAny(data, TunerData)
        /\ LegacyVerifyIn(params, "channelData", {"majorId", "minorId"})
        /\ LegacyVerifyIn(params, "resolution", {"vRes", "hRes"})
    BY <1>7, <2>1 DEF LegacyTyped, LegacyAcrTuner
  <2>3. IsObject(params)
    BY <2>2 DEF HasAny
  <2>4. /\ VerifyIn(params, "channelData", {"majorId", "minorId"}) = "passes"
        /\ VerifyIn(params, "resolution", {"vRes", "hRes"}) = "passes"
    BY <2>2 DEF LegacyVerifyIn, VerifyIn, Passes
  <2>5. ValidateAcrTuner(data) = "passes"
    BY <2>2, <2>3, <2>4, AcrTunerPasses
  <2>6. LegacyTimestampCheck(start)
    BY <1>1, <1>7, <1>9, <2>1 DEF LegacyGenerates, LegacyTyped
  <2>7. GenerateOutcome(payload) = "passes"
    <3>1. CASE StartTime \in DOMAIN Flatten(data, {})
      <4>1. start = Flatten(data, {})[StartTime] /\ start \notin Unset
        BY <1>9, <3>1 DEF TakesLess, Value
      <4> QED
        BY <1>3, <1>9, <2>6, <3>1, <4>1 DEF GenerateOutcome
    <3>2. CASE StartTime \notin DOMAIN Flatten(data, {})
      BY <1>9, <3>2 DEF GenerateOutcome
    <3> QED
      BY <3>1, <3>2
  <2> QED
    BY <1>9, <2>5, <2>7 DEF TypeCheck
<1>10. CASE type \notin {"NATIVEAPP_TELEMETRY", "ACR_TUNER_DATA", "PLATFORM_TELEMETRY"}
  <2>1. IsObject(Get(payload, "EventData"))
    BY <1>1, <1>10 DEF LegacyGenerates
  <2>2. Has(payload, "EventData")
    BY <2>1 DEF Get, IsObject, Null, Json
  <2>3. NeedsObject(data) = "passes"
    BY <1>7, <2>1, <2>2 DEF NeedsObject
  <2> QED
    BY <1>10, <2>3 DEF TypeCheck, GenerateOutcome
<1> QED
  BY <1>5, <1>8, <1>9, <1>10

-----------------------------------------------------------------------------
(* The rebuild and the service before it: what they make of it *)

(* Names an object does not have can be ignored or not. *)
LEMMA IgnoringNothing ==
    ASSUME NEW data, NEW more, NEW less, less \subseteq more,
           Names(data) \intersect (more \ less) = {}
    PROVE  Flatten(data, more) = Flatten(data, less)
<1> DEFINE fields == data.fields
<1>1. \A i \in 1..Len(fields) : fields[i][1] \in more <=> fields[i][1] \in less
  BY DEF Names
<1>2. Without(fields, more) = Without(fields, less)
  BY <1>1 DEF Without
<1> QED
  BY <1>2 DEF Flatten, Leaves

LEMMA TakenIsTheSame ==
    ASSUME NEW payload,
           GenerateOutcome(payload) = "passes",
           ~TakesMore(payload), ~KeepsMore(payload)
    PROVE  GenerateOutput(payload) = LegacyOutput(payload)
<1> DEFINE type == EventTypeOf(payload)
           data == EventData(payload)
<1>1. Get(payload, "EventData") = data
  BY DEF TakesMore, EventData
<1>2. SUFFICES TypedOutput(payload) = LegacyTypedOutput(payload)
  BY DEF GenerateOutput, LegacyOutput
<1>3. CASE type = "NATIVEAPP_TELEMETRY"
  <2>1. Names(data) \intersect (PartsOfTimestamp \ {"Timestamp"}) = {}
    BY <1>3 DEF KeepsMore
  <2>2. Flatten(data, PartsOfTimestamp) = Flatten(data, {"Timestamp"})
    BY <2>1, IgnoringNothing DEF PartsOfTimestamp
  <2>3. NativeAppOutput(data) = LegacyNativeAppOutput(data)
    BY <2>2 DEF NativeAppOutput, LegacyNativeAppOutput
  <2> QED
    BY <1>1, <1>3, <2>3 DEF TypedOutput, LegacyTypedOutput
<1>4. CASE type = "ACR_TUNER_DATA"
  <2> DEFINE flat == Flatten(data, {})
  <2>1. StartTime \in DOMAIN flat <=> Value(flat, StartTime) \notin Unset
    <3>1. CASE StartTime \in DOMAIN flat
      <4>1. TimestampCheck(flat[StartTime]) = "passes"
        BY <1>4, <3>1 DEF GenerateOutcome
      <4>2. TimestampCheck(Null) # "passes" /\ TimestampCheck(String("")) # "passes"
        BY DEF TimestampCheck, Requires, Null, String, Json
      <4> QED
        BY <3>1, <4>1, <4>2 DEF Value, Unset
    <3>2. CASE StartTime \notin DOMAIN flat
      BY <3>2 DEF Value, Unset
    <3> QED
      BY <3>1, <3>2
  <2>2. AcrTunerOutput(data) = LegacyAcrTunerOutput(data)
    BY <2>1 DEF AcrTunerOutput, LegacyAcrTunerOutput
  <2> QED
    BY <1>1, <1>4, <2>2 DEF TypedOutput, LegacyTypedOutput
<1>5. type # "PLATFORM_TELEMETRY"
  BY DEF TakesMore
<1>6. CASE type \notin {"NATIVEAPP_TELEMETRY", "ACR_TUNER_DATA", "PLATFORM_TELEMETRY"}
  BY <1>1, <1>6 DEF TypedOutput, LegacyTypedOutput
<1> QED
  BY <1>3, <1>4, <1>5, <1>6

-----------------------------------------------------------------------------
(* The inductive invariant *)

(* What the event was and is fixed before the handler begins. *)
PayloadGiven ==
    /\ input \in Inputs /\ env \in Envs /\ blacklist \subseteq ChannelIds
    /\ known = KindOfInput

(* How far the handler comes is what the checks say, or a broker that fails. *)
PayloadReached ==
    /\ reached \in {"unsent", "waiting", "validated", "generated", "debug", "main",
                    "ok", "rejected", "failed"}
    /\ reached \in {"validated", "generated", "debug", "main"} => Validation = "passes"
    /\ reached \in {"generated", "debug", "main"} => GenerateOutcome(input.body) = "passes"
    /\ reached \in {"rejected", "failed"} /\ refused = NoTopic =>
         Validation # "passes" \/ GenerateOutcome(input.body) # "passes"

(* All that is ever sent is the output, as it was made or with the channel  *)
(* hidden; as it was made until the debug topics are served.                *)
Records == {GenerateOutput(input.body), ObfuscateChannelFields(GenerateOutput(input.body))}

PayloadSends ==
    /\ pending \in Seq(Delivery!Topics)
    /\ reached \notin {"debug", "main"} => pending = << >>
    /\ output \in Records \union {<< >>} /\ refused \in Delivery!Topics \union {NoTopic}
    /\ reached \in {"generated", "debug"} => output = GenerateOutput(input.body)
    /\ reached = "main" => output \in Records
    /\ log \in [Delivery!Topics -> Seq(Records)]

PayloadInv == PayloadGiven /\ PayloadReached /\ PayloadSends

LEMMA PayloadTopics ==
    ASSUME NEW mode
    PROVE  /\ KafkaTopics(mode) \in Seq(Delivery!Topics)
           /\ NoTopic \notin Delivery!Topics
<1>1. NoTopic \notin Delivery!Topics
  BY DEF NoTopic, Delivery!Topics, Delivery!MainTopics, Delivery!DebugTopics
<1>2. /\ {"evergreen", "legacy", "evergreen-debug", "legacy-debug"} \subseteq Delivery!Topics
  BY DEF Delivery!Topics, Delivery!MainTopics, Delivery!DebugTopics
<1>3. \A a, b \in Seq(Delivery!Topics) : a \o b \in Seq(Delivery!Topics)
  OBVIOUS
<1>4. /\ (IF env.evergreen THEN <<IF mode THEN "evergreen-debug" ELSE "evergreen">> ELSE << >>)
           \in Seq(Delivery!Topics)
      /\ (IF env.legacy THEN <<IF mode THEN "legacy-debug" ELSE "legacy">> ELSE << >>)
           \in Seq(Delivery!Topics)
  BY <1>2
<1>5. KafkaTopics(mode) \in Seq(Delivery!Topics)
  BY <1>3, <1>4 DEF KafkaTopics
<1> QED
  BY <1>1, <1>5

LEMMA PayloadInitInv == PayloadInit => PayloadInv
<1> SUFFICES ASSUME PayloadInit PROVE PayloadInv
  OBVIOUS
<1>1. PayloadGiven /\ PayloadReached
  BY DEF PayloadInit, PayloadGiven, PayloadReached
<1>2. PayloadSends
  BY DEF PayloadInit, PayloadSends
<1> QED
  BY <1>1, <1>2 DEF PayloadInv

LEMMA PayloadNextInv ==
    PayloadInv /\ [PayloadNext]_payloadVars => PayloadInv'
<1> SUFFICES ASSUME PayloadInv, [PayloadNext]_payloadVars PROVE PayloadInv'
  OBVIOUS
<1> USE DEF PayloadInv
<1>1. UNCHANGED context /\ Records' = Records /\ Validation' = Validation
  BY DEF PayloadNext, payloadVars, context, Post, Validate, Generate, Decide, HideChannel,
         SendSucceeds, SendFails, AnswerOk, Records, Validation
<1>2. PayloadGiven'
  BY <1>1 DEF PayloadGiven, context, KindOfInput, Defect, Validation
<1>3. Validation \in Outcomes /\ GenerateOutcome(input.body) \in Outcomes
  BY RequestPasses, GenerateAnswers DEF Validation
<1>4. input' = input /\ KafkaTopics(TRUE) \in Seq(Delivery!Topics)
        /\ KafkaTopics(FALSE) \in Seq(Delivery!Topics) /\ NoTopic \notin Delivery!Topics
  BY <1>1, PayloadTopics DEF context
<1>5. CASE Post
  BY <1>1, <1>2, <1>4, <1>5 DEF Post, PayloadReached, PayloadSends
<1>6. CASE Validate
  <2>1. PayloadReached'
    BY <1>1, <1>3, <1>4, <1>6 DEF Validate, AfterCheck, Outcomes, PayloadReached
  <2>2. PayloadSends'
    BY <1>1, <1>3, <1>4, <1>6 DEF Validate, AfterCheck, Outcomes, PayloadSends
  <2> QED BY <1>2, <2>1, <2>2
<1>7. CASE Generate
  <2>1. PayloadReached'
    BY <1>1, <1>3, <1>4, <1>7 DEF Generate, AfterCheck, Outcomes, PayloadReached
  <2>2. PayloadSends'
    <3>1. /\ output' \in Records \union {<< >>}
          /\ reached' \in {"generated", "debug"} => output' = GenerateOutput(input.body)
          /\ reached' # "main"
      BY <1>3, <1>7 DEF Generate, AfterCheck, Outcomes, Records, PayloadSends
    <3>2. /\ pending' \in Seq(Delivery!Topics) /\ pending' = << >>
          /\ refused' \in Delivery!Topics \union {NoTopic}
          /\ log' \in [Delivery!Topics -> Seq(Records)]
      BY <1>7 DEF Generate, PayloadSends
    <3> QED
      BY <1>1, <1>4, <3>1, <3>2 DEF PayloadSends
  <2> QED BY <1>2, <2>1, <2>2
<1>8. CASE Decide
  <2>1. PayloadReached'
    BY <1>1, <1>4, <1>8 DEF Decide, PayloadReached
  <2>2. PayloadSends'
    BY <1>1, <1>4, <1>8 DEF Decide, PayloadSends, Records
  <2> QED BY <1>2, <2>1, <2>2
<1>9. CASE HideChannel
  <2>1. PayloadReached'
    BY <1>1, <1>4, <1>9 DEF HideChannel, PayloadReached
  <2>2. PayloadSends'
    BY <1>1, <1>4, <1>9 DEF HideChannel, PayloadSends, Records
  <2> QED BY <1>2, <2>1, <2>2
<1>10. ASSUME pending # << >>
       PROVE  /\ Head(pending) \in Delivery!Topics /\ Tail(pending) \in Seq(Delivery!Topics)
              /\ output \in Records
              /\ Publish(Head(pending)) => log' \in [Delivery!Topics -> Seq(Records)]
  <2>1. /\ Head(pending) \in Delivery!Topics /\ Tail(pending) \in Seq(Delivery!Topics)
        /\ output \in Records /\ log \in [Delivery!Topics -> Seq(Records)]
    BY <1>10 DEF PayloadSends, Records
  <2>2. Append(log[Head(pending)], output) \in Seq(Records)
    BY <2>1
  <2> QED
    BY <2>1, <2>2 DEF Publish
<1>11. CASE SendSucceeds
  <2>1. PayloadReached'
    BY <1>1, <1>4, <1>11 DEF SendSucceeds, PayloadReached
  <2>2. PayloadSends'
    BY <1>1, <1>4, <1>10, <1>11 DEF SendSucceeds, PayloadSends
  <2> QED BY <1>2, <2>1, <2>2
<1>12. CASE SendFails
  <2>1. PayloadReached'
    BY <1>1, <1>4, <1>10, <1>12 DEF SendFails, PayloadReached
  <2>2. PayloadSends'
    BY <1>1, <1>4, <1>10, <1>12 DEF SendFails, PayloadSends
  <2> QED BY <1>2, <2>1, <2>2
<1>13. CASE AnswerOk
  BY <1>1, <1>2, <1>4, <1>13 DEF AnswerOk, PayloadReached, PayloadSends
<1>14. CASE UNCHANGED payloadVars
  BY <1>1, <1>2, <1>4, <1>14 DEF payloadVars, PayloadReached, PayloadSends
<1> QED
  BY <1>5, <1>6, <1>7, <1>8, <1>9, <1>11, <1>12, <1>13, <1>14 DEF PayloadNext

LEMMA PayloadInvariant == PayloadSpec => []PayloadInv
<1>1. PayloadInit => PayloadInv
  BY PayloadInitInv
<1>2. PayloadInv /\ [PayloadNext]_payloadVars => PayloadInv'
  BY PayloadNextInv
<1> QED
  BY <1>1, <1>2, PTL DEF PayloadSpec

LEMMA BlockedOrNot == ASSUME NEW v PROVE IsBlocked(v) \in BOOLEAN
<1>1. CASE v.type = "string"
  BY <1>1 DEF IsBlocked
<1>2. CASE v.type = "bool"
  BY <1>2 DEF IsBlocked
<1>3. CASE v.type \notin {"string", "bool"}
  BY <1>3 DEF IsBlocked
<1> QED
  BY <1>1, <1>2, <1>3

(* What EventDelivery knows of the input: how it fails, or what decides     *)
(* whether its channel is hidden.                                           *)
LEMMA KindIsOne ==
    KindOfInput \in [channel : ChannelIds \union {NoId}, blocked : BOOLEAN,
                     defect : {"none", "validate", "generate"}]
<1> DEFINE out == GenerateOutput(input.body)
           id == Value(out, <<"channelid">>)
           channel == IF id # Null /\ id.text \in ChannelIds THEN id.text ELSE NoId
<1>1. Validation \in Outcomes /\ GenerateOutcome(input.body) \in Outcomes
  BY RequestPasses, GenerateAnswers DEF Validation
<1>2. Defect \in {"none", "validate", "generate"}
  BY <1>1 DEF Defect, Outcomes
<1>3. IsBlocked(Value(out, <<"iscontentblocked">>)) \in BOOLEAN
  BY BlockedOrNot
<1>4. channel \in ChannelIds \union {NoId}
  OBVIOUS
<1>5. CASE Defect # "none"
  BY <1>2, <1>5 DEF KindOfInput
<1>6. CASE Defect = "none"
  <2>1. KindOfInput = [channel |-> channel,
                       blocked |-> IsBlocked(Value(out, <<"iscontentblocked">>)),
                       defect |-> "none"]
    BY <1>6 DEF KindOfInput
  <2> HIDE DEF channel, out
  <2> QED
    BY <1>3, <1>4, <2>1
<1> QED
  BY <1>5, <1>6

(* The types of one event and its handler, for every set of payloads. *)
THEOREM PayloadTypeCorrect == PayloadSpec => []PayloadTypeOK
<1>1. PayloadInv => PayloadTypeOK
  <2> SUFFICES ASSUME PayloadInv PROVE PayloadTypeOK
    OBVIOUS
  <2>1. known \in [channel : ChannelIds \union {NoId}, blocked : BOOLEAN,
                  defect : {"none", "validate", "generate"}]
    BY KindIsOne DEF PayloadInv, PayloadGiven
  <2>2. env \in Delivery!Toggles
    BY PayloadAssumption DEF PayloadInv, PayloadGiven
  <2>3. DOMAIN log = Delivery!Topics
    BY DEF PayloadInv, PayloadSends
  <2> QED
    BY <2>1, <2>2, <2>3
    DEF PayloadInv, PayloadGiven, PayloadReached, PayloadSends, Records, PayloadTypeOK
<1> QED
  BY <1>1, PayloadInvariant, PTL

(* Whatever the TVs post: the rebuild takes an event and makes of it the    *)
(* record that the service before it did, but for the listed differences.   *)
THEOREM MatchesLegacyTheorem == PayloadSpec => []MatchesLegacy
<1>1. PayloadInv => MatchesLegacy
  <2> SUFFICES ASSUME PayloadInv PROVE MatchesLegacy
    OBVIOUS
  <2> DEFINE body == input.body
             accepted == LegacyAccepts(body, input.hashMatches)
  <2>1. reached \in {"rejected", "failed"} /\ refused = NoTopic
          => ~accepted \/ TakesLess(body)
    BY AcceptedIsTaken DEF PayloadInv, PayloadReached, Validation
  <2>2. reached = "generated" /\ ~TakesMore(body)
          => accepted /\ (output = LegacyOutput(body) \/ KeepsMore(body))
    BY TakenWasAccepted, TakenIsTheSame
    DEF PayloadInv, PayloadReached, PayloadSends, Validation
  <2> QED
    BY <2>1, <2>2 DEF MatchesLegacy
<1> QED
  BY <1>1, PayloadInvariant, PTL

-----------------------------------------------------------------------------
(* The handler implements EventDelivery *)

DeliverySends == [topic : Delivery!Topics, form : {"clear", "obfuscated"}]

LEMMA OneAttempt ==
    /\ Delivery!Attempts = {Attempt}
    /\ Delivery!Payload(Attempt) = known
<1>1. Delivery!Attempts = {Attempt}
  BY DEF Delivery!Attempts, Attempt
<1>2. Delivery!Payload(Attempt) = known
  BY DEF Delivery!Payload, Attempt
<1> QED
  BY <1>1, <1>2

LEMMA SendsAre ==
    ASSUME NEW topics \in Seq(Delivery!Topics), NEW form \in {"clear", "obfuscated"}
    PROVE  /\ Sends(topics, form) \in Seq(DeliverySends)
           /\ Delivery!SendAll(topics, form) = Sends(topics, form)
           /\ topics = << >> <=> Sends(topics, form) = << >>
           /\ topics # << >> =>
                /\ Head(Sends(topics, form)) = [topic |-> Head(topics), form |-> form]
                /\ Tail(Sends(topics, form)) = Sends(Tail(topics), form)
<1> DEFINE planned == Sends(topics, form)
<1>1. planned = [i \in 1..Len(topics) |-> [topic |-> topics[i], form |-> form]]
  BY DEF Sends
<1>2. /\ planned \in Seq(DeliverySends)
      /\ Len(planned) = Len(topics)
      /\ \A i \in 1..Len(topics) : planned[i] = [topic |-> topics[i], form |-> form]
  BY <1>1 DEF DeliverySends
<1>3. Delivery!SendAll(topics, form) = planned
  BY <1>1 DEF Delivery!SendAll
<1>4. topics = << >> <=> planned = << >>
  BY <1>2
<1>5. ASSUME topics # << >>
      PROVE  /\ Head(planned) = [topic |-> Head(topics), form |-> form]
             /\ Tail(planned) = Sends(Tail(topics), form)
  <2>1. Head(planned) = [topic |-> Head(topics), form |-> form]
    <3>1. 1 \in 1..Len(topics) /\ Head(topics) = topics[1] /\ Head(planned) = planned[1]
      BY <1>2, <1>4, <1>5
    <3> QED
      BY <1>2, <3>1
  <2>2. Tail(topics) \in Seq(Delivery!Topics) /\ Len(Tail(topics)) = Len(topics) - 1
        /\ \A i \in 1..Len(Tail(topics)) : Tail(topics)[i] = topics[i + 1]
    BY <1>5
  <2>3. Tail(planned) \in Seq(DeliverySends) /\ Len(Tail(planned)) = Len(planned) - 1
        /\ \A i \in 1..Len(Tail(planned)) : Tail(planned)[i] = planned[i + 1]
    BY <1>2, <1>4, <1>5
  <2>4. Sends(Tail(topics), form) \in Seq(DeliverySends)
        /\ Len(Sends(Tail(topics), form)) = Len(Tail(topics))
        /\ \A i \in 1..Len(Tail(topics)) :
             Sends(Tail(topics), form)[i] = [topic |-> Tail(topics)[i], form |-> form]
    BY <2>2 DEF Sends, DeliverySends
  <2>5. Len(Tail(planned)) = Len(Sends(Tail(topics), form))
    BY <1>2, <2>2, <2>3, <2>4
  <2>6. ASSUME NEW i \in 1..Len(Tail(planned))
        PROVE  Tail(planned)[i] = Sends(Tail(topics), form)[i]
    <3>1. i \in 1..Len(Tail(topics)) /\ i + 1 \in 1..Len(topics)
      BY <1>2, <2>2, <2>3
    <3> QED
      BY <1>2, <2>2, <2>3, <2>4, <3>1
  <2> QED
    BY <2>1, <2>3, <2>4, <2>5, <2>6, SeqEqual
<1> HIDE DEF planned
<1> QED
  BY <1>2, <1>3, <1>4, <1>5 DEF planned

LEMMA ThenSends ==
    ASSUME NEW first \in Seq(DeliverySends), NEW second \in Seq(DeliverySends)
    PROVE  /\ first \o second \in Seq(DeliverySends)
           /\ << >> \o second = second
           /\ first # << >> =>
                /\ first \o second # << >>
                /\ Head(first \o second) = Head(first)
                /\ Tail(first \o second) = Tail(first) \o second
<1>1. first \o second \in Seq(DeliverySends) /\ << >> \o second = second
  OBVIOUS
<1>2. ASSUME first # << >>
      PROVE  /\ first \o second # << >>
             /\ Head(first \o second) = Head(first)
             /\ Tail(first \o second) = Tail(first) \o second
  BY <1>2
<1> QED
  BY <1>1, <1>2

(* What EventDelivery sees of a topic. *)
SeenOf(records) ==
    [i \in 1..Len(records) |-> [attempt |-> Attempt, form |-> Form(records[i])]]

LEMMA SeenAfter ==
    ASSUME NEW S, NEW records \in Seq(S), NEW record \in S
    PROVE  SeenOf(Append(records, record))
             = Append(SeenOf(records), [attempt |-> Attempt, form |-> Form(record)])
<1> DEFINE Seen(r) == [attempt |-> Attempt, form |-> Form(r)]
           range == {Seen(r) : r \in S}
<1>1. SeenOf(records) \in Seq(range) /\ Len(SeenOf(records)) = Len(records)
      /\ \A i \in 1..Len(records) : SeenOf(records)[i] = Seen(records[i])
  BY DEF SeenOf
<1>2. Append(records, record) \in Seq(S) /\ Len(Append(records, record)) = Len(records) + 1
      /\ \A i \in 1..Len(records) : Append(records, record)[i] = records[i]
      /\ Append(records, record)[Len(records) + 1] = record
  OBVIOUS
<1>3. SeenOf(Append(records, record)) \in Seq(range)
      /\ Len(SeenOf(Append(records, record))) = Len(records) + 1
      /\ \A i \in 1..(Len(records) + 1) :
           SeenOf(Append(records, record))[i] = Seen(Append(records, record)[i])
  BY <1>2 DEF SeenOf
<1>4. Append(SeenOf(records), Seen(record)) \in Seq(range)
      /\ Len(Append(SeenOf(records), Seen(record))) = Len(records) + 1
      /\ \A i \in 1..Len(records) :
           Append(SeenOf(records), Seen(record))[i] = Seen(records[i])
      /\ Append(SeenOf(records), Seen(record))[Len(records) + 1] = Seen(record)
  BY <1>1
<1>5. \A i \in 1..(Len(records) + 1) :
        SeenOf(Append(records, record))[i] = Append(SeenOf(records), Seen(record))[i]
  BY <1>2, <1>3, <1>4
<1> QED
  BY <1>3, <1>4, <1>5, SeqEqual

(* Hidden and known as such. *)
LEMMA HiddenForm ==
    ASSUME NEW record
    PROVE  /\ Form(record) \in {"clear", "obfuscated"}
           /\ Form(ObfuscateChannelFields(record)) = "obfuscated"
<1>1. Form(record) \in {"clear", "obfuscated"}
  BY DEF Form
<1>2. Hidden(ObfuscateChannelFields(record))
  BY DEF Hidden, Value, ObfuscateChannelFields, ChannelFields
<1> QED
  BY <1>1, <1>2 DEF Form

LEMMA DefectIs ==
    /\ Validation = "refuses" => KindOfInput.defect = "validate"
    /\ Validation = "raises" => KindOfInput.defect = "generate"
    /\ Validation = "passes" =>
         /\ GenerateOutcome(input.body) = "refuses" => KindOfInput.defect = "validate"
         /\ GenerateOutcome(input.body) = "raises" => KindOfInput.defect = "generate"
         /\ GenerateOutcome(input.body) = "passes" => KindOfInput.defect = "none"
<1>1. KindOfInput.defect = Defect
  BY DEF KindOfInput
<1> QED
  BY <1>1 DEF Defect

LEMMA SameDecision ==
    ASSUME PayloadGiven, Validation = "passes", GenerateOutcome(input.body) = "passes",
           NEW out, out = GenerateOutput(input.body)
    PROVE  /\ ShouldObfuscateChannel(out, blacklist) <=> Delivery!ShouldObfuscate(known)
           /\ Form(out) = "clear"
<1> DEFINE id == Value(out, <<"channelid">>)
           blocked == IsBlocked(Value(out, <<"iscontentblocked">>))
<1>1. Defect = "none"
  BY DEF Defect
<1>2. known = [channel |-> IF id # Null /\ id.text \in ChannelIds THEN id.text ELSE NoId,
               blocked |-> blocked, defect |-> "none"]
  BY <1>1 DEF PayloadGiven, KindOfInput
<1>3. known.channel \in blacklist <=> IsBlacklisted(id, blacklist)
  <2>1. known.channel = IF id # Null /\ id.text \in ChannelIds THEN id.text ELSE NoId
    BY <1>2
  <2>2. NoId \notin blacklist /\ blacklist \subseteq ChannelIds
    BY PayloadAssumption DEF PayloadGiven
  <2> QED
    BY <2>1, <2>2 DEF IsBlacklisted
<1>4. known.blocked = blocked
  BY <1>2
<1>5. blocked \in BOOLEAN
  BY BlockedOrNot
<1>6. ShouldObfuscateChannel(out, blacklist) <=> Delivery!ShouldObfuscate(known)
  <2> HIDE DEF blocked
  <2>1. ShouldObfuscateChannel(out, blacklist) <=> blocked \/ IsBlacklisted(id, blacklist)
    BY DEF ShouldObfuscateChannel, blocked
  <2> QED
    BY <1>3, <1>4, <1>5, <2>1 DEF Delivery!ShouldObfuscate
<1>7. Form(out) = "clear"
  BY PayloadAssumption DEF PayloadGiven, Validation, Form
<1> QED
  BY <1>6, <1>7

LEMMA DeliveryInitially == PayloadInit => Delivery!Init
<1> SUFFICES ASSUME PayloadInit PROVE Delivery!Init
  OBVIOUS
<1>1. Status = "unsent" /\ Remaining = << >>
  BY DEF PayloadInit, Status, Remaining
<1>2. [event \in {"event"} |-> known]
        \in [{"event"} -> [channel : ChannelIds \union {NoId}, blocked : BOOLEAN,
                           defect : {"none", "validate", "generate"}]]
  BY KindIsOne DEF PayloadInit
<1>3. [topic \in DOMAIN log |->
         [i \in 1..Len(log[topic]) |->
            [attempt |-> Attempt, form |-> Form(log[topic][i])]]]
        = [topic \in Delivery!Topics |-> << >>]
  BY DEF PayloadInit
<1>4. env \in Envs /\ blacklist \in SUBSET ChannelIds /\ refused = NoTopic
  BY DEF PayloadInit
<1> QED
  BY <1>1, <1>2, <1>3, <1>4, OneAttempt DEF Delivery!Init

(* The steps one by one: each is a step of EventDelivery or none there. *)
LEMMA PostImplements ==
    ASSUME PayloadInv, Post PROVE Delivery!Post(Attempt)
<1>1. /\ Status = "unsent" /\ Status' = "waiting"
      /\ Remaining = << >> /\ Remaining' = << >>
  BY DEF Post, Status, Remaining
<1>2. ~\E n \in 1..1 : n + 1 = Attempt[2]
  BY DEF Attempt
<1> QED
  BY <1>1, <1>2 DEF Post, context, Delivery!Post

LEMMA HandlerFree ==
    ASSUME reached \in {"waiting", "validated", "generated"}
    PROVE  /\ Status = "waiting" /\ Remaining = << >>
           /\ Delivery!LoopFree
<1>1. Status = "waiting" /\ Remaining = << >>
  BY DEF Status, Remaining
<1> QED
  BY <1>1, OneAttempt DEF Delivery!LoopFree

LEMMA RefusalImplements ==
    ASSUME PayloadInv, reached \in {"waiting", "validated"},
           reached' \in {"rejected", "failed"}, known' = known,
           UNCHANGED <<env, blacklist, log, refused>>,
           known.defect = IF reached' = "rejected" THEN "validate" ELSE "generate"
    PROVE  Delivery!ValidationFails(Attempt) \/ Delivery!GenerationFails(Attempt)
<1>1. Status = "waiting" /\ Remaining = << >> /\ Delivery!LoopFree
  BY HandlerFree
<1>2. Status' = reached' /\ Remaining' = << >>
  BY DEF Status, Remaining
<1>3. CASE reached' = "rejected"
  BY <1>1, <1>2, <1>3, OneAttempt DEF Delivery!ValidationFails, Delivery!Settle
<1>4. CASE reached' = "failed"
  BY <1>1, <1>2, <1>4, OneAttempt DEF Delivery!GenerationFails, Delivery!Settle
<1> QED
  BY <1>3, <1>4

LEMMA NothingSeen ==
    ASSUME UNCHANGED <<env, known, blacklist, log, refused>>,
           Status' = Status, Remaining' = Remaining
    PROVE  UNCHANGED Delivery!vars
BY DEF Delivery!vars

LEMMA ValidateImplements ==
    ASSUME PayloadInv, Validate
    PROVE  \/ Delivery!ValidationFails(Attempt) \/ Delivery!GenerationFails(Attempt)
           \/ UNCHANGED Delivery!vars
<1>1. Validation \in Outcomes
  BY RequestPasses DEF Validation
<1>2. UNCHANGED <<env, known, blacklist, log, refused>> /\ known = KindOfInput
  BY DEF Validate, context, PayloadInv, PayloadGiven
<1>3. CASE Validation = "passes"
  <2>1. reached = "waiting" /\ reached' = "validated"
    BY <1>3 DEF Validate, AfterCheck
  <2>2. Status' = Status /\ Remaining' = Remaining
    BY <2>1 DEF Status, Remaining
  <2> QED
    BY <1>2, <2>2, NothingSeen
<1>4. CASE Validation # "passes"
  <2>1. /\ reached = "waiting"
        /\ reached' = IF Validation = "refuses" THEN "rejected" ELSE "failed"
    BY <1>1, <1>4 DEF Validate, AfterCheck, Outcomes
  <2>2. known.defect = IF reached' = "rejected" THEN "validate" ELSE "generate"
    BY <1>1, <1>2, <1>4, <2>1, DefectIs DEF Outcomes
  <2> QED
    BY <1>2, <2>1, <2>2, RefusalImplements
<1> QED
  BY <1>3, <1>4

LEMMA GenerateImplements ==
    ASSUME PayloadInv, Generate
    PROVE  \/ Delivery!ValidationFails(Attempt) \/ Delivery!GenerationFails(Attempt)
           \/ UNCHANGED Delivery!vars
<1> DEFINE outcome == GenerateOutcome(input.body)
<1>1. outcome \in Outcomes
  BY GenerateAnswers
<1>2. UNCHANGED <<env, known, blacklist, log, refused>> /\ known = KindOfInput
  BY DEF Generate, context, PayloadInv, PayloadGiven
<1>3. reached = "validated" /\ Validation = "passes"
  BY DEF Generate, PayloadInv, PayloadReached
<1>4. CASE outcome = "passes"
  <2>1. reached' = "generated"
    BY <1>4 DEF Generate, AfterCheck
  <2>2. Status' = Status /\ Remaining' = Remaining
    BY <1>3, <2>1 DEF Status, Remaining
  <2> QED
    BY <1>2, <2>2, NothingSeen
<1>5. CASE outcome # "passes"
  <2>1. reached' = IF outcome = "refuses" THEN "rejected" ELSE "failed"
    BY <1>1, <1>5 DEF Generate, AfterCheck, Outcomes
  <2>2. known.defect = IF reached' = "rejected" THEN "validate" ELSE "generate"
    BY <1>1, <1>2, <1>3, <1>5, <2>1, DefectIs DEF Outcomes
  <2> QED
    BY <1>2, <1>3, <2>1, <2>2, RefusalImplements
<1> QED
  BY <1>4, <1>5

LEMMA SameTopics == \A mode : Delivery!KafkaTopics(mode) = KafkaTopics(mode)
BY DEF Delivery!KafkaTopics, KafkaTopics

(* What is left to send is what is left of the debug topics and then all of *)
(* the main ones, or what is left of those.                                 *)
LEMMA RemainingIs ==
    ASSUME PayloadInv
    PROVE  /\ reached = "debug" =>
                Remaining = Sends(pending, Form(output))
                              \o Sends(KafkaTopics(FALSE), "obfuscated")
           /\ reached = "main" => Remaining = Sends(pending, Form(output))
           /\ reached \notin {"debug", "main"} => Remaining = << >>
           /\ Sends(pending, Form(output)) \in Seq(DeliverySends)
           /\ Sends(KafkaTopics(FALSE), "obfuscated") \in Seq(DeliverySends)
           /\ Remaining \in Seq(DeliverySends)
<1>1. /\ Sends(pending, Form(output)) \in Seq(DeliverySends)
      /\ Sends(KafkaTopics(FALSE), "obfuscated") \in Seq(DeliverySends)
  BY SendsAre, HiddenForm, PayloadTopics DEF PayloadInv, PayloadSends
<1>2. /\ reached = "debug" =>
           Remaining = Sends(pending, Form(output))
                         \o Sends(KafkaTopics(FALSE), "obfuscated")
      /\ reached = "main" => Remaining = Sends(pending, Form(output))
      /\ reached \notin {"debug", "main"} => Remaining = << >>
  BY DEF Remaining
<1>3. << >> \in Seq(DeliverySends)
  OBVIOUS
<1>4. Remaining \in Seq(DeliverySends)
  <2>1. Sends(pending, Form(output)) \o Sends(KafkaTopics(FALSE), "obfuscated")
          \in Seq(DeliverySends)
    BY <1>1, ThenSends
  <2> QED
    BY <1>1, <1>2, <1>3, <2>1
<1> QED
  BY <1>1, <1>2, <1>4

LEMMA StatusIs ==
    /\ reached \in {"debug", "main"} =>
         Status = IF Remaining = << >> THEN "ok" ELSE "running"
    /\ reached \in {"validated", "generated"} => Status = "waiting"
    /\ reached \in {"ok", "rejected", "failed", "unsent", "waiting"} => Status = reached
BY DEF Status

LEMMA DecideImplements ==
    ASSUME PayloadInv, PayloadInv', Decide PROVE Delivery!StartDelivery(Attempt)
<1>1. /\ reached = "generated" /\ output = GenerateOutput(input.body) /\ output' = output
      /\ UNCHANGED <<env, known, blacklist, log, refused>> /\ known = KindOfInput
      /\ Validation = "passes" /\ GenerateOutcome(input.body) = "passes"
  BY DEF Decide, context, PayloadInv, PayloadGiven, PayloadReached, PayloadSends
<1>2. Status = "waiting" /\ Remaining = << >> /\ Delivery!LoopFree
  BY <1>1, HandlerFree
<1>3. /\ ShouldObfuscateChannel(output, blacklist) <=> Delivery!ShouldObfuscate(known)
      /\ Form(output) = "clear"
  BY <1>1, SameDecision DEF PayloadInv
<1>4. known.defect = "none"
  BY <1>1, DefectIs
<1>5. \A mode : KafkaTopics(mode)' = KafkaTopics(mode)
  BY <1>1 DEF KafkaTopics
<1>6. \A mode, form : form \in {"clear", "obfuscated"} =>
        Delivery!SendAll(Delivery!KafkaTopics(mode), form) = Sends(KafkaTopics(mode), form)
  BY SendsAre, SameTopics, PayloadTopics
<1>7. Sends(<< >>, "clear") = << >>
  BY DEF Sends
<1>8. Remaining' = Delivery!Plan(known)
  <2>1. CASE ShouldObfuscateChannel(output, blacklist)
    <3>1. reached' = "debug" /\ pending' = IF env.debug THEN KafkaTopics(TRUE) ELSE << >>
      BY <2>1 DEF Decide
    <3>2. Remaining' = Sends(pending', "clear") \o Sends(KafkaTopics(FALSE), "obfuscated")
      BY <1>1, <1>3, <1>5, <3>1 DEF Remaining
    <3>3. Delivery!Plan(known)
            = (IF env.debug THEN Sends(KafkaTopics(TRUE), "clear") ELSE << >>)
                \o Sends(KafkaTopics(FALSE), "obfuscated")
      BY <1>3, <1>6, <2>1 DEF Delivery!Plan
    <3> QED
      BY <1>7, <3>1, <3>2, <3>3
  <2>2. CASE ~ShouldObfuscateChannel(output, blacklist)
    <3>1. reached' = "main" /\ pending' = KafkaTopics(FALSE)
      BY <2>2 DEF Decide
    <3>2. Remaining' = Sends(KafkaTopics(FALSE), "clear")
      BY <1>1, <1>3, <3>1 DEF Remaining
    <3>3. Delivery!Plan(known) = Sends(KafkaTopics(FALSE), "clear")
      BY <1>3, <1>6, <2>2 DEF Delivery!Plan
    <3> QED
      BY <3>2, <3>3
  <2> QED
    BY <2>1, <2>2
<1>9. Status' = IF Remaining' = << >> THEN "ok" ELSE "running"
  <2>1. reached' \in {"debug", "main"}
    BY DEF Decide
  <2> QED
    BY <2>1 DEF Status
<1> HIDE DEF PayloadInv
<1> QED
  BY <1>1, <1>2, <1>4, <1>8, <1>9, OneAttempt DEF Delivery!StartDelivery, Delivery!Settle

LEMMA HideImplements ==
    ASSUME PayloadInv, PayloadInv', HideChannel PROVE UNCHANGED Delivery!vars
<1>1. /\ reached = "debug" /\ reached' = "main" /\ pending = << >>
      /\ pending' = KafkaTopics(FALSE) /\ output' = ObfuscateChannelFields(output)
      /\ UNCHANGED <<env, known, blacklist, log, refused>>
  BY DEF HideChannel, context
<1>2. Form(output') = "obfuscated"
  BY <1>1, HiddenForm
<1>3. Remaining = Sends(KafkaTopics(FALSE), "obfuscated")
  <2>1. Sends(<< >>, Form(output)) = << >>
    BY DEF Sends
  <2> QED
    BY <1>1, <2>1, RemainingIs, ThenSends
<1>4. Remaining' = Sends(KafkaTopics(FALSE), "obfuscated")
  BY <1>1, <1>2 DEF Remaining
<1>5. Status' = Status
  BY <1>1, <1>3, <1>4 DEF Status
<1> QED
  BY <1>1, <1>3, <1>4, <1>5, NothingSeen

SeenLog == [topic \in DOMAIN log |-> SeenOf(log[topic])]

(* A record on a topic is one more that EventDelivery sees there. *)
LEMMA PublishSeen ==
    ASSUME PayloadInv, NEW topic \in Delivery!Topics, output \in Records, Publish(topic)
    PROVE  SeenLog' = [SeenLog EXCEPT
                         ![topic] = Append(@, [attempt |-> Attempt, form |-> Form(output)])]
<1>1. /\ log \in [Delivery!Topics -> Seq(Records)]
      /\ log' = [log EXCEPT ![topic] = Append(@, output)]
  BY DEF PayloadInv, PayloadSends, Publish
<1>2. log[topic] \in Seq(Records)
  BY <1>1
<1>3. SeenOf(log'[topic])
        = Append(SeenOf(log[topic]), [attempt |-> Attempt, form |-> Form(output)])
  BY <1>1, <1>2, SeenAfter
<1>4. \A t \in Delivery!Topics \ {topic} : SeenOf(log'[t]) = SeenOf(log[t])
  BY <1>1
<1>5. DOMAIN log' = Delivery!Topics /\ DOMAIN log = Delivery!Topics
  BY <1>1
<1> QED
  BY <1>3, <1>4, <1>5 DEF SeenLog

(* The next send is that of the next topic, in the form the output has. *)
LEMMA NextSend ==
    ASSUME PayloadInv, pending # << >>
    PROVE  /\ reached \in {"debug", "main"} /\ Status = "running"
           /\ Head(pending) \in Delivery!Topics /\ output \in Records
           /\ Remaining # << >>
           /\ Head(Remaining) = [topic |-> Head(pending), form |-> Form(output)]
           /\ Tail(Remaining) =
                IF reached = "debug"
                  THEN Sends(Tail(pending), Form(output))
                         \o Sends(KafkaTopics(FALSE), "obfuscated")
                  ELSE Sends(Tail(pending), Form(output))
<1>1. /\ reached \in {"debug", "main"} /\ pending \in Seq(Delivery!Topics)
      /\ output \in Records
  BY DEF PayloadInv, PayloadSends, Records
<1>2. Head(pending) \in Delivery!Topics
  BY <1>1
<1> DEFINE first == Sends(pending, Form(output))
           second == Sends(KafkaTopics(FALSE), "obfuscated")
<1>3. /\ first # << >> /\ first \in Seq(DeliverySends) /\ second \in Seq(DeliverySends)
      /\ Head(first) = [topic |-> Head(pending), form |-> Form(output)]
      /\ Tail(first) = Sends(Tail(pending), Form(output))
  BY <1>1, SendsAre, HiddenForm, PayloadTopics
<1>4. /\ reached = "debug" => Remaining = first \o second
      /\ reached = "main" => Remaining = first
  BY RemainingIs
<1> HIDE DEF first, second
<1>5. /\ first \o second # << >>
      /\ Head(first \o second) = Head(first)
      /\ Tail(first \o second) = Tail(first) \o second
  BY <1>3, ThenSends
<1>6. Remaining # << >>
  BY <1>1, <1>3, <1>4, <1>5
<1>7. Status = "running"
  BY <1>1, <1>6, StatusIs
<1> QED
  BY <1>1, <1>2, <1>3, <1>4, <1>5, <1>6, <1>7 DEF second

LEMMA SuccessImplements ==
    ASSUME PayloadInv, PayloadInv', SendSucceeds PROVE Delivery!SendSucceeds(Attempt)
<1>1. /\ pending # << >> /\ pending' = Tail(pending) /\ Publish(Head(pending))
      /\ reached' = reached /\ output' = output
      /\ UNCHANGED <<env, known, blacklist, refused>>
  BY DEF SendSucceeds, context
<1>2. /\ reached \in {"debug", "main"} /\ Status = "running"
      /\ Head(pending) \in Delivery!Topics /\ output \in Records /\ Remaining # << >>
      /\ Head(Remaining) = [topic |-> Head(pending), form |-> Form(output)]
  BY <1>1, NextSend
<1>3. Remaining' = Tail(Remaining)
  <2>1. KafkaTopics(FALSE)' = KafkaTopics(FALSE)
    BY <1>1 DEF KafkaTopics
  <2>2. Remaining' = IF reached = "debug"
                       THEN Sends(Tail(pending), Form(output))
                              \o Sends(KafkaTopics(FALSE), "obfuscated")
                       ELSE Sends(Tail(pending), Form(output))
    BY <1>1, <1>2, <2>1 DEF Remaining
  <2> QED
    BY <1>1, <2>2, NextSend
<1>4. Status' = IF Remaining' = << >> THEN "ok" ELSE "running"
  BY <1>1, <1>2 DEF Status
<1>5. SeenLog' = [SeenLog EXCEPT
                    ![Head(pending)] = Append(@, [attempt |-> Attempt, form |-> Form(output)])]
  BY <1>1, <1>2, PublishSeen
<1>6. Head(Remaining).topic = Head(pending) /\ Head(Remaining).form = Form(output)
  BY <1>2
<1>7. [attempt \in {Attempt} |-> Remaining][Attempt] = Remaining
  OBVIOUS
<1>8. Delivery!Publish(Attempt, Head([attempt \in {Attempt} |-> Remaining][Attempt]))
  BY <1>5, <1>6, <1>7 DEF Delivery!Publish, SeenLog, SeenOf
<1> HIDE DEF PayloadInv
<1> QED
  BY <1>1, <1>2, <1>3, <1>4, <1>8 DEF Delivery!SendSucceeds, Delivery!Settle

LEMMA FailureImplements ==
    ASSUME PayloadInv, PayloadInv', SendFails PROVE Delivery!SendFails(Attempt)
<1>1. /\ pending # << >> /\ reached' = "failed" /\ refused' = Head(pending)
      /\ Publish(Head(pending)) \/ UNCHANGED log
      /\ UNCHANGED <<env, known, blacklist>>
  BY DEF SendFails, context
<1>2. /\ Status = "running"
      /\ Head(pending) \in Delivery!Topics /\ output \in Records /\ Remaining # << >>
      /\ Head(Remaining) = [topic |-> Head(pending), form |-> Form(output)]
  BY <1>1, NextSend
<1>3. Remaining' = << >> /\ Status' = "failed"
  BY <1>1 DEF Remaining, Status
<1>4. [attempt \in {Attempt} |-> Remaining][Attempt] = Remaining
  OBVIOUS
<1>6. Head(Remaining).topic = Head(pending) /\ Head(Remaining).form = Form(output)
  BY <1>2
<1>5. \/ Delivery!Publish(Attempt, Head([attempt \in {Attempt} |-> Remaining][Attempt]))
      \/ UNCHANGED SeenLog
  <2>1. CASE Publish(Head(pending))
    <3>1. SeenLog' = [SeenLog EXCEPT
                        ![Head(pending)] =
                          Append(@, [attempt |-> Attempt, form |-> Form(output)])]
      BY <1>2, <2>1, PublishSeen
    <3> QED
      BY <1>4, <1>6, <3>1 DEF Delivery!Publish, SeenLog, SeenOf
  <2>2. CASE UNCHANGED log
    BY <2>2 DEF SeenLog
  <2> QED
    BY <1>1, <2>1, <2>2
<1>7. [attempt \in {Attempt} |-> refused]'
        = [[attempt \in {Attempt} |-> refused] EXCEPT
             ![Attempt] = Head([attempt \in {Attempt} |-> Remaining][Attempt]).topic]
  BY <1>1, <1>4, <1>6
<1>8. Delivery!SendRaises(Attempt)
  <2>1. \/ Delivery!Publish(Attempt, Head([attempt \in {Attempt} |-> Remaining][Attempt]))
        \/ UNCHANGED [topic \in DOMAIN log |->
                        [i \in 1..Len(log[topic]) |->
                           [attempt |-> Attempt, form |-> Form(log[topic][i])]]]
    BY <1>5 DEF SeenLog, SeenOf
  <2>2. [attempt \in {Attempt} |-> Remaining]'
          = [[attempt \in {Attempt} |-> Remaining] EXCEPT ![Attempt] = << >>]
    BY <1>3
  <2> QED
    BY <1>1, <1>2, <1>4, <1>7, <2>1, <2>2 DEF Delivery!SendRaises
<1>9. Delivery!Settle(Attempt, "failed")
  BY <1>3 DEF Delivery!Settle
<1> QED
  BY <1>8, <1>9 DEF Delivery!SendFails

LEMMA AnswerImplements ==
    ASSUME PayloadInv, PayloadInv', AnswerOk PROVE UNCHANGED Delivery!vars
<1>1. /\ reached = "main" /\ reached' = "ok" /\ pending = << >>
      /\ UNCHANGED <<env, known, blacklist, log, refused>>
  BY DEF AnswerOk, context
<1>2. Remaining = << >> /\ Remaining' = << >>
  <2>1. Sends(<< >>, Form(output)) = << >>
    BY DEF Sends
  <2> QED
    BY <1>1, <2>1 DEF Remaining
<1>3. Status = "ok" /\ Status' = "ok"
  BY <1>1, <1>2 DEF Status
<1> QED
  BY <1>1, <1>2, <1>3, NothingSeen

LEMMA UnchangedImplements ==
    ASSUME UNCHANGED payloadVars PROVE UNCHANGED Delivery!vars
<1>1. /\ UNCHANGED <<env, known, blacklist, log, refused, reached, pending, output>>
  BY DEF payloadVars
<1>2. Remaining' = Remaining
  BY <1>1 DEF Remaining, KafkaTopics
<1>3. Status' = Status
  BY <1>1, <1>2 DEF Status
<1> QED
  BY <1>1, <1>2, <1>3, NothingSeen

(* Whatever the TV posts, the handler around the content of an event sends, *)
(* fails and answers as EventDelivery says of a payload of its kind.        *)
THEOREM ImplementsDeliveryTheorem == PayloadSpec => ImplementsDelivery
<1>1. PayloadInit => Delivery!Init
  BY DeliveryInitially
<1>2. PayloadInv /\ PayloadInv' /\ [PayloadNext]_payloadVars => [Delivery!Next]_(Delivery!vars)
  <2> SUFFICES ASSUME PayloadInv, PayloadInv', [PayloadNext]_payloadVars
               PROVE  Delivery!Next \/ UNCHANGED Delivery!vars
    OBVIOUS
  <2>1. (Delivery!Post(Attempt) \/ Delivery!Handle(Attempt)) => Delivery!Next
    BY OneAttempt DEF Delivery!Next
  <2>2. CASE Post
    BY <2>1, <2>2, PostImplements
  <2>3. CASE Validate
    BY <2>1, <2>3, ValidateImplements DEF Delivery!Handle
  <2>4. CASE Generate
    BY <2>1, <2>4, GenerateImplements DEF Delivery!Handle
  <2>5. CASE Decide
    BY <2>1, <2>5, DecideImplements DEF Delivery!Handle
  <2>6. CASE HideChannel
    BY <2>6, HideImplements
  <2>7. CASE SendSucceeds
    BY <2>1, <2>7, SuccessImplements DEF Delivery!Handle
  <2>8. CASE SendFails
    BY <2>1, <2>8, FailureImplements DEF Delivery!Handle
  <2>9. CASE AnswerOk
    BY <2>9, AnswerImplements
  <2>10. CASE UNCHANGED payloadVars
    BY <2>10, UnchangedImplements
  <2> QED
    BY <2>2, <2>3, <2>4, <2>5, <2>6, <2>7, <2>8, <2>9, <2>10 DEF PayloadNext
<1> QED
  BY <1>1, <1>2, PayloadInvariant, PTL DEF PayloadSpec, ImplementsDelivery, Delivery!Spec

-----------------------------------------------------------------------------
(* What each topic holds *)

Made == GenerateOutput(input.body)
Hides == ShouldObfuscateChannel(Made, blacklist)

(* The debug topics hold the output as it was made, and only if the channel *)
(* is to be hidden; then the main topics hold it with the channel hidden.   *)
TopicsInv ==
    /\ reached = "debug" => Hides /\ pending \in Seq(Delivery!DebugTopics)
    /\ reached = "main" =>
         /\ output = IF Hides THEN ObfuscateChannelFields(Made) ELSE Made
         /\ pending \in Seq(Delivery!MainTopics)
    /\ \A topic \in Delivery!MainTopics : \A i \in 1..Len(log[topic]) :
         log[topic][i] = IF Hides THEN ObfuscateChannelFields(Made) ELSE Made
    /\ \A topic \in Delivery!DebugTopics : \A i \in 1..Len(log[topic]) :
         Hides /\ log[topic][i] = Made

LEMMA TopicsOf ==
    /\ KafkaTopics(TRUE) \in Seq(Delivery!DebugTopics)
    /\ KafkaTopics(FALSE) \in Seq(Delivery!MainTopics)
    /\ Delivery!MainTopics \intersect Delivery!DebugTopics = {}
    /\ Delivery!Topics = Delivery!MainTopics \union Delivery!DebugTopics
<1>1. \A T : \A a, b \in Seq(T) : a \o b \in Seq(T)
  OBVIOUS
<1>2. /\ "evergreen-debug" \in Delivery!DebugTopics /\ "legacy-debug" \in Delivery!DebugTopics
      /\ "evergreen" \in Delivery!MainTopics /\ "legacy" \in Delivery!MainTopics
  BY DEF Delivery!DebugTopics, Delivery!MainTopics
<1>3. KafkaTopics(TRUE) \in Seq(Delivery!DebugTopics)
  <2>1. /\ (IF env.evergreen THEN <<"evergreen-debug">> ELSE << >>) \in Seq(Delivery!DebugTopics)
        /\ (IF env.legacy THEN <<"legacy-debug">> ELSE << >>) \in Seq(Delivery!DebugTopics)
    BY <1>2
  <2> QED
    BY <1>1, <2>1 DEF KafkaTopics
<1>4. KafkaTopics(FALSE) \in Seq(Delivery!MainTopics)
  <2>1. /\ (IF env.evergreen THEN <<"evergreen">> ELSE << >>) \in Seq(Delivery!MainTopics)
        /\ (IF env.legacy THEN <<"legacy">> ELSE << >>) \in Seq(Delivery!MainTopics)
    BY <1>2
  <2> QED
    BY <1>1, <2>1 DEF KafkaTopics
<1> QED
  BY <1>3, <1>4 DEF Delivery!DebugTopics, Delivery!MainTopics, Delivery!Topics

(* A record on a topic, or none, leaves the other records where they are.   *)
LEMMA RecordsAfter ==
    ASSUME PayloadInv, NEW topic \in Delivery!Topics, output \in Records,
           Publish(topic) \/ UNCHANGED log,
           NEW t \in Delivery!Topics, NEW i \in 1..Len(log'[t])
    PROVE  \/ i \in 1..Len(log[t]) /\ log'[t][i] = log[t][i]
           \/ t = topic /\ log'[t][i] = output
<1>1. log \in [Delivery!Topics -> Seq(Records)]
  BY DEF PayloadInv, PayloadSends
<1>2. CASE UNCHANGED log
  BY <1>2
<1>3. CASE Publish(topic) /\ t # topic
  <2>1. log'[t] = log[t]
    BY <1>1, <1>3 DEF Publish
  <2> QED
    BY <2>1
<1>4. CASE Publish(topic) /\ t = topic
  <2>1. log'[t] = Append(log[t], output) /\ log[t] \in Seq(Records)
    BY <1>1, <1>4 DEF Publish
  <2>2. \A j \in 1..Len(Append(log[t], output)) :
          IF j \in 1..Len(log[t]) THEN Append(log[t], output)[j] = log[t][j]
                                  ELSE Append(log[t], output)[j] = output
    BY <2>1
  <2> QED
    BY <1>4, <2>1, <2>2
<1> QED
  BY <1>2, <1>3, <1>4

LEMMA TopicsInitially == PayloadInit => TopicsInv
<1> SUFFICES ASSUME PayloadInit PROVE TopicsInv
  OBVIOUS
<1>1. \A topic \in Delivery!Topics : Len(log[topic]) = 0
  BY DEF PayloadInit
<1>2. reached = "unsent"
  BY DEF PayloadInit
<1> QED
  BY <1>1, <1>2, TopicsOf DEF TopicsInv

LEMMA TopicsStay ==
    ASSUME PayloadInv, TopicsInv, [PayloadNext]_payloadVars
    PROVE  TopicsInv'
<1>1. UNCHANGED <<input, env, blacklist>>
  BY DEF PayloadNext, payloadVars, context, Post, Validate, Generate, Decide, HideChannel,
         SendSucceeds, SendFails, AnswerOk
<1>2. Made' = Made /\ Hides' = Hides
  BY <1>1 DEF Made, Hides
<1>3. KafkaTopics(TRUE) \in Seq(Delivery!DebugTopics)
        /\ KafkaTopics(FALSE) \in Seq(Delivery!MainTopics)
  BY TopicsOf
<1>4. CASE Post
  BY <1>2, <1>4 DEF Post, TopicsInv
<1>5. CASE Validate \/ Generate
  <2>1. reached' \notin {"debug", "main"} /\ UNCHANGED log
    <3>1. Validation \in Outcomes /\ GenerateOutcome(input.body) \in Outcomes
      BY RequestPasses, GenerateAnswers DEF Validation
    <3> QED
      BY <1>5, <3>1 DEF Validate, Generate, AfterCheck, Outcomes
  <2> QED
    BY <1>2, <2>1 DEF TopicsInv
<1>6. CASE Decide
  <2>1. output = Made /\ output' = output /\ UNCHANGED log
    BY <1>6 DEF Decide, PayloadInv, PayloadSends, Made
  <2>2. << >> \in Seq(Delivery!DebugTopics)
    OBVIOUS
  <2>3. CASE Hides
    <3>1. reached' = "debug" /\ pending' \in Seq(Delivery!DebugTopics)
      BY <1>3, <1>6, <2>1, <2>2, <2>3 DEF Decide, Hides
    <3> QED
      BY <1>2, <2>1, <2>3, <3>1 DEF TopicsInv
  <2>4. CASE ~Hides
    <3>1. reached' = "main" /\ pending' = KafkaTopics(FALSE)
      BY <1>6, <2>1, <2>4 DEF Decide, Hides
    <3> QED
      BY <1>2, <1>3, <2>1, <2>4, <3>1 DEF TopicsInv
  <2> QED
    BY <2>3, <2>4
<1>7. CASE HideChannel
  <2>1. /\ reached = "debug" /\ reached' = "main" /\ pending' = KafkaTopics(FALSE)
        /\ output = Made /\ output' = ObfuscateChannelFields(output) /\ UNCHANGED log
    BY <1>7 DEF HideChannel, PayloadInv, PayloadSends, Made
  <2>2. Hides
    BY <2>1 DEF TopicsInv
  <2> QED
    BY <1>2, <1>3, <2>1, <2>2 DEF TopicsInv
<1>8. CASE SendSucceeds \/ SendFails
  <2> DEFINE topic == Head(pending)
  <2>1. pending # << >> /\ output' = output /\ (Publish(topic) \/ UNCHANGED log)
    BY <1>8 DEF SendSucceeds, SendFails
  <2>2. reached \in {"debug", "main"} /\ topic \in Delivery!Topics /\ output \in Records
    BY <2>1, NextSend
  <2>3. reached = "debug" =>
          /\ Hides /\ topic \in Delivery!DebugTopics /\ output = Made
          /\ Tail(pending) \in Seq(Delivery!DebugTopics)
    BY <2>1 DEF TopicsInv, PayloadInv, PayloadSends, Made
  <2>4. reached = "main" =>
          /\ topic \in Delivery!MainTopics
          /\ output = IF Hides THEN ObfuscateChannelFields(Made) ELSE Made
          /\ Tail(pending) \in Seq(Delivery!MainTopics)
    BY <2>1 DEF TopicsInv
  <2>5. \/ reached' = reached /\ pending' = Tail(pending)
        \/ reached' = "failed"
    BY <1>8 DEF SendSucceeds, SendFails
  <2> HIDE DEF topic
  <2>6. ASSUME NEW t \in Delivery!Topics, NEW i \in 1..Len(log'[t])
        PROVE  \/ i \in 1..Len(log[t]) /\ log'[t][i] = log[t][i]
               \/ t = topic /\ log'[t][i] = output
    BY <2>1, <2>2, RecordsAfter
  <2>7. ASSUME NEW t \in Delivery!MainTopics, NEW i \in 1..Len(log'[t])
        PROVE  log'[t][i] = IF Hides THEN ObfuscateChannelFields(Made) ELSE Made
    <3>1. t \in Delivery!Topics /\ t \notin Delivery!DebugTopics
      BY TopicsOf
    <3> QED
      BY <2>2, <2>3, <2>4, <2>6, <3>1 DEF TopicsInv
  <2>8. ASSUME NEW t \in Delivery!DebugTopics, NEW i \in 1..Len(log'[t])
        PROVE  Hides /\ log'[t][i] = Made
    <3>1. t \in Delivery!Topics /\ t \notin Delivery!MainTopics
      BY TopicsOf
    <3> QED
      BY <2>2, <2>3, <2>4, <2>6, <3>1 DEF TopicsInv
  <2>9. /\ reached' = "debug" => Hides /\ pending' \in Seq(Delivery!DebugTopics)
        /\ reached' = "main" =>
             /\ output' = IF Hides THEN ObfuscateChannelFields(Made) ELSE Made
             /\ pending' \in Seq(Delivery!MainTopics)
    BY <2>1, <2>3, <2>4, <2>5
  <2> QED
    BY <1>2, <2>7, <2>8, <2>9 DEF TopicsInv
<1>9. CASE AnswerOk
  BY <1>2, <1>9 DEF AnswerOk, TopicsInv
<1>10. CASE UNCHANGED payloadVars
  BY <1>2, <1>10 DEF payloadVars, TopicsInv
<1> QED
  BY <1>4, <1>5, <1>6, <1>7, <1>8, <1>9, <1>10 DEF PayloadNext

(* Whatever the payload: beside the three fields of the channel, a main     *)
(* topic holds what the debug topics hold of the same event.                *)
THEOREM OnlyChannelHiddenTheorem == PayloadSpec => []OnlyChannelHidden
<1>1. PayloadInit => TopicsInv
  BY TopicsInitially
<1>2. PayloadInv /\ TopicsInv /\ [PayloadNext]_payloadVars => TopicsInv'
  BY TopicsStay
<1>3. TopicsInv => OnlyChannelHidden
  <2> SUFFICES ASSUME TopicsInv,
                      NEW record \in On(Delivery!MainTopics),
                      NEW copy \in On(Delivery!DebugTopics)
               PROVE  /\ DOMAIN record = DOMAIN copy \union ChannelFields
                      /\ \A key \in DOMAIN copy \ ChannelFields : record[key] = copy[key]
    BY DEF OnlyChannelHidden
  <2>1. Hides /\ copy = Made
    BY DEF TopicsInv, On
  <2>2. record = ObfuscateChannelFields(copy)
    BY <2>1 DEF TopicsInv, On
  <2> QED
    BY <2>2 DEF ObfuscateChannelFields
<1> QED
  BY <1>1, <1>2, <1>3, PayloadInvariant, PTL DEF PayloadSpec
=============================================================================
