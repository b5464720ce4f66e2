----------------------- MODULE ConsulServices_proofs -----------------------
(***************************************************************************)
(* Machine-checked proofs about ConsulServices, for every number of        *)
(* processes, services, locks, sessions and deaths.                        *)
(***************************************************************************)
EXTENDS ConsulServices, WellFoundedInduction, TLAPS

(* The first free port is one of the ports. *)
LEMMA MinIsElement ==
    ASSUME NEW S, S \subseteq Nat, S # {}
    PROVE  Min(S) \in S
<1> DEFINE R == OpToRel(<, Nat)
<1>1. IsWellFoundedOn(R, Nat)
  BY NatLessThanWellFounded
<1> HIDE DEF R
<1>2. PICK x \in S : \A y \in S : <<y, x>> \notin R
  BY <1>1, WFMin
<1>3. \A y \in S : ~(y < x)
  BY <1>2 DEF R, OpToRel
<1>4. \A y \in S : x =< y
  BY <1>3
<1> QED
  BY <1>4 DEF Min

-----------------------------------------------------------------------------
(* Type correctness *)

AppStates == [pc : {"down", "idle", "deregistering", "joining"},
              running : BOOLEAN, port : Ports \union {None},
              services : SUBSET Ids, left : SUBSET Ids,
              held : Locks \union {None}, session : Sessions \union {None},
              doubtful : BOOLEAN, destructed : BOOLEAN]

(* A ConsulApp that is running has a port, which is the port of its checks. *)
RunningHasPort == \A a \in Apps : app[a].running => app[a].port \in Ports

LEMMA AppUpdate ==
    ASSUME app \in [Apps -> AppStates], RunningHasPort,
           NEW a \in Apps, NEW r \in AppStates, r.running => r.port \in Ports,
           app' = [app EXCEPT ![a] = r]
    PROVE  app' \in [Apps -> AppStates] /\ RunningHasPort'
BY DEF RunningHasPort

LEMMA TypeStep ==
    ASSUME TypeOK, RunningHasPort, [Next]_vars
    PROVE  TypeOK' /\ RunningHasPort'
<1> USE ConsulBounds
<1>0. /\ app \in [Apps -> AppStates]
      /\ catalogue \in [Ids -> Entries \union {None}]
      /\ lock \in [Locks -> Sessions \union {None}]
      /\ \A o \in Offers : Id(o) \in Ids
  BY DEF TypeOK, AppStates, Ids
<1>1. CASE UNCHANGED vars
  BY <1>1 DEF vars, consul, TypeOK, RunningHasPort
<1>2. ASSUME NEW a \in Apps, Start(a) PROVE TypeOK' /\ RunningHasPort'
  <2>1. Free # {} => Min(Free) \in Ports
    <3>1. Free \subseteq Nat /\ Free \subseteq Ports
      BY DEF Free
    <3> HIDE DEF Free
    <3> QED
      BY <3>1, MinIsElement
  <2>2. app' \in [Apps -> AppStates]
    BY <1>0, <1>2, <2>1 DEF Start, AppStates
  <2>3. RunningHasPort'
    BY <1>0, <1>2, <2>1 DEF Start, AppStates, RunningHasPort
  <2> QED
    BY <1>2, <2>2, <2>3 DEF Start, TypeOK, consul, AppStates
<1>3. ASSUME NEW a \in Apps, EndListener(a) PROVE TypeOK' /\ RunningHasPort'
  BY <1>3 DEF EndListener, TypeOK, RunningHasPort, consul
<1>4. ASSUME NEW a \in Apps, End(a) PROVE TypeOK' /\ RunningHasPort'
  <2>1. app' \in [Apps -> AppStates] /\ RunningHasPort'
    BY <1>0, <1>4 DEF End, AppStates, Down, RunningHasPort
  <2>2. \A id \in Ids : [catalogue[id] EXCEPT !.by = None] \in Entries \/ catalogue[id] = None
    BY <1>0 DEF Entries
  <2>3. catalogue' \in [Ids -> Entries \union {None}]
    BY <1>0, <1>4, <2>2 DEF End
  <2>4. deaths' \in 0..MaxDeaths
    BY <1>4 DEF End, TypeOK
  <2> QED
    BY <1>4, <2>1, <2>3, <2>4 DEF End, TypeOK, AppStates
<1>5. ASSUME NEW a \in Apps, NEW o \in Offers, Register(a, o)
      PROVE  TypeOK' /\ RunningHasPort'
  <2>1. ASSUME UNCHANGED app
        PROVE  app' \in [Apps -> AppStates] /\ RunningHasPort'
    BY <1>0, <2>1 DEF RunningHasPort
  <2>2. ASSUME app' = [app EXCEPT ![a].services = @ \union {Id(o)}, ![a].destructed = FALSE]
        PROVE  app' \in [Apps -> AppStates] /\ RunningHasPort'
    <3> DEFINE r == [app[a] EXCEPT !.services = @ \union {Id(o)}, !.destructed = FALSE]
    <3>1. app' = [app EXCEPT ![a] = r]
      BY <1>0, <2>2
    <3>2. app[a] \in AppStates
      BY <1>0
    <3>3. r \in AppStates /\ r.running = app[a].running /\ r.port = app[a].port
      BY <1>0, <3>2, ZenonT(60) DEF AppStates
    <3> HIDE DEF r
    <3> QED
      BY <1>0, <3>1, <3>3, AppUpdate DEF RunningHasPort
  <2>3. app' \in [Apps -> AppStates] /\ RunningHasPort'
    BY <1>0, <1>5, <2>1, <2>2 DEF Register, Remember
  <2>4. app[a].port \in Ports
    BY <1>5 DEF Register, CanCall, RunningHasPort
  <2>5. \A recorded \in BOOLEAN : Entry(a, o, recorded) \in Entries
    BY <2>4 DEF Entry, Entries
  <2>6. catalogue' \in [Ids -> Entries \union {None}]
    BY <1>0, <1>5, <2>5 DEF Register
  <2> QED
    BY <1>5, <2>3, <2>6 DEF Register, TypeOK, AppStates
<1>6. ASSUME NEW a \in Apps, NEW id \in Ids, Deregister(a, id)
      PROVE  TypeOK' /\ RunningHasPort'
  BY <1>6 DEF Deregister, Forget, TypeOK, RunningHasPort
<1>7. ASSUME NEW a \in Apps, NEW l \in Locks, Acquire(a, l)
      PROVE  TypeOK' /\ RunningHasPort'
  <2> DEFINE s == created + 1
  <2>1. s \in Sessions /\ s \in 0..MaxSessions
    BY <1>7 DEF Acquire, TypeOK, Sessions
  <2>2. lock' \in [Locks -> Sessions \union {None}]
    BY <1>0, <1>7, <2>1 DEF Acquire
  <2>3. app' \in [Apps -> AppStates] /\ RunningHasPort'
    BY <1>0, <1>7, <2>1 DEF Acquire, AppStates, RunningHasPort
  <2>4. sessions' \subseteq Sessions /\ created' \in 0..MaxSessions
    BY <1>7, <2>1 DEF Acquire, TypeOK
  <2> QED
    BY <1>7, <2>2, <2>3, <2>4 DEF Acquire, TypeOK, AppStates
<1>8. ASSUME NEW a \in Apps, NEW name \in Names, Release(a, name)
      PROVE  TypeOK' /\ RunningHasPort'
  <2>1. lock' \in [Locks -> Sessions \union {None}]
    BY <1>0, <1>8 DEF Release, Dropped
  <2>2. ASSUME app' = [app EXCEPT ![a].held = None, ![a].session = None,
                                  ![a].doubtful = FALSE]
        PROVE  app' \in [Apps -> AppStates] /\ RunningHasPort'
    <3> DEFINE r == [app[a] EXCEPT !.held = None, !.session = None, !.doubtful = FALSE]
    <3>1. app' = [app EXCEPT ![a] = r]
      BY <1>0, <2>2
    <3>2. app[a] \in AppStates
      BY <1>0
    <3>3. r \in AppStates /\ r.running = app[a].running /\ r.port = app[a].port
      BY <1>0, <3>2 DEF AppStates
    <3> HIDE DEF r
    <3> QED
      BY <1>0, <3>1, <3>3, AppUpdate DEF RunningHasPort
  <2>3. ASSUME app' = [app EXCEPT ![a].doubtful = TRUE]
        PROVE  app' \in [Apps -> AppStates] /\ RunningHasPort'
    <3> DEFINE r == [app[a] EXCEPT !.doubtful = TRUE]
    <3>1. app' = [app EXCEPT ![a] = r]
      BY <1>0, <2>3
    <3>2. app[a] \in AppStates
      BY <1>0
    <3>3. r \in AppStates /\ r.running = app[a].running /\ r.port = app[a].port
      BY <1>0, <3>2 DEF AppStates
    <3> HIDE DEF r
    <3> QED
      BY <1>0, <3>1, <3>3, AppUpdate DEF RunningHasPort
  <2> QED
    BY <1>8, <2>1, <2>2, <2>3 DEF Release, TypeOK, AppStates
<1>9. ASSUME NEW a \in Apps, BeginDestruct(a) PROVE TypeOK' /\ RunningHasPort'
  <2>1. ASSUME app' = [app EXCEPT ![a].pc = "deregistering",
                                  ![a].left = app[a].services]
        PROVE  app' \in [Apps -> AppStates] /\ RunningHasPort'
    <3> DEFINE r == [app[a] EXCEPT !.pc = "deregistering", !.left = app[a].services]
    <3>1. app' = [app EXCEPT ![a] = r]
      BY <1>0, <2>1
    <3>2. app[a] \in AppStates
      BY <1>0
    <3>3. r \in AppStates /\ r.running = app[a].running /\ r.port = app[a].port
      BY <1>0, <3>2 DEF AppStates
    <3> HIDE DEF r
    <3> QED
      BY <1>0, <3>1, <3>3, AppUpdate DEF RunningHasPort
  <2> QED
    BY <1>9, <2>1 DEF BeginDestruct, TypeOK, AppStates, consul
<1>10. ASSUME NEW a \in Apps, JoinListener(a) PROVE TypeOK' /\ RunningHasPort'
  <2>1. app' \in [Apps -> AppStates] /\ RunningHasPort'
    BY <1>0, <1>10 DEF JoinListener, AppStates, RunningHasPort
  <2> QED
    BY <1>10, <2>1 DEF JoinListener, TypeOK, AppStates, consul
<1>11. ASSUME NEW a \in Apps, EndDestruct(a) PROVE TypeOK' /\ RunningHasPort'
  <2>1. lock' \in [Locks -> Sessions \union {None}]
    BY <1>0, <1>11 DEF EndDestruct, Dropped
  <2>2. ASSUME app' = [app EXCEPT ![a].pc = "idle", ![a].destructed = TRUE,
                                  ![a].held = None, ![a].session = None,
                                  ![a].doubtful = FALSE]
        PROVE  app' \in [Apps -> AppStates] /\ RunningHasPort'
    <3> DEFINE r == [app[a] EXCEPT !.pc = "idle", !.destructed = TRUE, !.held = None,
                                   !.session = None, !.doubtful = FALSE]
    <3>1. app' = [app EXCEPT ![a] = r]
      BY <1>0, <2>2
    <3>2. app[a] \in AppStates
      BY <1>0
    <3>3. r \in AppStates /\ r.running = app[a].running /\ r.port = app[a].port
      BY <1>0, <3>2 DEF AppStates
    <3> HIDE DEF r
    <3> QED
      BY <1>0, <3>1, <3>3, AppUpdate DEF RunningHasPort
  <2>3. ASSUME app' = [app EXCEPT ![a].pc = "idle", ![a].doubtful = TRUE]
        PROVE  app' \in [Apps -> AppStates] /\ RunningHasPort'
    <3> DEFINE r == [app[a] EXCEPT !.pc = "idle", !.doubtful = TRUE]
    <3>1. app' = [app EXCEPT ![a] = r]
      BY <1>0, <2>3
    <3>2. app[a] \in AppStates
      BY <1>0
    <3>3. r \in AppStates /\ r.running = app[a].running /\ r.port = app[a].port
      BY <1>0, <3>2 DEF AppStates
    <3> HIDE DEF r
    <3> QED
      BY <1>0, <3>1, <3>3, AppUpdate DEF RunningHasPort
  <2> QED
    BY <1>11, <2>1, <2>2, <2>3 DEF EndDestruct, TypeOK, AppStates
<1>12. ASSUME NEW a \in Apps, NEW id \in Ids, DestructService(a, id)
       PROVE  TypeOK' /\ RunningHasPort'
  <2>1. ASSUME app' = [app EXCEPT ![a].left = @ \ {id}]
        PROVE  app' \in [Apps -> AppStates] /\ RunningHasPort'
    <3> DEFINE r == [app[a] EXCEPT !.left = @ \ {id}]
    <3>1. app' = [app EXCEPT ![a] = r]
      BY <1>0, <2>1
    <3>2. app[a] \in AppStates
      BY <1>0
    <3>3. r \in AppStates /\ r.running = app[a].running /\ r.port = app[a].port
      BY <1>0, <3>2 DEF AppStates
    <3> HIDE DEF r
    <3> QED
      BY <1>0, <3>1, <3>3, AppUpdate DEF RunningHasPort
  <2>2. ASSUME app' = [app EXCEPT ![a].pc = "idle", ![a].left = {}]
        PROVE  app' \in [Apps -> AppStates] /\ RunningHasPort'
    <3> DEFINE r == [app[a] EXCEPT !.pc = "idle", !.left = {}]
    <3>1. app' = [app EXCEPT ![a] = r]
      BY <1>0, <2>2
    <3>2. app[a] \in AppStates
      BY <1>0
    <3>3. r \in AppStates /\ r.running = app[a].running /\ r.port = app[a].port
      BY <1>0, <3>2 DEF AppStates
    <3> HIDE DEF r
    <3> QED
      BY <1>0, <3>1, <3>3, AppUpdate DEF RunningHasPort
  <2>3. catalogue' \in [Ids -> Entries \union {None}]
    BY <1>0, <1>12 DEF DestructService, Forget
  <2> QED
    BY <1>12, <2>1, <2>2, <2>3 DEF DestructService, TypeOK, AppStates
<1>13. ASSUME NEW id \in Ids, Clear(id) PROVE TypeOK' /\ RunningHasPort'
  BY <1>13 DEF Clear, Forget, TypeOK, RunningHasPort
<1>14. ASSUME NEW id \in Ids, Check(id) PROVE TypeOK' /\ RunningHasPort'
  <2>1. [catalogue[id] EXCEPT !.passing = ~@] \in Entries
    BY <1>0, <1>14, ZenonT(60) DEF Check, Entries
  <2> QED
    BY <1>0, <1>14, <2>1 DEF Check, TypeOK, RunningHasPort
<1>15. ASSUME NEW s \in Sessions, Expire(s) PROVE TypeOK' /\ RunningHasPort'
  <2>1. lock' \in [Locks -> Sessions \union {None}]
    BY <1>0, <1>15 DEF Expire
  <2> QED
    BY <1>15, <2>1 DEF Expire, TypeOK, RunningHasPort
<1> QED
  BY <1>1, <1>2, <1>3, <1>4, <1>5, <1>6, <1>7, <1>8, <1>9, <1>10, <1>11,
     <1>12, <1>13, <1>14, <1>15 DEF Next, Serve, Announce, LockUp, Destruct

LEMMA TypeInvariant == Spec => [](TypeOK /\ RunningHasPort)
<1>1. Init => TypeOK /\ RunningHasPort
  BY ConsulBounds DEF Init, TypeOK, RunningHasPort, Down, Ids, Sessions
<1>2. TypeOK /\ RunningHasPort /\ [Next]_vars => (TypeOK /\ RunningHasPort)'
  BY TypeStep
<1> QED
  BY <1>1, <1>2, PTL DEF Spec

(* Type correctness: every variable keeps its type in every behaviour of    *)
(* ConsulApp, its listener and the agent.                                   *)
THEOREM TypeCorrect == Spec => []TypeOK
BY TypeInvariant, PTL

-----------------------------------------------------------------------------
(* The inductive invariant *)

(* A session is one process's, and is known to it only with the lock it was *)
(* created for.                                                             *)
LockInv ==
    /\ sessions \subseteq 1..created
    /\ \A l \in Locks : lock[l] = None \/ lock[l] \in 1..created
    /\ \A a \in Apps : /\ app[a].session = None \/ app[a].session \in 1..created
                       /\ app[a].held = None <=> app[a].session = None
    /\ \A a, b \in Apps :
         a # b /\ app[a].session # None => app[a].session # app[b].session
    /\ HeldIsLocked

(* An entry that register recorded is on its maker's list, and while that   *)
(* one destructs, among the services it has left to deregister.             *)
CatalogueInv ==
    \A id \in Ids : catalogue[id] # None /\ catalogue[id].recorded =>
        \A a \in Apps : catalogue[id].by = a =>
            /\ id \in app[a].services /\ ~app[a].destructed
            /\ app[a].pc \in {"idle", "deregistering"}
            /\ app[a].pc = "deregistering" => id \in app[a].left

LEMMA ConsulInvInit == Init => LockInv /\ CatalogueInv
BY DEF Init, Down, LockInv, HeldIsLocked, CatalogueInv

(* What LockInv speaks of. *)
LockState(a) == <<app[a].held, app[a].session, app[a].doubtful>>

LEMMA LocksUntouched ==
    ASSUME LockInv, UNCHANGED <<sessions, lock, created>>,
           \A a \in Apps : LockState(a)' = LockState(a)
    PROVE  LockInv'
BY DEF LockInv, LockState, HeldIsLocked

(* A process that forgets its session, and may drop a lock of it. *)
LEMMA SessionForgotten ==
    ASSUME TypeOK, LockInv, NEW a \in Apps, NEW name,
           UNCHANGED <<sessions, created>>, lock' \in {lock, Dropped(a, name)},
           app'[a].held = None, app'[a].session = None,
           \A b \in Apps : b # a => LockState(b)' = LockState(b)
    PROVE  LockInv'
<1>1. \A l \in Locks : lock'[l] = lock[l]
                       \/ (lock'[l] = None /\ lock[l] = app[a].session)
  BY DEF Dropped
<1>2. \A b \in Apps : b # a => /\ app'[b].held = app[b].held
                               /\ app'[b].session = app[b].session
                               /\ app'[b].doubtful = app[b].doubtful
  BY DEF LockState
<1>3. \A b \in Apps : app[b].held \in Locks \union {None}
  BY DEF TypeOK
<1>4. HeldIsLocked'
  BY <1>1, <1>2, <1>3 DEF LockInv, HeldIsLocked
<1> QED
  BY <1>1, <1>2, <1>4 DEF LockInv

(* A release that raises: the process doubts what it holds. *)
LEMMA SessionDoubted ==
    ASSUME TypeOK, LockInv, NEW a \in Apps, NEW name,
           UNCHANGED <<sessions, created>>, lock' \in {lock, Dropped(a, name)},
           app'[a].held = app[a].held, app'[a].session = app[a].session,
           app'[a].doubtful, app[a].session # None,
           \A b \in Apps : b # a => LockState(b)' = LockState(b)
    PROVE  LockInv'
<1>1. \A l \in Locks : lock'[l] = lock[l]
                       \/ (lock'[l] = None /\ lock[l] = app[a].session)
  BY DEF Dropped
<1>2. \A b \in Apps : b # a => /\ app'[b].held = app[b].held
                               /\ app'[b].session = app[b].session
                               /\ app'[b].doubtful = app[b].doubtful
  BY DEF LockState
<1>3. \A b \in Apps : app[b].held \in Locks \union {None}
  BY DEF TypeOK
<1>4. HeldIsLocked'
  BY <1>1, <1>2, <1>3 DEF LockInv, HeldIsLocked
<1> QED
  BY <1>1, <1>2, <1>4 DEF LockInv

(* What CatalogueInv speaks of. *)
ServiceState(a) ==
    <<app[a].services, app[a].left, app[a].pc, app[a].destructed>>

(* Entries may go, or change their check, while no process moves. *)
LEMMA CatalogueThins ==
    ASSUME CatalogueInv, \A a \in Apps : ServiceState(a)' = ServiceState(a),
           \A id \in Ids : catalogue'[id] # None /\ catalogue'[id].recorded =>
             /\ catalogue[id] # None /\ catalogue[id].recorded
             /\ catalogue'[id].by = catalogue[id].by
    PROVE  CatalogueInv'
BY DEF CatalogueInv, ServiceState

LEMMA ConsulInvStep ==
    ASSUME TypeOK, LockInv, CatalogueInv, [Next]_vars
    PROVE  LockInv' /\ CatalogueInv'
<1>0. /\ app \in [Apps -> AppStates]
      /\ \A a \in Apps : app[a] \in AppStates
      /\ catalogue \in [Ids -> Entries \union {None}]
      /\ lock \in [Locks -> Sessions \union {None}]
      /\ created \in Nat
      /\ \A o \in Offers : Id(o) \in Ids
      /\ None \notin Nat /\ None \notin Apps /\ None \notin Entries /\ None \notin Locks
  BY ConsulBounds, NoneIsNoEntry DEF TypeOK, AppStates, Ids
<1>1. CASE UNCHANGED vars
  BY <1>1 DEF vars, consul, LockInv, HeldIsLocked, CatalogueInv
<1>2. ASSUME NEW a \in Apps, Start(a) PROVE LockInv' /\ CatalogueInv'
  <2>1. /\ app[a].pc = "down" /\ UNCHANGED <<catalogue, sessions, lock, created>>
        /\ \A b \in Apps : /\ LockState(b)' = LockState(b)
                           /\ b # a => app'[b] = app[b]
    BY <1>0, <1>2 DEF Start, consul, LockState, AppStates
  <2>2. \A id \in Ids : catalogue[id] # None /\ catalogue[id].recorded =>
          catalogue[id].by # a
    BY <2>1 DEF CatalogueInv
  <2>3. CatalogueInv'
    BY <2>1, <2>2 DEF CatalogueInv
  <2> QED
    BY <2>1, <2>3, LocksUntouched
<1>3. ASSUME NEW a \in Apps, EndListener(a) PROVE LockInv' /\ CatalogueInv'
  BY <1>3 DEF EndListener, consul, LockInv, HeldIsLocked, CatalogueInv
<1>4. ASSUME NEW a \in Apps, End(a) PROVE LockInv' /\ CatalogueInv'
  <2>1. /\ app'[a] = Down /\ \A b \in Apps : b # a => app'[b] = app[b]
        /\ UNCHANGED <<sessions, lock, created>>
    BY <1>0, <1>4 DEF End
  <2>2. \A id \in Ids : catalogue'[id] # None /\ catalogue'[id].recorded =>
          /\ catalogue[id] # None /\ catalogue[id].recorded
          /\ catalogue'[id].by # a
          /\ catalogue'[id].by \in Apps => catalogue'[id].by = catalogue[id].by
    BY <1>0, <1>4 DEF End, Entries
  <2>3. CatalogueInv'
    BY <2>1, <2>2 DEF CatalogueInv
  <2>4. LockInv'
    BY <2>1, SessionForgotten DEF Down, LockState
  <2> QED
    BY <2>3, <2>4
<1>5. ASSUME NEW a \in Apps, NEW o \in Offers, Register(a, o)
      PROVE  LockInv' /\ CatalogueInv'
  <2>1. /\ app[a].pc = "idle" /\ UNCHANGED <<sessions, lock, created>>
        /\ \A id \in Ids : id # Id(o) => catalogue'[id] = catalogue[id]
        /\ catalogue'[Id(o)].by = a
        /\ \A b \in Apps : b # a => app'[b] = app[b]
    BY <1>0, <1>5 DEF Register, CanCall, Entry
  <2>2. \A b \in Apps : LockState(b)' = LockState(b)
    <3>1. app' = [app EXCEPT ![a].services = @ \union {Id(o)}, ![a].destructed = FALSE]
          \/ app' = app
      BY <1>5 DEF Register, Remember
    <3>2. /\ app'[a].held = app[a].held /\ app'[a].session = app[a].session
          /\ app'[a].doubtful = app[a].doubtful
      BY <1>0, <3>1 DEF AppStates
    <3> QED
      BY <2>1, <3>2 DEF LockState
  <2>3. \/ catalogue'[Id(o)].recorded /\ app'[a].pc = "idle" /\ ~app'[a].destructed
           /\ app'[a].services = app[a].services \union {Id(o)}
        \/ ~catalogue'[Id(o)].recorded /\ app' = app
    BY <1>0, <1>5, <2>1 DEF Register, Remember, Entry, AppStates
  <2>4. CatalogueInv'
    BY <2>1, <2>3 DEF CatalogueInv
  <2> QED
    BY <2>1, <2>2, <2>4, LocksUntouched
<1>6. ASSUME NEW a \in Apps, NEW id \in Ids, Deregister(a, id)
      PROVE  LockInv' /\ CatalogueInv'
  <2>1. CatalogueInv'
    BY <1>0, <1>6, CatalogueThins DEF Deregister, Forget, ServiceState
  <2> QED
    BY <1>6, <2>1, LocksUntouched DEF Deregister, LockState
<1>7. ASSUME NEW a \in Apps, NEW l \in Locks, Acquire(a, l)
      PROVE  LockInv' /\ CatalogueInv'
  <2> DEFINE s == created + 1
  <2>1. /\ app[a].held = None /\ app[a].session = None
        /\ created' = s /\ sessions' = sessions \union {s}
        /\ \A m \in Locks : lock'[m] = lock[m] \/ (m = l /\ lock'[m] = s /\ lock[m] \in {None, s})
        /\ UNCHANGED catalogue
    <3>1. /\ app[a].held = None /\ created' = s /\ sessions' = sessions \union {s}
          /\ UNCHANGED catalogue
          /\ lock' = lock \/ (Grants(l, s) /\ lock' = [lock EXCEPT ![l] = s])
      BY <1>7 DEF Acquire
    <3>2. app[a].session = None
      BY <3>1 DEF LockInv
    <3> HIDE DEF s
    <3> QED
      BY <1>0, <3>1, <3>2 DEF Grants
  <2>2. /\ \A b \in Apps : b # a => app'[b] = app[b]
        /\ ServiceState(a)' = ServiceState(a)
        /\ \/ app'[a] = app[a]
           \/ app'[a].held = l /\ app'[a].session = s /\ lock'[l] = s
    BY <1>0, <1>7 DEF Acquire, ServiceState, AppStates
  <2>3. s \notin 1..created /\ 1..created \subseteq 1..s /\ s \in 1..s /\ s # None
    BY <1>0
  <2> HIDE DEF s
  <2>4. HeldIsLocked'
    <3> SUFFICES ASSUME NEW b \in Apps, app'[b].held # None, ~app'[b].doubtful,
                        app'[b].session \in sessions'
                 PROVE  lock'[app'[b].held] = app'[b].session
      BY DEF HeldIsLocked
    <3>1. CASE b = a /\ app'[a] # app[a]
      BY <2>2, <3>1
    <3>2. CASE ~(b = a /\ app'[a] # app[a])
      <4>1. app'[b] = app[b] /\ app[b].held \in Locks /\ app[b].session \in 1..created
        <5>1. app'[b] = app[b]
          BY <2>2, <3>2
        <5>2. app[b].held \in Locks \union {None} /\ app[b].held # None
          BY <5>1 DEF TypeOK
        <5>3. app[b].session # None
          BY <5>2 DEF LockInv
        <5> QED
          BY <5>1, <5>2, <5>3 DEF LockInv
      <4>2. app[b].session \in sessions
        BY <2>1, <2>3, <4>1
      <4>3. lock[app[b].held] = app[b].session /\ app[b].session \notin {None, s}
        BY <1>0, <2>3, <4>1, <4>2 DEF LockInv, HeldIsLocked
      <4> QED
        BY <2>1, <4>1, <4>3
    <3> QED
      BY <3>1, <3>2
  <2>5. LockInv'
    <3>1. sessions' \subseteq 1..created'
      BY <2>1, <2>3 DEF LockInv
    <3>2. \A m \in Locks : lock'[m] = None \/ lock'[m] \in 1..created'
      BY <2>1, <2>3 DEF LockInv
    <3>3. \A b \in Apps : \/ app'[b].held = app[b].held /\ app'[b].session = app[b].session
                          \/ b = a /\ app'[b].held = l /\ app'[b].session = s
      BY <2>2
    <3>4. \A b \in Apps : /\ app'[b].session = None \/ app'[b].session \in 1..created'
                          /\ app'[b].held = None <=> app'[b].session = None
      BY <1>0, <2>1, <2>3, <3>3 DEF LockInv
    <3>5. ASSUME NEW b \in Apps, NEW c \in Apps, b # c, app'[b].session # None
          PROVE  app'[b].session # app'[c].session
      BY <2>1, <2>3, <3>3, <3>5 DEF LockInv
    <3> QED
      BY <2>4, <3>1, <3>2, <3>4, <3>5 DEF LockInv
  <2>6. CatalogueInv'
    BY <2>1, <2>2, CatalogueThins DEF ServiceState
  <2> QED
    BY <2>5, <2>6
<1>8. ASSUME NEW a \in Apps, NEW name \in Names, Release(a, name)
      PROVE  LockInv' /\ CatalogueInv'
  <2>1. /\ app[a].session # None /\ UNCHANGED <<catalogue, sessions, created>>
        /\ lock' \in {lock, Dropped(a, name)}
        /\ \A b \in Apps : b # a => app'[b] = app[b]
    BY <1>0, <1>8 DEF Release
  <2>2. \/ app'[a].held = None /\ app'[a].session = None
        \/ app'[a].held = app[a].held /\ app'[a].session = app[a].session /\ app'[a].doubtful
    BY <1>0, <1>8 DEF Release, AppStates
  <2>3. ServiceState(a)' = ServiceState(a)
    BY <1>0, <1>8 DEF Release, ServiceState, AppStates
  <2>4. LockInv'
    BY <2>1, <2>2, SessionForgotten, SessionDoubted DEF LockState
  <2>5. CatalogueInv'
    BY <2>1, <2>3, CatalogueThins DEF ServiceState
  <2> QED
    BY <2>4, <2>5
<1>9. ASSUME NEW a \in Apps, BeginDestruct(a) PROVE LockInv' /\ CatalogueInv'
  <2>1. /\ UNCHANGED <<catalogue, sessions, lock, created>>
        /\ \A b \in Apps : b # a => app'[b] = app[b]
        /\ app'[a].pc = "deregistering" /\ app'[a].left = app[a].services
        /\ app'[a].services = app[a].services /\ app'[a].destructed = app[a].destructed
        /\ LockState(a)' = LockState(a)
    BY <1>0, <1>9 DEF BeginDestruct, consul, LockState, AppStates
  <2>2. LockInv'
    BY <2>1, LocksUntouched DEF LockState
  <2>3. CatalogueInv'
    BY <2>1 DEF CatalogueInv
  <2> QED
    BY <2>2, <2>3
<1>10. ASSUME NEW a \in Apps, JoinListener(a) PROVE LockInv' /\ CatalogueInv'
  <2>1. /\ UNCHANGED <<catalogue, sessions, lock, created>>
        /\ app[a].pc = "deregistering" /\ app[a].left = {}
        /\ \A b \in Apps : b # a => app'[b] = app[b]
        /\ LockState(a)' = LockState(a)
    BY <1>0, <1>10 DEF JoinListener, consul, LockState, AppStates
  <2>2. LockInv'
    BY <2>1, LocksUntouched DEF LockState
  <2>3. \A id \in Ids : catalogue[id] # None /\ catalogue[id].recorded =>
          catalogue[id].by # a
    BY <2>1 DEF CatalogueInv
  <2>4. CatalogueInv'
    BY <2>1, <2>3 DEF CatalogueInv
  <2> QED
    BY <2>2, <2>4
<1>11. ASSUME NEW a \in Apps, EndDestruct(a) PROVE LockInv' /\ CatalogueInv'
  <2>1. /\ app[a].pc = "joining" /\ UNCHANGED <<catalogue, sessions, created>>
        /\ lock' \in {lock, Dropped(a, app[a].held)}
        /\ \A b \in Apps : b # a => app'[b] = app[b]
    BY <1>0, <1>11 DEF EndDestruct
  <2>2. \/ app'[a].held = None /\ app'[a].session = None
        \/ /\ app'[a].held = app[a].held /\ app'[a].session = app[a].session
           /\ app'[a].doubtful /\ app[a].held # None
    BY <1>0, <1>11 DEF EndDestruct, AppStates
  <2>3. app[a].held # None => app[a].session # None
    BY DEF LockInv
  <2>4. LockInv'
    BY <2>1, <2>2, <2>3, SessionForgotten, SessionDoubted DEF LockState
  <2>5. \A id \in Ids : catalogue[id] # None /\ catalogue[id].recorded =>
          catalogue[id].by # a
    BY <2>1 DEF CatalogueInv
  <2>6. CatalogueInv'
    BY <2>1, <2>5 DEF CatalogueInv
  <2> QED
    BY <2>4, <2>6
<1>12. ASSUME NEW a \in Apps, NEW id \in Ids, DestructService(a, id)
       PROVE  LockInv' /\ CatalogueInv'
  <2>1. /\ UNCHANGED <<sessions, lock, created>>
        /\ app[a].pc = "deregistering"
        /\ \A b \in Apps : b # a => app'[b] = app[b]
        /\ \A i \in Ids : catalogue'[i] = catalogue[i] \/ (i = id /\ catalogue'[i] = None)
    BY <1>0, <1>12 DEF DestructService, Forget
  <2>2. LockState(a)' = LockState(a)
    BY <1>0, <1>12 DEF DestructService, LockState, AppStates
  <2>3. /\ app'[a].services = app[a].services /\ app'[a].destructed = app[a].destructed
        /\ \/ app'[a].pc = "idle"
           \/ /\ app'[a].pc = "deregistering" /\ app'[a].left = app[a].left \ {id}
              /\ catalogue'[id] = None
    BY <1>0, <1>12 DEF DestructService, Forget, AppStates
  <2>4. LockInv'
    BY <2>1, <2>2, LocksUntouched DEF LockState
  <2>5. CatalogueInv'
    BY <2>1, <2>3 DEF CatalogueInv
  <2> QED
    BY <2>4, <2>5
<1>13. ASSUME NEW id \in Ids, Clear(id) PROVE LockInv' /\ CatalogueInv'
  <2>1. CatalogueInv'
    BY <1>0, <1>13, CatalogueThins DEF Clear, Forget, ServiceState
  <2> QED
    BY <1>13, <2>1, LocksUntouched DEF Clear, LockState
<1>14. ASSUME NEW id \in Ids, Check(id) PROVE LockInv' /\ CatalogueInv'
  <2>1. /\ catalogue[id] # None
        /\ catalogue'[id].recorded = catalogue[id].recorded
        /\ catalogue'[id].by = catalogue[id].by
        /\ \A i \in Ids : i # id => catalogue'[i] = catalogue[i]
    BY <1>0, <1>14 DEF Check, Entries
  <2>2. CatalogueInv'
    BY <1>14, <2>1, CatalogueThins DEF Check, ServiceState
  <2> QED
    BY <1>14, <2>2, LocksUntouched DEF Check, LockState
<1>15. ASSUME NEW s \in Sessions, Expire(s) PROVE LockInv' /\ CatalogueInv'
  <2>1. /\ sessions' = sessions \ {s} /\ UNCHANGED <<app, catalogue, created>>
        /\ \A l \in Locks : lock'[l] = IF lock[l] = s THEN None ELSE lock[l]
    BY <1>15 DEF Expire
  <2>2. \A a \in Apps : app[a].held \in Locks \union {None}
    BY DEF TypeOK
  <2>3. HeldIsLocked'
    BY <2>1, <2>2 DEF LockInv, HeldIsLocked
  <2>4. LockInv'
    BY <2>1, <2>3 DEF LockInv
  <2>5. CatalogueInv'
    BY <2>1 DEF CatalogueInv
  <2> QED
    BY <2>4, <2>5
<1> QED
  BY <1>1, <1>2, <1>3, <1>4, <1>5, <1>6, <1>7, <1>8, <1>9, <1>10, <1>11,
     <1>12, <1>13, <1>14, <1>15 DEF Next, Serve, Announce, LockUp, Destruct

LEMMA ConsulInvariant == Spec => [](LockInv /\ CatalogueInv)
<1>1. Init => LockInv /\ CatalogueInv
  BY ConsulInvInit
<1>2. TypeOK /\ LockInv /\ CatalogueInv /\ [Next]_vars => (LockInv /\ CatalogueInv)'
  BY ConsulInvStep
<1> QED
  BY <1>1, <1>2, TypeInvariant, PTL DEF Spec

(* While its session lives, a process that believes it holds a lock holds   *)
(* it, unless release_lock raised: acquire_lock creates a session for every *)
(* attempt, and nothing but that session's own release takes the lock away. *)
THEOREM HeldIsLockedTheorem == Spec => []HeldIsLocked
<1>1. LockInv => HeldIsLocked
  BY DEF LockInv
<1> QED
  BY <1>1, ConsulInvariant, PTL

(* get_services finds nothing that a process registered, remembered and     *)
(* destructed: destruct deregisters every id register has kept.             *)
THEOREM DestructedAreGoneTheorem == Spec => []DestructedAreGone
<1>1. CatalogueInv => DestructedAreGone
  BY DEF CatalogueInv, DestructedAreGone, Found
<1> QED
  BY <1>1, ConsulInvariant, PTL
=============================================================================
