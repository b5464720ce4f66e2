--------------------------- MODULE ConsulServices ---------------------------
(***************************************************************************)
(* consul_services.py and threads.py of cntools_py3/cnlib: processes of    *)
(* one application on one host announce services to the local Consul       *)
(* agent, with an HTTP listener of their own as the health check, look     *)
(* services up, and take locks that Consul keeps for a session.            *)
(*                                                                         *)
(* A call to Consul can answer, or raise whether or not it was carried out. *)
(* A process uses its ConsulApp in one thread; the listener is another.    *)
(* Killed, it leaves its services and sessions to Consul.  A session has a *)
(* time to live, which nobody renews.                                      *)
(***************************************************************************)
EXTENDS Integers, FiniteSets, FiniteSetsExt, SequencesExt

CONSTANTS Apps,         \* processes with a ConsulApp of the same appname
          Ports,        \* the ports a listener tries, in order
          Offers,       \* the services: [name, zone, tag, version]
          Locks,        \* names of locks that are acquired
          Names,        \* names that release_lock is called with
          MaxSessions,  \* bound: sessions created
          MaxDeaths,    \* bound: processes that end
          None          \* no port, lock, session, entry; an argument not given

Id(offer) == <<offer.name, offer.zone, offer.tag>>
Ids == {Id(o) : o \in Offers}
Sessions == 1..MaxSessions

ASSUME ConsulBounds ==
    /\ Ports \subseteq Nat /\ MaxSessions \in Nat /\ MaxDeaths \in Nat
    /\ \A o \in Offers : DOMAIN o = {"name", "zone", "tag", "version"} /\ o.version \in Nat
    /\ None \notin Nat \union Locks \union Apps /\ Locks \subseteq Names

VARIABLES app,        \* each process: its ConsulApp and where its call stands
          listener,   \* its HTTPEndpoint
          catalogue,  \* external: the agent's entry for a service id
          sessions,   \* external: the sessions Consul knows
          lock,       \* external: the session that holds a lock
          created,    \* sessions created so far
          deaths      \* processes that ended

consul == <<catalogue, sessions, lock>>
vars == <<app, listener, consul, created, deaths>>

(* A process before ConsulApp().  Ghosts: whether a release of the lock it   *)
(* holds has raised, and whether destruct is the last thing it did.         *)
Down == [pc |-> "down", running |-> FALSE, port |-> None, services |-> {}, left |-> {},
         held |-> None, session |-> None, doubtful |-> FALSE, destructed |-> FALSE]

Init ==
    /\ app = [a \in Apps |-> Down]
    /\ listener = [a \in Apps |-> "none"]
    /\ catalogue = [i \in Ids |-> None]
    /\ sessions = {} /\ lock = [l \in Locks |-> None]
    /\ created = 0 /\ deaths = 0

-----------------------------------------------------------------------------
(* ConsulApp() and its HTTPEndpoint *)

Free == Ports \ {app[a].port : a \in Apps}

(* Without an agent, a free port or the addresses of the host the object is *)
(* not running; else its listener is bound to the first free port.          *)
Start(a) ==
    /\ app[a].pc = "down"
    /\ \/ /\ app' = [app EXCEPT ![a].pc = "idle"]
          /\ UNCHANGED listener
       \/ /\ Free # {}
          /\ app' = [app EXCEPT ![a].pc = "idle", ![a].running = TRUE, ![a].port = Min(Free)]
          /\ listener' = [listener EXCEPT ![a] = "serving"]
    /\ UNCHANGED <<consul, created, deaths>>

(* join() sets the event that stopped reads, and waits for the thread. *)
StopRequested(a) == app[a].pc = "joining"

(* run() ends once stopped is set.  The socket stays bound. *)
EndListener(a) ==
    /\ listener[a] = "serving" /\ StopRequested(a)
    /\ listener' = [listener EXCEPT ![a] = "ended"]
    /\ UNCHANGED <<app, consul, created, deaths>>

Answers(port) == \E a \in Apps : app[a].port = port /\ listener[a] = "serving"

-----------------------------------------------------------------------------
(* Services *)

CanCall(a) == app[a].pc = "idle" /\ app[a].running

(* The check starts as passing, before the agent has called it once.  Who   *)
(* made the entry, and whether register returned its id, are ghosts.        *)
Entry(a, offer, recorded) ==
    [version |-> offer.version, check |-> app[a].port, passing |-> TRUE,
     by |-> a, recorded |-> recorded]

(* A mistake the properties must expose: the id is returned, not kept.      *)
RememberNothing(services, id) == services

Remember(services, id) == services \union {id}

(* register: the id is remembered only if the agent's answer says so.       *)
Register(a, offer) ==
    /\ CanCall(a)
    /\ \/ /\ catalogue' = [catalogue EXCEPT ![Id(offer)] = Entry(a, offer, TRUE)]
          /\ app' = [app EXCEPT ![a].services = Remember(@, Id(offer)),
                                ![a].destructed = FALSE]
       \/ /\ catalogue' = [catalogue EXCEPT ![Id(offer)] = Entry(a, offer, FALSE)]
          /\ UNCHANGED app
    /\ UNCHANGED <<listener, sessions, lock, created, deaths>>

Forget(id) == catalogue' = [catalogue EXCEPT ![id] = None]

(* deregister, which leaves self.services alone. *)
Deregister(a, id) ==
    /\ CanCall(a) /\ id \in app[a].services
    /\ Forget(id)
    /\ UNCHANGED <<app, listener, sessions, lock, created, deaths>>

(* clear_local_services, one service of its list at a time. *)
Clear(id) ==
    /\ catalogue[id] # None
    /\ Forget(id)
    /\ UNCHANGED <<app, listener, sessions, lock, created, deaths>>

(* The agent's check: any 200 from that port of the host will do. *)
Check(id) ==
    /\ catalogue[id] # None
    /\ catalogue[id].passing # Answers(catalogue[id].check)
    /\ catalogue' = [catalogue EXCEPT ![id].passing = ~@]
    /\ UNCHANGED <<app, listener, sessions, lock, created, deaths>>

(* version_cmp compares the numerals, not the numbers: 10 comes before 9.   *)
Numeral(n) == IF n < 10 THEN <<n>> ELSE <<n \div 10, n % 10>>
Precedes(s, t) ==
    \/ s # t /\ IsPrefix(s, t)
    \/ \E i \in DOMAIN s \intersect DOMAIN t :
         s[i] < t[i] /\ SubSeq(s, 1, i - 1) = SubSeq(t, 1, i - 1)
AtLeast(offered, version) ==
    version = 0 \/ ~Precedes(Numeral(offered), Numeral(version))

(* get_services: what passes, of the name, and not excluded by a filter.    *)
Found(name, zone, version, tag) ==
    {id \in Ids : /\ catalogue[id] # None /\ catalogue[id].passing
                  /\ id[1] = name
                  /\ zone = None \/ id[2] = zone
                  /\ tag = None \/ id[3] = tag
                  /\ AtLeast(catalogue[id].version, version)}

-----------------------------------------------------------------------------
(* Locks *)

Grants(l, s) == lock[l] \in {None, s}

(* A mistake the properties must expose: an exception is taken for success. *)
AcquireOptimistic(a, l) ==
    /\ app[a].pc = "idle" /\ app[a].held = None /\ created < MaxSessions
    /\ LET s == created + 1
       IN  /\ created' = s /\ sessions' = sessions \union {s}
           /\ lock' \in {lock} \union (IF Grants(l, s) THEN {[lock EXCEPT ![l] = s]} ELSE {})
           /\ app' = [app EXCEPT ![a].held = l, ![a].session = s]
    /\ UNCHANGED <<listener, catalogue, deaths>>

(* acquire_lock, not to be called while a lock is held, or believed so: a   *)
(* new session, and the put that acquires.  An exception of the put counts  *)
(* as a failure, whether or not the lock was taken.                         *)
Acquire(a, l) ==
    /\ app[a].pc = "idle" /\ app[a].held = None /\ created < MaxSessions
    /\ LET s == created + 1
           taken == [lock EXCEPT ![l] = s]
       IN  /\ created' = s /\ sessions' = sessions \union {s}
           /\ \/ /\ Grants(l, s) /\ lock' = taken
                 /\ app' = [app EXCEPT ![a].held = l, ![a].session = s]
              \/ /\ lock' \in {lock} \union (IF Grants(l, s) THEN {taken} ELSE {})
                 /\ UNCHANGED app
    /\ UNCHANGED <<listener, catalogue, deaths>>

(* Consul drops only what the session holds. *)
Dropped(a, name) ==
    [l \in Locks |-> IF l = name /\ lock[l] = app[a].session THEN None ELSE lock[l]]

(* release_lock, of whatever name: what Consul answers is returned, and the *)
(* lock forgotten either way.  An exception leaves it in memory.            *)
Release(a, name) ==
    /\ app[a].pc = "idle" /\ app[a].session # None
    /\ \/ /\ lock' = Dropped(a, name)
          /\ app' = [app EXCEPT ![a].held = None, ![a].session = None, ![a].doubtful = FALSE]
       \/ /\ lock' \in {lock, Dropped(a, name)}
          /\ app' = [app EXCEPT ![a].doubtful = TRUE]
    /\ UNCHANGED <<listener, catalogue, sessions, created, deaths>>

(* The time to live is over. *)
Expire(s) ==
    /\ s \in sessions
    /\ sessions' = sessions \ {s}
    /\ lock' = [l \in Locks |-> IF lock[l] = s THEN None ELSE lock[l]]
    /\ UNCHANGED <<app, listener, catalogue, created, deaths>>

-----------------------------------------------------------------------------
(* destruct *)

BeginDestruct(a) ==
    /\ CanCall(a)
    /\ app' = [app EXCEPT ![a].pc = "deregistering", ![a].left = app[a].services]
    /\ UNCHANGED <<listener, consul, created, deaths>>

(* The next service, or an exception, which ends the call. *)
DestructService(a, id) ==
    /\ app[a].pc = "deregistering" /\ id \in app[a].left
    /\ \/ /\ Forget(id)
          /\ app' = [app EXCEPT ![a].left = @ \ {id}]
       \/ /\ Forget(id) \/ UNCHANGED catalogue
          /\ app' = [app EXCEPT ![a].pc = "idle", ![a].left = {}]
    /\ UNCHANGED <<listener, sessions, lock, created, deaths>>

JoinListener(a) ==
    /\ app[a].pc = "deregistering" /\ app[a].left = {}
    /\ app' = [app EXCEPT ![a].pc = "joining"]
    /\ UNCHANGED <<listener, consul, created, deaths>>

(* join() has returned: the lock goes last. *)
EndDestruct(a) ==
    /\ app[a].pc = "joining" /\ listener[a] = "ended"
    /\ \/ /\ lock' = IF app[a].held = None THEN lock ELSE Dropped(a, app[a].held)
          /\ app' = [app EXCEPT ![a].pc = "idle", ![a].destructed = TRUE, ![a].held = None,
                                ![a].session = None, ![a].doubtful = FALSE]
       \/ /\ app[a].held # None
          /\ lock' \in {lock, Dropped(a, app[a].held)}
          /\ app' = [app EXCEPT ![a].pc = "idle", ![a].doubtful = TRUE]
    /\ UNCHANGED <<listener, catalogue, sessions, created, deaths>>

(* The process ends, after destruct or without it, and may come back; what  *)
(* it leaves in the catalogue is nobody's.                                  *)
End(a) ==
    /\ app[a].pc # "down" /\ deaths < MaxDeaths
    /\ deaths' = deaths + 1
    /\ app' = [app EXCEPT ![a] = Down]
    /\ listener' = [listener EXCEPT ![a] = "none"]
    /\ catalogue' = [id \in Ids |-> IF catalogue[id] # None /\ catalogue[id].by = a
                                     THEN [catalogue[id] EXCEPT !.by = None] ELSE catalogue[id]]
    /\ UNCHANGED <<sessions, lock, created>>

-----------------------------------------------------------------------------

Serve(a) == Start(a) \/ EndListener(a) \/ End(a)

Announce(a) ==
    \/ \E o \in Offers : Register(a, o)
    \/ \E id \in Ids : Deregister(a, id)

LockUp(a) == (\E l \in Locks : Acquire(a, l)) \/ (\E name \in Names : Release(a, name))

Destruct(a) ==
    \/ BeginDestruct(a) \/ JoinListener(a) \/ EndDestruct(a)
    \/ \E id \in Ids : DestructService(a, id)

Next ==
    \/ \E a \in Apps : Serve(a) \/ Announce(a) \/ LockUp(a) \/ Destruct(a)
    \/ \E id \in Ids : Clear(id) \/ Check(id)
    \/ \E s \in Sessions : Expire(s)

Spec == Init /\ [][Next]_vars

-----------------------------------------------------------------------------
(* Properties *)

Entries == [version : Nat, check : Ports, passing : BOOLEAN,
            by : Apps \union {None}, recorded : BOOLEAN]

ASSUME NoneIsNoEntry == None \notin Entries

(* Every variable keeps its type. *)
TypeOK ==
    /\ app \in [Apps -> [pc : {"down", "idle", "deregistering", "joining"},
                         running : BOOLEAN, port : Ports \union {None},
                         services : SUBSET Ids, left : SUBSET Ids,
                         held : Locks \union {None}, session : Sessions \union {None},
                         doubtful : BOOLEAN, destructed : BOOLEAN]]
    /\ listener \in [Apps -> {"none", "serving", "ended"}]
    /\ catalogue \in [Ids -> Entries \union {None}]
    /\ sessions \subseteq Sessions /\ lock \in [Locks -> Sessions \union {None}]
    /\ created \in 0..MaxSessions /\ deaths \in 0..MaxDeaths

(* As long as its session lives, a process that believes it holds a lock    *)
(* does hold it, unless a release of it raised, so that no two of them do:  *)
(* whatever acquiring raises, names are released that are not held, and     *)
(* processes are killed.                                                    *)
HeldIsLocked ==
    \A a \in Apps : app[a].held # None /\ ~app[a].doubtful /\ app[a].session \in sessions =>
        lock[app[a].held] = app[a].session

(* No search finds a service that a process registered and then destructed, *)
(* except one whose registration raised after the agent had taken it.       *)
DestructedAreGone ==
    \A a \in Apps, o \in Offers : app[a].destructed =>
        \A id \in Found(o.name, None, 0, None) :
            catalogue[id].by = a => ~catalogue[id].recorded
=============================================================================
