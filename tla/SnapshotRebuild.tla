-------------------------- MODULE SnapshotRebuild --------------------------
(***************************************************************************)
(* The snapshot of backends that a discovery provider publishes from its   *)
(* informers: Start, rebuild and their callers in                          *)
(* internal/discovery/kubernetes.go (pods and endpoint slices) and         *)
(* internal/discovery/agones.go (game servers, observe mode).              *)
(*                                                                         *)
(* An informer changes its store first and then queues a notification for  *)
(* the provider's handler, which runs on a goroutine of that informer.     *)
(* What a store holds at each of its versions is its history, fixed from   *)
(* the start.  One listing is atomic, the listings of a rebuild are not,   *)
(* even when they list the same store.                                     *)
(***************************************************************************)
EXTENDS ClusterBackends

CONSTANTS
    Source,      \* the informers
    Main,        \* the goroutine of Start, later the 30 s ticker's
    Object,      \* pods, slices and game servers
    Scenario,    \* [provider, history]: a configuration, and per store what it
                 \* holds after each change
    NoWorker     \* rebuildMu is free

ASSUME MainAssumption == Main \notin Source
ASSUME ScenarioAssumption ==
    \A sc \in Scenario :
        LET lists == Listings(sc.provider)
        IN  /\ sc.history \in [Source -> Seq(SUBSET Object)]
            /\ \A src \in Source : \A v \in DOMAIN sc.history[src] : \A o \in sc.history[src][v] :
                   IsObject(src, o)
            /\ \A src \in Source \ Informers(sc.provider) : sc.history[src] = <<>>
            /\ Len(lists) \in Nat /\ DOMAIN lists = 1 .. Len(lists)
            /\ \A i \in DOMAIN lists : lists[i].source \in Source /\ IsListing(sc.provider, lists[i])
ASSUME SourceAssumption == Source \subseteq {"pods", "slices", "servers"}
Worker == Source \cup {Main}
ASSUME NoWorkerAssumption == NoWorker \notin Worker

VARIABLES
    scenario,    \* the one that is happening
    version,     \* per store: changes so far
    pending,     \* per informer: notifications queued for its handler
    start,       \* syncing, building, serving or failed
    synced,      \* per store: its version when Start saw it synced
    pc,          \* per worker: idle, at rebuildMu, or listing under it
    holder,      \* who holds rebuildMu
    listed,      \* per worker: listings its rebuild has made
    view,        \* per worker: the versions they found (the local out)
    snapshot     \* versions the published backends were built from

vars == <<scenario, version, pending, start, synced, pc, holder, listed, view, snapshot>>

provider == scenario.provider
history == scenario.history
Lists == Listings(provider)

Unlisted == [i \in DOMAIN Lists |-> 0]

Init ==
    /\ scenario \in Scenario
    /\ version = [src \in Source |-> 0] /\ pending = version /\ synced = version
    /\ snapshot = Unlisted
    /\ start = "syncing"
    /\ pc = [w \in Worker |-> "idle"]
    /\ holder = NoWorker
    /\ listed = [w \in Worker |-> 0]
    /\ view = [w \in Worker |-> Unlisted]

\* The cluster: objects are added, updated or deleted, in a store that is watched.
Change(src) ==
    /\ version[src] < Len(history[src])
    /\ version' = [version EXCEPT ![src] = @ + 1]
    /\ pending' = [pending EXCEPT ![src] = @ + 1]
    /\ UNCHANGED <<scenario, start, synced, pc, holder, listed, view, snapshot>>

\* Mutant: the handler is called without a notification.
NotifyAnyway(src) ==
    /\ pc[src] = "idle"
    /\ pending' = [pending EXCEPT ![src] = @ - 1]
    /\ pc' = [pc EXCEPT ![src] = "lock"]
    /\ UNCHANGED <<scenario, version, start, synced, holder, listed, view, snapshot>>

\* AddFunc, UpdateFunc, DeleteFunc: each calls rebuild, one after the other.
Notify(src) ==
    /\ pc[src] = "idle" /\ pending[src] > 0
    /\ pending' = [pending EXCEPT ![src] = @ - 1]
    /\ pc' = [pc EXCEPT ![src] = "lock"]
    /\ UNCHANGED <<scenario, version, start, synced, holder, listed, view, snapshot>>

\* Mutant: Start leaves the first rebuild to the handlers and the ticker.
SyncedOnly ==
    /\ start = "syncing"
    /\ start' = "serving"
    /\ synced' = version
    /\ UNCHANGED <<scenario, version, pending, pc, holder, listed, view, snapshot>>

\* WaitForCacheSync returns true, Start rebuilds.
Synced ==
    /\ start = "syncing"
    /\ start' = "building"
    /\ synced' = version
    /\ pc' = [pc EXCEPT ![Main] = "lock"]
    /\ UNCHANGED <<scenario, version, pending, holder, listed, view, snapshot>>

\* The context ends before the caches are synced.
SyncFails ==
    /\ start = "syncing"
    /\ start' = "failed"
    /\ UNCHANGED <<scenario, version, pending, synced, pc, holder, listed, view, snapshot>>

\* wait.UntilWithContext, after Start has returned.
Tick ==
    /\ start = "serving" /\ pc[Main] = "idle"
    /\ pc' = [pc EXCEPT ![Main] = "lock"]
    /\ UNCHANGED <<scenario, version, pending, start, synced, holder, listed, view, snapshot>>

\* Mutant: rebuildMu is not locked.
AcquireUnlocked(w) ==
    /\ pc[w] = "lock"
    /\ holder' = w
    /\ pc' = [pc EXCEPT ![w] = "list"]
    /\ listed' = [listed EXCEPT ![w] = 0]
    /\ UNCHANGED <<scenario, version, pending, start, synced, view, snapshot>>

\* Mutant: TryLock, leaving the work to the rebuild that is running.
AcquireOrSkip(w) ==
    /\ pc[w] = "lock"
    /\ IF holder = NoWorker
       THEN /\ holder' = w
            /\ pc' = [pc EXCEPT ![w] = "list"]
            /\ listed' = [listed EXCEPT ![w] = 0]
       ELSE /\ pc' = [pc EXCEPT ![w] = "idle"]
            /\ UNCHANGED <<holder, listed>>
    /\ UNCHANGED <<scenario, version, pending, start, synced, view, snapshot>>

\* rebuildMu.Lock()
Acquire(w) ==
    /\ pc[w] = "lock" /\ holder = NoWorker
    /\ holder' = w
    /\ pc' = [pc EXCEPT ![w] = "list"]
    /\ listed' = [listed EXCEPT ![w] = 0]
    /\ UNCHANGED <<scenario, version, pending, start, synced, view, snapshot>>

\* Lister.List or GetStore().List, resource by resource, namespace by namespace.
List(w) ==
    /\ pc[w] = "list" /\ listed[w] < Len(Lists)
    /\ listed' = [listed EXCEPT ![w] = @ + 1]
    /\ view' = [view EXCEPT ![w][listed[w] + 1] = version[Lists[listed[w] + 1].source]]
    /\ UNCHANGED <<scenario, version, pending, start, synced, pc, holder, snapshot>>

\* Mutant: Start's own rebuild returns without unlocking.
PublishStillLocked(w) ==
    /\ pc[w] = "list" /\ listed[w] = Len(Lists)
    /\ snapshot' = view[w]
    /\ holder' = IF start = "building" /\ w = Main THEN w ELSE NoWorker
    /\ pc' = [pc EXCEPT ![w] = "idle"]
    /\ start' = IF w = Main THEN "serving" ELSE start
    /\ view' = [view EXCEPT ![w] = Unlisted]
    /\ UNCHANGED <<scenario, version, pending, synced, listed>>

\* snapshot.Store(out), and the deferred Unlock; Start returns after its own.
Publish(w) ==
    /\ pc[w] = "list" /\ listed[w] = Len(Lists)
    /\ snapshot' = view[w]
    /\ holder' = NoWorker
    /\ pc' = [pc EXCEPT ![w] = "idle"]
    /\ start' = IF w = Main THEN "serving" ELSE start
    /\ view' = [view EXCEPT ![w] = Unlisted]
    /\ UNCHANGED <<scenario, version, pending, synced, listed>>

Rebuild(w) == Acquire(w) \/ List(w) \/ Publish(w)

Next ==
    \/ \E src \in Source : Change(src) \/ Notify(src)
    \/ Synced \/ SyncFails \/ Tick
    \/ \E w \in Worker : Rebuild(w)

Spec == Init /\ [][Next]_vars

\* Handlers are called, and rebuildMu is granted to whoever waits for it
\* (sync.Mutex does not starve its waiters).  The ticker need not run.
LiveSpec ==
    /\ Spec
    /\ \A src \in Source : WF_vars(Notify(src))
    /\ \A w \in Worker : /\ SF_vars(Acquire(w))
                         /\ WF_vars(List(w) \/ Publish(w))

-----------------------------------------------------------------------------
TypeOK ==
    /\ scenario \in Scenario
    /\ version \in [Source -> Nat] /\ pending \in [Source -> Nat] /\ synced \in [Source -> Nat]
    /\ \A src \in Source :
            version[src] <= Len(history[src]) /\ pending[src] <= Len(history[src])
    /\ start \in {"syncing", "building", "serving", "failed"}
    /\ pc \in [Worker -> {"idle", "lock", "list"}]
    /\ holder \in Worker \cup {NoWorker}
    /\ listed \in [Worker -> 0 .. Len(Lists)]
    /\ view \in [Worker -> [DOMAIN Lists -> Nat]] /\ snapshot \in [DOMAIN Lists -> Nat]

\* Changes of a store whose handler call has not returned.
Unhandled(src) == pending[src] + IF pc[src] = "idle" THEN 0 ELSE 1

\* Once the handler called for a change has returned, every Resolve sees that
\* change, whichever rebuild published last; with nothing left to handle the
\* snapshot is up to date.
HandledIsVisible ==
    \A i \in DOMAIN Lists :
        snapshot[i] + Unhandled(Lists[i].source) >= version[Lists[i].source]

\* A rebuild that started early never overwrites what a later one published.
SnapshotMonotone ==
    [][\A i \in DOMAIN Lists : snapshot'[i] >= snapshot[i]]_snapshot

\* A provider that serves has listed everything its caches held when synced: no
\* Resolve sees the empty snapshot of an unbuilt provider.
ServesWhatWasSynced ==
    start = "serving" => \A i \in DOMAIN Lists : snapshot[i] >= synced[Lists[i].source]

\* The published backends catch up with a store that stops changing, without
\* the ticker's help.
CatchesUp ==
    \A src \in Source :
        [](version[src] = Len(history[src])
              => <>[](\A i \in DOMAIN Lists : Lists[i].source = src => snapshot[i] = version[src]))

-----------------------------------------------------------------------------
(* What Resolve returns, against what the objects of the cluster say. *)

Contents(src, v) == IF v = 0 THEN {} ELSE history[src][v]

\* Resolve: the backends of the snapshot, each once as the engine takes them.
Resolve ==
    UNION {Backends(provider, Lists[i], Contents(Lists[i].source, snapshot[i])) : i \in DOMAIN Lists}

\* What was in the store at some point since the changes that are handled.
Recent(src) == {Contents(src, v) : v \in (version[src] - Unhandled(src)) .. version[src]}

\* The listing is meant for the object.
Selected(l, o) ==
    IF l.source = "servers"
    THEN /\ provider.namespaces # {} => o.ns \in provider.namespaces
         /\ AnnotationsMatch(o.annotations, provider.annotations)
    ELSE /\ InNamespace(o, l.ns)
         /\ LabelsMatch(o.labels, l.resource.labels)
         /\ AnnotationsMatch(o.annotations, l.resource.annotations)
         /\ l.source = "slices" /\ l.resource.service # None
                => o.service = l.resource.service.name

\* The addresses of a game server that the configuration prefers.
Preferred(o) ==
    LET want == provider.address
        typed == {a \in Range(o.addresses) : a.type # None /\ a.address # None}
        best == {a \in typed : \E k \in DOMAIN want.preference :
                    /\ a.type = want.preference[k]
                    /\ \A j \in 1 .. k - 1 : \A x \in typed : x.type # want.preference[j]}
    IN  IF want.source = "address" \/ (want.source = None /\ want.preference = <<>>) \/ typed = {}
        THEN {o.address} \ {None}
        ELSE {a.address : a \in IF best # {} THEN best ELSE typed}

\* The servers that an object says are in service, each by its addresses.
InService(src, o) ==
    CASE src = "pods" ->
            {A \in {{o.ip}} : /\ o.ip # None
                              /\ provider.podReady => o.ready = "True"
                              /\ provider.phases = {} \/ o.phase \in provider.phases}
      [] src = "slices" ->
            {{addr} : addr \in UNION {ep.addresses : ep \in {e \in o.endpoints :
                                        ~ (provider.endpointReady /\ e.ready = "False")}}}
      [] src = "servers" ->
            {A \in {Preferred(o)} :
                /\ A # {}
                /\ o.state # "shutdown"
                /\ o.state \in provider.states \/ (provider.states = {} /\ o.state = "ready")}

\* The entries of an object's ports that are set.
Open(src, o) == {x \in Range(o.ports) : IF src = "slices" THEN x.port # None ELSE x.port > 0}

\* The ports at which an object may be reached: the configured one, those with
\* the configured name, or any where no name is asked for.  A slice without a
\* port of that name has any.
Ports(l, o) ==
    LET want == WantedPort(provider, l)
        set == {want.number} \cup IF l.source = "pods" THEN {want.container} ELSE {}
        fixed == {n \in set : n > 0}
        any == {x.port : x \in Open(l.source, o)}
        named == {x.port : x \in {x \in Open(l.source, o) : x.name = want.name}}
    IN  IF fixed # {} THEN fixed
        ELSE IF want.name # None /\ (named # {} \/ l.source # "slices") THEN named
        ELSE IF l.source = "pods" THEN {} ELSE any

\* The annotation's weight, else the label's, else 0 for none.
OwnWeight(o, n) ==
    \/ n > 0 /\ n = o.annotationWeight
    \/ n > 0 /\ n = o.labelWeight /\ o.annotationWeight <= 0
    \/ n = 0 /\ o.annotationWeight <= 0 /\ o.labelWeight <= 0

\* What a listing takes b for: the object is meant, has b's server in service at
\* b's port, and gives it b's weight.
Says(l, o, b) ==
    /\ Selected(l, o)
    /\ \E A \in InService(l.source, o) : b.host \in A
    /\ b.port \in Ports(l, o) /\ OwnWeight(o, b.weight)

\* No client is sent to a server that its objects have taken out of service:
\* whatever changes while rebuilds run, each backend is what some selected
\* object said within the changes not handled yet.
OutOfServiceIsLeft ==
    \A b \in Resolve : \E i \in DOMAIN Lists :
        \E S \in Recent(Lists[i].source) : \E o \in S : Says(Lists[i], o, b)

\* A server that stays in service, in an object that is selected and has a
\* port, is there for every Resolve once the change that brought it is handled,
\* with the object's weight.
InServiceIsServed ==
    \A i \in DOMAIN Lists :
        \A o \in {o \in Contents(Lists[i].source, version[Lists[i].source]) :
                    /\ \A S \in Recent(Lists[i].source) : o \in S
                    /\ Selected(Lists[i], o) /\ Ports(Lists[i], o) # {}} :
            \A A \in InService(Lists[i].source, o) :
                \E b \in Resolve :
                    b.host \in A /\ b.port \in Ports(Lists[i], o) /\ OwnWeight(o, b.weight)
=============================================================================
