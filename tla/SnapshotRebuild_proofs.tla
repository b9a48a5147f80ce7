----------------------- MODULE SnapshotRebuild_proofs -----------------------
(***************************************************************************)
(* Proofs about SnapshotRebuild, for all providers, informers and changes: *)
(* first what the snapshot is built from (SnapInv), then, object by        *)
(* object, what a listing of it says.                                      *)
(***************************************************************************)
EXTENDS SnapshotRebuild, WellFoundedInduction, TLAPS

\* Only the holder of rebuildMu lists.
Mutex == \A w \in Worker : pc[w] = "list" => holder = w

\* Nothing known of a store is ahead of it.
NotAhead ==
    /\ \A src \in Source : pending[src] <= version[src] /\ synced[src] <= version[src]
    /\ \A i \in DOMAIN Lists :
        /\ snapshot[i] <= version[Lists[i].source]
        /\ \A w \in Worker : view[w][i] <= version[Lists[i].source]

\* What w has listed in the rebuild it is in.
Done(w, i) == pc[w] = "list" /\ i <= listed[w]

\* A listing is not behind what is published, what Start saw synced, nor what
\* the handler that called for it was told.
Fresh ==
    \A i \in DOMAIN Lists : LET src == Lists[i].source IN
        /\ \A w \in Worker : Done(w, i) => view[w][i] >= snapshot[i]
        /\ Done(src, i) => view[src][i] + pending[src] >= version[src]
        /\ Done(Main, i) => view[Main][i] >= synced[src]

\* Start's rebuild is the first of the goroutine that later ticks.
StartOrder == start \in {"syncing", "failed"} => pc[Main] = "idle"

SnapInv ==
    TypeOK /\ Mutex /\ NotAhead /\ Fresh /\ StartOrder
    /\ HandledIsVisible /\ ServesWhatWasSynced

\* The listings of a provider are numbered from 1 and each is of an informer.
LEMMA ListsTyped ==
    ASSUME scenario \in Scenario
    PROVE  /\ Len(Lists) \in Nat /\ DOMAIN Lists = 1 .. Len(Lists)
           /\ \A i \in DOMAIN Lists : Lists[i].source \in Source
           /\ \A src \in Source : Len(history[src]) \in Nat
<1>1. /\ Len(Listings(scenario.provider)) \in Nat
      /\ DOMAIN Listings(scenario.provider) = 1 .. Len(Listings(scenario.provider))
      /\ \A i \in DOMAIN Listings(scenario.provider) : Listings(scenario.provider)[i].source \in Source
  BY ScenarioAssumption
<1>2. history \in [Source -> Seq(SUBSET Object)]
  BY ScenarioAssumption DEF history
<1>3. \A src \in Source : history[src] \in Seq(SUBSET Object)
  BY <1>2
<1> QED
  BY <1>1, <1>3 DEF Lists, provider

\* An unbuilt provider: every store, listing and snapshot at version 0.
LEMMA InitSnap == Init => SnapInv
<1> SUFFICES ASSUME Init PROVE SnapInv
  OBVIOUS
<1>1. scenario \in Scenario
  BY DEF Init
<1> HIDE DEF Lists, history
<1>2. TypeOK
  BY <1>1, ListsTyped, NoWorkerAssumption DEF Init, TypeOK, Unlisted, Worker
<1> QED
  BY <1>1, <1>2, ListsTyped, MainAssumption
  DEF Init, SnapInv, Mutex, NotAhead, Fresh, Done, StartOrder,
      HandledIsVisible, Unhandled, ServesWhatWasSynced, Unlisted, Worker

\* The scenario stays, and its listings with it.
LEMMA SameScenario == [Next]_vars => scenario' = scenario /\ Lists' = Lists /\ history' = history
<1> SUFFICES ASSUME [Next]_vars PROVE scenario' = scenario
  BY DEF Lists, provider, history
<1> QED
  BY DEF Next, vars, Change, Notify, Synced, SyncFails, Tick, Rebuild, Acquire, List, Publish

\* Changes, handlers, ticks and the steps of a rebuild preserve SnapInv.
LEMMA NextSnap == SnapInv /\ [Next]_vars => SnapInv'
<1> SUFFICES ASSUME SnapInv, [Next]_vars PROVE SnapInv'
  OBVIOUS
<1>a. /\ Len(Lists) \in Nat /\ DOMAIN Lists = 1 .. Len(Lists)
      /\ \A i \in DOMAIN Lists : Lists[i].source \in Source
      /\ \A src \in Source : Len(history[src]) \in Nat
  BY ListsTyped DEF SnapInv, TypeOK
<1>b. scenario' = scenario /\ Lists' = Lists /\ history' = history
  BY SameScenario
<1>c. /\ version \in [Source -> Nat] /\ pending \in [Source -> Nat] /\ synced \in [Source -> Nat]
      /\ pc \in [Worker -> {"idle", "lock", "list"}]
      /\ holder \in Worker \cup {NoWorker}
      /\ listed \in [Worker -> 0 .. Len(Lists)]
      /\ view \in [Worker -> [DOMAIN Lists -> Nat]] /\ snapshot \in [DOMAIN Lists -> Nat]
  BY DEF SnapInv, TypeOK
<1>d. Source \subseteq Worker /\ Main \in Worker
  BY DEF Worker
<1> USE <1>a, <1>b, <1>d
<1>1. ASSUME NEW src \in Source, Change(src) PROVE SnapInv'
  <2>1. /\ version' \in [Source -> Nat] /\ pending' \in [Source -> Nat]
        /\ version'[src] = version[src] + 1 /\ pending'[src] = pending[src] + 1
        /\ \A s \in Source \ {src} : version'[s] = version[s] /\ pending'[s] = pending[s]
        /\ version[src] < Len(history[src])
        /\ UNCHANGED <<start, synced, pc, holder, listed, view, snapshot>>
    BY <1>1, <1>c, SMTT(30) DEF Change
  <2>2. \A s \in Source :
            /\ version[s] \in Nat /\ pending[s] \in Nat /\ synced[s] \in Nat
            /\ pending[s] <= version[s] /\ synced[s] <= version[s]
            /\ version[s] <= Len(history[s])
    BY <1>c DEF SnapInv, TypeOK, NotAhead
  <2>3. \A s \in Source :
            /\ version'[s] <= Len(history[s]) /\ pending'[s] <= Len(history[s])
            /\ pending'[s] <= version'[s] /\ synced[s] <= version'[s]
            /\ version'[s] >= version[s] /\ pending'[s] - version'[s] = pending[s] - version[s]
    <3> SUFFICES ASSUME NEW s \in Source
                 PROVE  /\ version'[s] <= Len(history[s]) /\ pending'[s] <= Len(history[s])
                        /\ pending'[s] <= version'[s] /\ synced[s] <= version'[s]
                        /\ version'[s] >= version[s]
                        /\ pending'[s] - version'[s] = pending[s] - version[s]
      OBVIOUS
    <3>1. CASE s = src
      BY <2>1, <2>2, <3>1, SMTT(30)
    <3>2. CASE s # src
      BY <2>1, <2>2, <3>2
    <3> QED
      BY <3>1, <3>2
  <2>4. TypeOK'
    BY <2>1, <2>3, <1>c DEF SnapInv, TypeOK
  <2>5. Mutex' /\ StartOrder'
    BY <2>1 DEF SnapInv, Mutex, StartOrder
  <2>6. ASSUME NEW i \in DOMAIN Lists, NEW t \in {Lists[i].source}
        PROVE  /\ snapshot[i] <= version'[t] /\ \A u \in Worker : view[u][i] <= version'[t]
               /\ Done(t, i) => view[t][i] + pending'[t] >= version'[t]
               /\ snapshot[i] + Unhandled(t)' >= version'[t]
    <3>1. /\ t \in Source /\ t \in Worker
          /\ snapshot[i] \in Nat /\ \A u \in Worker : view[u][i] \in Nat
          /\ version'[t] \in Nat /\ pending'[t] \in Nat
      BY <1>c, <2>1
    <3>2. /\ snapshot[i] <= version[t] /\ \A u \in Worker : view[u][i] <= version[t]
          /\ Done(t, i) => view[t][i] + pending[t] >= version[t]
          /\ snapshot[i] + Unhandled(t) >= version[t]
      BY DEF SnapInv, NotAhead, Fresh, HandledIsVisible
    <3>3. \A u \in Worker : view[u][i] <= version'[t]
      BY <2>2, <2>3, <3>1, <3>2
    <3>4. Done(t, i) => view[t][i] + pending'[t] >= version'[t]
      BY <2>2, <2>3, <3>1, <3>2, SMTT(30)
    <3>5. snapshot[i] + Unhandled(t)' >= version'[t]
      BY <2>1, <2>2, <2>3, <3>1, <3>2, SMTT(30) DEF Unhandled
    <3> QED
      BY <2>2, <2>3, <3>1, <3>2, <3>3, <3>4, <3>5
  <2>7. NotAhead'
    BY <2>1, <2>3, <2>6 DEF NotAhead
  <2>8. Fresh'
    BY <2>1, <2>6 DEF SnapInv, Fresh, Done
  <2>9. HandledIsVisible' /\ ServesWhatWasSynced'
    BY <2>1, <2>6 DEF SnapInv, HandledIsVisible, ServesWhatWasSynced
  <2> QED
    BY <2>4, <2>5, <2>7, <2>8, <2>9 DEF SnapInv
<1>2. ASSUME NEW src \in Source, Notify(src) PROVE SnapInv'
  <2>1. /\ pending' \in [Source -> Nat] /\ pc' \in [Worker -> {"idle", "lock", "list"}]
        /\ pending'[src] = pending[src] - 1 /\ pending[src] > 0
        /\ pc'[src] = "lock" /\ pc[src] = "idle" /\ src # Main
        /\ \A s \in Source \ {src} : pending'[s] = pending[s]
        /\ \A w \in Worker \ {src} : pc'[w] = pc[w]
        /\ UNCHANGED <<version, start, synced, holder, listed, view, snapshot>>
    BY <1>2, <1>c, MainAssumption DEF Notify
  <2>2. ASSUME NEW s \in Source
        PROVE  /\ pending'[s] <= Len(history[s]) /\ pending'[s] <= version[s]
               /\ Unhandled(s)' = Unhandled(s)
    <3>1. pending[s] \in Nat /\ pending[s] <= Len(history[s]) /\ pending[s] <= version[s]
      BY <1>c DEF SnapInv, TypeOK, NotAhead
    <3>2. CASE s = src
      BY <1>c, <2>1, <3>1, <3>2 DEF Unhandled
    <3>3. CASE s # src
      BY <2>1, <3>1, <3>3 DEF Unhandled
    <3> QED
      BY <3>2, <3>3
  <2>3. TypeOK'
    BY <2>1, <2>2, <1>c DEF SnapInv, TypeOK
  <2>4. Mutex' /\ StartOrder'
    BY <2>1 DEF SnapInv, Mutex, StartOrder
  <2>5. NotAhead'
    BY <2>1, <2>2 DEF SnapInv, NotAhead
  <2>6. Fresh'
    BY <2>1, <1>c DEF SnapInv, Fresh, Done
  <2>7. HandledIsVisible' /\ ServesWhatWasSynced'
    BY <2>1, <2>2 DEF SnapInv, HandledIsVisible, ServesWhatWasSynced
  <2> QED
    BY <2>3, <2>4, <2>5, <2>6, <2>7 DEF SnapInv
<1>3. ASSUME Synced \/ SyncFails \/ Tick PROVE SnapInv'
  <2>1. /\ UNCHANGED <<version, pending, holder, listed, view, snapshot>>
        /\ synced' = synced \/ synced' = version
        /\ pc' \in [Worker -> {"idle", "lock", "list"}]
        /\ \A w \in Worker : pc'[w] = pc[w] \/ (pc'[w] = "lock" /\ pc[w] = "idle" /\ w = Main)
        /\ start' \in {"building", "failed", "serving"}
        /\ start' = "failed" => pc'[Main] = pc[Main] /\ start = "syncing"
        /\ start' = "serving" => start = "serving" /\ synced' = synced
        /\ synced' # synced => pc[Main] = "idle"
    BY <1>3, <1>c DEF Synced, SyncFails, Tick, SnapInv, StartOrder
  <2>2. TypeOK'
    BY <2>1, <1>c DEF SnapInv, TypeOK
  <2>3. Mutex' /\ StartOrder'
    BY <2>1 DEF SnapInv, Mutex, StartOrder
  <2>4. NotAhead'
    BY <2>1, <1>c DEF SnapInv, NotAhead
  <2>5. Fresh'
    <3> SUFFICES ASSUME NEW i \in DOMAIN Lists, NEW src \in {Lists[i].source}
                 PROVE  /\ \A w \in Worker : Done(w, i)' => view[w][i] >= snapshot[i]
                        /\ Done(src, i)' => view[src][i] + pending[src] >= version[src]
                        /\ Done(Main, i)' => view[Main][i] >= synced'[src]
      BY <2>1 DEF Fresh
    <3>1. \A w \in Worker : Done(w, i)' => Done(w, i) /\ (w = Main => synced' = synced)
      BY <2>1 DEF Done
    <3> QED
      BY <3>1 DEF SnapInv, Fresh
  <2>6. HandledIsVisible'
    BY <2>1, <1>c, MainAssumption, SMTT(30) DEF SnapInv, HandledIsVisible, Unhandled
  <2>7. ServesWhatWasSynced'
    BY <2>1 DEF SnapInv, ServesWhatWasSynced
  <2> QED
    BY <2>2, <2>3, <2>4, <2>5, <2>6, <2>7 DEF SnapInv
<1>4. ASSUME NEW w \in Worker, Acquire(w) PROVE SnapInv'
  <2>1. /\ holder = NoWorker /\ holder' = w
        /\ pc' \in [Worker -> {"idle", "lock", "list"}] /\ listed' \in [Worker -> 0 .. Len(Lists)]
        /\ pc[w] = "lock" /\ listed'[w] = 0
        /\ \A u \in Worker : pc'[u] = IF u = w THEN "list" ELSE pc[u]
        /\ \A u \in Worker \ {w} : listed'[u] = listed[u]
        /\ UNCHANGED <<version, pending, start, synced, view, snapshot>>
    BY <1>4, <1>c DEF Acquire
  <2>2. TypeOK'
    BY <2>1, <1>c DEF SnapInv, TypeOK
  <2>3. Mutex' /\ StartOrder'
    BY <2>1, NoWorkerAssumption DEF SnapInv, Mutex, StartOrder
  <2>4. NotAhead'
    BY <2>1, <1>c DEF SnapInv, NotAhead
  <2>5. \A u \in Worker, i \in DOMAIN Lists : Done(u, i)' => Done(u, i)
    BY <2>1 DEF Done
  <2>6. Fresh'
    BY <2>1, <2>5, <1>c DEF SnapInv, Fresh
  <2>7. HandledIsVisible' /\ ServesWhatWasSynced'
    BY <2>1, <1>c, ZenonT(30) DEF SnapInv, HandledIsVisible, Unhandled, ServesWhatWasSynced
  <2> QED
    BY <2>2, <2>3, <2>4, <2>6, <2>7 DEF SnapInv
<1>5. ASSUME NEW w \in Worker, List(w) PROVE SnapInv'
  <2> DEFINE k == listed[w] + 1
  <2>1. k \in DOMAIN Lists /\ Lists[k].source \in Source
    BY <1>5, <1>c DEF List
  <2>2. /\ pc[w] = "list"
        /\ listed' \in [Worker -> 0 .. Len(Lists)]
        /\ \A u \in Worker : listed'[u] = IF u = w THEN k ELSE listed[u]
        /\ UNCHANGED <<version, pending, start, synced, pc, holder, snapshot>>
    BY <1>5, <1>c, <2>1, SMTT(30) DEF List
  <2>3. /\ view' \in [Worker -> [DOMAIN Lists -> Nat]]
        /\ \A u \in Worker, i \in DOMAIN Lists :
              view'[u][i] = IF u = w /\ i = k THEN version[Lists[k].source] ELSE view[u][i]
    BY <1>5, <1>c, <2>1 DEF List
  <2> HIDE DEF k
  <2>4. TypeOK'
    BY <2>2, <2>3, <1>c DEF SnapInv, TypeOK
  <2>5. Mutex' /\ StartOrder'
    BY <2>2 DEF SnapInv, Mutex, StartOrder
  <2>6. NotAhead'
    <3> SUFFICES ASSUME NEW i \in DOMAIN Lists, NEW u \in Worker
                 PROVE  view'[u][i] <= version[Lists[i].source]
      BY <2>2 DEF SnapInv, NotAhead
    <3>1. version[Lists[i].source] \in Nat /\ view[u][i] <= version[Lists[i].source]
      BY <1>c DEF SnapInv, NotAhead
    <3> QED
      <4>1. view'[u][i] = view[u][i] \/ view'[u][i] = version[Lists[i].source]
        BY <2>3
      <4> QED
        BY <3>1, <4>1
  <2>7. Fresh'
    <3> SUFFICES ASSUME NEW i \in DOMAIN Lists, NEW src \in {Lists[i].source}
                 PROVE  /\ \A u \in Worker : Done(u, i)' => view'[u][i] >= snapshot[i]
                        /\ Done(src, i)' => view'[src][i] + pending[src] >= version[src]
                        /\ Done(Main, i)' => view'[Main][i] >= synced[src]
      BY <2>2 DEF Fresh
    <3>1. /\ version[src] \in Nat /\ pending[src] \in Nat
          /\ snapshot[i] <= version[src] /\ synced[src] <= version[src]
      BY <1>c DEF SnapInv, NotAhead
    <3>2. \A u \in Worker : Done(u, i)' => \/ Done(u, i) /\ view'[u][i] = view[u][i]
                                           \/ view'[u][i] = version[src]
      <4> SUFFICES ASSUME NEW u \in Worker, Done(u, i)'
                   PROVE  (Done(u, i) /\ view'[u][i] = view[u][i]) \/ view'[u][i] = version[src]
        OBVIOUS
      <4>1. CASE u = w /\ i = k
        BY <2>3, <4>1
      <4>2. CASE u = w /\ i # k
        <5>1. i \in Nat /\ listed[w] \in Nat /\ i <= listed[w] + 1 /\ i # listed[w] + 1
          BY <2>2, <4>2, <1>c DEF Done, k
        <5> QED
          BY <2>2, <2>3, <4>2, <5>1 DEF Done
      <4>3. CASE u # w
        BY <2>2, <2>3, <4>3 DEF Done
      <4> QED
        BY <4>1, <4>2, <4>3
    <3>3. src \in Source
      OBVIOUS
    <3> QED
      BY <3>1, <3>2, <3>3 DEF SnapInv, Fresh
  <2>8. HandledIsVisible' /\ ServesWhatWasSynced'
    BY <2>2 DEF SnapInv, HandledIsVisible, Unhandled, ServesWhatWasSynced
  <2> QED
    BY <2>4, <2>5, <2>6, <2>7, <2>8 DEF SnapInv
<1>6. ASSUME NEW w \in Worker, Publish(w) PROVE SnapInv'
  <2>1. /\ pc[w] = "list" /\ listed[w] = Len(Lists)
        /\ snapshot' = view[w]
        /\ pc' \in [Worker -> {"idle", "lock", "list"}]
        /\ view' \in [Worker -> [DOMAIN Lists -> Nat]]
        /\ \A u \in Worker : pc'[u] = IF u = w THEN "idle" ELSE pc[u]
        /\ \A u \in Worker, i \in DOMAIN Lists : view'[u][i] = IF u = w THEN 0 ELSE view[u][i]
        /\ holder' = NoWorker
        /\ start' = IF w = Main THEN "serving" ELSE start
        /\ UNCHANGED <<version, pending, synced, listed>>
    BY <1>6, <1>c DEF Publish, Unlisted
  <2>2. \A i \in DOMAIN Lists :
            Done(w, i) /\ view[w][i] >= snapshot[i] /\ view[w][i] \in Nat /\ snapshot[i] \in Nat
    BY <2>1, <1>c DEF Done, SnapInv, Fresh
  <2>3. \A u \in Worker : pc'[u] # "list"
    BY <2>1 DEF SnapInv, Mutex
  <2>4. TypeOK'
    BY <2>1, <1>c DEF SnapInv, TypeOK
  <2>5. Mutex' /\ StartOrder' /\ Fresh'
    BY <2>1, <2>3 DEF SnapInv, Mutex, StartOrder, Fresh, Done
  <2>6. NotAhead'
    <3> SUFFICES ASSUME NEW i \in DOMAIN Lists, NEW u \in Worker
                 PROVE  view[w][i] <= version[Lists[i].source] /\ view'[u][i] <= version[Lists[i].source]
      BY <2>1 DEF SnapInv, NotAhead
    <3>1. version[Lists[i].source] \in Nat /\ \A v \in Worker : view[v][i] <= version[Lists[i].source]
      BY <1>c DEF SnapInv, NotAhead
    <3>2. view'[u][i] = view[u][i] \/ view'[u][i] = 0
      BY <2>1
    <3> QED
      BY <3>1, <3>2
  <2>7. HandledIsVisible'
    <3> SUFFICES ASSUME NEW i \in DOMAIN Lists
                 PROVE  view[w][i] + Unhandled(Lists[i].source)' >= version[Lists[i].source]
      BY <2>1 DEF HandledIsVisible
    <3>1. CASE w = Lists[i].source
      BY <2>1, <2>2, <3>1, <1>c DEF Unhandled, SnapInv, Fresh
    <3>2. CASE w # Lists[i].source
      <4>1. Unhandled(Lists[i].source)' = Unhandled(Lists[i].source)
        BY <2>1, <3>2 DEF Unhandled
      <4>2. snapshot[i] + Unhandled(Lists[i].source) >= version[Lists[i].source]
        BY DEF SnapInv, HandledIsVisible
      <4>3. Unhandled(Lists[i].source) \in Nat /\ version[Lists[i].source] \in Nat
        BY <1>c, SMTT(30) DEF Unhandled
      <4> QED
        BY <4>1, <4>2, <4>3, <2>2
    <3> QED
      BY <3>1, <3>2
  <2>8. ServesWhatWasSynced'
    <3>1. CASE w = Main
      BY <2>1, <2>2, <3>1 DEF SnapInv, Fresh, ServesWhatWasSynced
    <3>2. CASE w # Main
      BY <2>1, <2>2, <3>2, <1>c, SMTT(30) DEF SnapInv, ServesWhatWasSynced
    <3> QED
      BY <3>1, <3>2
  <2> QED
    BY <2>4, <2>5, <2>6, <2>7, <2>8 DEF SnapInv
<1>7. CASE UNCHANGED vars
  BY <1>7, <1>c DEF vars, SnapInv, TypeOK, Mutex, NotAhead, Fresh, Done, StartOrder,
                    HandledIsVisible, Unhandled, ServesWhatWasSynced
<1> QED
  BY <1>1, <1>2, <1>3, <1>4, <1>5, <1>6, <1>7 DEF Next, Rebuild

\* SnapInv holds of every reachable state.
LEMMA SnapInvHolds == Spec => []SnapInv
  BY InitSnap, NextSnap, PTL DEF Spec

\* Snapshots, listings and queues keep their types (SnapshotRebuild.TypeOK).
THEOREM TypeCorrect == Spec => []TypeOK
<1>1. SnapInv => TypeOK
  BY DEF SnapInv
<1> QED
  BY <1>1, SnapInvHolds, PTL

\* A handler that has returned from rebuild has made its change visible to
\* Resolve, for every number of informers, handlers and overlapping rebuilds.
THEOREM HandledChangesAreVisible == Spec => []HandledIsVisible
<1>1. SnapInv => HandledIsVisible
  BY DEF SnapInv
<1> QED
  BY <1>1, SnapInvHolds, PTL

\* A provider whose Start has returned serves at least what its caches held
\* when WaitForCacheSync returned.
THEOREM ServingIsBuilt == Spec => []ServesWhatWasSynced
<1>1. SnapInv => ServesWhatWasSynced
  BY DEF SnapInv
<1> QED
  BY <1>1, SnapInvHolds, PTL

\* snapshot.Store never replaces a snapshot by one built from older listings.
THEOREM SnapshotsNeverGoBack == Spec => SnapshotMonotone
<1>1. SnapInv /\ [Next]_vars =>
        [\A i \in DOMAIN Lists : snapshot'[i] >= snapshot[i]]_snapshot
  <2> SUFFICES ASSUME SnapInv, Next, snapshot' # snapshot
               PROVE  \A i \in DOMAIN Lists : snapshot'[i] >= snapshot[i]
    BY DEF vars
  <2>1. PICK w \in Worker : Publish(w)
    BY DEF Next, Change, Notify, Synced, SyncFails, Tick, Rebuild, Acquire, List
  <2>2. \A i \in DOMAIN Lists : Done(w, i)
    BY <2>1, ListsTyped DEF Publish, Done, SnapInv, TypeOK
  <2> QED
    BY <2>1, <2>2 DEF Publish, SnapInv, Fresh
<1> QED
  BY <1>1, SnapInvHolds, PTL DEF Spec, SnapshotMonotone

-----------------------------------------------------------------------------
\* The least of some numbers and the greatest of some indices; ports.

\* A set of natural numbers that is not empty has a least one.
LEMMA LeastElement ==
    ASSUME NEW T \in SUBSET Nat, T # {}
    PROVE  Min(T) \in T /\ \A k \in T : Min(T) <= k
<1> DEFINE R == OpToRel(<, Nat)
<1>1. \A x, y \in Nat : <<y, x>> \in R <=> y < x
  <2>1. R = {ss \in Nat \X Nat : ss[1] < ss[2]}
    BY DEF OpToRel
  <2> QED BY <2>1
<1>2. IsWellFoundedOn(R, Nat)
  BY NatLessThanWellFounded
<1> HIDE DEF R
<1>3. PICK x \in T : \A y \in T : ~ (<<y, x>> \in R)
  BY <1>2, WFMin
<1>4. ASSUME NEW y \in T PROVE x <= y
  <2>1. x \in Nat /\ y \in Nat
    OBVIOUS
  <2>2. ~ (y < x)
    BY <1>1, <1>3, <2>1
  <2> QED BY <2>1, <2>2
<1> QED BY <1>4 DEF Min

\* A set of indices that is not empty has a greatest one: of all its upper
\* bounds, the least.
LEMMA GreatestElement ==
    ASSUME NEW N \in Nat, NEW T \in SUBSET (1 .. N), T # {}
    PROVE  Max(T) \in T
<1> DEFINE U == {n \in Nat : \A k \in T : k <= n}
<1>1. N \in U
  OBVIOUS
<1>2. PICK m \in U : \A n \in U : m <= n
  BY <1>1, LeastElement
<1>3. m \in T
  <2> SUFFICES ASSUME m \notin T PROVE FALSE
    OBVIOUS
  <2>1. \A k \in T : k \in Nat /\ k <= m /\ k # m
    BY <1>2
  <2>2. m - 1 \in U
    <3>1. PICK k \in T : TRUE
      OBVIOUS
    <3>2. k \in Nat /\ k <= m /\ k # m
      BY <2>1
    <3> QED BY <2>1, <3>2
  <2> QED BY <1>2, <2>2
<1>4. \E x \in T : \A y \in T : x >= y
  BY <1>2, <1>3
<1> QED BY <1>4 DEF Max

\* The ports of an object that are set: all, those of a name, those at indices.
AnyPort(src, o) == {x.port : x \in Open(src, o)}
NamedPort(src, o, name) == {x.port : x \in {x \in Open(src, o) : x.name = name}}
PortsAt(o, T) == {o.ports[i].port : i \in T}

\* The indices of the ports that are set, and of those of a name.
WithPort(src, o) ==
    {i \in DOMAIN o.ports :
        IF src = "slices" THEN o.ports[i].port # None ELSE o.ports[i].port > 0}
WithName(src, o, name) == {i \in WithPort(src, o) : o.ports[i].name = name}

\* A port found among those allowed, or None if none is.
PortOk(n, allowed) == IF allowed = {} THEN n = None ELSE n # None /\ n \in allowed

\* FirstPort finds one of the ports at the indices it is given.
LEMMA FirstPortOk ==
    ASSUME NEW src, NEW o, IsObject(src, o), NEW T \in SUBSET WithPort(src, o)
    PROVE  PortOk(FirstPort(o.ports, T), PortsAt(o, T))
<1>1. CASE T = {}
  BY <1>1 DEF PortOk, FirstPort, PortsAt
<1>2. CASE T # {}
  <2>1. T \in SUBSET Nat
    BY DEF IsObject, IsList, WithPort
  <2>2. Min(T) \in T
    BY <1>2, <2>1, LeastElement
  <2>3. o.ports[Min(T)].port # None
    BY <2>2, NoneAssumption DEF IsObject, WithPort
  <2> QED BY <1>2, <2>2, <2>3 DEF PortOk, FirstPort, PortsAt
<1> QED BY <1>1, <1>2

\* The ports that are set are those at the indices of the ports that are set.
LEMMA PortsByIndex ==
    ASSUME NEW src, NEW o, NEW name
    PROVE  /\ AnyPort(src, o) = PortsAt(o, WithPort(src, o))
           /\ NamedPort(src, o, name) = PortsAt(o, WithName(src, o, name))
<1>1. Open(src, o) = {o.ports[i] : i \in WithPort(src, o)}
  BY DEF Range, Open, WithPort
<1>2. {x \in Open(src, o) : x.name = name} = {o.ports[i] : i \in WithName(src, o, name)}
  BY <1>1 DEF WithName
<1>3. NamedPort(src, o, name) = PortsAt(o, WithName(src, o, name))
  BY <1>2 DEF NamedPort, PortsAt
<1>4. AnyPort(src, o) = PortsAt(o, WithPort(src, o))
  BY <1>1 DEF AnyPort, PortsAt
<1> QED BY <1>3, <1>4

\* A pod's port is one that the listing allows.
LEMMA PodPortOk ==
    ASSUME NEW l, l.source = "pods", IsListing(provider, l), NEW o, IsObject(l.source, o)
    PROVE  PortOk(PodPort(o, l.resource.port), Ports(l, o))
<1> DEFINE want == l.resource.port
           T == WithName(l.source, o, want.name)
           named == NamedPort(l.source, o, want.name)
           fixed == {n \in {want.number, want.container} : n > 0}
<1>1. want.number \in Int /\ want.container \in Int /\ WantedPort(provider, l) = want
  BY DEF IsListing, WantedPort
<1>2. T = {i \in DOMAIN o.ports : o.ports[i].name = want.name /\ o.ports[i].port > 0}
  BY DEF IsObject, WithName, WithPort
<1>3. PortOk(FirstPort(o.ports, T), named)
  <2>1. T \in SUBSET WithPort(l.source, o)
    BY DEF WithName
  <2>2. named = PortsAt(o, T)
    BY PortsByIndex
  <2> QED BY <2>1, <2>2, FirstPortOk
<1>4. Ports(l, o) = IF fixed # {} THEN fixed ELSE IF want.name # None THEN named ELSE {}
  BY <1>1 DEF Ports, NamedPort
<1>5. PodPort(o, want) = IF want.container > 0 THEN want.container
                         ELSE IF want.number > 0 THEN want.number
                         ELSE IF want.name = None THEN None ELSE FirstPort(o.ports, T)
  BY <1>2 DEF PodPort
<1> SUFFICES PortOk(PodPort(o, want), Ports(l, o))
  OBVIOUS
<1> HIDE DEF want, T, named
<1>6. CASE fixed # {}
  BY <1>1, <1>4, <1>5, <1>6, NoneAssumption DEF PortOk
<1>7. CASE fixed = {}
  BY <1>1, <1>3, <1>4, <1>5, <1>7 DEF PortOk
<1> QED BY <1>6, <1>7

\* So is a slice's.
LEMMA SlicePortOk ==
    ASSUME NEW l, l.source = "slices", IsListing(provider, l), NEW o, IsObject(l.source, o)
    PROVE  PortOk(SlicePort(o, l.resource.port), Ports(l, o))
<1> DEFINE want == l.resource.port
           given == WithPort(l.source, o)
           T == WithName(l.source, o, want.name)
           any == AnyPort(l.source, o)
           named == NamedPort(l.source, o, want.name)
           fixed == {n \in {want.number} : n > 0}
           byName == want.name # None /\ T # {}
<1>1. want.number \in Int /\ WantedPort(provider, l) = want
  BY DEF IsListing, WantedPort
<1>2. any = PortsAt(o, given) /\ named = PortsAt(o, T) /\ T \in SUBSET given
  BY PortsByIndex DEF WithName
<1>3. PortOk(FirstPort(o.ports, given), any) /\ PortOk(FirstPort(o.ports, T), named)
  BY <1>2, FirstPortOk
<1>4. Ports(l, o) = IF fixed # {} THEN fixed ELSE IF byName THEN named ELSE any
  <2>1. named # {} <=> T # {}
    <3> HIDE DEF named, T
    <3> QED BY <1>2 DEF PortsAt
  <2>2. /\ named = {x.port : x \in {x \in Open(l.source, o) : x.name = want.name}}
        /\ any = {x.port : x \in Open(l.source, o)}
    BY DEF NamedPort, AnyPort
  <2> HIDE DEF T, named, any
  <2> QED BY <1>1, <2>1, <2>2 DEF Ports
<1>5. SlicePort(o, want) = IF want.number > 0 THEN want.number
                           ELSE FirstPort(o.ports, IF byName THEN T ELSE given)
  <2>1. {i \in given : want.name # None /\ o.ports[i].name = want.name} = IF byName THEN T ELSE {}
    BY DEF WithName
  <2>2. given = {i \in DOMAIN o.ports : o.ports[i].port # None}
    BY DEF WithPort
  <2> HIDE DEF given, T
  <2> QED BY <2>1, <2>2 DEF SlicePort
<1> SUFFICES PortOk(SlicePort(o, want), Ports(l, o))
  OBVIOUS
<1> HIDE DEF want, T, named, any, given, byName
<1>7. CASE fixed # {}
  BY <1>1, <1>4, <1>5, <1>7, NoneAssumption DEF PortOk
<1>8. CASE fixed = {}
  BY <1>1, <1>3, <1>4, <1>5, <1>8 DEF PortOk
<1> QED BY <1>7, <1>8

\* And a game server's.
LEMMA GameServerPortOk ==
    ASSUME NEW l, l.source = "servers", IsListing(provider, l), NEW o, IsObject(l.source, o)
    PROVE  PortOk(GameServerPort(o, provider.port), Ports(l, o))
<1> DEFINE want == provider.port
           T == IF want.name = None THEN WithPort(l.source, o) ELSE WithName(l.source, o, want.name)
           allowed == IF want.name # None THEN NamedPort(l.source, o, want.name) ELSE AnyPort(l.source, o)
           fixed == {n \in {want.number} : n > 0}
<1>1. want.number \in Int /\ WantedPort(provider, l) = want
  BY DEF IsListing, WantedPort
<1>2. T = {i \in DOMAIN o.ports :
              (want.name = None \/ o.ports[i].name = want.name) /\ o.ports[i].port > 0}
  BY DEF IsObject, WithName, WithPort
<1>3. PortOk(FirstPort(o.ports, T), allowed)
  <2>1. allowed = PortsAt(o, T) /\ T \in SUBSET WithPort(l.source, o)
    <3>1. /\ AnyPort(l.source, o) = PortsAt(o, WithPort(l.source, o))
          /\ NamedPort(l.source, o, want.name) = PortsAt(o, WithName(l.source, o, want.name))
      BY PortsByIndex
    <3>2. WithName(l.source, o, want.name) \in SUBSET WithPort(l.source, o)
      BY DEF WithName
    <3> QED BY <3>1, <3>2
  <2> HIDE DEF T, allowed
  <2>2. PortOk(FirstPort(o.ports, T), PortsAt(o, T))
    BY <2>1, FirstPortOk
  <2> QED BY <2>1, <2>2
<1>4. Ports(l, o) = IF fixed # {} THEN fixed ELSE allowed
  <2>1. allowed = IF want.name # None
                  THEN {x.port : x \in {x \in Open(l.source, o) : x.name = want.name}}
                  ELSE {x.port : x \in Open(l.source, o)}
    BY DEF NamedPort, AnyPort
  <2> HIDE DEF allowed
  <2> QED BY <1>1, <2>1 DEF Ports
<1>5. GameServerPort(o, want) = IF want.number > 0 THEN want.number ELSE FirstPort(o.ports, T)
  BY <1>2 DEF GameServerPort
<1> SUFFICES PortOk(GameServerPort(o, want), Ports(l, o))
  OBVIOUS
<1> HIDE DEF want, T, allowed
<1>6. CASE fixed # {}
  BY <1>1, <1>4, <1>5, <1>6, NoneAssumption DEF PortOk
<1>7. CASE fixed = {}
  BY <1>1, <1>3, <1>4, <1>5, <1>7 DEF PortOk
<1> QED BY <1>6, <1>7

-----------------------------------------------------------------------------
\* The address of a game server.

\* An address found among those preferred, or None if there is none.
HostOk(h, preferred) == IF preferred = {} THEN h = None ELSE h # None /\ h \in preferred

\* The entry whose address is taken.
Taken(addrs, pref) == Max(OfType(addrs, TypeTaken(addrs, pref)))

\* The entry taken is a typed one: of the first preferred type that is listed, if
\* one is.
LEMMA TypeTakenOk ==
    ASSUME NEW addrs, IsList(addrs), Typed(addrs) # {}, NEW pref, IsList(pref)
    PROVE  /\ Taken(addrs, pref) \in Typed(addrs)
           /\ \/ \E k \in DOMAIN pref : /\ addrs[Taken(addrs, pref)].type = pref[k]
                                        /\ \A j \in 1 .. k - 1 : OfType(addrs, pref[j]) = {}
              \/ \A k \in DOMAIN pref : OfType(addrs, pref[k]) = {}
<1> DEFINE t == TypeTaken(addrs, pref)
           P == {k \in DOMAIN pref : OfType(addrs, pref[k]) # {}}
<1>1. /\ Len(addrs) \in Nat /\ Typed(addrs) \in SUBSET (1 .. Len(addrs)) /\ Typed(addrs) \in SUBSET Nat
      /\ DOMAIN pref \subseteq Nat /\ DOMAIN pref = 1 .. Len(pref) /\ Len(pref) \in Nat
  <2>1. DOMAIN addrs = 1 .. Len(addrs) /\ Len(addrs) \in Nat
    BY DEF IsList
  <2>2. DOMAIN pref = 1 .. Len(pref) /\ Len(pref) \in Nat
    BY DEF IsList
  <2>3. Typed(addrs) \subseteq DOMAIN addrs
    BY DEF Typed
  <2> QED BY <2>1, <2>2, <2>3
<1>2. t = IF P # {} THEN pref[Min(P)] ELSE addrs[Min(Typed(addrs))].type
  BY DEF TypeTaken
<1>3. ASSUME NEW u, OfType(addrs, u) # {}
      PROVE  Max(OfType(addrs, u)) \in Typed(addrs) /\ addrs[Max(OfType(addrs, u))].type = u
  <2>1. OfType(addrs, u) \in SUBSET (1 .. Len(addrs))
    BY <1>1 DEF OfType
  <2>2. Max(OfType(addrs, u)) \in OfType(addrs, u)
    BY <1>1, <1>3, <2>1, GreatestElement
  <2> QED BY <2>2 DEF OfType
<1>4. CASE P # {}
  <2>1. P \subseteq DOMAIN pref
    OBVIOUS
  <2> HIDE DEF P
  <2>2. Min(P) \in P /\ \A k \in P : Min(P) <= k
    BY <1>1, <1>4, <2>1, LeastElement
  <2> DEFINE m == Min(P)
  <2>3. t = pref[m] /\ m \in P /\ \A k \in P : m <= k
    BY <1>2, <1>4, <2>2
  <2> HIDE DEF m
  <2>4. m \in DOMAIN pref /\ OfType(addrs, t) # {}
    BY <2>3 DEF P
  <2>5. ASSUME NEW j \in 1 .. m - 1 PROVE OfType(addrs, pref[j]) = {}
    <3>1. j \in DOMAIN pref /\ ~ (m <= j)
      BY <1>1, <2>4
    <3> QED BY <2>3, <3>1 DEF P
  <2>6. Taken(addrs, pref) \in Typed(addrs) /\ addrs[Taken(addrs, pref)].type = t
    BY <1>3, <2>4 DEF Taken
  <2> QED BY <2>3, <2>4, <2>5, <2>6
<1>5. CASE P = {}
  <2>1. Min(Typed(addrs)) \in Typed(addrs)
    BY <1>1, LeastElement
  <2>2. t = addrs[Min(Typed(addrs))].type
    BY <1>2, <1>5
  <2>3. OfType(addrs, t) # {}
    BY <2>1, <2>2 DEF OfType
  <2>4. Taken(addrs, pref) \in Typed(addrs)
    BY <1>3, <2>3 DEF Taken
  <2> QED BY <1>5, <2>4
<1> QED BY <1>4, <1>5

\* A game server's address is one that the configuration prefers.
LEMMA AddressOk ==
    ASSUME NEW o, IsList(o.addresses), IsList(provider.address.preference)
    PROVE  HostOk(GameServerAddress(o, provider.address), Preferred(o))
<1> DEFINE want == provider.address
           addrs == o.addresses
           typed == {a \in Range(addrs) : a.type # None /\ a.address # None}
           best == {a \in typed : \E k \in DOMAIN want.preference :
                       /\ a.type = want.preference[k]
                       /\ \A j \in 1 .. k - 1 : \A x \in typed : x.type # want.preference[j]}
           own == want.source = "address" \/ (want.source = None /\ want.preference = <<>>)
           i == Taken(addrs, want.preference)
<1>1. typed = {addrs[k] : k \in Typed(addrs)}
  BY DEF Range, Typed
<1>2. Preferred(o) = IF own \/ typed = {} THEN {o.address} \ {None}
                     ELSE {a.address : a \in IF best # {} THEN best ELSE typed}
  BY DEF Preferred
<1>3. GameServerAddress(o, want) =
          IF own \/ Typed(addrs) = {} THEN o.address ELSE addrs[i].address
  BY DEF GameServerAddress, Taken
<1>4. typed = {} <=> Typed(addrs) = {}
  BY <1>1
<1>5. CASE own \/ Typed(addrs) = {}
  BY <1>2, <1>3, <1>4, <1>5 DEF HostOk
<1>6. CASE ~ own /\ Typed(addrs) # {}
  <2>1. /\ i \in Typed(addrs)
        /\ \/ \E k \in DOMAIN want.preference :
                 /\ addrs[i].type = want.preference[k]
                 /\ \A j \in 1 .. k - 1 : OfType(addrs, want.preference[j]) = {}
           \/ \A k \in DOMAIN want.preference : OfType(addrs, want.preference[k]) = {}
    BY <1>6, TypeTakenOk
  <2> HIDE DEF i
  <2>2. addrs[i] \in typed /\ addrs[i].address # None
    BY <1>1, <2>1 DEF Typed
  <2>3. addrs[i] \in best \/ best = {}
    <3>1. ASSUME NEW k \in DOMAIN want.preference, addrs[i].type = want.preference[k],
                 \A j \in 1 .. k - 1 : OfType(addrs, want.preference[j]) = {}
          PROVE  addrs[i] \in best
      <4>1. \A j \in 1 .. k - 1 : \A x \in typed : x.type # want.preference[j]
        BY <1>1, <3>1 DEF OfType
      <4> HIDE DEF typed
      <4> QED BY <2>2, <3>1, <4>1
    <3>2. ASSUME \A k \in DOMAIN want.preference : OfType(addrs, want.preference[k]) = {}
          PROVE  best = {}
      BY <1>1, <3>2 DEF OfType
    <3> QED BY <2>1, <3>1, <3>2
  <2>4. best \subseteq typed /\ \A a \in typed : a.address # None
    OBVIOUS
  <2> HIDE DEF best, typed, own
  <2>5. addrs[i] \in (IF best # {} THEN best ELSE typed)
    BY <2>2, <2>3
  <2>6. addrs[i].address \in Preferred(o)
    BY <1>2, <1>4, <1>6, <2>5
  <2> QED BY <1>3, <1>6, <2>2, <2>6 DEF HostOk
<1> QED BY <1>5, <1>6

-----------------------------------------------------------------------------
\* What a rebuild takes, against what the objects say.

\* The weight of a backend is the annotation's before the label's.
LEMMA WeightOk ==
    ASSUME NEW src, NEW o, IsObject(src, o)
    PROVE  OwnWeight(o, Weight(o))
BY DEF IsObject, Weight, OwnWeight

\* A rebuild takes a backend of a listing only where an object says so, ...
LEMMA TakenIsSaid ==
    ASSUME NEW l, IsListing(provider, l), NEW S, NEW b \in Backends(provider, l, S),
           l.source \in {"pods", "slices", "servers"},
           \A o \in S : IsObject(l.source, o)
    PROVE  \E o \in S : Says(l, o, b)
<1>1. CASE l.source = "pods"
  <2>1. b \in PodBackends(provider, l, S)
    BY <1>1 DEF Backends
  <2>2. PICK o \in S :
            /\ InNamespace(o, l.ns) /\ LabelsMatch(o.labels, l.resource.labels)
            /\ PodAllowed(o, provider, l.resource) /\ PodPort(o, l.resource.port) # None
            /\ b = [host |-> o.ip, port |-> PodPort(o, l.resource.port), weight |-> Weight(o)]
    BY <2>1 DEF PodBackends
  <2>3. IsObject(l.source, o) /\ b.host = o.ip /\ b.port = PodPort(o, l.resource.port) /\ b.weight = Weight(o)
    BY <1>1, <2>2
  <2>4. Selected(l, o)
    BY <1>1, <2>2 DEF Selected, PodAllowed
  <2>5. {o.ip} \in InService(l.source, o)
    BY <1>1, <2>2 DEF InService, PodAllowed, PodReady
  <2>6. b.port \in Ports(l, o)
    BY <1>1, <2>2, <2>3, PodPortOk DEF PortOk
  <2>7. b.host \in {o.ip}
    BY <2>3
  <2> QED BY <2>3, <2>4, <2>5, <2>6, <2>7, WeightOk DEF Says
<1>2. CASE l.source = "slices"
  <2> DEFINE addresses(o) == UNION {ep.addresses : ep \in {e \in o.endpoints : EndpointAllowed(e, provider)}}
             backend(o, h) == [host |-> h, port |-> SlicePort(o, l.resource.port), weight |-> Weight(o)]
             meant(o) == /\ InNamespace(o, l.ns) /\ LabelsMatch(o.labels, l.resource.labels)
                         /\ AnnotationsMatch(o.annotations, l.resource.annotations)
                         /\ l.resource.service # None => o.service = l.resource.service.name
                         /\ SlicePort(o, l.resource.port) # None
  <2>1. b \in UNION {{backend(o, h) : h \in addresses(o)} : o \in {o \in S : meant(o)}}
    BY <1>2 DEF Backends, SliceBackends
  <2>2. PICK o \in S : meant(o) /\ b \in {backend(o, h) : h \in addresses(o)}
    <3> HIDE DEF meant, backend, addresses
    <3> QED BY <2>1
  <2>3. PICK h \in addresses(o) : b = backend(o, h)
    BY <2>2
  <2>4. PICK e \in o.endpoints : EndpointAllowed(e, provider) /\ h \in e.addresses
    BY <2>3
  <2>5. IsObject(l.source, o) /\ b.host = h /\ b.port = SlicePort(o, l.resource.port) /\ b.weight = Weight(o)
    BY <1>2, <2>3
  <2>6. Selected(l, o)
    BY <1>2, <2>2 DEF Selected
  <2>7. {h} \in InService(l.source, o)
    BY <1>2, <2>4 DEF InService, EndpointAllowed
  <2>8. b.port \in Ports(l, o)
    BY <1>2, <2>2, <2>5, SlicePortOk DEF PortOk
  <2>9. b.host \in {h}
    BY <2>5
  <2> QED BY <2>5, <2>6, <2>7, <2>8, <2>9, WeightOk DEF Says
<1>3. CASE l.source = "servers"
  <2>1. b \in GameServerBackends(provider, S)
    BY <1>3 DEF Backends
  <2>2. PICK o \in S :
            /\ provider.namespaces # {} => o.ns \in provider.namespaces
            /\ AnnotationsMatch(o.annotations, provider.annotations)
            /\ StateAllowed(o, provider)
            /\ GameServerAddress(o, provider.address) # None
            /\ GameServerPort(o, provider.port) # None
            /\ b = [host |-> GameServerAddress(o, provider.address),
                    port |-> GameServerPort(o, provider.port), weight |-> Weight(o)]
    BY <2>1 DEF GameServerBackends
  <2>3. /\ IsObject(l.source, o) /\ IsList(o.addresses) /\ IsList(provider.address.preference)
        /\ b.host = GameServerAddress(o, provider.address)
        /\ b.port = GameServerPort(o, provider.port) /\ b.weight = Weight(o)
    BY <1>3, <2>2 DEF IsObject, IsListing
  <2>4. Selected(l, o)
    BY <1>3, <2>2 DEF Selected
  <2>5. Preferred(o) # {} /\ b.host \in Preferred(o)
    BY <2>2, <2>3, AddressOk DEF HostOk
  <2>6. Preferred(o) \in InService(l.source, o)
    BY <1>3, <2>2, <2>5 DEF InService, StateAllowed, States
  <2>7. b.port \in Ports(l, o)
    BY <1>3, <2>2, <2>3, GameServerPortOk DEF PortOk
  <2> QED BY <2>3, <2>4, <2>5, <2>6, <2>7, WeightOk DEF Says
<1> QED BY <1>1, <1>2, <1>3

\* ... and it takes one for every server that a selected object with a port has
\* in service.
LEMMA SaidIsTaken ==
    ASSUME NEW l, IsListing(provider, l), l.source \in {"pods", "slices", "servers"},
           NEW S, NEW o \in S, IsObject(l.source, o),
           Selected(l, o), Ports(l, o) # {}, NEW A \in InService(l.source, o)
    PROVE  \E b \in Backends(provider, l, S) :
               b.host \in A /\ b.port \in Ports(l, o) /\ OwnWeight(o, b.weight)
<1>1. CASE l.source = "pods"
  <2> DEFINE b == [host |-> o.ip, port |-> PodPort(o, l.resource.port), weight |-> Weight(o)]
  <2>1. /\ A = {o.ip} /\ o.ip # None
        /\ provider.podReady => o.ready = "True"
        /\ provider.phases = {} \/ o.phase \in provider.phases
    BY <1>1 DEF InService
  <2>2. PodPort(o, l.resource.port) # None /\ b.port \in Ports(l, o) /\ b.host \in A
    BY <1>1, <2>1, PodPortOk DEF PortOk
  <2>3. PodAllowed(o, provider, l.resource)
    BY <1>1, <2>1 DEF Selected, PodAllowed, PodReady
  <2>4. b \in PodBackends(provider, l, S)
    BY <1>1, <2>2, <2>3 DEF PodBackends, Selected
  <2>5. b \in Backends(provider, l, S)
    BY <1>1, <2>4 DEF Backends
  <2>6. OwnWeight(o, b.weight)
    BY WeightOk
  <2> HIDE DEF b
  <2> QED BY <2>2, <2>5, <2>6
<1>2. CASE l.source = "slices"
  <2> DEFINE addresses(x) == UNION {ep.addresses : ep \in {e \in x.endpoints : EndpointAllowed(e, provider)}}
             backend(x, h) == [host |-> h, port |-> SlicePort(x, l.resource.port), weight |-> Weight(x)]
             meant(x) == /\ InNamespace(x, l.ns) /\ LabelsMatch(x.labels, l.resource.labels)
                         /\ AnnotationsMatch(x.annotations, l.resource.annotations)
                         /\ l.resource.service # None => x.service = l.resource.service.name
                         /\ SlicePort(x, l.resource.port) # None
  <2>1. PICK h \in addresses(o) : A = {h}
    BY <1>2 DEF InService, EndpointAllowed
  <2>2. /\ SlicePort(o, l.resource.port) # None /\ backend(o, h).port \in Ports(l, o)
        /\ backend(o, h).host \in A
    BY <1>2, <2>1, SlicePortOk DEF PortOk
  <2>3. meant(o)
    BY <1>2, <2>2 DEF Selected
  <2>4. backend(o, h) \in UNION {{backend(x, g) : g \in addresses(x)} : x \in {x \in S : meant(x)}}
    <3> HIDE DEF meant, backend, addresses
    <3> QED BY <2>1, <2>3
  <2>5. backend(o, h) \in Backends(provider, l, S)
    BY <1>2, <2>4 DEF Backends, SliceBackends
  <2>6. OwnWeight(o, backend(o, h).weight)
    BY WeightOk
  <2> HIDE DEF backend
  <2> QED BY <2>2, <2>5, <2>6
<1>3. CASE l.source = "servers"
  <2> DEFINE b == [host |-> GameServerAddress(o, provider.address),
                   port |-> GameServerPort(o, provider.port), weight |-> Weight(o)]
  <2>1. /\ A = Preferred(o) /\ A # {} /\ o.state # "shutdown"
        /\ o.state \in provider.states \/ (provider.states = {} /\ o.state = "ready")
    BY <1>3 DEF InService
  <2>2. IsObject(l.source, o) /\ IsList(o.addresses) /\ IsList(provider.address.preference)
    BY <1>3 DEF IsObject, IsListing
  <2>3. GameServerAddress(o, provider.address) # None /\ b.host \in A
    BY <2>1, <2>2, AddressOk DEF HostOk
  <2>4. GameServerPort(o, provider.port) # None /\ b.port \in Ports(l, o)
    BY <1>3, <2>2, GameServerPortOk DEF PortOk
  <2>5. StateAllowed(o, provider)
    BY <2>1 DEF StateAllowed, States
  <2>6. b \in GameServerBackends(provider, S)
    BY <1>3, <2>3, <2>4, <2>5 DEF GameServerBackends, Selected
  <2>7. b \in Backends(provider, l, S)
    BY <1>3, <2>6 DEF Backends
  <2>8. OwnWeight(o, b.weight)
    BY <2>2, WeightOk
  <2> HIDE DEF b
  <2> QED BY <2>3, <2>4, <2>7, <2>8
<1> QED BY <1>1, <1>2, <1>3

\* A listing that the snapshot was built from is of an informer, and what it
\* found is recent: it was in the store since the changes that are handled.
LEMMA ListedIsRecent ==
    ASSUME SnapInv, NEW i \in DOMAIN Lists
    PROVE  LET l == Lists[i]
               S == Contents(l.source, snapshot[i])
           IN  /\ IsListing(provider, l) /\ l.source \in {"pods", "slices", "servers"}
               /\ S \in Recent(l.source)
               /\ \A o \in S : IsObject(l.source, o)
<1> DEFINE l == Lists[i]
           src == l.source
           S == Contents(src, snapshot[i])
<1>1. /\ scenario \in Scenario /\ snapshot[i] \in Nat /\ src \in Source
      /\ version[src] \in Nat /\ pending[src] \in Nat /\ version[src] <= Len(history[src])
  <2>1. scenario \in Scenario
    BY DEF SnapInv, TypeOK
  <2>2. src \in Source
    BY <2>1, ListsTyped
  <2> QED BY <2>1, <2>2 DEF SnapInv, TypeOK
<1>2. /\ IsListing(provider, l)
      /\ \A v \in DOMAIN history[src] : \A o \in history[src][v] :
             IsObject(src, o)
      /\ history[src] \in Seq(SUBSET Object)
  BY <1>1, ScenarioAssumption DEF Lists, provider, history
<1>3. src \in {"pods", "slices", "servers"}
  BY <1>1, SourceAssumption
<1>4. snapshot[i] <= version[src] /\ snapshot[i] >= version[src] - Unhandled(src)
  <2>1. Unhandled(src) \in Nat
    BY <1>1 DEF Unhandled
  <2> QED BY <1>1, <2>1 DEF SnapInv, NotAhead, HandledIsVisible
<1>5. S \in Recent(src)
  <2>1. Unhandled(src) \in Nat
    BY <1>1 DEF Unhandled
  <2>2. snapshot[i] \in (version[src] - Unhandled(src)) .. version[src]
    BY <1>1, <1>4, <2>1
  <2> QED BY <2>2 DEF Recent
<1>6. ASSUME NEW o \in S
      PROVE  IsObject(src, o)
  <2>1. snapshot[i] # 0 /\ o \in history[src][snapshot[i]]
    BY <1>6 DEF Contents
  <2>2. snapshot[i] \in DOMAIN history[src]
    BY <1>1, <1>2, <1>4, <2>1
  <2> QED BY <1>2, <2>1, <2>2
<1> QED BY <1>2, <1>3, <1>5, <1>6

\* Whatever changes while rebuilds run, a backend that Resolve returns is one
\* that a selected object had in service, at that port and with that weight,
\* within the changes whose handler has not returned.
THEOREM OutOfServiceIsGone == Spec => []OutOfServiceIsLeft
<1>1. ASSUME SnapInv PROVE OutOfServiceIsLeft
  <2> SUFFICES ASSUME NEW b \in Resolve
               PROVE  \E i \in DOMAIN Lists : \E S \in Recent(Lists[i].source) : \E o \in S :
                          Says(Lists[i], o, b)
    BY DEF OutOfServiceIsLeft
  <2>1. PICK i \in DOMAIN Lists :
            b \in Backends(provider, Lists[i], Contents(Lists[i].source, snapshot[i]))
    BY DEF Resolve
  <2> DEFINE l == Lists[i]
             S == Contents(l.source, snapshot[i])
  <2>2. /\ IsListing(provider, l) /\ l.source \in {"pods", "slices", "servers"}
        /\ S \in Recent(l.source)
        /\ \A o \in S : IsObject(l.source, o)
    BY <1>1, ListedIsRecent
  <2>3. b \in Backends(provider, l, S)
    BY <2>1
  <2>4. \E o \in S : Says(l, o, b)
    <3> HIDE DEF l, S
    <3> QED BY <2>2, <2>3, TakenIsSaid
  <2> QED BY <2>2, <2>4
<1> QED BY <1>1, SnapInvHolds, PTL

\* A server that a selected object keeps in service is there for every Resolve,
\* at one of the object's ports, once the change that brought it is handled.
THEOREM InServiceStaysServed == Spec => []InServiceIsServed
<1>1. ASSUME SnapInv PROVE InServiceIsServed
  <2> SUFFICES ASSUME NEW i \in DOMAIN Lists,
                      NEW o, \A S \in Recent(Lists[i].source) : o \in S,
                      Selected(Lists[i], o), Ports(Lists[i], o) # {},
                      NEW A \in InService(Lists[i].source, o)
               PROVE  \E b \in Resolve :
                          b.host \in A /\ b.port \in Ports(Lists[i], o) /\ OwnWeight(o, b.weight)
    BY DEF InServiceIsServed
  <2> DEFINE l == Lists[i]
             S == Contents(l.source, snapshot[i])
  <2>1. /\ IsListing(provider, l) /\ l.source \in {"pods", "slices", "servers"}
        /\ S \in Recent(l.source)
        /\ \A x \in S : IsObject(l.source, x)
    BY <1>1, ListedIsRecent
  <2>2. o \in S
    BY <2>1
  <2>3. PICK b \in Backends(provider, l, S) :
            b.host \in A /\ b.port \in Ports(l, o) /\ OwnWeight(o, b.weight)
    <3> HIDE DEF l, S
    <3> QED BY <2>1, <2>2, SaidIsTaken DEF l
  <2>4. b \in Resolve
    BY <2>3 DEF Resolve
  <2> QED BY <2>3, <2>4
<1> QED BY <1>1, SnapInvHolds, PTL
=============================================================================
