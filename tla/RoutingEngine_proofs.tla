------------------------ MODULE RoutingEngine_proofs ------------------------
(***************************************************************************)
(* Proofs about RoutingEngine, for every configuration, every listing of   *)
(* the provider and every number of concurrent calls.  The inductive       *)
(* invariant is OwnLists /\ KeyInv /\ EngineInv; round_robin needs EvenInv *)
(* besides.                                                                *)
(***************************************************************************)
EXTENDS SelectionLemmas

-----------------------------------------------------------------------------
\* Configurations and keys.

\* No list of candidates ever lies in the configuration's own array.
OwnLists == aliased = [c \in Call |-> FALSE]

\* Every step leaves the lists where they are and the configuration as it is.
LEMMA NextOwn == OwnLists /\ [Next]_vars => OwnLists' /\ cfg' = cfg
<1> SUFFICES ASSUME OwnLists, [Next]_vars PROVE OwnLists' /\ cfg' = cfg
  OBVIOUS
<1>1. ASSUME NEW c \in Call, Decide(c) PROVE OwnLists' /\ cfg' = cfg
  <2>1. CASE SortAndLimit(c)
    BY <2>1 DEF SortAndLimit, OwnLists
  <2>2. CASE Filter(c)
    BY <2>2 DEF Filter, OwnLists
  <2>3. CASE Match(c) \/ Unmatched(c) \/ ResolveStatic(c) \/ ResolveDiscovered(c)
             \/ ResolveFails(c) \/ FallBack(c) \/ NothingPasses(c) \/ PickOne(c)
             \/ KeyMissing(c) \/ WeightsOverflow(c)
    BY <2>3 DEF OwnLists, Match, Unmatched, ResolveStatic, ResolveDiscovered,
                ResolveFails, FallBack, NothingPasses, PickOne, KeyMissing,
                WeightsOverflow
  <2> QED
    BY <1>1, <2>1, <2>2, <2>3 DEF Decide
<1>2. CASE Relist \/ Tick \/ UNCHANGED vars
  BY <1>2 DEF OwnLists, Relist, Tick, vars, locals
<1> QED
  BY <1>1, <1>2 DEF Next

\* No call of Decide, sorting its candidates in place, changes the pools that
\* the other calls read.
THEOREM ConfigsStay == Spec => ConfigImmutable
<1>1. Init => OwnLists
  BY DEF Init, OwnLists
<1> QED
  BY <1>1, NextOwn, PTL DEF Spec, ConfigImmutable

\* Phases of a call that has matched a pool and not ended.
Working == {"resolve", "filter", "sort", "pick"}

\* What a call knows of its pool from the moment it has matched one.
HasPool(c) ==
    /\ route[c] \in 0 .. Len(cfg.routes)
    /\ Pool(c) # NoPool
    /\ attempt[c] = 0 \/ attempt[c] \in DOMAIN Pool(c).fallback

\* Attempts stay within the pool's fallbacks, and a call that failed for want
\* of a key has ended, at a fallback that empties it.
CallInv(c) ==
    /\ pc[c] = "arrive" => attempt[c] = 0
    /\ pc[c] \in Working => HasPool(c)
    /\ outcome[c].err = "key" =>
           /\ pc[c] = "done" /\ HasPool(c)
           /\ attempt[c] # 0
           /\ LET fb == Pool(c).fallback[attempt[c]]
              IN  "key" \in DOMAIN fb /\ "strategy" \notin DOMAIN fb

\* The configuration is one that the router started with.
KeyInv ==
    /\ cfg \in Config /\ Accepted(cfg)
    /\ DOMAIN pc = Call /\ DOMAIN route = Call
    /\ DOMAIN attempt = Call /\ DOMAIN outcome = Call
    /\ \A c \in Call : CallInv(c)

\* Every pool that a call can match was validated.
LEMMA PoolsAreValid ==
    ASSUME Accepted(cfg), cfg \in Config, NEW c \in Call, HasPool(c)
    PROVE  ValidPool(Pool(c))
<1>1. CASE route[c] = 0
  BY <1>1 DEF HasPool, Pool, PoolOf, Accepted
<1>2. CASE route[c] # 0
  <2>1. route[c] \in DOMAIN cfg.routes
    BY <1>2, ConfigAssumption DEF HasPool, IsList
  <2> QED
    BY <1>2, <2>1 DEF HasPool, Pool, PoolOf, Accepted
<1> QED
  BY <1>1, <1>2

\* A matched pool has the shape of a pool, and its fallbacks are numbered from 1.
LEMMA PoolsHaveShape ==
    ASSUME cfg \in Config, NEW c \in Call, HasPool(c)
    PROVE  IsPool(Pool(c))
<1>1. Pool(c) \in ({cfg.default} \ {NoPool}) \cup {cfg.routes[i].pool : i \in DOMAIN cfg.routes}
  <2>1. CASE route[c] = 0
    BY <2>1 DEF HasPool, Pool, PoolOf
  <2>2. CASE route[c] # 0
    <3>1. route[c] \in DOMAIN cfg.routes
      BY <2>2, ConfigAssumption DEF HasPool, IsList
    <3> QED BY <2>2, <3>1 DEF HasPool, Pool, PoolOf
  <2> QED
    BY <2>1, <2>2
<1> QED
  BY <1>1, ConfigAssumption

\* The fallbacks of a matched pool are numbered from 1.
LEMMA FallbacksNumbered ==
    ASSUME cfg \in Config, NEW c \in Call, HasPool(c)
    PROVE  LET n == Len(Pool(c).fallback)
           IN  n \in Nat /\ DOMAIN Pool(c).fallback = 1 .. n
BY PoolsHaveShape DEF IsPool, IsList

\* In a valid pool the strategy in force lacks its key only if the fallback
\* empties it.
LEMMA KeyFields ==
    ASSUME NEW pool, ValidPool(pool), NEW k, k = 0 \/ k \in DOMAIN pool.fallback,
           Controls(pool, k).strategy \in NeedsKey, Controls(pool, k).key = NoValue
    PROVE  /\ k # 0
           /\ "key" \in DOMAIN pool.fallback[k] /\ "strategy" \notin DOMAIN pool.fallback[k]
<1> DEFINE fb == pool.fallback[k]
<1>1. pool.strategy \in NeedsKey => pool.key # NoValue
  BY DEF ValidPool
<1>2. k # 0
  BY <1>1 DEF Controls, BaseControls
<1>3. ValidFallback(fb)
  BY <1>2 DEF ValidPool
<1>4. /\ Controls(pool, k).strategy =
             IF "strategy" \in DOMAIN fb THEN fb.strategy ELSE pool.strategy
      /\ Controls(pool, k).key = IF "key" \in DOMAIN fb THEN fb.key ELSE pool.key
  BY <1>2 DEF Controls, BaseControls
<1>5. "strategy" \in DOMAIN fb /\ fb.strategy \in NeedsKey =>
          "key" \in DOMAIN fb /\ fb.key # NoValue
  BY <1>3 DEF ValidFallback
<1> QED
  BY <1>1, <1>2, <1>4, <1>5

\* The steps of a call touch that call alone: for all others, and for what
\* depends on the configuration, nothing changes.
LEMMA OthersKeep ==
    ASSUME KeyInv, cfg' = cfg, NEW c \in Call, Decide(c), NEW x \in Call, x # c
    PROVE  /\ pc'[x] = pc[x] /\ route'[x] = route[x]
           /\ attempt'[x] = attempt[x] /\ outcome'[x] = outcome[x]
<1> USE DEF Goto, Finish
<1>1. CASE Match(c) \/ Unmatched(c)
  BY <1>1 DEF KeyInv, Match, Unmatched
<1>2. CASE ResolveStatic(c) \/ ResolveDiscovered(c) \/ ResolveFails(c)
  BY <1>2 DEF KeyInv, ResolveStatic, ResolveDiscovered, ResolveFails
<1>3. CASE Filter(c) \/ FallBack(c) \/ NothingPasses(c)
  BY <1>3 DEF KeyInv, Filter, FallBack, NothingPasses
<1>4. CASE SortAndLimit(c) \/ PickOne(c) \/ KeyMissing(c) \/ WeightsOverflow(c)
  BY <1>4 DEF KeyInv, SortAndLimit, PickOne, KeyMissing, WeightsOverflow
<1> QED
  BY <1>1, <1>2, <1>3, <1>4 DEF Decide

\* A step of a call keeps what that call promises.
LEMMA StepKeeps ==
    ASSUME KeyInv, cfg' = cfg, NEW c \in Call, Decide(c)
    PROVE  CallInv(c)'
<1> USE DEF HasPool, Pool, PoolOf, Working, CallInv
<1>0. /\ cfg \in Config /\ Accepted(cfg)
      /\ DOMAIN pc = Call /\ DOMAIN route = Call
      /\ DOMAIN attempt = Call /\ DOMAIN outcome = Call
      /\ CallInv(c)
  BY DEF KeyInv
<1>1. CASE Match(c)
  BY <1>0, <1>1 DEF Match, Goto
<1>2. CASE Unmatched(c) \/ ResolveFails(c) \/ NothingPasses(c) \/ WeightsOverflow(c)
  <2>1. /\ pc' = [pc EXCEPT ![c] = "done"]
        /\ \E e \in {"unmatched", "discovery", "no_backends", "weights"} :
               outcome' = [outcome EXCEPT ![c] = Failed(e)]
        /\ UNCHANGED <<route, attempt>>
    BY <1>2 DEF Unmatched, ResolveFails, NothingPasses, WeightsOverflow, Finish, Goto
  <2> QED BY <1>0, <2>1 DEF Failed
<1>3. CASE ResolveStatic(c) \/ ResolveDiscovered(c) \/ Filter(c) \/ SortAndLimit(c)
  BY <1>0, <1>3 DEF ResolveStatic, ResolveDiscovered, Filter, SortAndLimit, Goto
<1>4. CASE FallBack(c)
  <2>1. HasPool(c) /\ attempt[c] + 1 \in DOMAIN Pool(c).fallback
    BY <1>0, <1>4, FallbacksNumbered DEF FallBack
  <2> QED
    BY <1>0, <1>4, <2>1 DEF FallBack
<1>5. CASE PickOne(c)
  BY <1>0, <1>5 DEF PickOne, Finish, Goto
<1>6. CASE KeyMissing(c)
  <2>1. HasPool(c) /\ ValidPool(Pool(c))
    BY <1>0, <1>6, PoolsAreValid DEF KeyMissing
  <2>2. /\ attempt[c] # 0
        /\ LET fb == Pool(c).fallback[attempt[c]]
           IN  "key" \in DOMAIN fb /\ "strategy" \notin DOMAIN fb
    BY <1>6, <2>1, KeyFields DEF KeyMissing
  <2> QED
    BY <1>0, <1>6, <2>1, <2>2 DEF KeyMissing, Finish, Goto, Failed
<1> QED
  BY <1>1, <1>2, <1>3, <1>4, <1>5, <1>6 DEF Decide

\* The calls' functions keep their domain.
LEMMA DomainsKeep ==
    ASSUME KeyInv, NEW c \in Call, Decide(c)
    PROVE  /\ DOMAIN pc' = Call /\ DOMAIN route' = Call
           /\ DOMAIN attempt' = Call /\ DOMAIN outcome' = Call
<1> USE DEF KeyInv, Goto, Finish
<1>1. CASE Match(c) \/ Unmatched(c)
  BY <1>1 DEF Match, Unmatched
<1>2. CASE ResolveStatic(c) \/ ResolveDiscovered(c) \/ ResolveFails(c)
  BY <1>2 DEF ResolveStatic, ResolveDiscovered, ResolveFails
<1>3. CASE Filter(c) \/ FallBack(c) \/ NothingPasses(c)
  BY <1>3 DEF Filter, FallBack, NothingPasses
<1>4. CASE SortAndLimit(c) \/ PickOne(c) \/ KeyMissing(c) \/ WeightsOverflow(c)
  BY <1>4 DEF SortAndLimit, PickOne, KeyMissing, WeightsOverflow
<1> QED
  BY <1>1, <1>2, <1>3, <1>4 DEF Decide

\* KeyInv is inductive, together with the lists being the calls' own.
LEMMA NextKeyInv == OwnLists /\ KeyInv /\ [Next]_vars => KeyInv'
<1> SUFFICES ASSUME OwnLists, KeyInv, [Next]_vars PROVE KeyInv'
  OBVIOUS
<1>1. cfg' = cfg
  BY NextOwn
<1>2. ASSUME NEW c \in Call, Decide(c) PROVE KeyInv'
  <2>1. ASSUME NEW x \in Call PROVE CallInv(x)'
    <3>1. CASE x = c
      BY <1>1, <1>2, <3>1, StepKeeps
    <3>2. CASE x # c
      BY <1>1, <1>2, <3>2, OthersKeep, ZenonT(30) DEF KeyInv, CallInv, HasPool, Pool, PoolOf
    <3> QED
      BY <3>1, <3>2
  <2>2. (cfg \in Config /\ Accepted(cfg))'
    BY <1>1 DEF KeyInv, Accepted
  <2> QED
    BY <1>2, <2>1, <2>2, DomainsKeep DEF KeyInv
<1>3. CASE Relist \/ Tick \/ UNCHANGED vars
  <2>1. UNCHANGED <<cfg, pc, route, attempt, outcome>>
    BY <1>3 DEF Relist, Tick, vars, locals
  <2> QED
    BY <2>1 DEF KeyInv, CallInv, Accepted, HasPool, Pool, PoolOf
<1> QED
  BY <1>2, <1>3 DEF Next

\* On a configuration that passed validation Decide fails for want of a key
\* only through a fallback that empties the key and keeps the strategy.
THEOREM KeysAreThere == Spec => []KeyMissingOnlyByFallback
<1>1. Init => OwnLists /\ KeyInv
  BY DEF Init, OwnLists, KeyInv, CallInv, Working, NoOutcome
<1>2. OwnLists /\ KeyInv /\ [Next]_vars => OwnLists' /\ KeyInv'
  BY NextOwn, NextKeyInv
<1>3. KeyInv => KeyMissingOnlyByFallback
  <2> SUFFICES ASSUME KeyInv, NEW c \in Call, outcome[c].err = "key"
               PROVE  /\ attempt[c] > 0
                      /\ LET fb == Pool(c).fallback[attempt[c]]
                         IN  "key" \in DOMAIN fb /\ "strategy" \notin DOMAIN fb
    BY DEF KeyMissingOnlyByFallback
  <2>1. CallInv(c) /\ cfg \in Config
    BY DEF KeyInv
  <2>2. attempt[c] \in DOMAIN Pool(c).fallback
    BY <2>1 DEF CallInv, HasPool
  <2>3. DOMAIN Pool(c).fallback \subseteq Nat
    BY <2>1, FallbacksNumbered DEF CallInv
  <2> QED
    BY <2>1, <2>2, <2>3 DEF CallInv
<1> QED
  BY <1>1, <1>2, <1>3, PTL DEF Spec

\* A call that has a list: a pool of the configuration, one of its attempts,
\* and backends none of which passes the filters of the attempts before it.
Fetched(pool, k, s, who, at) ==
    /\ IsPool(pool) /\ ValidPool(pool)
    /\ k = 0 \/ k \in DOMAIN pool.fallback
    /\ IsBackends(s) /\ s # <<>> /\ (pool.discovery \/ s = pool.backends)
    /\ \A j \in 0 .. k - 1 : Passing(s, FiltersOf(pool, j), who, at) = {}

\* Candidates are what filtering (at some earlier time), sorting and limiting
\* made of that list.
FromList(pool, k, s, cs, who, at) ==
    cs # <<>> /\ \E t \in 0 .. at : cs = Chosen(s, Controls(pool, k), who, t)

\* How a call may have ended: before it had a list, without candidates, or with.
Ended(pool, k, s, cs, o, who, at) ==
    \/ /\ s = <<>> /\ cs = <<>> /\ k = 0
       /\ o \in {Failed("unmatched"), Failed("discovery"), Failed("no_backends")}
    \/ /\ Fetched(pool, k, s, who, at) /\ cs = <<>> /\ o = Failed("no_backends")
       /\ \A j \in 0 .. Len(pool.fallback) : Passing(s, FiltersOf(pool, j), who, at) = {}
    \/ /\ Fetched(pool, k, s, who, at) /\ FromList(pool, k, s, cs, who, at)
       /\ \/ o = Failed("key")
          \/ o = Failed("weights") /\ Total(cs) <= 0
          \/ \E i \in 1 .. Len(cs) : o = [idx |-> i, err |-> "nil"]

\* What each phase p of a call says of its pool, attempt k, resolved list s,
\* candidates cs, outcome o and request.
PhaseOk(pool, p, k, s, cs, o, who, at) ==
    /\ p \in {"absent", "arrive", "resolve"} => s = <<>> /\ cs = <<>> /\ k = 0 /\ o = NoOutcome
    /\ p \in {"filter", "sort", "pick"} => Fetched(pool, k, s, who, at) /\ o = NoOutcome
    /\ p = "filter" => cs = <<>>
    /\ p = "sort" =>
           cs # <<>> /\ \E t \in 0 .. at : cs = ApplyFilters(s, Controls(pool, k).filters, who, t)
    /\ p = "pick" => FromList(pool, k, s, cs, who, at)
    /\ p = "done" => Ended(pool, k, s, cs, o, who, at)

Phase == {"absent", "arrive", "resolve", "filter", "sort", "pick", "done"}

\* The inductive invariant of the engine, next to KeyInv and OwnLists.
EngineInv ==
    /\ now \in 0 .. MaxNow /\ listing \in Listing
    /\ rr \in [0 .. Len(cfg.routes) -> Nat]
    /\ pc \in [Call -> Phase] /\ req \in [Call -> Request]
    /\ DOMAIN resolved = Call /\ DOMAIN cands = Call
    /\ \A c \in Call :
           /\ route[c] \in 0 .. Len(cfg.routes)
           /\ PhaseOk(Pool(c), pc[c], attempt[c], resolved[c], cands[c], outcome[c], req[c], now)

\* Nothing passes later what did not pass before.
LEMMA StaysEmpty ==
    ASSUME NEW s, IsBackends(s), NEW filters, \A i \in DOMAIN filters : ValidFilter(filters[i]),
           NEW who, NEW at \in Int, NEW later \in Int, at <= later,
           Passing(s, filters, who, at) = {}
    PROVE  Passing(s, filters, who, later) = {}
<1> SUFFICES ASSUME NEW p \in DOMAIN s, Passes(filters, s[p], who, later) PROVE FALSE
  BY DEF Passing
<1>1. IsBackend(s[p])
  BY DEF IsBackends, Range
<1>2. Passes(filters, s[p], who, at)
  BY <1>1, PassesEarlier
<1> QED BY <1>2 DEF Passing

\* What a phase says of a call stays true as time goes by.
LEMMA FetchedLater ==
    ASSUME NEW pool, NEW k, NEW s, NEW who, NEW at \in Nat, NEW later \in Nat, at <= later,
           Fetched(pool, k, s, who, at)
    PROVE  /\ Fetched(pool, k, s, who, later)
           /\ (\A j \in 0 .. Len(pool.fallback) : Passing(s, FiltersOf(pool, j), who, at) = {}) =>
                  \A j \in 0 .. Len(pool.fallback) : Passing(s, FiltersOf(pool, j), who, later) = {}
<1>1. Len(pool.fallback) \in Nat /\ DOMAIN pool.fallback = 1 .. Len(pool.fallback)
  BY DEF Fetched, IsPool, IsList
<1>2. ASSUME NEW j \in 0 .. Len(pool.fallback), Passing(s, FiltersOf(pool, j), who, at) = {}
      PROVE  Passing(s, FiltersOf(pool, j), who, later) = {}
  <2>1. j = 0 \/ j \in DOMAIN pool.fallback
    BY <1>1
  <2>2. \A i \in DOMAIN FiltersOf(pool, j) : ValidFilter(FiltersOf(pool, j)[i])
    BY <2>1, ControlsFacts DEF Fetched
  <2>3. IsBackends(s) /\ at \in Int /\ later \in Int
    BY DEF Fetched
  <2> QED BY <1>2, <2>2, <2>3, StaysEmpty
<1>3. 0 .. k - 1 \subseteq 0 .. Len(pool.fallback)
  BY <1>1 DEF Fetched
<1> QED BY <1>2, <1>3 DEF Fetched

\* The same for every phase of a call.
LEMMA PhaseOkLater ==
    ASSUME NEW pool, NEW p, NEW k, NEW s, NEW cs, NEW o, NEW who,
           NEW at \in Nat, NEW later \in Nat, at <= later,
           PhaseOk(pool, p, k, s, cs, o, who, at)
    PROVE  PhaseOk(pool, p, k, s, cs, o, who, later)
<1>1. 0 .. at \subseteq 0 .. later
  OBVIOUS
<1>2. FromList(pool, k, s, cs, who, at) => FromList(pool, k, s, cs, who, later)
  BY <1>1 DEF FromList
<1>3. Fetched(pool, k, s, who, at) => Fetched(pool, k, s, who, later)
  BY FetchedLater
<1>4. Ended(pool, k, s, cs, o, who, at) => Ended(pool, k, s, cs, o, who, later)
  BY <1>2, FetchedLater DEF Ended
<1>5. p = "sort" =>
          cs # <<>> /\ \E t \in 0 .. later : cs = ApplyFilters(s, Controls(pool, k).filters, who, t)
  BY <1>1 DEF PhaseOk
<1> QED BY <1>2, <1>3, <1>4, <1>5 DEF PhaseOk

\* A sequence of backends is a list of backends.
LEMMA ListOfBackends ==
    ASSUME NEW S, \A b \in S : IsBackend(b), NEW s \in Seq(S)
    PROVE  IsBackends(s)
BY DEF IsBackends, IsList, Range

\* What a pool with discovery resolves to are backends.
LEMMA DiscoveredBackends ==
    ASSUME NEW pool, IsBackends(pool.backends), NEW disc, IsBackends(disc)
    PROVE  IsBackends(Discovered(pool, disc))
<1> DEFINE S == Range(disc) \cup Range(pool.backends)
           both == Merge(pool.mode, disc, pool.backends)
           merged == Dedupe(both)
<1>1. disc \in Seq(S) /\ pool.backends \in Seq(S) /\ \A b \in S : IsBackend(b)
  BY DEF IsBackends, IsList, Range
<1>2. both \in Seq(S)
  BY <1>1 DEF Merge
<1> HIDE DEF both, S
<1>3. IsBackends(both)
  BY <1>1, <1>2, ListOfBackends
<1>4. IsBackends(merged)
  <2>1. merged \in Seq(Range(both)) /\ \A b \in Range(both) : IsBackend(b)
    BY <1>3, DedupeKeepsFirst DEF IsBackends
  <2> HIDE DEF merged
  <2> QED BY <2>1, ListOfBackends
<1> HIDE DEF merged
<1>5. merged \in Seq(Range(merged)) /\ DOMAIN merged = 1 .. Len(merged) /\ Len(merged) \in Nat
  BY <1>4 DEF IsBackends, IsList
<1> DEFINE T == {AtLeastOne(b) : b \in Range(merged)}
<1>6. [i \in DOMAIN merged |-> AtLeastOne(merged[i])] \in Seq(T)
  BY <1>5 DEF Range
<1>7. \A b \in T : IsBackend(b)
  BY <1>4 DEF AtLeastOne, IsBackend, IsBackends
<1>8. IsBackends([i \in DOMAIN merged |-> AtLeastOne(merged[i])])
  <2> HIDE DEF T
  <2> QED BY <1>6, <1>7, ListOfBackends
<1> QED BY <1>4, <1>8 DEF Discovered, merged, both

-----------------------------------------------------------------------------
\* What every phase of a call knows: the invariant of the engine.

\* The part of EngineInv about call c.
CallOk(c) ==
    /\ route[c] \in 0 .. Len(cfg.routes)
    /\ PhaseOk(Pool(c), pc[c], attempt[c], resolved[c], cands[c], outcome[c], req[c], now)

\* The steps of a call leave the other calls, the clock and the provider alone.
LEMMA OneCallMoves ==
    ASSUME KeyInv, EngineInv, cfg' = cfg, NEW c \in Call, Decide(c)
    PROVE  /\ now' = now /\ listing' = listing /\ req' = req
           /\ DOMAIN resolved' = Call /\ DOMAIN cands' = Call
           /\ \A x \in Call \ {c} :
                  /\ Pool(x)' = Pool(x) /\ pc'[x] = pc[x] /\ route'[x] = route[x]
                  /\ attempt'[x] = attempt[x] /\ resolved'[x] = resolved[x]
                  /\ cands'[x] = cands[x] /\ outcome'[x] = outcome[x]
<1>1. /\ now' = now /\ listing' = listing /\ req' = req
      /\ DOMAIN resolved' = Call /\ DOMAIN cands' = Call
      /\ \A x \in Call \ {c} : resolved'[x] = resolved[x] /\ cands'[x] = cands[x]
  <2> USE DEF EngineInv, Goto, Finish
  <2>1. CASE Match(c) \/ Unmatched(c)
    BY <2>1 DEF Match, Unmatched
  <2>2. CASE ResolveStatic(c) \/ ResolveDiscovered(c) \/ ResolveFails(c)
    BY <2>2 DEF ResolveStatic, ResolveDiscovered, ResolveFails
  <2>3. CASE Filter(c) \/ FallBack(c) \/ NothingPasses(c)
    BY <2>3 DEF Filter, FallBack, NothingPasses
  <2>4. CASE SortAndLimit(c) \/ PickOne(c) \/ KeyMissing(c) \/ WeightsOverflow(c)
    BY <2>4 DEF SortAndLimit, PickOne, KeyMissing, WeightsOverflow
  <2> QED BY <2>1, <2>2, <2>3, <2>4 DEF Decide
<1>2. \A x \in Call \ {c} :
          /\ pc'[x] = pc[x] /\ route'[x] = route[x]
          /\ attempt'[x] = attempt[x] /\ outcome'[x] = outcome[x]
  BY OthersKeep
<1> QED BY <1>1, <1>2 DEF Pool, PoolOf

\* A call that matched a pool resolves, filters and falls back as it must.
LEMMA ResolveOk ==
    ASSUME KeyInv, EngineInv, cfg' = cfg, NEW c \in Call,
           ResolveStatic(c) \/ ResolveDiscovered(c)
    PROVE  CallOk(c)'
<1>1. /\ pc[c] = "resolve" /\ HasPool(c) /\ cfg \in Config /\ Accepted(cfg)
      /\ PhaseOk(Pool(c), pc[c], attempt[c], resolved[c], cands[c], outcome[c], req[c], now)
      /\ route[c] \in 0 .. Len(cfg.routes)
      /\ DOMAIN pc = Call /\ DOMAIN resolved = Call
  BY DEF KeyInv, EngineInv, CallInv, Working, ResolveStatic, ResolveDiscovered
<1>2. IsPool(Pool(c)) /\ ValidPool(Pool(c))
  BY <1>1, PoolsHaveShape, PoolsAreValid
<1>3. cands[c] = <<>> /\ attempt[c] = 0 /\ outcome[c] = NoOutcome
  BY <1>1 DEF PhaseOk
<1>4. /\ pc'[c] = "filter" /\ route'[c] = route[c] /\ attempt'[c] = 0 /\ cands'[c] = <<>>
      /\ outcome'[c] = NoOutcome /\ req'[c] = req[c] /\ now' = now
  BY <1>1, <1>3 DEF ResolveStatic, ResolveDiscovered, Goto
<1>5. /\ IsBackends(resolved'[c]) /\ resolved'[c] # <<>>
      /\ Pool(c).discovery \/ resolved'[c] = Pool(c).backends
  <2>1. CASE ResolveStatic(c)
    BY <1>1, <1>2, <2>1 DEF ResolveStatic, IsPool, ValidPool
  <2>2. CASE ResolveDiscovered(c)
    <3>1. IsBackends(listing)
      BY <2>2, ListingAssumption DEF EngineInv, ResolveDiscovered
    <3>2. IsBackends(Discovered(Pool(c), listing))
      BY <1>2, <3>1, DiscoveredBackends DEF IsPool
    <3> QED BY <1>1, <2>2, <3>2 DEF ResolveDiscovered
  <2> QED BY <2>1, <2>2
<1>6. Fetched(Pool(c), 0, resolved'[c], req[c], now)
  BY <1>2, <1>5 DEF Fetched
<1>7. PhaseOk(Pool(c), "filter", 0, resolved'[c], <<>>, NoOutcome, req[c], now)
  BY <1>6 DEF PhaseOk
<1>8. Pool(c)' = Pool(c)
  BY <1>4 DEF Pool, PoolOf
<1> QED BY <1>1, <1>4, <1>7, <1>8 DEF CallOk

\* If filtering leaves nothing, nothing passes.
LEMMA NoneKept ==
    ASSUME NEW s, IsBackends(s), NEW filters, NEW who, NEW at,
           ApplyFilters(s, filters, who, at) = <<>>
    PROVE  Passing(s, filters, who, at) = {}
<1>1. IsList(s) /\ DOMAIN s = 1 .. Len(s)
  BY DEF IsBackends, IsList
<1>2. PICK m : Keeps(m, Len(s), s, <<>>, filters, who, at)
  BY <1>1, FilterKeeps
<1> QED BY <1>1, <1>2 DEF Keeps, Passing

\* Filtering, falling back or giving up keeps what the next phase needs to know.
LEMMA FilterOk ==
    ASSUME KeyInv, EngineInv, cfg' = cfg, NEW c \in Call,
           Filter(c) \/ FallBack(c) \/ NothingPasses(c)
    PROVE  CallOk(c)'
<1> DEFINE pool == Pool(c)
           s == resolved[c]
           k == attempt[c]
<1>1. /\ pc[c] = "filter" /\ HasPool(c) /\ cfg \in Config
      /\ PhaseOk(pool, "filter", k, s, cands[c], outcome[c], req[c], now)
      /\ route[c] \in 0 .. Len(cfg.routes) /\ now \in Nat
      /\ DOMAIN pc = Call /\ DOMAIN cands = Call /\ DOMAIN attempt = Call /\ DOMAIN outcome = Call
  BY BoundsAssumption DEF KeyInv, EngineInv, CallInv, Working, Filter, FallBack, NothingPasses
<1>2. Fetched(pool, k, s, req[c], now) /\ cands[c] = <<>> /\ outcome[c] = NoOutcome
  BY <1>1 DEF PhaseOk
<1>3. Len(pool.fallback) \in Nat /\ DOMAIN pool.fallback = 1 .. Len(pool.fallback)
  BY <1>1, FallbacksNumbered
<1>4. Controls(pool, k).filters = FiltersOf(pool, k)
  BY <1>2, ControlsFacts DEF Fetched
<1>5. /\ route'[c] = route[c] /\ resolved'[c] = s /\ req'[c] = req[c] /\ now' = now
      /\ Pool(c)' = pool
  BY DEF Filter, FallBack, NothingPasses, Pool, PoolOf
<1> HIDE DEF pool, s, k
<1>6. CASE Filter(c)
  <2> DEFINE cs == ApplyFilters(s, Controls(pool, k).filters, req[c], now)
  <2>1. /\ pc'[c] = "sort" /\ cands'[c] = cs /\ cs # <<>>
        /\ attempt'[c] = k /\ outcome'[c] = NoOutcome
    BY <1>1, <1>2, <1>6 DEF Filter, Goto, Kept, pool, s, k
  <2>2. \E t \in 0 .. now : cs = ApplyFilters(s, Controls(pool, k).filters, req[c], t)
    BY <1>1
  <2> HIDE DEF cs
  <2>3. PhaseOk(pool, "sort", k, s, cs, NoOutcome, req[c], now)
    BY <1>2, <2>1, <2>2 DEF PhaseOk
  <2> QED BY <1>1, <1>5, <2>1, <2>3 DEF CallOk
<1>7. CASE FallBack(c)
  <2>1. /\ pc'[c] = "filter" /\ cands'[c] = <<>> /\ outcome'[c] = NoOutcome
        /\ attempt'[c] = k + 1 /\ k < Len(pool.fallback)
        /\ Passing(s, FiltersOf(pool, k), req[c], now) = {}
    BY <1>1, <1>2, <1>4, <1>7, NoneKept DEF FallBack, Kept, Fetched, pool, s, k
  <2>2. k \in Nat /\ k + 1 \in DOMAIN pool.fallback
    BY <1>2, <1>3, <2>1 DEF Fetched
  <2>3. \A j \in 0 .. (k + 1) - 1 : Passing(s, FiltersOf(pool, j), req[c], now) = {}
    BY <1>2, <2>1, <2>2 DEF Fetched
  <2>4. Fetched(pool, k + 1, s, req[c], now)
    BY <1>2, <2>2, <2>3 DEF Fetched
  <2>5. PhaseOk(pool, "filter", k + 1, s, <<>>, NoOutcome, req[c], now)
    BY <2>4 DEF PhaseOk
  <2> QED BY <1>1, <1>5, <2>1, <2>5 DEF CallOk
<1>8. CASE NothingPasses(c)
  <2>1. /\ pc'[c] = "done" /\ cands'[c] = <<>> /\ outcome'[c] = Failed("no_backends")
        /\ attempt'[c] = k /\ k = Len(pool.fallback)
        /\ Passing(s, FiltersOf(pool, k), req[c], now) = {}
    BY <1>1, <1>2, <1>4, <1>8, NoneKept DEF NothingPasses, Finish, Goto, Kept, Fetched, pool, s, k
  <2>2. \A j \in 0 .. Len(pool.fallback) : Passing(s, FiltersOf(pool, j), req[c], now) = {}
    BY <1>2, <1>3, <2>1 DEF Fetched
  <2>3. PhaseOk(pool, "done", k, s, <<>>, Failed("no_backends"), req[c], now)
    BY <1>2, <2>2 DEF PhaseOk, Ended
  <2> QED BY <1>1, <1>5, <2>1, <2>3 DEF CallOk
<1> QED BY <1>6, <1>7, <1>8

\* In short: what is chosen is a list of backends of the list, and it is empty
\* only if nothing passes.
LEMMA ChosenIsList ==
    ASSUME NEW s, IsBackends(s), NEW k, IsList(k.sort), k.limit \in Int, NEW who, NEW at
    PROVE  /\ Chosen(s, k, who, at) \in Seq(Range(s))
           /\ Passing(s, k.filters, who, at) # {} => Chosen(s, k, who, at) # <<>>
BY ChosenAreBest

\* Sorting and limiting what passed gives the candidates the pool asks for.
LEMMA SortOk ==
    ASSUME OwnLists, KeyInv, EngineInv, cfg' = cfg, NEW c \in Call, SortAndLimit(c)
    PROVE  CallOk(c)'
<1> DEFINE pool == Pool(c)
           s == resolved[c]
           k == attempt[c]
           K == Controls(pool, k)
<1>1. /\ pc[c] = "sort"
      /\ PhaseOk(pool, "sort", k, s, cands[c], outcome[c], req[c], now)
      /\ route[c] \in 0 .. Len(cfg.routes)
      /\ DOMAIN pc = Call /\ DOMAIN cands = Call
  BY DEF KeyInv, EngineInv, SortAndLimit
<1>2. Fetched(pool, k, s, req[c], now) /\ outcome[c] = NoOutcome /\ cands[c] # <<>>
  BY <1>1 DEF PhaseOk
<1>3. PICK t \in 0 .. now : cands[c] = ApplyFilters(s, K.filters, req[c], t)
  BY <1>1 DEF PhaseOk
<1>4. /\ pc'[c] = "pick" /\ cands'[c] = Chosen(s, K, req[c], t)
      /\ route'[c] = route[c] /\ resolved'[c] = s /\ req'[c] = req[c] /\ now' = now
      /\ attempt'[c] = k /\ outcome'[c] = NoOutcome /\ Pool(c)' = pool
  BY <1>1, <1>2, <1>3
     DEF SortAndLimit, Goto, Chosen, OwnLists, Candidates, Pool, PoolOf
<1>5. IsList(K.sort) /\ K.limit \in Int
  BY <1>2, ControlsFacts DEF Fetched
<1>6. Chosen(s, K, req[c], t) # <<>>
  <2>1. Passing(s, K.filters, req[c], t) # {}
    <3>1. IsList(s) /\ DOMAIN s = 1 .. Len(s)
      BY <1>2 DEF Fetched, IsBackends, IsList
    <3>2. PICK m : cands[c] \in Seq(Range(s)) /\ Keeps(m, Len(s), s, cands[c], K.filters, req[c], t)
      BY <1>3, <3>1, FilterKeeps
    <3>3. 1 \in 1 .. Len(cands[c])
      BY <1>2, <3>2
    <3>4. m[1] \in 1 .. Len(s) /\ Passes(K.filters, s[m[1]], req[c], t)
      BY <3>2, <3>3 DEF Keeps
    <3> QED BY <3>1, <3>4 DEF Passing
  <2>2. IsBackends(s)
    BY <1>2 DEF Fetched
  <2> HIDE DEF K, s
  <2> QED BY <1>5, <2>1, <2>2, ChosenIsList
<1> HIDE DEF pool, s, k
<1>7. FromList(pool, k, s, Chosen(s, K, req[c], t), req[c], now)
  BY <1>6 DEF FromList
<1>8. PhaseOk(pool, "pick", k, s, Chosen(s, K, req[c], t), NoOutcome, req[c], now)
  BY <1>2, <1>7 DEF PhaseOk
<1> QED BY <1>1, <1>4, <1>8 DEF CallOk

\* A call ends with one of its candidates, or for want of a key or of a weight.
LEMMA PickOk ==
    ASSUME KeyInv, EngineInv, cfg' = cfg, NEW c \in Call,
           PickOne(c) \/ KeyMissing(c) \/ WeightsOverflow(c)
    PROVE  CallOk(c)' /\ rr' \in [0 .. Len(cfg.routes) -> Nat]
<1> DEFINE pool == Pool(c)
           s == resolved[c]
           k == attempt[c]
           cs == cands[c]
           K == Controls(pool, k)
<1>1. /\ pc[c] = "pick"
      /\ PhaseOk(pool, "pick", k, s, cs, outcome[c], req[c], now)
      /\ route[c] \in 0 .. Len(cfg.routes) /\ rr \in [0 .. Len(cfg.routes) -> Nat]
      /\ DOMAIN pc = Call /\ DOMAIN outcome = Call
  BY DEF KeyInv, EngineInv, PickOne, KeyMissing, WeightsOverflow
<1>2. Fetched(pool, k, s, req[c], now) /\ FromList(pool, k, s, cs, req[c], now)
  BY <1>1 DEF PhaseOk
<1>3. /\ pc'[c] = "done" /\ cands'[c] = cs /\ route'[c] = route[c] /\ resolved'[c] = s
      /\ req'[c] = req[c] /\ now' = now /\ attempt'[c] = k /\ Pool(c)' = pool
  BY <1>1 DEF PickOne, KeyMissing, WeightsOverflow, Finish, Goto, Pool, PoolOf
<1>4. /\ rr[Counter(c)] \in Nat
      /\ rr' \in [0 .. Len(cfg.routes) -> Nat]
  BY <1>1 DEF PickOne, KeyMissing, WeightsOverflow, Counter
<1>5. \/ outcome'[c] = Failed("key")
      \/ outcome'[c] = Failed("weights") /\ Total(cs) <= 0
      \/ \E i \in 1 .. Len(cs) : outcome'[c] = [idx |-> i, err |-> "nil"]
  <2>1. CASE PickOne(c)
    <3>1. PICK i \in Picks(K, cs, rr[Counter(c)]) : outcome'[c] = [idx |-> i, err |-> "nil"]
      BY <1>1, <2>1 DEF PickOne, Finish
    <3>2. K.strategy \in Strategy /\ IsList(K.sort) /\ K.limit \in Int
      BY <1>2, ControlsFacts DEF Fetched
    <3>3. cs \in Seq(Range(s)) /\ cs # <<>>
      <4>1. cs # <<>> /\ IsBackends(s) /\ \E t \in 0 .. now : cs = Chosen(s, K, req[c], t)
        BY <1>2 DEF FromList, Fetched
      <4> HIDE DEF K, s, cs
      <4> QED BY <3>2, <4>1, ChosenIsList
    <3>4. i \in 1 .. Len(cs)
      BY <1>4, <3>1, <3>2, <3>3, PicksInside
    <3> QED BY <3>1, <3>4
  <2>2. CASE KeyMissing(c)
    BY <1>1, <2>2 DEF KeyMissing, Finish
  <2>3. CASE WeightsOverflow(c)
    BY <1>1, <2>3 DEF WeightsOverflow, Finish
  <2> QED BY <2>1, <2>2, <2>3
<1> HIDE DEF pool, s, k, cs
<1>6. PhaseOk(pool, "done", k, s, cs, outcome'[c], req[c], now)
  BY <1>2, <1>5 DEF PhaseOk, Ended
<1> QED BY <1>1, <1>3, <1>4, <1>6 DEF CallOk

-----------------------------------------------------------------------------
\* Its theorems: types, fallbacks and the limit.

\* A call that matches a route, or none, or gets no list, has none.
LEMMA StartOk ==
    ASSUME KeyInv, EngineInv, cfg' = cfg, NEW c \in Call,
           Match(c) \/ Unmatched(c) \/ ResolveFails(c)
    PROVE  CallOk(c)'
<1>1. /\ pc[c] \in {"arrive", "resolve"}
      /\ PhaseOk(Pool(c), pc[c], attempt[c], resolved[c], cands[c], outcome[c], req[c], now)
      /\ route[c] \in 0 .. Len(cfg.routes)
      /\ DOMAIN pc = Call /\ DOMAIN route = Call /\ DOMAIN outcome = Call
  BY DEF KeyInv, EngineInv, Match, Unmatched, ResolveFails
<1>2. resolved[c] = <<>> /\ cands[c] = <<>> /\ attempt[c] = 0 /\ outcome[c] = NoOutcome
  BY <1>1 DEF PhaseOk
<1>3. /\ resolved'[c] = <<>> /\ cands'[c] = <<>> /\ attempt'[c] = 0 /\ now' = now
      /\ route'[c] \in 0 .. Len(cfg'.routes)
      /\ \/ pc'[c] = "resolve" /\ outcome'[c] = NoOutcome
         \/ /\ pc'[c] = "done"
            /\ outcome'[c] \in {Failed("unmatched"), Failed("discovery"), Failed("no_backends")}
  <2>1. CASE Match(c)
    BY <1>1, <1>2, <2>1 DEF Match, Goto
  <2>2. CASE Unmatched(c)
    BY <1>1, <1>2, <2>2 DEF Unmatched, Finish, Goto
  <2>3. CASE ResolveFails(c)
    BY <1>1, <1>2, <2>3 DEF ResolveFails, Finish, Goto
  <2> QED BY <2>1, <2>2, <2>3
<1>4. PhaseOk(Pool(c)', pc'[c], 0, <<>>, <<>>, outcome'[c], req'[c], now)
  BY <1>3 DEF PhaseOk, Ended
<1> QED BY <1>3, <1>4 DEF CallOk

\* A step of a call keeps what EngineInv says of that call and of the counters.
LEMMA MovesOk ==
    ASSUME OwnLists, KeyInv, EngineInv, cfg' = cfg, NEW c \in Call, Decide(c)
    PROVE  CallOk(c)' /\ rr' \in [0 .. Len(cfg.routes) -> Nat] /\ pc' \in [Call -> Phase]
<1>1. rr \in [0 .. Len(cfg.routes) -> Nat] /\ pc \in [Call -> Phase]
  BY DEF EngineInv
<1> USE DEF Goto, Finish, Phase
<1>2. CASE Match(c) \/ Unmatched(c) \/ ResolveFails(c)
  <2>1. rr' = rr /\ pc' \in [Call -> Phase]
    BY <1>1, <1>2 DEF Match, Unmatched, ResolveFails
  <2> QED BY <1>1, <1>2, <2>1, StartOk
<1>3. CASE ResolveStatic(c) \/ ResolveDiscovered(c)
  <2>1. rr' = rr /\ pc' \in [Call -> Phase]
    BY <1>1, <1>3 DEF ResolveStatic, ResolveDiscovered
  <2> QED BY <1>1, <1>3, <2>1, ResolveOk
<1>4. CASE Filter(c) \/ FallBack(c) \/ NothingPasses(c)
  <2>1. rr' = rr /\ pc' \in [Call -> Phase]
    BY <1>1, <1>4 DEF Filter, FallBack, NothingPasses
  <2> QED BY <1>1, <1>4, <2>1, FilterOk
<1>5. CASE SortAndLimit(c)
  <2>1. rr' = rr /\ pc' \in [Call -> Phase]
    BY <1>1, <1>5 DEF SortAndLimit
  <2> QED BY <1>1, <1>5, <2>1, SortOk
<1>6. CASE PickOne(c) \/ KeyMissing(c) \/ WeightsOverflow(c)
  <2>1. pc' \in [Call -> Phase]
    BY <1>1, <1>6 DEF PickOne, KeyMissing, WeightsOverflow
  <2> QED BY <1>6, <2>1, PickOk
<1> QED BY <1>2, <1>3, <1>4, <1>5, <1>6 DEF Decide

\* EngineInv is inductive, together with KeyInv and the lists being the calls' own.
LEMMA NextEngineInv == OwnLists /\ KeyInv /\ EngineInv /\ [Next]_vars => EngineInv'
<1> SUFFICES ASSUME OwnLists, KeyInv, EngineInv, [Next]_vars PROVE EngineInv'
  OBVIOUS
<1>1. cfg' = cfg
  BY NextOwn
<1>2. ASSUME NEW c \in Call, Decide(c) PROVE EngineInv'
  <2>1. /\ now' = now /\ listing' = listing /\ req' = req
        /\ DOMAIN resolved' = Call /\ DOMAIN cands' = Call
        /\ rr' \in [0 .. Len(cfg.routes) -> Nat] /\ pc' \in [Call -> Phase]
    BY <1>1, <1>2, OneCallMoves, MovesOk
  <2>2. ASSUME NEW x \in Call PROVE CallOk(x)'
    <3>1. CASE x = c
      BY <1>1, <1>2, <3>1, MovesOk
    <3>2. CASE x # c
      <4>1. CallOk(x)
        BY DEF EngineInv, CallOk
      <4>2. /\ Pool(x)' = Pool(x) /\ pc'[x] = pc[x] /\ route'[x] = route[x]
            /\ attempt'[x] = attempt[x] /\ resolved'[x] = resolved[x]
            /\ cands'[x] = cands[x] /\ outcome'[x] = outcome[x]
        BY <1>1, <1>2, <3>2, OneCallMoves
      <4> QED BY <1>1, <2>1, <4>1, <4>2, Zenon DEF CallOk
    <3> QED BY <3>1, <3>2
  <2> QED BY <1>1, <2>1, <2>2 DEF EngineInv, CallOk
<1>3. CASE Relist \/ Tick \/ UNCHANGED vars
  <2>1. /\ UNCHANGED <<cfg, rr, pc, req, route, attempt, resolved, cands, outcome>>
        /\ listing' \in Listing /\ now' \in 0 .. MaxNow /\ now <= now'
        /\ now \in Nat /\ now' \in Nat
    <3>1. now \in 0 .. MaxNow /\ listing \in Listing /\ MaxNow \in Nat
      BY BoundsAssumption DEF EngineInv
    <3>2. CASE Relist
      BY <3>1, <3>2 DEF Relist, locals
    <3>3. CASE Tick
      BY <3>1, <3>3 DEF Tick, locals
    <3>4. CASE UNCHANGED vars
      BY <3>1, <3>4 DEF vars
    <3> QED BY <1>3, <3>2, <3>3, <3>4
  <2>2. ASSUME NEW x \in Call PROVE CallOk(x)'
    <3>1. PhaseOk(Pool(x), pc[x], attempt[x], resolved[x], cands[x], outcome[x], req[x], now)
      BY DEF EngineInv
    <3>2. PhaseOk(Pool(x), pc[x], attempt[x], resolved[x], cands[x], outcome[x], req[x], now')
      BY <2>1, <3>1, PhaseOkLater
    <3>3. Pool(x)' = Pool(x) /\ route[x] \in 0 .. Len(cfg.routes)
      BY <2>1 DEF Pool, PoolOf, EngineInv
    <3> QED BY <2>1, <3>2, <3>3, Zenon DEF CallOk
  <2> QED BY <2>1, <2>2 DEF EngineInv, CallOk
<1> QED BY <1>2, <1>3 DEF Next

\* Before the first call every part of the invariant holds.
LEMMA InitEngineInv == Init => OwnLists /\ KeyInv /\ EngineInv
<1> SUFFICES ASSUME Init PROVE OwnLists /\ KeyInv /\ EngineInv
  OBVIOUS
<1>1. OwnLists /\ KeyInv
  BY DEF Init, OwnLists, KeyInv, CallInv, Working, NoOutcome
<1>2. Len(cfg.routes) \in Nat
  BY <1>1, ConfigAssumption DEF KeyInv, IsList
<1>3. now \in 0 .. MaxNow /\ listing \in Listing
  BY BoundsAssumption, ListingAssumption DEF Init
<1>4. req \in [Call -> Request]
  <2>1. CASE Made = Call
    BY <2>1 DEF Init
  <2>2. CASE Made # Call
    BY <2>2 DEF Init
  <2> QED BY <2>1, <2>2
<1>5. rr \in [0 .. Len(cfg.routes) -> Nat] /\ pc \in [Call -> Phase]
  BY DEF Init, Phase
<1>6. ASSUME NEW c \in Call PROVE CallOk(c)
  <2>1. /\ route[c] = 0 /\ attempt[c] = 0 /\ resolved[c] = <<>> /\ cands[c] = <<>>
        /\ outcome[c] = NoOutcome /\ pc[c] \in {"absent", "arrive"}
    BY DEF Init
  <2>2. PhaseOk(Pool(c), pc[c], 0, <<>>, <<>>, NoOutcome, req[c], now)
    BY <2>1 DEF PhaseOk
  <2> QED BY <1>2, <2>1, <2>2 DEF CallOk
<1>7. DOMAIN resolved = Call /\ DOMAIN cands = Call
  BY DEF Init
<1> QED BY <1>1, <1>3, <1>4, <1>5, <1>6, <1>7 DEF EngineInv, CallOk

\* What the engine keeps in all its behaviours.
LEMMA EngineKeeps == Spec => [](OwnLists /\ KeyInv /\ EngineInv)
<1>1. OwnLists /\ KeyInv /\ EngineInv /\ [Next]_vars => (OwnLists /\ KeyInv /\ EngineInv)'
  BY NextOwn, NextKeyInv, NextEngineInv
<1> QED BY <1>1, InitEngineInv, PTL DEF Spec

\* An outcome is an index into the candidates, or an error and no index; and
\* every attempt after the first is one of the pool's fallbacks.
LEMMA CallTypes ==
    ASSUME NEW pool, NEW p, NEW k, NEW s, NEW cs, NEW o, NEW who, NEW at,
           PhaseOk(pool, p, k, s, cs, o, who, at), p \in Phase
    PROVE  /\ k # 0 => k \in DOMAIN pool.fallback
           /\ o.idx \in 0 .. Len(cs)
           /\ o.err = "nil" <=> o.idx # 0
<1>1. k # 0 => k \in DOMAIN pool.fallback
  BY DEF PhaseOk, Phase, Fetched, Ended
<1>2. Len(cs) \in Nat
  <2>1. CASE cs = <<>>
    BY <2>1
  <2>2. CASE Fetched(pool, k, s, who, at) /\ p = "sort"
    <3>1. PICK t : cs = ApplyFilters(s, Controls(pool, k).filters, who, t)
      BY <2>2 DEF PhaseOk
    <3>2. cs \in Seq(Range(s))
      <4>1. IsList(s)
        BY <2>2 DEF Fetched, IsBackends
      <4> QED BY <3>1, <4>1, FilterKeeps
    <3> QED BY <3>2
  <2>3. CASE Fetched(pool, k, s, who, at) /\ FromList(pool, k, s, cs, who, at)
    <3> DEFINE K == Controls(pool, k)
    <3>1. IsBackends(s) /\ IsList(K.sort) /\ K.limit \in Int
      BY <2>3, ControlsFacts DEF Fetched
    <3>2. PICK t : cs = Chosen(s, K, who, t)
      BY <2>3 DEF FromList
    <3> HIDE DEF K
    <3>3. cs \in Seq(Range(s))
      BY <3>1, <3>2, ChosenIsList
    <3> QED BY <3>3
  <2> QED BY <2>1, <2>2, <2>3 DEF PhaseOk, Phase, Ended
<1>3. /\ o.idx \in 0 .. Len(cs)
      /\ o.err = "nil" <=> o.idx # 0
  <2>1. CASE o.idx = 0 /\ o.err # "nil"
    BY <1>2, <2>1
  <2>2. CASE \E i \in 1 .. Len(cs) : o = [idx |-> i, err |-> "nil"]
    BY <1>2, <2>2
  <2>3. \/ o.idx = 0 /\ o.err # "nil"
        \/ \E i \in 1 .. Len(cs) : o = [idx |-> i, err |-> "nil"]
    BY DEF PhaseOk, Phase, Ended, NoOutcome, Failed
  <2> QED BY <2>1, <2>2, <2>3
<1> QED BY <1>1, <1>3

\* Every variable of the engine has its type: a call never leaves the phases of
\* Decide, and what it resolves, keeps and counts stays within the configuration.
THEOREM EngineTypes == Spec => []TypeOK
<1>1. OwnLists /\ EngineInv => TypeOK
  <2> SUFFICES ASSUME OwnLists, EngineInv PROVE TypeOK
    OBVIOUS
  <2>1. aliased \in [Call -> BOOLEAN]
    BY DEF OwnLists
  <2>2. ASSUME NEW c \in Call
        PROVE  /\ route[c] \in 0 .. Len(cfg.routes)
               /\ attempt[c] # 0 => attempt[c] \in DOMAIN Pool(c).fallback
               /\ outcome[c].idx \in 0 .. Len(cands[c])
               /\ outcome[c].err = "nil" <=> outcome[c].idx # 0
    <3>1. /\ PhaseOk(Pool(c), pc[c], attempt[c], resolved[c], cands[c], outcome[c], req[c], now)
          /\ pc[c] \in Phase /\ route[c] \in 0 .. Len(cfg.routes)
      BY DEF EngineInv
    <3> QED BY <3>1, CallTypes
  <2> QED BY <2>1, <2>2 DEF EngineInv, TypeOK, Phase
<1> QED BY <1>1, EngineKeeps, PTL

\* Candidates on their way to the choice passed the filters at some time.
LEMMA CandidatesPass ==
    ASSUME NEW pool, NEW p, NEW k, NEW s, NEW cs, NEW o, NEW who, NEW at,
           PhaseOk(pool, p, k, s, cs, o, who, at),
           p \in {"sort", "pick", "done"}, s # <<>>, o.err # "no_backends"
    PROVE  /\ Fetched(pool, k, s, who, at)
           /\ \E t \in 0 .. at :
                  \A b \in Range(cs) : b \in Range(s) /\ Passes(FiltersOf(pool, k), b, who, t)
<1>1. Fetched(pool, k, s, who, at)
  BY DEF PhaseOk, Ended, Failed
<1> DEFINE K == Controls(pool, k)
<1>2. IsBackends(s) /\ IsList(K.sort) /\ K.limit \in Int /\ K.filters = FiltersOf(pool, k)
  BY <1>1, ControlsFacts DEF Fetched
<1>3. IsList(s) /\ DOMAIN s = 1 .. Len(s)
  BY <1>2 DEF IsBackends, IsList
<1>4. CASE p = "sort"
  <2>1. PICK t \in 0 .. at : cs = ApplyFilters(s, K.filters, who, t)
    BY <1>4 DEF PhaseOk
  <2> HIDE DEF K
  <2>2. cs \in Seq(Range(s)) /\ \E m : Keeps(m, Len(s), s, cs, K.filters, who, t)
    BY <1>3, <2>1, FilterKeeps
  <2>3. PICK m : Keeps(m, Len(s), s, cs, K.filters, who, t)
    BY <2>2
  <2>4. ASSUME NEW b \in Range(cs) PROVE b \in Range(s) /\ Passes(K.filters, b, who, t)
    <3>1. PICK i \in 1 .. Len(cs) : b = cs[i]
      BY <2>2 DEF Range
    <3>2. m[i] \in 1 .. Len(s) /\ b = s[m[i]]
      BY <2>3, <3>1 DEF Keeps
    <3> QED BY <1>3, <2>3, <3>1, <3>2 DEF Keeps, Range
  <2> QED BY <1>1, <1>2, <2>4
<1>5. CASE p \in {"pick", "done"}
  <2>1. FromList(pool, k, s, cs, who, at)
    BY <1>5 DEF PhaseOk, Ended, Failed
  <2>2. PICK t \in 0 .. at : cs = Chosen(s, K, who, t)
    BY <2>1 DEF FromList
  <2> HIDE DEF K
  <2> DEFINE P == Passing(s, K.filters, who, t)
  <2>3. PICK from \in [DOMAIN cs -> P] : \A i \in DOMAIN cs : cs[i] = s[from[i]]
    BY <1>2, <2>2, ChosenAreBest
  <2>4. ASSUME NEW b \in Range(cs) PROVE b \in Range(s) /\ Passes(K.filters, b, who, t)
    <3>1. PICK i \in DOMAIN cs : b = cs[i]
      BY DEF Range
    <3>2. from[i] \in P /\ b = s[from[i]]
      BY <2>3, <3>1
    <3> QED BY <3>2 DEF Passing, Range
  <2> QED BY <1>1, <1>2, <2>4
<1> QED BY <1>4, <1>5

\* What Eligible means in terms of the places of the list.
LEMMA NobodyEligible ==
    ASSUME NEW c \in Call, NEW k, NEW t,
           Passing(resolved[c], FiltersOf(Pool(c), k), req[c], t) = {}
    PROVE  Eligible(c, k, t) = {}
BY DEF Eligible, Passing, Range

\* A fallback is used only when nothing passes the attempts before it, its
\* candidates pass its own filters, and "no backends" means that no attempt has
\* any, for every pool and however the clock and the other calls go on.
THEOREM FallbacksInOrder == Spec => []FallbackOrder
<1>1. EngineInv => FallbackOrder
  <2> SUFFICES ASSUME EngineInv, NEW c \in Call,
                      pc[c] \in {"sort", "pick", "done"}, resolved[c] # <<>>
               PROVE  /\ \A k \in 0 .. attempt[c] - 1 : Eligible(c, k, now) = {}
                      /\ IF outcome[c].err = "no_backends"
                         THEN \A k \in 0 .. Len(Pool(c).fallback) : Eligible(c, k, now) = {}
                         ELSE \E t \in 0 .. now :
                                  Range(cands[c]) \subseteq Eligible(c, attempt[c], t)
    BY DEF FallbackOrder
  <2> DEFINE pool == Pool(c)
  <2>1. PhaseOk(pool, pc[c], attempt[c], resolved[c], cands[c], outcome[c], req[c], now)
    BY DEF EngineInv
  <2>2. \A k \in 0 .. attempt[c] - 1 : Eligible(c, k, now) = {}
    <3>1. Fetched(pool, attempt[c], resolved[c], req[c], now)
      BY <2>1 DEF PhaseOk, Ended
    <3> QED BY <3>1, NobodyEligible DEF Fetched
  <2>3. CASE outcome[c].err = "no_backends"
    <3>1. Ended(pool, attempt[c], resolved[c], cands[c], outcome[c], req[c], now)
      BY <2>1, <2>3 DEF PhaseOk, NoOutcome
    <3>2. \A k \in 0 .. Len(pool.fallback) :
              Passing(resolved[c], FiltersOf(pool, k), req[c], now) = {}
      <4> HIDE DEF pool
      <4>1. ~ \/ outcome[c] = Failed("key") \/ outcome[c] = Failed("weights")
              \/ \E i \in 1 .. Len(cands[c]) : outcome[c] = [idx |-> i, err |-> "nil"]
        <5>1. outcome[c] # Failed("key") /\ outcome[c] # Failed("weights")
          BY <2>3 DEF Failed
        <5>2. \A i : outcome[c] # [idx |-> i, err |-> "nil"]
          BY <2>3
        <5> QED BY <5>1, <5>2
      <4> QED BY <3>1, <4>1, Zenon DEF Ended
    <3> QED BY <2>2, <2>3, <3>2, NobodyEligible
  <2>4. CASE outcome[c].err # "no_backends"
    <3>1. PICK t \in 0 .. now :
              \A b \in Range(cands[c]) : /\ b \in Range(resolved[c])
                                         /\ Passes(FiltersOf(pool, attempt[c]), b, req[c], t)
      BY <2>1, <2>4, CandidatesPass
    <3>2. Range(cands[c]) \subseteq Eligible(c, attempt[c], t)
      BY <3>1 DEF Eligible
    <3> QED BY <2>2, <2>4, <3>2
  <2> QED BY <2>3, <2>4
<1> QED BY <1>1, EngineKeeps, PTL

\* r comes from different places of s that pass, in the order of the keys and
\* of the list, and what it leaves out belongs after it.
FirstOf(r, s, k, who, at) ==
    \E from \in [DOMAIN r -> Passing(s, k.filters, who, at)] :
        /\ \A i \in DOMAIN r : r[i] = s[from[i]]
        /\ \A i, j \in DOMAIN r : i < j => Ahead(s, from[i], from[j], k.sort)
        /\ Range(from) = Passing(s, k.filters, who, at) \/ (k.limit > 0 /\ Len(r) = k.limit)
        /\ \A p \in Passing(s, k.filters, who, at) \ Range(from), i \in DOMAIN r :
               Ahead(s, from[i], p, k.sort)

\* The candidates come in the order of the keys and of the list, and the limit
\* cuts off none that belongs before one it keeps.
THEOREM LimitCutsTheRest == Spec => []LimitKeepsBest
<1>1. EngineInv => LimitKeepsBest
  <2> SUFFICES ASSUME EngineInv, NEW c \in Call, pc[c] = "pick",
                      Ordered(resolved[c], Controls(Pool(c), attempt[c]).sort)
               PROVE  \E t \in 0 .. now :
                          FirstOf(cands[c], resolved[c], Controls(Pool(c), attempt[c]), req[c], t)
    BY Zenon DEF LimitKeepsBest, FirstOf, Passing
  <2> DEFINE s == resolved[c]
             k == Controls(Pool(c), attempt[c])
  <2>1. PhaseOk(Pool(c), "pick", attempt[c], s, cands[c], outcome[c], req[c], now)
    BY DEF EngineInv
  <2>2. Fetched(Pool(c), attempt[c], s, req[c], now)
    BY <2>1 DEF PhaseOk
  <2>3. PICK t \in 0 .. now : cands[c] = Chosen(s, k, req[c], t)
    BY <2>1 DEF PhaseOk, FromList
  <2>4. IsBackends(s) /\ IsList(k.sort) /\ k.limit \in Int /\ Ordered(s, k.sort)
    BY <2>2, ControlsFacts DEF Fetched
  <2> HIDE DEF s, k
  <2>5. FirstOf(Chosen(s, k, req[c], t), s, k, req[c], t)
    BY <2>4, ChosenAreBest, Zenon DEF FirstOf
  <2> QED BY <2>3, <2>5 DEF s, k
<1> QED BY <1>1, EngineKeeps, PTL

-----------------------------------------------------------------------------
\* Weighted picks.

\* The sums of the shares, one backend at a time.
LEMMA SumsAlong ==
    ASSUME NEW s, IsBackends(s)
    PROVE  \E F \in [0 .. Len(s) -> Int] :
               SumRun(F, s) /\ \A n \in 0 .. Len(s) : SumUpTo(s, n) = F[n]
<1> DEFINE N == Len(s)
<1>1. IsList(s) /\ N \in Nat /\ DOMAIN s = 1 .. N /\ s \in Seq(Range(s))
  BY DEF IsBackends, IsList
<1>2. \A i \in DOMAIN s : s[i].weight \in Int
  BY DEF IsBackends, IsBackend, Range
<1>3. PICK F \in [0 .. N -> Int] : SumRun(F, s)
  BY <1>1, <1>2, SumSteps
<1>4. ASSUME NEW n \in 0 .. N PROVE SumUpTo(s, n) = F[n]
  <2> DEFINE t == SubSeq(s, 1, n)
  <2>1. t \in Seq(Range(s)) /\ Len(t) = n /\ \A i \in 1 .. n : t[i] = s[i]
    BY <1>1
  <2>2. SumUpTo(s, n) = FoldLeft(LAMBDA acc, b : acc + Share(b), 0, t)
    BY DEF SumUpTo
  <2> HIDE DEF t
  <2>3. IsList(t) /\ \A i \in DOMAIN t : t[i].weight \in Int
    <3>1. \A i \in 1 .. n : i \in 1 .. N
      BY <1>1
    <3>2. t \in Seq(Range(t)) /\ DOMAIN t = 1 .. n
      BY <2>1 DEF Range
    <3> QED BY <1>1, <1>2, <2>1, <3>1, <3>2 DEF IsList
  <2>4. PICK G \in [0 .. Len(t) -> Int] :
            SumRun(G, t) /\ G[Len(t)] = FoldLeft(LAMBDA acc, b : acc + Share(b), 0, t)
    BY <2>3, SumSteps
  <2> DEFINE T == {m \in 0 .. n : G[m] = F[m]}
  <2>5. 0 \in T
    <3>1. G[0] = 0
      BY <2>4 DEF SumRun
    <3>2. F[0] = 0
      BY <1>3 DEF SumRun
    <3>3. n \in Nat
      BY <1>1
    <3> QED BY <3>1, <3>2, <3>3
  <2>6. ASSUME NEW m \in 0 .. n - 1, m \in T PROVE m + 1 \in T
    <3>1. m + 1 \in 1 .. n /\ m + 1 \in 1 .. N /\ (m + 1) - 1 = m /\ G[m] = F[m]
      BY <1>1, <2>6
    <3>2. G[m + 1] = G[(m + 1) - 1] + Share(t[m + 1])
      BY <2>1, <2>4, <3>1 DEF SumRun
    <3>3. F[m + 1] = F[(m + 1) - 1] + Share(s[m + 1])
      BY <1>3, <3>1 DEF SumRun
    <3> QED BY <2>1, <3>1, <3>2, <3>3
  <2>7. 0 .. n \subseteq T
    <3> HIDE DEF T
    <3>1. n \in Nat
      BY <1>1
    <3> QED BY <2>5, <2>6, <3>1, InductionUpTo
  <2>8. G[n] = F[n]
    BY <2>7
  <2> QED BY <2>1, <2>2, <2>4, <2>8
<1> QED BY <1>3, <1>4

\* ... grow with every backend.
LEMMA SumsGrow ==
    ASSUME NEW N \in Nat, NEW F \in [0 .. N -> Int], \A n \in 1 .. N : F[n - 1] < F[n]
    PROVE  \A n \in 0 .. N : \A m \in 0 .. n : F[m] <= F[n]
<1> DEFINE T == {n \in 0 .. N : \A m \in 0 .. n : F[m] <= F[n]}
<1>1. 0 \in T
  OBVIOUS
<1>2. ASSUME NEW n \in 0 .. N - 1, n \in T PROVE n + 1 \in T
  <2>1. F[n] < F[n + 1] /\ n + 1 \in 0 .. N
    <3>1. n + 1 \in 1 .. N /\ (n + 1) - 1 = n
      OBVIOUS
    <3> QED BY <3>1
  <2>2. ASSUME NEW m \in 0 .. n + 1 PROVE F[m] <= F[n + 1]
    <3>1. CASE m = n + 1
      BY <2>1, <3>1
    <3>2. CASE m # n + 1
      <4>1. m \in 0 .. n
        BY <3>2
      <4>2. F[m] <= F[n]
        BY <1>2, <4>1
      <4> QED BY <2>1, <4>1, <4>2
    <3> QED BY <3>1, <3>2
  <2> QED BY <2>1, <2>2
<1>3. 0 .. N \subseteq T
  <2> HIDE DEF T
  <2> QED BY <1>1, <1>2, InductionUpTo
<1> QED BY <1>3

\* A sum that an int holds does not wrap around.
LEMMA NoWrap ==
    ASSUME NEW n \in 0 .. MaxInt
    PROVE  Wrapped(n) = n
<1> DEFINE m == 2 * (MaxInt + 1)
           a == n + MaxInt + 1
<1>1. m \in Nat \ {0} /\ a \in 0 .. m - 1 /\ a - (MaxInt + 1) = n
  BY NumbersAssumption
<1>2. a % m = a
  <2> HIDE DEF a, m
  <2> QED BY <1>1
<1> QED BY <1>1, <1>2 DEF Wrapped

\* weighted draws each backend as often as its share says, unless the sum of the
\* shares is more than an int holds.
LEMMA SharesAreFair ==
    ASSUME NEW s, IsBackends(s), s # <<>>, SumUpTo(s, Len(s)) <= MaxInt
    PROVE  /\ Total(s) > 0
           /\ \A i \in DOMAIN s :
                  Cardinality({r \in 0 .. Total(s) - 1 : WeightedPick(s, r) = i}) = Share(s[i])
<1> DEFINE N == Len(s)
<1>1. N \in Nat \ {0} /\ DOMAIN s = 1 .. N
  BY DEF IsBackends, IsList
<1>2. PICK F \in [0 .. N -> Int] :
          SumRun(F, s) /\ \A n \in 0 .. N : SumUpTo(s, n) = F[n]
  BY SumsAlong
<1>3. \A i \in 1 .. N : Share(s[i]) \in Nat \ {0}
  BY <1>1 DEF IsBackends, IsBackend, Range, Share
<1>4. F[0] = 0 /\ \A n \in 1 .. N : F[n] = F[n - 1] + Share(s[n])
  BY <1>2 DEF SumRun
<1>5. \A n \in 1 .. N : F[n - 1] < F[n]
  <2> TAKE n \in 1 .. N
  <2>1. F[n - 1] \in Int /\ F[n] \in Int
    BY <1>1, <1>2
  <2> QED BY <1>3, <1>4, <2>1
<1> HIDE DEF N
<1>6. \A n \in 0 .. N : \A m \in 0 .. n : F[m] <= F[n]
  BY <1>1, <1>2, <1>5, SumsGrow
<1>7. ASSUME NEW n \in 0 .. N PROVE F[n] \in 0 .. MaxInt /\ SharesUpTo(s, n) = F[n]
  <2>1. 0 \in 0 .. n /\ n \in 0 .. N /\ N \in 0 .. N /\ MaxInt \in Nat
    BY <1>1, NumbersAssumption
  <2>2. F[0] <= F[n] /\ F[n] <= F[N] /\ F[N] <= MaxInt
    BY <1>2, <1>6, <2>1 DEF N
  <2>3. F[n] \in 0 .. MaxInt
    <3>1. F[0] = 0
      BY <1>4
    <3>2. F[n] \in Int /\ F[N] \in Int
      BY <2>1
    <3> QED BY <2>1, <2>2, <3>1, <3>2
  <2>4. SumUpTo(s, n) = F[n]
    BY <1>2
  <2>5. Wrapped(F[n]) = F[n]
    BY <2>3, NoWrap
  <2> QED BY <2>3, <2>4, <2>5 DEF SharesUpTo
<1>8. Total(s) = F[N] /\ F[N] > 0
  <2>1. Total(s) = F[N]
    BY <1>1, <1>7 DEF Total, N
  <2>2. F[N - 1] < F[N] /\ F[N - 1] \in 0 .. MaxInt /\ F[N] \in 0 .. MaxInt
    BY <1>1, <1>5, <1>7
  <2> QED BY <2>1, <2>2, NumbersAssumption
<1>9. ASSUME NEW i \in 1 .. N
      PROVE  {r \in 0 .. Total(s) - 1 : WeightedPick(s, r) = i} = F[i - 1] .. F[i] - 1
  <2>0. /\ F[i - 1] \in 0 .. MaxInt /\ F[i] \in 0 .. MaxInt /\ F[N] \in 0 .. MaxInt
        /\ F[i] <= F[N] /\ MaxInt \in Nat
    BY <1>1, <1>6, <1>7, NumbersAssumption
  <2>1. ASSUME NEW r \in 0 .. F[N] - 1
        PROVE  WeightedPick(s, r) = i <=> F[i - 1] <= r /\ r < F[i]
    <3> DEFINE I == {j \in 1 .. N : r < F[j]}
    <3>1. WeightedPick(s, r) = Min(I)
      <4>1. {j \in DOMAIN s : r < SharesUpTo(s, j)} \cup {N} = I
        BY <1>1, <1>7, <2>0
      <4> QED BY <4>1 DEF WeightedPick, N
    <3>2. I \in SUBSET Nat /\ I # {} /\ r \in Nat
      BY <1>1, <2>0
    <3>3. Min(I) \in 1 .. N /\ r < F[Min(I)] /\ \A j \in 1 .. N : r < F[j] => Min(I) <= j
      BY <3>2, MinIsLeast
    <3> HIDE DEF I
    <3> DEFINE p == Min(I)
    <3>4. p \in 1 .. N /\ r < F[p] /\ (\A j \in 1 .. N : r < F[j] => p <= j)
      BY <3>3
    <3> HIDE DEF p
    <3>5. ASSUME p = i PROVE F[i - 1] <= r /\ r < F[i]
      <4>1. CASE i = 1
        BY <1>4, <3>2, <3>4, <3>5, <4>1
      <4>2. CASE i # 1
        <5>1. i - 1 \in 1 .. N /\ ~ (i <= i - 1)
          BY <1>1, <4>2
        <5>2. ~ (r < F[i - 1])
          BY <3>4, <3>5, <5>1
        <5> QED BY <2>0, <3>2, <3>4, <3>5, <5>2
      <4> QED BY <4>1, <4>2
    <3>6. ASSUME F[i - 1] <= r, r < F[i] PROVE p = i
      <4>1. p <= i
        BY <3>4, <3>6
      <4>2. ~ (p <= i - 1)
        <5> SUFFICES ASSUME p <= i - 1 PROVE FALSE
          OBVIOUS
        <5>1. i - 1 \in 0 .. N /\ p \in 0 .. i - 1
          BY <1>1, <3>4
        <5>2. F[p] <= F[i - 1] /\ p \in 0 .. N
          BY <1>1, <1>6, <5>1
        <5>3. F[p] \in 0 .. MaxInt
          BY <1>7, <5>2
        <5> QED BY <2>0, <3>2, <3>4, <3>6, <5>2, <5>3
      <4> QED BY <1>1, <3>4, <4>1, <4>2
    <3> QED BY <3>1, <3>5, <3>6 DEF p
  <2>2. {r \in 0 .. F[N] - 1 : WeightedPick(s, r) = i} = F[i - 1] .. F[i] - 1
    <3>1. \A r \in F[i - 1] .. F[i] - 1 : r \in 0 .. F[N] - 1 /\ F[i - 1] <= r /\ r < F[i]
      BY <2>0
    <3>2. \A r \in 0 .. F[N] - 1 : F[i - 1] <= r /\ r < F[i] => r \in F[i - 1] .. F[i] - 1
      BY <2>0
    <3> QED BY <2>1, <3>1, <3>2
  <2> QED BY <1>8, <2>2
<1>10. ASSUME NEW i \in 1 .. N PROVE Cardinality(F[i - 1] .. F[i] - 1) = Share(s[i])
  <2>1. /\ F[i - 1] \in Int /\ F[i] \in Int
        /\ F[i] = F[i - 1] + Share(s[i]) /\ Share(s[i]) \in Nat \ {0}
    BY <1>1, <1>2, <1>3, <1>4 DEF N
  <2>2. Cardinality(F[i - 1] .. F[i] - 1) =
            IF F[i - 1] > F[i] - 1 THEN 0 ELSE (F[i] - 1) - F[i - 1] + 1
    <3>1. \A a, b \in Int : Cardinality(a .. b) = IF a > b THEN 0 ELSE b - a + 1
      BY FS_Interval
    <3>2. F[i] - 1 \in Int
      BY <2>1
    <3> QED BY <2>1, <3>1, <3>2
  <2> QED BY <2>1, <2>2
<1> QED BY <1>1, <1>8, <1>9, <1>10

\* weighted is fair in every pool, and gives up only on weights whose sum an int
\* does not hold.
THEOREM SharesOfWeights == Spec => []WeightedShares
<1>1. EngineInv => WeightedShares
  <2> SUFFICES ASSUME EngineInv, NEW c \in Call
               PROVE  LET sum == SumUpTo(cands[c], Len(cands[c]))
                      IN  /\ /\ pc[c] = "pick" /\ sum <= MaxInt
                             /\ Controls(Pool(c), attempt[c]).strategy = "weighted"
                             => /\ Total(cands[c]) > 0
                                /\ \A i \in DOMAIN cands[c] :
                                       LET drawn == {r \in 0 .. Total(cands[c]) - 1 :
                                                         WeightedPick(cands[c], r) = i}
                                       IN  Cardinality(drawn) = Share(cands[c][i])
                          /\ outcome[c].err = "weights" => sum > MaxInt
    BY DEF WeightedShares
  <2> DEFINE s == resolved[c]
             cs == cands[c]
             pool == Pool(c)
  <2>1. PhaseOk(pool, pc[c], attempt[c], s, cs, outcome[c], req[c], now) /\ pc[c] \in Phase
    BY DEF EngineInv
  <2>2. ASSUME Fetched(pool, attempt[c], s, req[c], now),
               FromList(pool, attempt[c], s, cs, req[c], now)
        PROVE  IsBackends(cs) /\ cs # <<>>
    <3> DEFINE K == Controls(pool, attempt[c])
    <3>1. IsBackends(s) /\ IsList(K.sort) /\ K.limit \in Int
      BY <2>2, ControlsFacts DEF Fetched
    <3>2. cs # <<>> /\ \E t \in 0 .. now : cs = Chosen(s, K, req[c], t)
      BY <2>2 DEF FromList
    <3> HIDE DEF K, s, cs
    <3>3. cs \in Seq(Range(s))
      BY <3>1, <3>2, ChosenIsList
    <3> QED BY <3>1, <3>2, <3>3, ListOfBackends DEF IsBackends
  <2>3. ASSUME IsBackends(cs), cs # <<>>
        PROVE  SumUpTo(cs, Len(cs)) \in Int
    <3>1. Len(cs) \in 0 .. Len(cs)
      BY <2>3 DEF IsBackends, IsList
    <3> QED BY <2>3, <3>1, SumsAlong
  <2>4. ASSUME pc[c] = "pick", SumUpTo(cs, Len(cs)) <= MaxInt
        PROVE  /\ Total(cs) > 0
               /\ \A i \in DOMAIN cs :
                      Cardinality({r \in 0 .. Total(cs) - 1 : WeightedPick(cs, r) = i}) = Share(cs[i])
    <3>1. IsBackends(cs) /\ cs # <<>>
      BY <2>1, <2>2, <2>4 DEF PhaseOk
    <3> HIDE DEF cs
    <3> QED BY <2>4, <3>1, SharesAreFair
  <2>5. ASSUME outcome[c].err = "weights" PROVE SumUpTo(cs, Len(cs)) > MaxInt
    <3>1. Ended(pool, attempt[c], s, cs, outcome[c], req[c], now)
      BY <2>1, <2>5 DEF PhaseOk, Phase, NoOutcome
    <3>2. /\ Fetched(pool, attempt[c], s, req[c], now)
          /\ FromList(pool, attempt[c], s, cs, req[c], now)
          /\ Total(cs) <= 0
      <4> HIDE DEF pool, s, cs
      <4>1. \A e \in {"unmatched", "discovery", "no_backends", "key"} : outcome[c] # Failed(e)
        BY <2>5 DEF Failed
      <4>2. \A i : outcome[c] # [idx |-> i, err |-> "nil"]
        BY <2>5
      <4> QED BY <3>1, <4>1, <4>2 DEF Ended
    <3>3. IsBackends(cs) /\ cs # <<>> /\ SumUpTo(cs, Len(cs)) \in Int
      BY <2>2, <2>3, <3>2
    <3> HIDE DEF cs
    <3>4. ~ (SumUpTo(cs, Len(cs)) <= MaxInt)
      <4> SUFFICES ASSUME SumUpTo(cs, Len(cs)) <= MaxInt PROVE FALSE
        OBVIOUS
      <4>1. Total(cs) > 0
        BY <3>3, SharesAreFair
      <4>2. Total(cs) \in Int
        <5>1. PICK F \in [0 .. Len(cs) -> Int] : \A n \in 0 .. Len(cs) : SumUpTo(cs, n) = F[n]
          BY <3>3, SumsAlong
        <5> QED BY <3>3, NumbersAssumption DEF Total, SharesUpTo, Wrapped
      <4> QED BY <3>2, <4>1, <4>2
    <3> QED BY <3>3, <3>4, NumbersAssumption
  <2> QED BY <2>4, <2>5
<1> QED BY <1>1, EngineKeeps, PTL

-----------------------------------------------------------------------------
\* Merged lists: the provider wins over the configuration.

\* What the provider listed comes first in the merged list, and in mode prefer
\* alone.
LEMMA ListedFirst ==
    ASSUME NEW mode, NEW disc, IsList(disc), NEW static, IsList(static)
    PROVE  LET both == Merge(mode, disc, static)
           IN  /\ IsList(both)
               /\ \A i \in 1 .. Len(disc) : i \in 1 .. Len(both) /\ both[i] = disc[i]
               /\ mode = "prefer" /\ disc # <<>> => both = disc
<1> DEFINE S == Range(disc) \cup Range(static)
<1>1. disc \in Seq(S) /\ static \in Seq(S) /\ Len(disc) \in Nat
  BY DEF IsList, Range
<1> HIDE DEF S
<1>2. CASE mode = "prefer" /\ disc # <<>>
  BY <1>2 DEF Merge
<1>3. CASE mode = "prefer" /\ disc = <<>>
  <2>1. Merge(mode, disc, static) = static /\ Len(disc) = 0
    BY <1>3 DEF Merge
  <2> QED BY <1>3, <2>1
<1>4. CASE mode # "prefer"
  <2>1. Merge(mode, disc, static) = disc \o static
    BY <1>4 DEF Merge
  <2> DEFINE both == disc \o static
  <2>2. both \in Seq(S) /\ Len(both) = Len(disc) + Len(static)
        /\ \A i \in 1 .. Len(disc) : both[i] = disc[i]
    BY <1>1
  <2> HIDE DEF both
  <2>3. both \in Seq(Range(both)) /\ Len(static) \in Nat
    BY <1>1, <2>2 DEF Range
  <2>4. \A i \in 1 .. Len(disc) : i \in 1 .. Len(both)
    BY <1>1, <2>2, <2>3
  <2>5. IsList(both)
    BY <2>3 DEF IsList
  <2>6. Merge(mode, disc, static) = both
    BY <2>1 DEF both
  <2> QED BY <1>4, <2>2, <2>4, <2>5, <2>6
<1> QED BY <1>2, <1>3, <1>4

\* What a pool with discovery resolves to differs from the merged list without
\* its duplicates in the weights only.
LEMMA OnlyWeights ==
    ASSUME NEW pool, IsBackends(pool.backends), NEW disc, IsBackends(disc)
    PROVE  LET x == Dedupe(Merge(pool.mode, disc, pool.backends))
               r == Discovered(pool, disc)
           IN  /\ DOMAIN r = 1 .. Len(x)
               /\ \A i \in 1 .. Len(x) : r[i].addr = x[i].addr /\ r[i].meta = x[i].meta
<1> DEFINE both == Merge(pool.mode, disc, pool.backends)
           x == Dedupe(both)
           S == Range(disc) \cup Range(pool.backends)
<1>1. IsList(both)
  BY ListedFirst DEF IsBackends
<1>2. \A b \in Range(both) : IsBackend(b)
  <2>1. disc \in Seq(S) /\ pool.backends \in Seq(S) /\ \A b \in S : IsBackend(b)
    BY DEF IsBackends, IsList, Range
  <2>2. both \in Seq(S)
    BY <2>1 DEF Merge
  <2> HIDE DEF both, S
  <2>3. IsBackends(both)
    BY <2>1, <2>2, ListOfBackends
  <2> QED BY <2>3 DEF IsBackends
<1> HIDE DEF both
<1>3. x \in Seq(Range(both))
  BY <1>1, DedupeKeepsFirst
<1> HIDE DEF x
<1>4. DOMAIN x = 1 .. Len(x) /\ \A i \in 1 .. Len(x) : IsBackend(x[i])
  BY <1>2, <1>3
<1>5. CASE pool.strategy = "weighted"
  <2>1. Discovered(pool, disc) = [i \in DOMAIN x |-> AtLeastOne(x[i])]
    BY <1>5 DEF Discovered, x, both
  <2>2. \A i \in 1 .. Len(x) :
            AtLeastOne(x[i]).addr = x[i].addr /\ AtLeastOne(x[i]).meta = x[i].meta
    BY <1>4 DEF AtLeastOne, IsBackend
  <2> QED BY <1>4, <2>1, <2>2 DEF x, both
<1>6. CASE pool.strategy # "weighted"
  <2>1. Discovered(pool, disc) = x
    BY <1>6 DEF Discovered, x, both
  <2> QED BY <1>4, <2>1 DEF x, both
<1> QED BY <1>5, <1>6

\* What a pool with discovery resolves to has the first backends that were listed.
LEMMA DiscoveredIs ==
    ASSUME NEW pool, IsBackends(pool.backends), NEW disc, IsBackends(disc)
    PROVE  FirstListed(pool, disc, Discovered(pool, disc))
<1> DEFINE both == Merge(pool.mode, disc, pool.backends)
           x == Dedupe(both)
           r == Discovered(pool, disc)
<1>1. /\ IsList(both)
      /\ \A i \in 1 .. Len(disc) : i \in 1 .. Len(both) /\ both[i] = disc[i]
      /\ pool.mode = "prefer" /\ disc # <<>> => both = disc
  BY ListedFirst DEF IsBackends
<1>2. /\ DOMAIN r = 1 .. Len(x)
      /\ \A i \in 1 .. Len(x) : r[i].addr = x[i].addr /\ r[i].meta = x[i].meta
  BY OnlyWeights
<1> HIDE DEF both, r
<1>3. /\ x \in Seq(Range(both))
      /\ \A i, j \in 1 .. Len(x) : x[i].addr = x[j].addr => i = j
      /\ \A k \in 1 .. Len(both) :
             /\ \E i \in 1 .. Len(x) : x[i].addr = both[k].addr
             /\ (\A j \in 1 .. k - 1 : both[j].addr # both[k].addr) =>
                    \E i \in 1 .. Len(x) : x[i] = both[k]
  BY <1>1, DedupeKeepsFirst
<1> HIDE DEF x
<1>4. DOMAIN disc = 1 .. Len(disc) /\ Len(disc) \in Nat
  BY DEF IsBackends, IsList
<1>5. ASSUME NEW k \in 1 .. Len(disc), \A j \in 1 .. k - 1 : disc[j].addr # disc[k].addr
      PROVE  \E b \in Range(r) : b.addr = disc[k].addr /\ b.meta = disc[k].meta
  <2>1. \A j \in 1 .. k - 1 : j \in 1 .. Len(disc)
    BY <1>4
  <2>2. \A j \in 1 .. k - 1 : both[j].addr # both[k].addr
    BY <1>1, <1>5, <2>1
  <2>3. PICK i \in 1 .. Len(x) : x[i] = disc[k]
    <3>1. k \in 1 .. Len(both) /\ both[k] = disc[k]
      BY <1>1
    <3>2. \E i \in 1 .. Len(x) : x[i] = both[k]
      BY <1>3, <2>2, <3>1
    <3> QED BY <3>1, <3>2
  <2> QED BY <1>2, <2>3 DEF Range
<1>6. ASSUME pool.mode = "prefer", {b.addr : b \in Range(disc)} # {}
      PROVE  {b.addr : b \in Range(r)} = {b.addr : b \in Range(disc)}
  <2>1. disc # <<>> /\ both = disc
    BY <1>1, <1>4, <1>6 DEF Range
  <2>2. ASSUME NEW b \in Range(r) PROVE b.addr \in {d.addr : d \in Range(disc)}
    <3>1. PICK i \in 1 .. Len(x) : b = r[i]
      BY <1>2 DEF Range
    <3>2. b.addr = x[i].addr /\ x[i] \in Range(disc)
      BY <1>2, <1>3, <2>1, <3>1
    <3> QED BY <3>2
  <2>3. ASSUME NEW d \in Range(disc) PROVE d.addr \in {b.addr : b \in Range(r)}
    <3>1. PICK k \in 1 .. Len(disc) : d = disc[k]
      BY <1>4 DEF Range
    <3>2. PICK i \in 1 .. Len(x) : x[i].addr = disc[k].addr
      BY <1>3, <2>1
    <3> QED BY <1>2, <3>1, <3>2 DEF Range
  <2> QED BY <2>2, <2>3
<1>7. \A i, j \in DOMAIN r : r[i].addr = r[j].addr => i = j
  BY <1>2, <1>3
<1> QED BY <1>4, <1>5, <1>6, <1>7 DEF FirstListed, r

\* A provider's backends win over the static ones, each address is there once,
\* whatever the provider lists at the moment the call asks.
THEOREM ProviderWins == Spec => DiscoveredWins
<1> DEFINE A == \A c \in Call : pc[c] = "resolve" /\ pc'[c] = "filter" /\ Pool(c)'.discovery =>
                    FirstListed(Pool(c)', listing, resolved'[c])
<1>1. OwnLists /\ KeyInv /\ EngineInv /\ [Next]_vars => [A]_vars
  <2> SUFFICES ASSUME OwnLists, KeyInv, EngineInv, Next, NEW c \in Call,
                      pc[c] = "resolve", pc'[c] = "filter", Pool(c)'.discovery
               PROVE  FirstListed(Pool(c)', listing, resolved'[c])
    OBVIOUS
  <2>1. cfg' = cfg
    BY NextOwn
  <2>2. Decide(c)
    <3>1. CASE Relist \/ Tick
      BY <3>1 DEF Relist, Tick
    <3>2. ASSUME NEW x \in Call, Decide(x) PROVE x = c
      <4>1. x # c => pc'[c] = pc[c]
        BY <2>1, <3>2, OthersKeep
      <4> QED BY <4>1
    <3> QED BY <3>1, <3>2 DEF Next
  <2>3. DOMAIN pc = Call /\ DOMAIN resolved = Call /\ CallInv(c) /\ cfg \in Config
    BY DEF KeyInv, EngineInv
  <2>4. ResolveStatic(c) \/ ResolveDiscovered(c)
    <3> USE DEF Goto, Finish
    <3>1. ~ (Match(c) \/ Unmatched(c) \/ ResolveFails(c))
      BY <2>3 DEF Match, Unmatched, ResolveFails
    <3>2. ~ (Filter(c) \/ FallBack(c) \/ NothingPasses(c) \/ SortAndLimit(c)
             \/ PickOne(c) \/ KeyMissing(c) \/ WeightsOverflow(c))
      BY DEF Filter, FallBack, NothingPasses, SortAndLimit, PickOne, KeyMissing, WeightsOverflow
    <3> QED BY <2>2, <3>1, <3>2 DEF Decide
  <2>5. Pool(c)' = Pool(c)
    BY <2>1, <2>4 DEF ResolveStatic, ResolveDiscovered, Pool, PoolOf
  <2>6. ResolveDiscovered(c)
    BY <2>4, <2>5 DEF ResolveStatic
  <2>7. resolved'[c] = Discovered(Pool(c), listing) /\ IsBackends(listing)
    BY <2>3, <2>6, ListingAssumption DEF EngineInv, ResolveDiscovered
  <2>8. IsBackends(Pool(c).backends)
    <3>1. IsPool(Pool(c))
      BY <2>3, PoolsHaveShape DEF CallInv, Working
    <3> QED BY <3>1 DEF IsPool
  <2> QED BY <2>5, <2>7, <2>8, DiscoveredIs
<1>2. Spec => [][A]_vars
  BY <1>1, EngineKeeps, PTL DEF Spec
<1> QED BY <1>2 DEF DiscoveredWins

-----------------------------------------------------------------------------
\* round_robin: the counter of a pool and the calls it served.

\* Without filters nothing is lost.
LEMMA NoneLost ==
    ASSUME NEW s, IsList(s), NEW who, NEW at
    PROVE  ApplyFilters(s, <<>>, who, at) \in Seq(Range(s))
           /\ Len(ApplyFilters(s, <<>>, who, at)) = Len(s)
<1> DEFINE N == Len(s)
<1>1. N \in Nat /\ DOMAIN s = 1 .. N
  BY DEF IsList
<1>2. PICK F \in [0 .. N -> Seq(Range(s))] :
          FilterRun(F, s, <<>>, who, at) /\ F[N] = ApplyFilters(s, <<>>, who, at)
  BY FilterSteps
<1> DEFINE T == {n \in 0 .. N : Len(F[n]) = n}
<1>3. 0 \in T
  <2>1. F[0] = <<>>
    BY <1>2 DEF FilterRun
  <2> QED BY <1>1, <2>1
<1>4. ASSUME NEW n \in 0 .. N - 1, n \in T PROVE n + 1 \in T
  <2>1. n + 1 \in 1 .. N /\ (n + 1) - 1 = n /\ F[n] \in Seq(Range(s)) /\ Len(F[n]) = n
    BY <1>1, <1>2, <1>4
  <2>2. Passes(<<>>, s[n + 1], who, at)
    BY DEF Passes
  <2>3. F[n + 1] = Append(F[n], s[n + 1])
    BY <1>2, <2>1, <2>2 DEF FilterRun
  <2> QED BY <2>1, <2>3
<1>5. 0 .. N \subseteq T
  <2> HIDE DEF T
  <2> QED BY <1>1, <1>3, <1>4, InductionUpTo
<1>6. N \in T
  BY <1>1, <1>5
<1> QED BY <1>1, <1>2, <1>6

\* How many candidates such a pool has.
LEMMA AsManyAsListed ==
    ASSUME NEW s, IsBackends(s), NEW k, k.filters = <<>>, k.limit \in Int, IsList(k.sort),
           NEW who, NEW at
    PROVE  Len(Chosen(s, k, who, at)) = Len(Limited(s, k.limit))
<1> DEFINE x == ApplyFilters(s, <<>>, who, at)
           y == Sorted(x, k.sort)
<1>1. IsList(s)
  BY DEF IsBackends
<1>2. x \in Seq(Range(s)) /\ Len(x) = Len(s)
  BY <1>1, NoneLost
<1> HIDE DEF x
<1>3. IsList(x)
  BY <1>2 DEF IsList, Range
<1>4. y \in Seq(Range(x)) /\ Len(y) = Len(x) /\ \E p : Arranges(p, Len(x), x, y, k.sort)
  BY <1>3, SortArranges
<1> HIDE DEF y
<1>5. Chosen(s, k, who, at) = Limited(y, k.limit)
  BY DEF Chosen, x, y
<1> QED BY <1>1, <1>2, <1>4, <1>5 DEF Limited, IsList

\* The candidates of pool i, and the turns they have had: q rounds, and one
\* more for those before the counter's next.
Turns(i) == Len(Limited(PoolOf(i).backends, PoolOf(i).limit))
EvenInv ==
    \A i \in 0 .. Len(cfg.routes) : Rotates(i) =>
        \E q \in Nat : \A j \in 1 .. Turns(i) :
            Served(i, j) = q + IF j - 1 < rr[i] % Turns(i) THEN 1 ELSE 0

\* The pools of the configuration, by number.
LEMMA PoolsByNumber ==
    ASSUME cfg \in Config, NEW i \in 0 .. Len(cfg.routes), PoolOf(i) # NoPool
    PROVE  /\ IsPool(PoolOf(i)) /\ Turns(i) \in Nat
           /\ DOMAIN Limited(PoolOf(i).backends, PoolOf(i).limit) = 1 .. Turns(i)
<1>1. IsPool(PoolOf(i))
  <2>1. PoolOf(i) \in ({cfg.default} \ {NoPool}) \cup {cfg.routes[j].pool : j \in DOMAIN cfg.routes}
    <3>1. CASE i = 0
      BY <3>1 DEF PoolOf
    <3>2. CASE i # 0
      <4>1. i \in DOMAIN cfg.routes
        BY <3>2, ConfigAssumption DEF IsList
      <4> QED BY <3>2, <4>1 DEF PoolOf
    <3> QED BY <3>1, <3>2
  <2> QED BY <2>1, ConfigAssumption
<1>2. PoolOf(i).backends \in Seq(Range(PoolOf(i).backends)) /\ PoolOf(i).limit \in Int
  BY <1>1 DEF IsPool, IsControls, IsBackends, IsList
<1> QED BY <1>1, <1>2 DEF Limited, Turns

\* Only the choice of a backend changes what was served and what was counted.
LEMMA OnlyPicksServe ==
    ASSUME KeyInv, EngineInv, cfg' = cfg, NEW c \in Call, Decide(c), ~ PickOne(c)
    PROVE  /\ rr' = rr
           /\ \A x \in Call : outcome'[x].idx = outcome[x].idx
                              /\ (outcome[x].idx # 0 => route'[x] = route[x])
<1>1. rr' = rr
  <2>1. CASE Match(c) \/ Unmatched(c) \/ ResolveStatic(c) \/ ResolveDiscovered(c) \/ ResolveFails(c)
    BY <2>1 DEF Match, Unmatched, ResolveStatic, ResolveDiscovered, ResolveFails
  <2>2. CASE Filter(c) \/ FallBack(c) \/ NothingPasses(c) \/ SortAndLimit(c)
             \/ KeyMissing(c) \/ WeightsOverflow(c)
    BY <2>2 DEF Filter, FallBack, NothingPasses, SortAndLimit, KeyMissing, WeightsOverflow
  <2> QED BY <2>1, <2>2 DEF Decide
<1>2. outcome[c].idx = 0 /\ outcome'[c].idx = 0
  <2>1. pc[c] # "done" /\ pc[c] \in Phase
    BY DEF Decide, Match, Unmatched, ResolveStatic, ResolveDiscovered, ResolveFails, Filter,
           FallBack, NothingPasses, SortAndLimit, PickOne, KeyMissing, WeightsOverflow, EngineInv
  <2>2. outcome[c] = NoOutcome
    BY <2>1 DEF EngineInv, PhaseOk, Phase
  <2>3. DOMAIN outcome = Call
    BY DEF KeyInv
  <2>4. outcome'[c] = outcome[c] \/ \E e : outcome'[c] = Failed(e)
    <3>1. CASE Match(c) \/ ResolveStatic(c) \/ ResolveDiscovered(c) \/ Filter(c) \/ FallBack(c)
               \/ SortAndLimit(c)
      BY <3>1 DEF Match, ResolveStatic, ResolveDiscovered, Filter, FallBack, SortAndLimit
    <3>2. CASE Unmatched(c) \/ ResolveFails(c) \/ NothingPasses(c) \/ KeyMissing(c)
               \/ WeightsOverflow(c)
      <4>1. PICK e : Finish(c, Failed(e))
        BY <3>2 DEF Unmatched, ResolveFails, NothingPasses, KeyMissing, WeightsOverflow
      <4> QED BY <2>3, <4>1 DEF Finish
    <3> QED BY <3>1, <3>2 DEF Decide
  <2>5. outcome[c].idx = 0
    BY <2>2 DEF NoOutcome
  <2>6. \A e : Failed(e).idx = 0
    BY DEF Failed
  <2> QED BY <2>4, <2>5, <2>6
<1>3. \A x \in Call \ {c} : route'[x] = route[x] /\ outcome'[x] = outcome[x]
  BY OthersKeep
<1> QED BY <1>1, <1>2, <1>3

\* What was served stays, unless a call gets an index.
LEMMA ServedStays ==
    ASSUME NEW i, NEW j \in Nat \ {0},
           \A x \in Call : outcome'[x].idx = outcome[x].idx
                           /\ (outcome[x].idx # 0 => route'[x] = route[x])
    PROVE  Served(i, j)' = Served(i, j)
<1>1. {x \in Call : route'[x] = i /\ outcome'[x].idx = j}
        = {x \in Call : route[x] = i /\ outcome[x].idx = j}
  OBVIOUS
<1> QED BY <1>1 DEF Served

\* A choice serves one backend of the call's pool once more, and no other.
LEMMA PickServes ==
    ASSUME KeyInv, EngineInv, cfg' = cfg, NEW c \in Call, PickOne(c), NEW i, NEW j \in Nat \ {0}
    PROVE  /\ outcome[c].idx = 0
           /\ Served(i, j) \in Nat
           /\ Served(i, j)' = Served(i, j)
                              + IF route[c] = i /\ outcome'[c].idx = j THEN 1 ELSE 0
<1> DEFINE S == {x \in Call : route[x] = i /\ outcome[x].idx = j}
           R == {x \in Call : route'[x] = i /\ outcome'[x].idx = j}
<1>1. outcome[c] = NoOutcome
  BY DEF PickOne, EngineInv, PhaseOk
<1>2. route' = route /\ \A x \in Call \ {c} : outcome'[x] = outcome[x]
  BY OthersKeep DEF PickOne, Decide
<1>3. outcome[c].idx = 0 /\ c \notin S
  BY <1>1 DEF NoOutcome
<1>4. IsFiniteSet(S) /\ Cardinality(S) \in Nat
  <2>1. S \subseteq Call
    OBVIOUS
  <2> HIDE DEF S
  <2> QED BY <2>1, BoundsAssumption, FS_Subset, FS_CardinalityType
<1>5. R = IF route[c] = i /\ outcome'[c].idx = j THEN S \cup {c} ELSE S
  BY <1>2, <1>3
<1>6. Cardinality(R) = Cardinality(S) + IF route[c] = i /\ outcome'[c].idx = j THEN 1 ELSE 0
  <2> HIDE DEF S, R
  <2>1. Cardinality(S \cup {c}) = Cardinality(S) + 1
    BY <1>3, <1>4, FS_AddElement
  <2> QED BY <1>4, <1>5, <2>1
<1> QED BY <1>3, <1>4, <1>6 DEF Served

\* In a pool that rotates, a choice is that of the counter.
LEMMA PickRotates ==
    ASSUME KeyInv, EngineInv, cfg' = cfg, NEW c \in Call, PickOne(c), Rotates(route[c])
    PROVE  LET i == route[c]
           IN  /\ i \in 0 .. Len(cfg.routes) /\ rr[i] \in Nat /\ Turns(i) \in Nat \ {0}
               /\ outcome'[c].idx = (rr[i] % Turns(i)) + 1
               /\ rr' = [rr EXCEPT ![i] = rr[i] + 1] /\ DOMAIN rr = 0 .. Len(cfg.routes)
<1> DEFINE i == route[c]
           pool == PoolOf(i)
           s == resolved[c]
           cs == cands[c]
           k == attempt[c]
<1>1. /\ i \in 0 .. Len(cfg.routes) /\ rr \in [0 .. Len(cfg.routes) -> Nat]
      /\ PhaseOk(pool, "pick", k, s, cs, outcome[c], req[c], now)
      /\ cfg \in Config /\ DOMAIN outcome = Call
  BY DEF EngineInv, KeyInv, PickOne, Pool
<1>2. Fetched(pool, k, s, req[c], now) /\ FromList(pool, k, s, cs, req[c], now)
  BY <1>1 DEF PhaseOk
<1>3. k = 0 /\ s = pool.backends /\ IsBackends(s) /\ s # <<>>
  <2>1. s = pool.backends /\ IsBackends(s) /\ s # <<>> /\ (k = 0 \/ k \in DOMAIN pool.fallback)
        /\ IsPool(pool)
    BY <1>2 DEF Fetched, Rotates
  <2>2. k \in Nat
    BY <2>1 DEF IsPool, IsList
  <2>3. k > 0 => Passing(s, FiltersOf(pool, 0), req[c], now) = {}
    BY <1>2, <2>2 DEF Fetched
  <2>4. Passing(s, FiltersOf(pool, 0), req[c], now) = DOMAIN s
    BY DEF FiltersOf, Rotates, Passing, Passes
  <2>5. DOMAIN s # {}
    <3>1. s \in Seq(Range(s)) /\ s # <<>>
      BY <2>1 DEF IsBackends, IsList
    <3>2. ASSUME NEW S, NEW z \in Seq(S), z # <<>> PROVE 1 \in DOMAIN z
      BY <3>2
    <3> QED BY <3>1, <3>2
  <2> QED BY <2>1, <2>2, <2>3, <2>4, <2>5
<1> DEFINE K == Controls(pool, 0)
<1>4. /\ K.filters = <<>> /\ K.limit = pool.limit /\ K.strategy = "round_robin"
      /\ K.limit \in Int /\ IsList(K.sort)
  BY <1>2 DEF Controls, BaseControls, Rotates, Fetched, IsPool, IsControls
<1>5. cs # <<>> /\ \E t \in 0 .. now : cs = Chosen(s, K, req[c], t)
  BY <1>2, <1>3 DEF FromList
<1>6. PickOne(c) => /\ rr' = [rr EXCEPT ![i] = rr[i] + 1]
                    /\ outcome'[c].idx \in Picks(K, cs, rr[i])
  <2>1. Controls(Pool(c), attempt[c]) = K /\ Counter(c) = i
    BY <1>3 DEF Pool, Counter
  <2> HIDE DEF K
  <2> QED BY <1>1, <1>4, <2>1 DEF PickOne, Finish
<1>7. Len(cs) = Turns(i) /\ Len(cs) \in Nat \ {0}
  <2> HIDE DEF K, s, cs
  <2>1. PICK t : cs = Chosen(s, K, req[c], t)
    BY <1>5
  <2>2. Len(cs) = Len(Limited(s, K.limit))
    BY <1>3, <1>4, <2>1, AsManyAsListed
  <2>3. Len(cs) = Turns(i)
    BY <1>3, <1>4, <2>2 DEF Turns
  <2>4. Turns(i) # 0 /\ Turns(i) \in Nat
    <3>1. Turns(i) = Len(Limited(s, K.limit))
      BY <1>3, <1>4 DEF Turns
    <3>2. s \in Seq(Range(s)) /\ s # <<>>
      BY <1>3 DEF IsBackends, IsList
    <3> QED BY <1>4, <3>1, <3>2 DEF Limited
  <2> QED BY <2>3, <2>4
<1>8. outcome'[c].idx = (rr[i] % Turns(i)) + 1
  BY <1>4, <1>6, <1>7 DEF Picks
<1> QED BY <1>1, <1>6, <1>7, <1>8

\* A choice in pool i gives the next candidate its turn.
LEMMA PickEven ==
    ASSUME OwnLists, KeyInv, EngineInv, EvenInv, cfg' = cfg, NEW c \in Call, PickOne(c)
    PROVE  EvenInv'
<1>0. cfg \in Config /\ route' = route /\ route[c] \in 0 .. Len(cfg.routes)
      /\ rr \in [0 .. Len(cfg.routes) -> Nat]
  BY DEF KeyInv, EngineInv, PickOne
<1> SUFFICES ASSUME NEW i \in 0 .. Len(cfg.routes), Rotates(i)
             PROVE  \E q \in Nat : \A j \in 1 .. Turns(i) :
                        Served(i, j)' = q + IF j - 1 < rr'[i] % Turns(i) THEN 1 ELSE 0
  <2>1. \A i \in 0 .. Len(cfg.routes) : Turns(i)' = Turns(i) /\ (Rotates(i)' <=> Rotates(i))
    BY <1>0 DEF Rotates, Turns, PoolOf
  <2> QED BY <2>1 DEF EvenInv
<1> DEFINE n == Turns(i)
           v == rr[i]
<1>1. PICK q \in Nat : \A j \in 1 .. n : Served(i, j) = q + IF j - 1 < v % n THEN 1 ELSE 0
  BY DEF EvenInv
<1>2. \A j \in 1 .. n :
          Served(i, j)' = Served(i, j) + IF route[c] = i /\ outcome'[c].idx = j THEN 1 ELSE 0
  <2>1. \A j \in 1 .. n : j \in Nat \ {0}
    BY <1>0, PoolsByNumber DEF Rotates
  <2> QED BY <2>1, PickServes
<1>3. CASE route[c] # i
  <2>1. rr'[i] = v
    BY <1>0, <1>3 DEF PickOne, Counter
  <2>2. \A j \in 1 .. n : Served(i, j)' = q + IF j - 1 < rr'[i] % n THEN 1 ELSE 0
    <3> TAKE j \in 1 .. n
    <3>1. Served(i, j)' = Served(i, j) + 0
      BY <1>2, <1>3
    <3>2. Served(i, j) = q + IF j - 1 < v % n THEN 1 ELSE 0
      BY <1>1
    <3>3. Served(i, j) \in Int
      BY <3>2
    <3> QED BY <2>1, <3>1, <3>2, <3>3
  <2> QED BY <2>2
<1>4. CASE route[c] = i
  <2>1. /\ v \in Nat /\ n \in Nat \ {0} /\ outcome'[c].idx = (v % n) + 1 /\ rr'[i] = v + 1
    BY <1>4, PickRotates
  <2> DEFINE r == v % n
             t == (v + 1) % n
             p == IF r = n - 1 THEN q + 1 ELSE q
  <2>2. r \in 0 .. n - 1 /\ t = IF r = n - 1 THEN 0 ELSE r + 1
    BY <2>1, NextRemainder
  <2>3. \A j \in 1 .. n :
            Served(i, j)' = q + (IF j - 1 < r THEN 1 ELSE 0) + IF j = r + 1 THEN 1 ELSE 0
    BY <1>1, <1>2, <1>4, <2>1
  <2> HIDE DEF r, t, n
  <2>4. \A j \in 1 .. n : Served(i, j)' = p + IF j - 1 < t THEN 1 ELSE 0
    <3> TAKE j \in 1 .. n
    <3>1. Served(i, j)' = q + (IF j - 1 < r THEN 1 ELSE 0) + IF j = r + 1 THEN 1 ELSE 0
      BY <2>3
    <3>2. j \in Int /\ r \in Int /\ n \in Int /\ 1 <= j /\ j <= n /\ r <= n - 1
      BY <2>1, <2>2
    <3>3. CASE r = n - 1
      <4>1. (IF j - 1 < r THEN 1 ELSE 0) + (IF j = r + 1 THEN 1 ELSE 0) = 1 /\ ~ (j - 1 < 0)
        BY <3>2, <3>3
      <4>2. Served(i, j)' = q + 1
        BY <3>1, <4>1
      <4> QED BY <2>2, <3>3, <4>1, <4>2
    <3>4. CASE r # n - 1
      <4>1. (IF j - 1 < r THEN 1 ELSE 0) + (IF j = r + 1 THEN 1 ELSE 0)
               = IF j - 1 < r + 1 THEN 1 ELSE 0
        BY <3>2
      <4>2. Served(i, j)' = q + IF j - 1 < r + 1 THEN 1 ELSE 0
        BY <3>1, <4>1
      <4> QED BY <2>2, <3>4, <4>2
    <3> QED BY <3>3, <3>4
  <2>5. p \in Nat
    OBVIOUS
  <2> HIDE DEF p
  <2> QED BY <2>1, <2>4, <2>5 DEF n, t
<1> QED BY <1>3, <1>4

\* EvenInv is inductive, together with the invariants of the engine.
LEMMA NextEvenInv ==
    OwnLists /\ KeyInv /\ EngineInv /\ EvenInv /\ [Next]_vars => EvenInv'
<1> SUFFICES ASSUME OwnLists, KeyInv, EngineInv, EvenInv, [Next]_vars PROVE EvenInv'
  OBVIOUS
<1>1. cfg' = cfg /\ cfg \in Config
  BY NextOwn DEF KeyInv
<1>2. CASE \E c \in Call : PickOne(c)
  BY <1>1, <1>2, PickEven
<1>3. CASE ~ \E c \in Call : PickOne(c)
  <2>1. /\ rr' = rr
        /\ \A x \in Call : outcome'[x].idx = outcome[x].idx
                           /\ (outcome[x].idx # 0 => route'[x] = route[x])
    <3>1. CASE Relist \/ Tick \/ UNCHANGED vars
      BY <3>1 DEF Relist, Tick, locals, vars
    <3>2. CASE \E c \in Call : Decide(c)
      BY <1>1, <1>3, <3>2, OnlyPicksServe
    <3> QED BY <3>1, <3>2 DEF Next
  <2>2. ASSUME NEW i \in 0 .. Len(cfg.routes), Rotates(i), NEW j \in 1 .. Turns(i)
        PROVE  Served(i, j)' = Served(i, j)
    <3>1. j \in Nat \ {0}
      BY <1>1, <2>2, PoolsByNumber DEF Rotates
    <3> QED BY <2>1, <3>1, ServedStays
  <2>3. \A i : (Rotates(i)' <=> Rotates(i)) /\ Turns(i)' = Turns(i)
    BY <1>1 DEF Rotates, Turns, PoolOf
  <2>4. ASSUME NEW i \in 0 .. Len(cfg.routes), Rotates(i)
        PROVE  \E q \in Nat : \A j \in 1 .. Turns(i) :
                   Served(i, j)' = q + IF j - 1 < rr'[i] % Turns(i) THEN 1 ELSE 0
    <3>1. PICK q \in Nat : \A j \in 1 .. Turns(i) :
              Served(i, j) = q + IF j - 1 < rr[i] % Turns(i) THEN 1 ELSE 0
      BY <2>4 DEF EvenInv
    <3> QED BY <2>1, <2>2, <2>4, <3>1
  <2> QED BY <1>1, <2>3, <2>4 DEF EvenInv
<1> QED BY <1>2, <1>3

\* Nothing has been served before the first call.
LEMMA InitEvenInv == Init => EvenInv
<1> SUFFICES ASSUME Init, NEW i \in 0 .. Len(cfg.routes), Rotates(i)
             PROVE  \E q \in Nat : \A j \in 1 .. Turns(i) :
                        Served(i, j) = q + IF j - 1 < rr[i] % Turns(i) THEN 1 ELSE 0
  BY DEF EvenInv
<1>1. cfg \in Config /\ rr[i] = 0
  BY DEF Init
<1>2. Turns(i) \in Nat
  BY <1>1, PoolsByNumber DEF Rotates
<1>3. ASSUME NEW j \in 1 .. Turns(i)
      PROVE  Served(i, j) = 0 /\ ~ (j - 1 < rr[i] % Turns(i))
  <2>1. {c \in Call : route[c] = i /\ outcome[c].idx = j} = {}
    BY <1>2 DEF Init, NoOutcome
  <2>2. Turns(i) \in Nat \ {0} /\ rr[i] % Turns(i) = 0
    <3>1. Turns(i) \in Nat \ {0}
      BY <1>2
    <3>2. 0 % Turns(i) = 0
      BY <3>1
    <3> QED BY <1>1, <3>1, <3>2
  <2>3. Served(i, j) = 0
    BY <2>1, FS_EmptySet DEF Served
  <2>4. j \in Nat \ {0}
    BY <1>2
  <2> QED BY <2>2, <2>3, <2>4
<1>4. \A j \in 1 .. Turns(i) : Served(i, j) = 0 + IF j - 1 < rr[i] % Turns(i) THEN 1 ELSE 0
  BY <1>3
<1> QED BY <1>4

\* round_robin is even for every number of calls, however they interleave and
\* whatever other routes count.
THEOREM EveryBackendItsTurn == Spec => []RoundRobinEven
<1>1. Init => OwnLists /\ KeyInv /\ EngineInv /\ EvenInv
  BY InitEngineInv, InitEvenInv
<1>2. OwnLists /\ KeyInv /\ EngineInv /\ EvenInv /\ [Next]_vars
          => (OwnLists /\ KeyInv /\ EngineInv /\ EvenInv)'
  BY NextOwn, NextKeyInv, NextEngineInv, NextEvenInv
<1>3. KeyInv /\ EvenInv => RoundRobinEven
  <2> SUFFICES ASSUME KeyInv, EvenInv, NEW i \in 0 .. Len(cfg.routes), Rotates(i),
                      NEW j \in DOMAIN Limited(PoolOf(i).backends, PoolOf(i).limit),
                      NEW k \in DOMAIN Limited(PoolOf(i).backends, PoolOf(i).limit)
               PROVE  Served(i, j) - Served(i, k) <= 1
    BY DEF RoundRobinEven
  <2>1. j \in 1 .. Turns(i) /\ k \in 1 .. Turns(i)
    BY PoolsByNumber DEF KeyInv, Rotates
  <2>2. PICK q \in Nat : \A x \in 1 .. Turns(i) :
            Served(i, x) = q + IF x - 1 < rr[i] % Turns(i) THEN 1 ELSE 0
    BY DEF EvenInv
  <2>3. Served(i, j) \in {q, q + 1} /\ Served(i, k) \in {q, q + 1}
    BY <2>1, <2>2
  <2> QED BY <2>3
<1> QED BY <1>1, <1>2, <1>3, PTL DEF Spec

=============================================================================
