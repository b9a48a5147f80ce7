--------------------------- MODULE RoutingEngine ---------------------------
(***************************************************************************)
(* StaticEngine.Decide (internal/routing/engine.go, discovery.go) called   *)
(* by several Connects at once, on one configuration.  The calls share the *)
(* configuration's slices, the round-robin counters and the discovery      *)
(* provider.  Patterns are sets of the hosts they match, and the backends  *)
(* of a provider are a list that changes at any time, or an error.  One    *)
(* pass of the filters reads the clock once, where the code reads it for   *)
(* every backend and filter: what passes later would have passed earlier,  *)
(* so this only merges readings a moment apart.  A listing and a clock     *)
(* that no pool of the configuration looks at stand still.                 *)
(***************************************************************************)
EXTENDS PoolValidation

CONSTANTS
    Call,        \* calls of Decide
    Config,      \* configurations [routes : Seq([hosts, pool]), default]
    Crowded,     \* bound: those on which all calls are made, elsewhere it is one
    NoPool,      \* routing.default is not set
    Request,     \* requests [sni, uuid, username]
    Listing,     \* what the provider may return: lists of backends, or Down
    Down,        \* the provider is unknown, not set or fails
    MaxNow       \* bound of the clock

ASSUME ConfigAssumption ==
    \A c \in Config :
        /\ IsList(c.routes)
        /\ \A p \in ({c.default} \ {NoPool}) \cup {c.routes[i].pool : i \in DOMAIN c.routes} :
               IsPool(p)

ASSUME ListingAssumption ==
    Down \in Listing /\ \A l \in Listing \ {Down} : IsBackends(l)

ASSUME BoundsAssumption == IsFiniteSet(Call) /\ MaxNow \in Nat

VARIABLES
    cfg,         \* e.cfg, with the backing arrays of its pools
    listing,     \* what the provider returns now
    now,         \* time.Now().UnixMilli()
    rr,          \* e.rrDefault (0) and e.rr: requests counted so far
    pc,          \* per call: absent, arrive, resolve, filter, sort, pick, done
    req,         \* per call: its request
    route,       \* per call: the route it matched, 0 for the default
    attempt,     \* per call: 0 for the pool's own controls, then its fallbacks
    resolved,    \* per call: what resolveCandidates returned
    aliased,     \* per call: its candidates lie in the pool's backing array
    cands,       \* per call: the candidates, filtered, sorted, limited
    outcome      \* per call: the index picked, or why there is none

vars == <<cfg, listing, now, rr, pc, req, route, attempt, resolved, aliased,
          cands, outcome>>
locals == <<req, route, attempt, resolved, aliased, cands, outcome>>

NoOutcome == [idx |-> 0, err |-> "none"]
Failed(e) == [idx |-> 0, err |-> e]

\* Config.Validate
Accepted(c) ==
    /\ c.default # NoPool => ValidPool(c.default)
    /\ \A i \in DOMAIN c.routes : ValidPool(c.routes[i].pool) /\ c.routes[i].hosts # {}

\* The loop over the routes ends at i, the first with a matching pattern, or
\* at the default.
Matching(sni) == {i \in DOMAIN cfg.routes : sni \in cfg.routes[i].hosts}
LeadsTo(sni, i) ==
    IF i = 0 THEN Matching(sni) = {}
    ELSE i \in Matching(sni) /\ \A j \in 1 .. i - 1 : j \notin Matching(sni)

PoolOf(i) == IF i = 0 THEN cfg.default ELSE cfg.routes[i].pool
Pool(c) == PoolOf(route[c])

\* Whether some pool asks a provider, or compares with the clock.
PoolIndex == {i \in 0 .. Len(cfg.routes) : PoolOf(i) # NoPool}
AsksProvider == \E i \in PoolIndex : PoolOf(i).discovery
Timed(filters) == \E j \in DOMAIN filters : filters[j].type = "game_start_not_past"
ReadsClock ==
    \E i \in PoolIndex :
        \/ Timed(PoolOf(i).filters)
        \/ \E k \in DOMAIN PoolOf(i).fallback :
              LET fb == PoolOf(i).fallback[k]
              IN  "filters" \in DOMAIN fb /\ Timed(fb.filters)

\* selectionConfigFromPool
BaseControls(pool) ==
    [strategy |-> pool.strategy, key |-> pool.key, sample |-> pool.sample,
     sort |-> pool.sort, limit |-> pool.limit, filters |-> pool.filters]

\* The calls that are made.
Made == IF cfg \in Crowded THEN Call ELSE {CHOOSE c \in Call : TRUE}

\* Mutant: the pool's own controls win over the fallback's.
ControlsKept(pool, k) ==
    IF k = 0 THEN BaseControls(pool) ELSE BaseControls(pool) @@ pool.fallback[k]

\* mergeFallback: the fields a fallback sets replace the pool's.
Controls(pool, k) ==
    LET base == BaseControls(pool)
        fb == pool.fallback[k]
    IN  IF k = 0 THEN base
        ELSE [f \in DOMAIN base |-> IF f \in DOMAIN fb THEN fb[f] ELSE base[f]]

\* Mutant: one counter for all routes.
SharedCounter(c) == 0

\* &e.rr[i] or &e.rrDefault
Counter(c) == route[c]

\* The candidates of c: its own copy, or the array of the pool.
Candidates(c) == IF aliased[c] THEN Pool(c).backends ELSE cands[c]

Init ==
    /\ cfg \in {c \in Config : Accepted(c)}
    /\ listing \in IF AsksProvider THEN Listing ELSE {Down}
    /\ now \in IF ReadsClock THEN 0 .. MaxNow ELSE {0}
    /\ rr = [i \in 0 .. Len(cfg.routes) |-> 0]
    /\ pc = [c \in Call |-> IF c \in Made THEN "arrive" ELSE "absent"]
    /\ req \in IF Made = Call THEN [Call -> Request]
              ELSE {[c \in Call |-> q] : q \in Request}
    /\ route = [c \in Call |-> 0]
    /\ attempt = [c \in Call |-> 0]
    /\ resolved = [c \in Call |-> <<>>]
    /\ aliased = [c \in Call |-> FALSE]
    /\ cands = [c \in Call |-> <<>>]
    /\ outcome = [c \in Call |-> NoOutcome]

Goto(c, l) == pc' = [pc EXCEPT ![c] = l]
Finish(c, o) == Goto(c, "done") /\ outcome' = [outcome EXCEPT ![c] = o]

Match(c) ==
    /\ pc[c] = "arrive"
    /\ \E i \in 0 .. Len(cfg.routes) :
           /\ LeadsTo(req[c].sni, i) /\ PoolOf(i) # NoPool
           /\ route' = [route EXCEPT ![c] = i]
    /\ Goto(c, "resolve")
    /\ UNCHANGED <<cfg, listing, now, rr, req, attempt, resolved, aliased, cands, outcome>>

\* No route and no default: a decision without a backend, and no error.
Unmatched(c) ==
    /\ pc[c] = "arrive" /\ LeadsTo(req[c].sni, 0) /\ PoolOf(0) = NoPool
    /\ Finish(c, Failed("unmatched"))
    /\ UNCHANGED <<cfg, listing, now, rr, req, route, attempt, resolved, aliased, cands>>

\* resolveCandidates without discovery returns the pool's own slice.
ResolveStatic(c) ==
    /\ pc[c] = "resolve" /\ ~ Pool(c).discovery
    /\ resolved' = [resolved EXCEPT ![c] = Pool(c).backends]
    /\ Goto(c, "filter")
    /\ UNCHANGED <<cfg, listing, now, rr, req, route, attempt, aliased, cands, outcome>>

\* resolveCandidates with discovery returns a list of its own.
ResolveDiscovered(c) ==
    /\ pc[c] = "resolve" /\ Pool(c).discovery
    /\ listing # Down /\ Discovered(Pool(c), listing) # <<>>
    /\ resolved' = [resolved EXCEPT ![c] = Discovered(Pool(c), listing)]
    /\ Goto(c, "filter")
    /\ UNCHANGED <<cfg, listing, now, rr, req, route, attempt, aliased, cands, outcome>>

ResolveFails(c) ==
    /\ pc[c] = "resolve" /\ Pool(c).discovery
    /\ \/ listing = Down /\ Finish(c, Failed("discovery"))
       \/ /\ listing # Down /\ Discovered(Pool(c), listing) = <<>>
          /\ Finish(c, Failed("no_backends"))
    /\ UNCHANGED <<cfg, listing, now, rr, req, route, attempt, resolved, aliased, cands>>

Kept(c) == ApplyFilters(resolved[c], Controls(Pool(c), attempt[c]).filters, req[c], now)

\* Mutant: without filters the slice is used as it is.
FilterInPlace(c) ==
    /\ pc[c] = "filter" /\ Kept(c) # <<>>
    /\ cands' = [cands EXCEPT ![c] = Kept(c)]
    /\ aliased' = [aliased EXCEPT ![c] = /\ ~ Pool(c).discovery
                                         /\ Controls(Pool(c), attempt[c]).filters = <<>>]
    /\ Goto(c, "sort")
    /\ UNCHANGED <<cfg, listing, now, rr, req, route, attempt, resolved, outcome>>

\* applyFilters always copies.
Filter(c) ==
    /\ pc[c] = "filter" /\ Kept(c) # <<>>
    /\ cands' = [cands EXCEPT ![c] = Kept(c)]
    /\ aliased' = [aliased EXCEPT ![c] = FALSE]
    /\ Goto(c, "sort")
    /\ UNCHANGED <<cfg, listing, now, rr, req, route, attempt, resolved, outcome>>

\* Mutant: the first fallback is tried again and again.
FallBackAgain(c) ==
    /\ pc[c] = "filter" /\ Kept(c) = <<>>
    /\ Pool(c).fallback # <<>>
    /\ attempt' = [attempt EXCEPT ![c] = 1]
    /\ UNCHANGED <<cfg, listing, now, rr, pc, req, route, resolved, aliased, cands, outcome>>

\* Mutant: one fallback more than there are.
FallBackPastTheEnd(c) ==
    /\ pc[c] = "filter" /\ Kept(c) = <<>>
    /\ attempt[c] <= Len(Pool(c).fallback)
    /\ attempt' = [attempt EXCEPT ![c] = @ + 1]
    /\ UNCHANGED <<cfg, listing, now, rr, pc, req, route, resolved, aliased, cands, outcome>>

\* Nothing passes the filters: the next fallback is merged with the pool's
\* own controls (not with the fallback before it).
FallBack(c) ==
    /\ pc[c] = "filter" /\ Kept(c) = <<>>
    /\ attempt[c] < Len(Pool(c).fallback)
    /\ attempt' = [attempt EXCEPT ![c] = @ + 1]
    /\ UNCHANGED <<cfg, listing, now, rr, pc, req, route, resolved, aliased, cands, outcome>>

NothingPasses(c) ==
    /\ pc[c] = "filter" /\ Kept(c) = <<>>
    /\ attempt[c] = Len(Pool(c).fallback)
    /\ Finish(c, Failed("no_backends"))
    /\ UNCHANGED <<cfg, listing, now, rr, req, route, attempt, resolved, aliased, cands>>

\* applySort works in place, the limit makes a shorter slice.
SortAndLimit(c) ==
    LET k == Controls(Pool(c), attempt[c])
        sorted == Sorted(Candidates(c), k.sort)
    IN  /\ pc[c] = "sort"
        /\ cands' = [cands EXCEPT ![c] = Limited(sorted, k.limit)]
        /\ IF ~ aliased[c] THEN UNCHANGED cfg
           ELSE cfg' = IF route[c] = 0 THEN [cfg EXCEPT !.default.backends = sorted]
                       ELSE [cfg EXCEPT !.routes[route[c]].pool.backends = sorted]
        /\ aliased' = [aliased EXCEPT ![c] = FALSE]
        /\ Goto(c, "pick")
        /\ UNCHANGED <<listing, now, rr, req, route, attempt, resolved, outcome>>

\* selectIndex; only round_robin counts.
PickOne(c) ==
    LET k == Controls(Pool(c), attempt[c])
        v == rr[Counter(c)]
    IN  /\ pc[c] = "pick"
        /\ k.strategy \notin NeedsKey \/ k.key # NoValue
        /\ k.strategy = "weighted" => Total(cands[c]) > 0
        /\ \E i \in Picks(k, cands[c], v) : Finish(c, [idx |-> i, err |-> "nil"])
        /\ rr' = IF k.strategy = "round_robin" THEN [rr EXCEPT ![Counter(c)] = v + 1]
                 ELSE rr
        /\ UNCHANGED <<cfg, listing, now, req, route, attempt, resolved, aliased, cands>>

\* A fallback may set an empty key for the pool's strategy: Validate asks for
\* a key only where the fallback sets the strategy.
KeyMissing(c) ==
    LET k == Controls(Pool(c), attempt[c])
    IN  /\ pc[c] = "pick"
        /\ k.strategy \in NeedsKey /\ k.key = NoValue
        /\ Finish(c, Failed("key"))
        /\ UNCHANGED <<cfg, listing, now, rr, req, route, attempt, resolved, aliased, cands>>

\* The sum of the weights overflowed to a number that is not positive.
WeightsOverflow(c) ==
    /\ pc[c] = "pick"
    /\ Controls(Pool(c), attempt[c]).strategy = "weighted" /\ Total(cands[c]) <= 0
    /\ Finish(c, Failed("weights"))
    /\ UNCHANGED <<cfg, listing, now, rr, req, route, attempt, resolved, aliased, cands>>

Decide(c) ==
    \/ Match(c) \/ Unmatched(c)
    \/ ResolveStatic(c) \/ ResolveDiscovered(c) \/ ResolveFails(c)
    \/ Filter(c) \/ FallBack(c) \/ NothingPasses(c)
    \/ SortAndLimit(c) \/ PickOne(c) \/ KeyMissing(c) \/ WeightsOverflow(c)

\* The provider's backends change, or it fails.
Relist ==
    /\ AsksProvider
    /\ listing' \in Listing \ {listing}
    /\ UNCHANGED <<cfg, now, rr, pc, locals>>

Tick ==
    /\ now < MaxNow /\ ReadsClock
    /\ now' = now + 1
    /\ UNCHANGED <<cfg, listing, rr, pc, locals>>

Next == (\E c \in Call : Decide(c)) \/ Relist \/ Tick

Spec == Init /\ [][Next]_vars

\* While a call can go on, some call is scheduled: the least the scheduler does.
LiveSpec == Spec /\ WF_vars(\E c \in Call : Decide(c))

-----------------------------------------------------------------------------
TypeOK ==
    /\ now \in 0 .. MaxNow /\ listing \in Listing
    /\ rr \in [0 .. Len(cfg.routes) -> Nat]
    /\ pc \in [Call -> {"absent", "arrive", "resolve", "filter", "sort", "pick", "done"}]
    /\ req \in [Call -> Request]
    /\ aliased \in [Call -> BOOLEAN]
    /\ \A c \in Call :
        /\ route[c] \in 0 .. Len(cfg.routes)
        /\ attempt[c] # 0 => attempt[c] \in DOMAIN Pool(c).fallback
        /\ outcome[c].idx \in 0 .. Len(cands[c])
        /\ outcome[c].err = "nil" <=> outcome[c].idx # 0

\* No call of Decide changes the configuration the others read, although the
\* lists it sorts start out as slices of that configuration.
ConfigImmutable == [][cfg' = cfg]_vars

\* The filters in force on attempt k, and the resolved backends that pass them.
FiltersOf(pool, k) ==
    IF k > 0 /\ "filters" \in DOMAIN pool.fallback[k] THEN pool.fallback[k].filters
    ELSE pool.filters
Eligible(c, k, t) ==
    {b \in Range(resolved[c]) : Passes(FiltersOf(Pool(c), k), b, req[c], t)}

\* A fallback is used only when nothing passes the filters of the attempts
\* before it, and its candidates pass its own; a client is told there are no
\* backends only when no attempt has any.
FallbackOrder ==
    \A c \in Call : pc[c] \in {"sort", "pick", "done"} /\ resolved[c] # <<>> =>
        /\ \A k \in 0 .. attempt[c] - 1 : Eligible(c, k, now) = {}
        /\ IF outcome[c].err = "no_backends"
           THEN \A k \in 0 .. Len(Pool(c).fallback) : Eligible(c, k, now) = {}
           ELSE \E t \in 0 .. now :
                    Range(cands[c]) \subseteq Eligible(c, attempt[c], t)

\* The order that docs/routing.md means by sort: the first key on which two
\* backends differ, a missing value after all others, ties in resolved order.
\* NaN has no place in it.
Rank(b, k) ==
    IF ~ Has(b, k.key) THEN <<1, 0>>
    ELSE <<0, IF k.order = "desc" THEN 0 - Value(b, k.key) ELSE Value(b, k.key)>>
Below(x, y) == x[1] < y[1] \/ (x[1] = y[1] /\ x[2] < y[2])
LexBelow(a, b, keys) ==
    \E i \in DOMAIN keys :
        /\ Below(Rank(a, keys[i]), Rank(b, keys[i]))
        /\ \A j \in 1 .. i - 1 : Rank(a, keys[j]) = Rank(b, keys[j])
Ahead(s, p, q, keys) ==
    \/ LexBelow(s[p], s[q], keys)
    \/ ~ LexBelow(s[q], s[p], keys) /\ p < q
Ordered(s, keys) ==
    \A b \in Range(s), i \in DOMAIN keys : Value(b, keys[i].key) # NaN

\* The candidates (which the plugins see by position) come in that order from
\* different places of the resolved list, and what the limit cuts off never
\* belongs ahead of what it keeps.
LimitKeepsBest ==
    \A c \in Call :
        LET k == Controls(Pool(c), attempt[c])
            s == resolved[c]
            passing(t) == {p \in DOMAIN s : Passes(k.filters, s[p], req[c], t)}
        IN  pc[c] = "pick" /\ Ordered(s, k.sort) =>
                \E t \in 0 .. now : \E from \in [DOMAIN cands[c] -> passing(t)] :
                    /\ \A i \in DOMAIN cands[c] : cands[c][i] = s[from[i]]
                    /\ \A i, j \in DOMAIN cands[c] : i < j => Ahead(s, from[i], from[j], k.sort)
                    /\ \/ Range(from) = passing(t)
                       \/ k.limit > 0 /\ Len(cands[c]) = k.limit
                    /\ \A p \in passing(t) \ Range(from), i \in DOMAIN cands[c] :
                           Ahead(s, from[i], p, k.sort)

\* Decide fails for want of a key, on a configuration that passed validation,
\* only through a fallback that empties the key and keeps the pool's strategy:
\* never because fields of the pool and of a fallback, each right by itself,
\* do not fit together.
KeyMissingOnlyByFallback ==
    \A c \in Call : outcome[c].err = "key" =>
        /\ attempt[c] > 0
        /\ LET fb == Pool(c).fallback[attempt[c]]
           IN  "key" \in DOMAIN fb /\ "strategy" \notin DOMAIN fb

\* weighted draws each candidate as often as its weight says, a weight of zero as
\* one, and gives up only when the sum of the weights is more than an int holds;
\* no limit on a weight rules that out.
WeightedShares ==
    \A c \in Call :
        LET sum == SumUpTo(cands[c], Len(cands[c]))
        IN  /\ /\ pc[c] = "pick" /\ sum <= MaxInt
               /\ Controls(Pool(c), attempt[c]).strategy = "weighted"
               => /\ Total(cands[c]) > 0
                  /\ \A i \in DOMAIN cands[c] :
                         LET drawn == {r \in 0 .. Total(cands[c]) - 1 :
                                           WeightedPick(cands[c], r) = i}
                         IN  Cardinality(drawn) = Share(cands[c][i])
            /\ outcome[c].err = "weights" => sum > MaxInt

\* r has one backend of each address, the first that disc lists, and in mode
\* prefer no others, if disc lists any.
FirstListed(pool, disc, r) ==
    LET found == {b.addr : b \in Range(disc)}
    IN  /\ \A i, j \in DOMAIN r : r[i].addr = r[j].addr => i = j
        /\ \A i \in DOMAIN disc :
               (\A j \in 1 .. i - 1 : disc[j].addr # disc[i].addr) =>
                   \E b \in Range(r) : b.addr = disc[i].addr /\ b.meta = disc[i].meta
        /\ pool.mode = "prefer" /\ found # {} => {b.addr : b \in Range(r)} = found

\* What a pool with discovery resolves to has one backend per address: the
\* first that the provider listed, and a static one only for an address that it
\* did not list (never, in mode prefer, if it listed any).
DiscoveredWins ==
    [][\A c \in Call : pc[c] = "resolve" /\ pc'[c] = "filter" /\ Pool(c)'.discovery =>
           FirstListed(Pool(c)', listing, resolved'[c])]_vars

\* The pools that round_robin rotates through as they are.
Rotates(i) ==
    /\ PoolOf(i) # NoPool
    /\ PoolOf(i).strategy = "round_robin" /\ ~ PoolOf(i).discovery /\ PoolOf(i).filters = <<>>

Served(i, j) == Cardinality({c \in Call : route[c] = i /\ outcome[c].idx = j})

\* round_robin serves the candidates of a pool that has no filters evenly,
\* whatever other routes serve in between.
RoundRobinEven ==
    \A i \in 0 .. Len(cfg.routes) : Rotates(i) =>
        \A j, k \in DOMAIN Limited(PoolOf(i).backends, PoolOf(i).limit) :
            Served(i, j) - Served(i, k) <= 1

\* Every call of Decide returns in the end, however many fallbacks it goes through.
Decided == <>(\A c \in Made : pc[c] = "done")
=============================================================================
