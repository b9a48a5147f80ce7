--------------------------- MODULE PoolValidation ---------------------------
(***************************************************************************)
(* Which routing configurations the router starts with: Config.Validate of *)
(* internal/routing/validate.go.  A name that is empty, and an address     *)
(* without a host or a valid port, is NoValue; the type hints of sort keys *)
(* and the provider of a discovery are left out.  A fallback is a record   *)
(* of the fields it sets.                                                  *)
(***************************************************************************)
EXTENDS Selection

NeedsKey == {"least_loaded", "p2c"}
Strategy == {"round_robin", "random", "weighted"} \cup NeedsKey
Operator == {"lt", "lte", "gt", "gte", "eq", "neq"}

\* The fields of a pool that a fallback may set, as far as r has them.
IsControls(r) ==
    /\ "limit" \in DOMAIN r => r.limit \in Int
    /\ "sort" \in DOMAIN r => IsList(r.sort)
    /\ "filters" \in DOMAIN r => IsList(r.filters)

\* The type Pool.
IsPool(p) ==
    /\ {"limit", "sort", "filters"} \subseteq DOMAIN p /\ IsControls(p)
    /\ IsBackends(p.backends)
    /\ IsList(p.fallback) /\ \A i \in DOMAIN p.fallback : IsControls(p.fallback[i])

\* validateBackend
ValidBackend(b) == b.addr # NoValue /\ b.weight >= 0

\* validateFilter
ValidFilter(f) ==
    \/ f.type = "compare" /\ f.left # NoValue /\ f.right # NoValue /\ f.op \in Operator
    \/ f.type = "whitelist" /\ f.subject \in {"uuid", "username"}
    \/ f.type = "game_start_not_past" /\ f.key # NoValue

ValidSortKey(k) == k.key # NoValue /\ k.order \in {"asc", "desc"}

\* Mutant: a fallback's key is looked at only where it sets one.
FallbackKeyIfSet(fb) ==
    /\ "strategy" \in DOMAIN fb => fb.strategy \in Strategy
    /\ {"strategy", "key"} \subseteq DOMAIN fb /\ fb.strategy \in NeedsKey =>
           fb.key # NoValue

\* validateFallback: a strategy that needs a key comes with one, whatever the
\* pool has; a key without a strategy is not looked at.
ValidFallback(fb) ==
    /\ "strategy" \in DOMAIN fb =>
           /\ fb.strategy \in Strategy
           /\ fb.strategy \in NeedsKey => "key" \in DOMAIN fb /\ fb.key # NoValue
    /\ \A number \in {"sample", "limit"} \cap DOMAIN fb : fb[number] >= 0
    /\ "sort" \in DOMAIN fb => \A i \in DOMAIN fb.sort : ValidSortKey(fb.sort[i])
    /\ "filters" \in DOMAIN fb => \A i \in DOMAIN fb.filters : ValidFilter(fb.filters[i])

\* validatePool: weights have to be positive only for the pool's own strategy.
ValidPool(p) ==
    /\ p.backends # <<>> \/ p.discovery
    /\ p.strategy \in Strategy
    /\ p.strategy \in NeedsKey => p.key # NoValue
    /\ p.strategy = "p2c" => p.sample >= 0
    /\ p.limit >= 0
    /\ \A i \in DOMAIN p.sort : ValidSortKey(p.sort[i])
    /\ \A i \in DOMAIN p.filters : ValidFilter(p.filters[i])
    /\ \A i \in DOMAIN p.fallback : ValidFallback(p.fallback[i])
    /\ p.discovery => p.mode \in {"union", "prefer"}
    /\ \A i \in DOMAIN p.backends :
           /\ ValidBackend(p.backends[i])
           /\ p.strategy = "weighted" => p.backends[i].weight > 0
=============================================================================
