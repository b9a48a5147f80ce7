-------------------------- MODULE MCRoutingEngine --------------------------
(* Configurations, requests and listings for RoutingEngine.                *)
EXTENDS RoutingEngine

CONSTANTS a, b, d,         \* addresses
          ann, bob,        \* clients
          alpha, beta      \* hosts

Backend(x, weight, load, start, allow) ==
    [addr |-> x, weight |-> weight, allow |-> allow,
     meta |-> [load |-> load, start |-> start]]

Plain(x, load) == Backend(x, 1, load, NoValue, NoValue)

Asc(key) == [key |-> key, order |-> "asc"]
Desc(key) == [key |-> key, order |-> "desc"]

NotFull == [type |-> "compare", left |-> "load", op |-> "lt", right |-> "weight"]
Op(op) == [NotFull EXCEPT !.op = op]
Listed(subject) == [type |-> "whitelist", subject |-> subject]
NotStarted == [type |-> "game_start_not_past", key |-> "start"]

BasePool ==
    [strategy |-> "round_robin", key |-> "load", sample |-> 0, sort |-> <<>>,
     limit |-> 0, filters |-> <<>>, fallback |-> <<>>, backends |-> <<>>,
     discovery |-> FALSE, mode |-> "union"]

OneRoute(pool) == [routes |-> <<[hosts |-> {alpha}, pool |-> pool]>>, default |-> NoPool]

-----------------------------------------------------------------------------
\* One call: every strategy, with and without sorting, limits, filters and
\* fallbacks, over lists with ties, missing values and NaN.
Three ==
    { <<Backend(a, 2, 1, 2, {ann}), Backend(b, 1, 1, NoValue, NoValue), Backend(d, 0, x, 2, {})>> :
             x \in {0, 2, NaN, NoValue} }

\* Sums that overflow: to a negative number, to zero, and past it.
Heavy == { <<Backend(a, 4, 4, NoValue, NoValue), Backend(b, 5, 1, NoValue, NoValue)>> }
         \cup { <<Backend(a, 7, 1, 2, {}), Backend(b, 7, 1, 2, {}), Backend(d, w, 1, 2, {})>> :
                     w \in {2, 3} }

\* A static pool may list a backend twice.
Twice == <<Plain(a, 1), Plain(b, 1), Plain(a, 1)>>

Weighted == <<Plain(a, 2), Backend(b, 2, 1, NoValue, NoValue)>>

Strategies ==
    { [BasePool EXCEPT !.strategy = s, !.sort = o, !.limit = l,
                       !.sample = 3 - l, !.backends = bs] :
        s \in {"round_robin", "weighted", "least_loaded", "p2c"},
        o \in { <<>>, <<Asc("load"), Desc("weight")>>, <<Desc("load")>> },
        l \in {0, 2},
        bs \in Three \cup {Weighted} }
    \cup {[BasePool EXCEPT !.strategy = s, !.sort = <<Desc("load")>>, !.limit = 2, !.backends = Twice] :
              s \in {"round_robin", "random"}}
    \cup {[BasePool EXCEPT !.strategy = "weighted", !.backends = bs] : bs \in Heavy}

Filters == { <<f>> : f \in {Op(o) : o \in {"lt", "lte", "gt", "gte", "eq", "neq"}}
                            \cup {Listed("uuid"), Listed("username"), NotStarted} }

Fallbacks ==
    { <<>>, <<[sort |-> <<Asc("load")>>]>>,
      <<[filters |-> <<NotStarted>>], [filters |-> <<>>, limit |-> 1]>>,
      <<[filters |-> <<>>, strategy |-> "p2c", key |-> "load", sample |-> 1]>>,
      <<[filters |-> <<>>, key |-> NoValue]>> }

Filtered ==
    { [BasePool EXCEPT !.strategy = s, !.filters = f, !.fallback = fb, !.backends = bs] :
        s \in {"round_robin", "least_loaded"}, f \in Filters, fb \in Fallbacks, bs \in Three }

Merged ==
    { [BasePool EXCEPT !.strategy = s, !.sort = <<Asc("load")>>, !.limit = 1,
                       !.discovery = TRUE, !.mode = m, !.backends = bs] :
        s \in {"weighted", "least_loaded"}, m \in {"union", "prefer"},
        bs \in { <<>>, <<Plain(a, 5), Plain(b, 2)>> } }

\* Fallbacks with and without a key of their own, for pools with none.
Keyless ==
    { [BasePool EXCEPT !.strategy = s, !.key = k, !.filters = <<Op("eq")>>,
                       !.fallback = <<[filters |-> <<>>] @@ fb>>, !.backends = Weighted] :
        s \in {"round_robin", "least_loaded"}, k \in {"load", NoValue},
        fb \in { [strategy |-> "p2c"], [strategy |-> "weighted"], [key |-> NoValue],
                 [strategy |-> "p2c", key |-> NoValue],
                 [strategy |-> "least_loaded", key |-> "load"] } }

\* One thing wrong in each.
Refused ==
    LET P == [BasePool EXCEPT !.backends = Weighted]
    IN  { BasePool, [P EXCEPT !.limit = -1], [P EXCEPT !.strategy = "p2c", !.sample = -1],
          [P EXCEPT !.sort = <<Asc(NoValue)>>], [P EXCEPT !.filters = <<Op("near")>>],
          [P EXCEPT !.fallback = <<[limit |-> -1]>>],
          [P EXCEPT !.discovery = TRUE, !.mode = "first"],
          [P EXCEPT !.backends = <<Backend(a, -1, 1, NoValue, NoValue)>>] }

SelectionConfigs ==
    {OneRoute(p) : p \in Strategies \cup Filtered \cup Merged \cup Keyless \cup Refused}

SelectionListings ==
    { Down, <<>>, <<Backend(a, 0, 3, NoValue, NoValue), Plain(a, 7), Plain(d, 1)>> }

Requests ==
    { [sni |-> alpha, uuid |-> ann, username |-> NoValue], [sni |-> alpha, uuid |-> bob, username |-> bob],
      [sni |-> beta, uuid |-> bob, username |-> ann], [sni |-> d, uuid |-> NoValue, username |-> NoValue] }

-----------------------------------------------------------------------------
\* Concurrent calls: a sorted static pool, a default behind a more general
\* pattern, a fallback.
Cycle == [BasePool EXCEPT !.sort = <<Asc("load")>>,
                          !.backends = <<Plain(a, 2), Plain(b, 1)>>]
Halved == [BasePool EXCEPT !.filters = <<NotFull>>, !.backends = <<Plain(a, 2), Plain(b, 3)>>,
                           !.fallback = <<[strategy |-> "random"], [filters |-> <<>>]>>]

Hopeless == [Halved EXCEPT !.fallback = <<[strategy |-> "random"]>>]

EngineConfigs ==
    { [routes |-> <<[hosts |-> {alpha}, pool |-> Cycle], [hosts |-> {alpha, beta}, pool |-> Cycle]>>,
       default |-> NoPool],
      [routes |-> <<[hosts |-> {alpha}, pool |-> Cycle], [hosts |-> {alpha, beta}, pool |-> Halved]>>,
       default |-> Hopeless] }

AllConfigs == SelectionConfigs \cup EngineConfigs
=============================================================================
