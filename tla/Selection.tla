----------------------------- MODULE Selection -----------------------------
(***************************************************************************)
(* The pure part of internal/routing: merging discovered and static        *)
(* backends, filtering, sorting, limiting and picking one.                 *)
(*                                                                         *)
(* A backend is [addr, weight, meta, allow]: addr stands for host:port,    *)
(* meta maps a key to its number, and allow is the set of clients of an    *)
(* enabled whitelist (NoValue when it is not enabled).  The values of a    *)
(* key sorted as a string are numbers in the strings' order.  An index is  *)
(* the code's plus one.  Infinities are left out.                          *)
(***************************************************************************)
EXTENDS Integers, Sequences, FiniteSets, TLC, SequencesExt, FiniteSetsExt

CONSTANTS
    NoValue,       \* a meta key that is not set
    NaN,           \* strconv.ParseFloat("NaN"), not a number for ParseInt
    SecondsBelow,  \* 10_000_000_000: a start time below it is in seconds
    PerSecond,     \* 1000
    MaxInt         \* 2^63 - 1, the largest int

ASSUME NumbersAssumption ==
    /\ NoValue \notin Int /\ NaN \notin Int /\ NoValue # NaN
    /\ SecondsBelow \in Int /\ PerSecond \in Int /\ MaxInt \in Nat

\* The type Backend, and slices of them.
IsBackend(b) ==
    /\ DOMAIN b = {"addr", "weight", "meta", "allow"}
    /\ b.weight \in Int
    /\ \A key \in DOMAIN b.meta : b.meta[key] \in Int \cup {NoValue, NaN}

IsList(s) == s \in Seq(Range(s))
IsBackends(s) == IsList(s) /\ \A b \in Range(s) : IsBackend(b)

\* metaGet: a key that is not there is as one that is empty.
Meta(b, key) == IF key \in DOMAIN b.meta THEN b.meta[key] ELSE NoValue

\* sortValue: the weight is a field, every other key is looked up in meta.
Value(b, key) == IF key = "weight" THEN b.weight ELSE Meta(b, key)

Has(b, key) == Value(b, key) # NoValue

\* A float64 comparison is false when either side is NaN.
Less(x, y) == x # NaN /\ y # NaN /\ x < y

-----------------------------------------------------------------------------
\* mode union or prefer.
Merge(mode, disc, static) ==
    IF mode = "prefer" THEN (IF disc # <<>> THEN disc ELSE static)
    ELSE disc \o static

\* Mutant: the last backend of an address replaces the ones before it.
DedupeLast(s) ==
    FoldLeft(LAMBDA acc, b : IF \E i \in DOMAIN acc : acc[i].addr = b.addr
                             THEN [i \in DOMAIN acc |-> IF acc[i].addr = b.addr THEN b ELSE acc[i]]
                             ELSE Append(acc, b), <<>>, s)

\* dedupeBackends: the first backend of an address stays.
Dedupe(s) ==
    FoldLeft(LAMBDA acc, b : IF \E i \in DOMAIN acc : acc[i].addr = b.addr
                             THEN acc ELSE Append(acc, b), <<>>, s)

AtLeastOne(b) == IF b.weight <= 0 THEN [b EXCEPT !.weight = 1] ELSE b

\* What a pool with discovery resolves to.
Discovered(pool, disc) ==
    LET merged == Dedupe(Merge(pool.mode, disc, pool.backends))
    IN  IF pool.strategy = "weighted"
        THEN [i \in DOMAIN merged |-> AtLeastOne(merged[i])]
        ELSE merged

-----------------------------------------------------------------------------
Compares(f, b) ==
    LET l == Value(b, f.left)
        r == Value(b, f.right)
    IN  /\ Has(b, f.left) /\ Has(b, f.right)
        /\ CASE f.op = "lt"  -> Less(l, r)
             [] f.op = "gt"  -> Less(r, l)
             [] f.op = "lte" -> Less(l, r) \/ (l = r /\ l # NaN)
             [] f.op = "gte" -> Less(r, l) \/ (l = r /\ l # NaN)
             [] f.op = "eq"  -> l = r /\ l # NaN
             [] f.op = "neq" -> l # r \/ l = NaN

\* A client without the name the filter asks for has name NoValue.
Whitelisted(f, b, req) ==
    b.allow = NoValue \/ (req[f.subject] # NoValue /\ req[f.subject] \in b.allow)

Millis(n) == IF n > 0 /\ n < SecondsBelow THEN n * PerSecond ELSE n

StartNotPast(f, b, now) ==
    LET n == Meta(b, f.key)
    IN  n = NoValue \/ (n # NaN /\ (n = -1 \/ Millis(n) > now))

FilterMatches(f, b, req, now) ==
    CASE f.type = "compare"             -> Compares(f, b)
      [] f.type = "whitelist"           -> Whitelisted(f, b, req)
      [] f.type = "game_start_not_past" -> StartNotPast(f, b, now)

Passes(filters, b, req, now) ==
    \A i \in DOMAIN filters : FilterMatches(filters[i], b, req, now)

ApplyFilters(s, filters, req, now) ==
    FoldLeft(LAMBDA acc, b : IF Passes(filters, b, req, now) THEN Append(acc, b)
                             ELSE acc, <<>>, s)

-----------------------------------------------------------------------------
\* One sort key tells a and b apart.
Decides(k, a, b) ==
    \/ Has(a, k.key) # Has(b, k.key)
    \/ /\ Has(a, k.key) /\ Has(b, k.key)
       /\ \/ Value(a, k.key) # Value(b, k.key)
          \/ Value(a, k.key) = NaN

\* ... and puts a first: a missing value goes last in both orders.
Wins(k, a, b) ==
    IF Has(a, k.key) # Has(b, k.key) THEN Has(a, k.key)
    ELSE IF k.order = "desc" THEN Less(Value(b, k.key), Value(a, k.key))
    ELSE Less(Value(a, k.key), Value(b, k.key))

\* The less function given to sort.SliceStable.
SortsBefore(keys, a, b) ==
    \E i \in DOMAIN keys :
        /\ Decides(keys[i], a, b) /\ Wins(keys[i], a, b)
        /\ \A j \in 1 .. i - 1 : ~ Decides(keys[j], a, b)

\* Mutant: the keys are taken in the opposite order of significance.
SortedByLastKey(s, keys) ==
    SortSeq(s, LAMBDA a, b : SortsBefore(Reverse(keys), a, b))

\* sort.SliceStable on at most 20 elements: b moves left past the elements it
\* sorts before, up to the first it does not.
Place(acc, b, keys) ==
    Max({0} \cup {i \in DOMAIN acc : ~ SortsBefore(keys, b, acc[i])}) + 1
Sorted(s, keys) ==
    FoldLeft(LAMBDA acc, b : InsertAt(acc, Place(acc, b, keys), b), <<>>, s)

Limited(s, limit) == IF limit > 0 /\ Len(s) > limit THEN SubSeq(s, 1, limit) ELSE s

-----------------------------------------------------------------------------
Share(b) == IF b.weight <= 0 THEN 1 ELSE b.weight

\* Addition of ints wraps around.
Wrapped(n) == ((n + MaxInt + 1) % (2 * (MaxInt + 1))) - (MaxInt + 1)

SumUpTo(s, n) == FoldLeft(LAMBDA acc, b : acc + Share(b), 0, SubSeq(s, 1, n))
SharesUpTo(s, n) == Wrapped(SumUpTo(s, n))
Total(s) == SharesUpTo(s, Len(s))

\* Mutant: a draw that equals the sum so far belongs to it.
WeightedPickUpTo(s, r) == Min({i \in DOMAIN s : r <= SharesUpTo(s, i)} \cup {Len(s)})

\* The backend that a draw r in 0 .. total - 1 stands for.
WeightedPick(s, r) == Min({i \in DOMAIN s : r < SharesUpTo(s, i)} \cup {Len(s)})

\* Backends of I whose key is a number, and the least loaded among them.
Loaded(s, I, key) == {i \in I : Value(s[i], key) \notin {NoValue, NaN}}

LeastOf(s, I, key) ==
    {i \in Loaded(s, I, key) :
        \A j \in Loaded(s, I, key) : Value(s[i], key) <= Value(s[j], key)}

\* least_loaded takes the first of the list.
LeastLoaded(s, key) ==
    LET best == LeastOf(s, DOMAIN s, key)
    IN  {IF best = {} THEN 1 ELSE Min(best)}

\* p2c takes the first it drew of a sample of distinct backends.
PowerOfChoices(s, key, sample) ==
    LET size == Min({IF sample <= 0 THEN 2 ELSE sample, Len(s)})
        best(I) == LeastOf(s, I, key)
    IN  UNION {IF best(I) = {} THEN {1} ELSE best(I) : I \in kSubset(size, DOMAIN s)}

\* The indices selectIndex may return for counter value v.
Picks(c, s, v) ==
    CASE c.strategy = "round_robin"  -> {(v % Len(s)) + 1}
      [] c.strategy = "random"       -> DOMAIN s
      [] c.strategy = "weighted"     ->
            {WeightedPick(s, r) : r \in 0 .. Total(s) - 1}
      [] c.strategy = "least_loaded" -> LeastLoaded(s, c.key)
      [] c.strategy = "p2c"          -> PowerOfChoices(s, c.key, c.sample)
=============================================================================
