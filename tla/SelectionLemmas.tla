-------------------------- MODULE SelectionLemmas --------------------------
(***************************************************************************)
(* Lemmas about Selection's lists that the proofs about RoutingEngine rest  *)
(* on, and before them facts about numbers, sets and folds.  Decide's loops *)
(* over a list (filter, sort by insertion, sum of weights, dedupe) are      *)
(* folds; a fold gets a run F[0], F[1], ..., one value per element, and     *)
(* induction over the list is Induction over the set of the indices whose   *)
(* value is as claimed.                                                     *)
(***************************************************************************)
EXTENDS RoutingEngine, SequencesExt, FiniteSetsExt, FiniteSetTheorems,
        SequenceTheorems, WellFoundedInduction, TLAPS

\* A set of natural numbers that is not empty has a least one.
LEMMA LeastElement ==
    ASSUME NEW T \in SUBSET Nat, T # {}
    PROVE  \E n \in T : \A k \in T : n <= k
<1> DEFINE R == OpToRel(<, Nat)
<1>1. \A x, y \in Nat : <<y, x>> \in R <=> y < x
  <2>1. R = {ss \in Nat \X Nat : ss[1] < ss[2]}
    BY DEF OpToRel
  <2> QED BY <2>1
<1>2. IsWellFoundedOn(R, Nat)
  BY NatLessThanWellFounded
<1> HIDE DEF R
<1>3. PICK x \in T : \A y \in T : ~ (<<y, x>> \in R)
  BY <1>2, WFMin
<1>4. ASSUME NEW y \in T PROVE x <= y
  <2>1. x \in Nat /\ y \in Nat
    OBVIOUS
  <2>2. ~ (y < x)
    BY <1>1, <1>3, <2>1
  <2> QED BY <2>1, <2>2
<1> QED BY <1>4

\* Induction: a set that has 0, and n + 1 whenever it has n, has all numbers.
LEMMA Induction ==
    ASSUME NEW T, 0 \in T, \A n \in Nat : n \in T => n + 1 \in T
    PROVE  Nat \subseteq T
<1> SUFFICES ASSUME NEW n \in Nat, n \notin T PROVE FALSE
  OBVIOUS
<1>1. PICK m \in Nat \ T : \A k \in Nat \ T : m <= k
  BY LeastElement
<1>2. m - 1 \in Nat /\ m - 1 \in T
  BY <1>1
<1> QED BY <1>1, <1>2

\* Induction up to N.
LEMMA InductionUpTo ==
    ASSUME NEW N \in Nat, NEW T, 0 \in T,
           \A n \in 0 .. N - 1 : n \in T => n + 1 \in T
    PROVE  0 .. N \subseteq T
<1> DEFINE U == {n \in Nat : n <= N => n \in T}
<1>1. 0 \in U
  OBVIOUS
<1>2. ASSUME NEW n \in Nat, n \in U PROVE n + 1 \in U
  BY <1>2
<1>3. Nat \subseteq U
  BY <1>1, <1>2, Induction
<1> QED BY <1>3

\* Min is the least element, and Max the greatest.
LEMMA MinIsLeast ==
    ASSUME NEW T \in SUBSET Nat, T # {}
    PROVE  Min(T) \in T /\ \A k \in T : Min(T) <= k
BY LeastElement DEF Min

\* The greatest element of a bounded set of numbers.
LEMMA MaxIsGreatest ==
    ASSUME NEW N \in Nat, NEW T \in SUBSET (0 .. N), T # {}
    PROVE  Max(T) \in T /\ \A k \in T : k <= Max(T)
<1> DEFINE U == {n \in Nat : \A k \in T : k <= n}
<1>1. N \in U
  OBVIOUS
<1>2. PICK m \in U : \A n \in U : m <= n
  BY <1>1, LeastElement
<1>3. m \in T
  <2> SUFFICES ASSUME m \notin T PROVE FALSE
    OBVIOUS
  <2>1. \A k \in T : k \in Nat /\ k <= m /\ k # m
    BY <1>2
  <2>2. m - 1 \in U
    <3>1. PICK k \in T : TRUE
      OBVIOUS
    <3>2. k \in Nat /\ k <= m /\ k # m
      BY <2>1
    <3> QED BY <2>1, <3>2
  <2> QED BY <1>2, <2>2
<1>4. \E x \in T : \A y \in T : x >= y
  BY <1>2, <1>3
<1> QED BY <1>4 DEF Max

\* The same for every set of indices at once.
LEMMA MaxInside ==
    ASSUME NEW N \in Nat
    PROVE  \A t \in SUBSET (1 .. N) : t # {} => Max(t) \in t /\ Max(t) \in 1 .. N
<1> SUFFICES ASSUME NEW t \in SUBSET (1 .. N), t # {} PROVE Max(t) \in t
  OBVIOUS
<1>1. t \in SUBSET (0 .. N)
  OBVIOUS
<1> QED BY <1>1, MaxIsGreatest

\* The initial segments of 1 .. N, and what a fold makes of them.
LEMMA Segments ==
    ASSUME NEW N \in Nat, NEW n \in 1 .. N
    PROVE  /\ 1 .. n \in SUBSET (1 .. N) /\ 1 .. n # {}
           /\ Max(1 .. n) = n /\ (1 .. n) \ {n} = 1 .. n - 1
<1>1. 1 .. n \in SUBSET (0 .. n) /\ 1 .. n # {} /\ n \in 1 .. n /\ n \in Nat
  OBVIOUS
<1>2. Max(1 .. n) \in 1 .. n /\ n <= Max(1 .. n)
  BY <1>1, MaxIsGreatest
<1>3. ASSUME NEW k \in 1 .. n PROVE k \in 1 .. N
  OBVIOUS
<1> QED BY <1>1, <1>2, <1>3

\* The values a fold from the left over N elements takes on sets of indices:
\* it starts with a, and G makes the step, with the greatest index last.
FoldsBy(it, N, a, G) ==
    \A t \in SUBSET (1 .. N) :
        it[t] = IF t = {} THEN a ELSE G[<<Max(t), it[t \ {Max(t)}]>>]

StaysIn(G, N, S) == \A k \in 1 .. N, x \in S : G[<<k, x>>] \in S

\* The function by which such a fold is defined exists.
LEMMA FoldExists ==
    ASSUME NEW N \in Nat, NEW S, NEW a \in S, NEW G, StaysIn(G, N, S)
    PROVE  \E it \in [SUBSET (1 .. N) -> S] : FoldsBy(it, N, a, G)
<1> DEFINE Step(it, t) == IF t = {} THEN a ELSE G[<<Max(t), it[t \ {Max(t)}]>>]
           Good(n, it) == \A t \in SUBSET (1 .. n) : it[t] = Step(it, t)
           Built(n) == \E it \in [SUBSET (1 .. n) -> S] : Good(n, it)
           T == {n \in 0 .. N : Built(n)}
<1>1. 0 \in T
  <2> DEFINE it == [t \in SUBSET (1 .. 0) |-> a]
  <2>1. \A t \in SUBSET (1 .. 0) : t = {}
    OBVIOUS
  <2>2. it \in [SUBSET (1 .. 0) -> S] /\ Good(0, it)
    BY <2>1
  <2> HIDE DEF it, Good
  <2>3. Built(0)
    BY <2>2
  <2> HIDE DEF Built
  <2> QED BY <2>3
<1>2. ASSUME NEW n \in 0 .. N - 1, n \in T PROVE n + 1 \in T
  <2>1. PICK it \in [SUBSET (1 .. n) -> S] : Good(n, it)
    BY <1>2
  <2> DEFINE m == n + 1
             jt == [t \in SUBSET (1 .. m) |->
                       IF m \in t THEN G[<<m, it[t \ {m}]>>] ELSE it[t]]
  <2>2. ASSUME NEW t \in SUBSET (1 .. m), m \in t
        PROVE  /\ Max(t) = m /\ t \ {m} \in SUBSET (1 .. n)
               /\ jt[t] \in S /\ jt[t] = Step(jt, t)
    <3>1. Max(t) = m
      <4>1. t \in SUBSET (0 .. m) /\ t # {} /\ m \in Nat
        BY <2>2
      <4>2. Max(t) \in t /\ m <= Max(t)
        BY <2>2, <4>1, MaxIsGreatest
      <4>3. \A k \in t : m <= k => k = m
        OBVIOUS
      <4> HIDE DEF m
      <4> QED BY <4>2, <4>3
    <3>2. t \ {m} \in SUBSET (1 .. n)
      OBVIOUS
    <3>3. t \ {m} \in SUBSET (1 .. m) /\ m \notin t \ {m}
      OBVIOUS
    <3>4. jt[t \ {m}] = it[t \ {m}]
      BY <3>3
    <3>5. jt[t] = G[<<m, it[t \ {m}]>>] /\ it[t \ {m}] \in S
      BY <2>2, <3>2
    <3>6. m \in 1 .. N /\ jt[t] \in S
      BY <3>5 DEF StaysIn
    <3> HIDE DEF jt, m
    <3>7. jt[t] = Step(jt, t)
      BY <2>2, <3>1, <3>4, <3>5
    <3> QED BY <3>1, <3>2, <3>5, <3>6, <3>7
  <2>3. ASSUME NEW t \in SUBSET (1 .. m), m \notin t
        PROVE  jt[t] \in S /\ jt[t] = Step(jt, t)
    <3>1. t \in SUBSET (1 .. n)
      BY <2>3
    <3>2. jt[t] = it[t] /\ it[t] \in S
      BY <2>3, <3>1
    <3>3. jt[t \ {Max(t)}] = it[t \ {Max(t)}]
      BY <2>3
    <3>4. it[t] = Step(it, t)
      BY <2>1, <3>1
    <3> HIDE DEF jt, m
    <3> QED BY <3>2, <3>3, <3>4
  <2>4. jt \in [SUBSET (1 .. m) -> S] /\ Good(m, jt)
    BY <2>2, <2>3
  <2> HIDE DEF jt, Good
  <2>5. Built(m)
    BY <2>4
  <2> QED BY <2>5
<1>3. N \in T
  <2> HIDE DEF T
  <2>1. 0 .. N \subseteq T
    BY <1>1, <1>2, InductionUpTo
  <2> QED BY <2>1
<1>4. PICK it \in [SUBSET (1 .. N) -> S] : Good(N, it)
  BY <1>3
<1> QED BY <1>4 DEF FoldsBy

\* The values of the fold on the initial segments, one element at a time.
LEMMA FoldValues ==
    ASSUME NEW N \in Nat, NEW S, NEW a \in S, NEW G, NEW it,
           StaysIn(G, N, S), FoldsBy(it, N, a, G)
    PROVE  \E F \in [0 .. N -> S] :
               /\ F[0] = a /\ F[N] = it[1 .. N]
               /\ \A n \in 1 .. N : F[n] = G[<<n, F[n - 1]>>]
<1> DEFINE F == [n \in 0 .. N |-> it[1 .. n]]
           T == {n \in 0 .. N : F[n] \in S}
<1>1. F[0] = a
  <2>1. F[0] = it[{}]
    OBVIOUS
  <2> QED BY <2>1 DEF FoldsBy
<1>2. ASSUME NEW n \in 1 .. N PROVE F[n] = G[<<n, F[n - 1]>>]
  <2>1. /\ 1 .. n \in SUBSET (1 .. N) /\ 1 .. n # {}
        /\ Max(1 .. n) = n /\ (1 .. n) \ {n} = 1 .. n - 1
    BY Segments
  <2>2. it[1 .. n] = G[<<n, it[1 .. n - 1]>>]
    BY <2>1 DEF FoldsBy
  <2> QED BY <2>2
<1>3. F[N] = it[1 .. N] /\ DOMAIN F = 0 .. N
  OBVIOUS
<1>4. ASSUME NEW n \in 0 .. N - 1, n \in T PROVE n + 1 \in T
  <2>1. n + 1 \in 1 .. N /\ F[n] \in S
    BY <1>4
  <2> HIDE DEF F
  <2>2. F[n + 1] = G[<<n + 1, F[(n + 1) - 1]>>] /\ (n + 1) - 1 = n
    BY <1>2, <2>1
  <2> QED BY <2>1, <2>2 DEF StaysIn
<1>5. 0 \in T
  BY <1>1
<1>6. 0 .. N \subseteq T
  <2> HIDE DEF T
  <2> QED BY <1>4, <1>5, InductionUpTo
<1>7. \A n \in 0 .. N : F[n] \in S
  BY <1>6
<1>8. F \in [0 .. N -> S]
  BY <1>7
<1> HIDE DEF F
<1> QED BY <1>1, <1>2, <1>3, <1>8

\* What holds of the first value of a list and passes to the next holds of all.
LEMMA Along ==
    ASSUME NEW N \in Nat, NEW F, NEW S, F[0] \in S,
           \A n \in 1 .. N : F[n - 1] \in S => F[n] \in S
    PROVE  \A n \in 0 .. N : F[n] \in S
<1> DEFINE T == {n \in 0 .. N : F[n] \in S}
<1>1. 0 \in T
  OBVIOUS
<1>2. ASSUME NEW n \in 0 .. N - 1, n \in T PROVE n + 1 \in T
  <2>1. n + 1 \in 1 .. N /\ (n + 1) - 1 = n
    OBVIOUS
  <2> QED BY <1>2, <2>1
<1>3. 0 .. N \subseteq T
  <2> HIDE DEF T
  <2> QED BY <1>1, <1>2, InductionUpTo
<1> QED BY <1>3

\* What is left of n * q + r.
LEMMA Remainder ==
    ASSUME NEW n \in Nat \ {0}, NEW q \in Int, NEW r \in 0 .. n - 1, NEW v \in Int, v = n * q + r
    PROVE  v % n = r
BY SMTT(30)

\* Remainders follow each other round.
LEMMA NextRemainder ==
    ASSUME NEW v \in Nat, NEW n \in Nat \ {0}
    PROVE  /\ v % n \in 0 .. n - 1
           /\ (v + 1) % n = IF v % n = n - 1 THEN 0 ELSE (v % n) + 1
<1> DEFINE q == v \div n
           r == v % n
<1>1. q \in Int /\ r \in 0 .. n - 1
  OBVIOUS
<1>2. r = v - n * q
  BY SMTT(30)
<1> HIDE DEF q, r
<1> DEFINE w == n * q
<1>3. w \in Int /\ n * (q + 1) = w + n
  BY <1>1
<1>4. v = w + r
  <2> HIDE DEF w
  <2> QED BY <1>1, <1>2, <1>3 DEF w
<1>5. CASE r = n - 1
  <2>1. v + 1 = n * (q + 1) + 0 /\ q + 1 \in Int /\ 0 \in 0 .. n - 1
    <3> HIDE DEF w
    <3> QED BY <1>1, <1>3, <1>4, <1>5
  <2>2. (v + 1) % n = 0
    BY <2>1, Remainder
  <2> QED BY <1>1, <1>5, <2>2 DEF r
<1>6. CASE r # n - 1
  <2>1. v + 1 = n * q + (r + 1) /\ r + 1 \in 0 .. n - 1
    BY <1>1, <1>4, <1>6
  <2> DEFINE x == v + 1
             y == r + 1
  <2>2. x \in Int /\ y \in 0 .. n - 1 /\ x = n * q + y
    BY <2>1
  <2> HIDE DEF x, y
  <2>3. x % n = y
    BY <1>1, <2>2, Remainder
  <2> QED BY <1>1, <1>6, <2>3 DEF r, x, y
<1> QED BY <1>5, <1>6

-----------------------------------------------------------------------------
\* Loops over a list, run element by element: filtering, summing, removing duplicates.

\* F[n] is what the loop of ApplyFilters has kept of the first n elements of s.
FilterRun(F, s, filters, who, at) ==
    /\ F[0] = <<>>
    /\ \A n \in 1 .. Len(s) :
          F[n] = IF Passes(filters, s[n], who, at) THEN Append(F[n - 1], s[n])
                 ELSE F[n - 1]

\* ApplyFilters is where the run of its loop ends.
LEMMA FilterSteps ==
    ASSUME NEW s, IsList(s), NEW filters, NEW who, NEW at
    PROVE  \E F \in [0 .. Len(s) -> Seq(Range(s))] :
               FilterRun(F, s, filters, who, at) /\ F[Len(s)] = ApplyFilters(s, filters, who, at)
<1> DEFINE N == Len(s)
           S == Seq(Range(s))
           Op(acc, b) == IF Passes(filters, b, who, at) THEN Append(acc, b) ELSE acc
           Eqn(it) == it = [t \in SUBSET (1 .. N) |->
                               IF t = {} THEN <<>> ELSE Op(it[t \ {Max(t)}], s[Max(t)])]
           it == CHOOSE it : Eqn(it)
           U == S \cup {it[t] : t \in SUBSET (1 .. N)}
           G == [p \in (1 .. N) \X U |-> Op(p[2], s[p[1]])]
<1>1. N \in Nat /\ DOMAIN s = 1 .. N /\ s \in Seq(Range(s))
  BY DEF IsList
<1>2. ApplyFilters(s, filters, who, at) = it[1 .. N]
  BY <1>1 DEF ApplyFilters, FoldLeft, MapThenFoldSet
<1>3. \A k \in 1 .. N, x \in U : G[<<k, x>>] = Op(x, s[k])
  <2> HIDE DEF Op
  <2> QED OBVIOUS
<1>4. <<>> \in S /\ S \subseteq U
  OBVIOUS
<1>5. ASSUME NEW k \in 1 .. N, NEW x \in S PROVE Op(x, s[k]) \in S
  BY <1>1 DEF Range
<1> HIDE DEF G, S, U, Op
<1>6. StaysIn(G, N, S)
  BY <1>3, <1>4, <1>5 DEF StaysIn
<1>7. Eqn(it)
  <2>1. PICK jt \in [SUBSET (1 .. N) -> S] : FoldsBy(jt, N, <<>>, G)
    BY <1>1, <1>4, <1>6, FoldExists
  <2>2. ASSUME NEW t \in SUBSET (1 .. N), t # {}
        PROVE jt[t] = Op(jt[t \ {Max(t)}], s[Max(t)])
    <3>1. Max(t) \in 1 .. N
      BY <1>1, <2>2, MaxInside
    <3>2. jt[t] = G[<<Max(t), jt[t \ {Max(t)}]>>]
      BY <2>1, <2>2 DEF FoldsBy
    <3>3. jt[t \ {Max(t)}] \in U
      BY <1>4, <2>1
    <3> QED BY <1>3, <3>1, <3>2, <3>3
  <2>3. jt[{}] = <<>>
    BY <2>1 DEF FoldsBy
  <2>4. Eqn(jt)
    BY <2>1, <2>2, <2>3
  <2> HIDE DEF Eqn
  <2> QED BY <2>4
<1>8. FoldsBy(it, N, <<>>, G)
  <2>1. ASSUME NEW t \in SUBSET (1 .. N), t # {}
        PROVE it[t] = G[<<Max(t), it[t \ {Max(t)}]>>]
    <3>1. Max(t) \in 1 .. N
      BY <1>1, <2>1, MaxInside
    <3>2. it[t] = Op(it[t \ {Max(t)}], s[Max(t)])
      BY <1>7, <2>1
    <3>3. it[t \ {Max(t)}] \in U
      BY DEF U
    <3> QED BY <1>3, <3>1, <3>2, <3>3
  <2>2. it[{}] = <<>>
    BY <1>7
  <2> HIDE DEF it
  <2> QED BY <2>1, <2>2 DEF FoldsBy
<1> HIDE DEF it
<1>9. PICK F \in [0 .. N -> S] :
          /\ F[0] = <<>> /\ F[N] = it[1 .. N]
          /\ \A n \in 1 .. N : F[n] = G[<<n, F[n - 1]>>]
  BY <1>1, <1>4, <1>6, <1>8, FoldValues
<1>10. ASSUME NEW n \in 1 .. N PROVE F[n] = Op(F[n - 1], s[n])
  <2>1. F[n - 1] \in U
    BY <1>1, <1>4, <1>9
  <2> QED BY <1>3, <1>9, <2>1
<1> QED BY <1>2, <1>9, <1>10 DEF S, Op, FilterRun

\* F[n] is the sum of the shares of the first n elements of s.
SumRun(F, s) ==
    /\ F[0] = 0
    /\ \A n \in 1 .. Len(s) :
          F[n] = F[n - 1] + Share(s[n])

\* A sum of shares is where the run of its additions ends.
LEMMA SumSteps ==
    ASSUME NEW s, IsList(s), \A i \in DOMAIN s : s[i].weight \in Int
    PROVE  \E F \in [0 .. Len(s) -> Int] :
               SumRun(F, s) /\ F[Len(s)] = FoldLeft(LAMBDA acc, b : acc + Share(b), 0, s)
<1> DEFINE N == Len(s)
           S == Int
           Op(acc, b) == acc + Share(b)
           Eqn(it) == it = [t \in SUBSET (1 .. N) |->
                               IF t = {} THEN 0 ELSE Op(it[t \ {Max(t)}], s[Max(t)])]
           it == CHOOSE it : Eqn(it)
           U == S \cup {it[t] : t \in SUBSET (1 .. N)}
           G == [p \in (1 .. N) \X U |-> Op(p[2], s[p[1]])]
<1>1. N \in Nat /\ DOMAIN s = 1 .. N /\ s \in Seq(Range(s))
  BY DEF IsList
<1>2. FoldLeft(LAMBDA acc, b : acc + Share(b), 0, s) = it[1 .. N]
  BY <1>1 DEF FoldLeft, MapThenFoldSet
<1>3. \A k \in 1 .. N, x \in U : G[<<k, x>>] = Op(x, s[k])
  <2> HIDE DEF Op
  <2> QED OBVIOUS
<1>4. 0 \in S /\ S \subseteq U
  OBVIOUS
<1>5. ASSUME NEW k \in 1 .. N, NEW x \in S PROVE Op(x, s[k]) \in S
  BY <1>1 DEF Share
<1> HIDE DEF G, S, U, Op
<1>6. StaysIn(G, N, S)
  BY <1>3, <1>4, <1>5 DEF StaysIn
<1>7. Eqn(it)
  <2>1. PICK jt \in [SUBSET (1 .. N) -> S] : FoldsBy(jt, N, 0, G)
    BY <1>1, <1>4, <1>6, FoldExists
  <2>2. ASSUME NEW t \in SUBSET (1 .. N), t # {}
        PROVE jt[t] = Op(jt[t \ {Max(t)}], s[Max(t)])
    <3>1. Max(t) \in 1 .. N
      BY <1>1, <2>2, MaxInside
    <3>2. jt[t] = G[<<Max(t), jt[t \ {Max(t)}]>>]
      BY <2>1, <2>2 DEF FoldsBy
    <3>3. jt[t \ {Max(t)}] \in U
      BY <1>4, <2>1
    <3> QED BY <1>3, <3>1, <3>2, <3>3
  <2>3. jt[{}] = 0
    BY <2>1 DEF FoldsBy
  <2>4. Eqn(jt)
    BY <2>1, <2>2, <2>3
  <2> HIDE DEF Eqn
  <2> QED BY <2>4
<1>8. FoldsBy(it, N, 0, G)
  <2>1. ASSUME NEW t \in SUBSET (1 .. N), t # {}
        PROVE it[t] = G[<<Max(t), it[t \ {Max(t)}]>>]
    <3>1. Max(t) \in 1 .. N
      BY <1>1, <2>1, MaxInside
    <3>2. it[t] = Op(it[t \ {Max(t)}], s[Max(t)])
      BY <1>7, <2>1
    <3>3. it[t \ {Max(t)}] \in U
      BY DEF U
    <3> QED BY <1>3, <3>1, <3>2, <3>3
  <2>2. it[{}] = 0
    BY <1>7
  <2> HIDE DEF it
  <2> QED BY <2>1, <2>2 DEF FoldsBy
<1> HIDE DEF it
<1>9. PICK F \in [0 .. N -> S] :
          /\ F[0] = 0 /\ F[N] = it[1 .. N]
          /\ \A n \in 1 .. N : F[n] = G[<<n, F[n - 1]>>]
  BY <1>1, <1>4, <1>6, <1>8, FoldValues
<1>10. ASSUME NEW n \in 1 .. N PROVE F[n] = Op(F[n - 1], s[n])
  <2>1. F[n - 1] \in U
    BY <1>1, <1>4, <1>9
  <2> QED BY <1>3, <1>9, <2>1
<1> QED BY <1>2, <1>9, <1>10 DEF S, Op, SumRun

\* F[n] is what is left of the first n elements of s without second addresses.
DedupeRun(F, s) ==
    /\ F[0] = <<>>
    /\ \A n \in 1 .. Len(s) :
          F[n] = IF \E i \in DOMAIN F[n - 1] : F[n - 1][i].addr = s[n].addr
                 THEN F[n - 1] ELSE Append(F[n - 1], s[n])

\* Dedupe is where the run of its loop ends.
LEMMA DedupeSteps ==
    ASSUME NEW s, IsList(s)
    PROVE  \E F \in [0 .. Len(s) -> Seq(Range(s))] :
               DedupeRun(F, s) /\ F[Len(s)] = Dedupe(s)
<1> DEFINE N == Len(s)
           S == Seq(Range(s))
           Op(acc, b) == IF \E i \in DOMAIN acc : acc[i].addr = b.addr
                         THEN acc ELSE Append(acc, b)
           Eqn(it) == it = [t \in SUBSET (1 .. N) |->
                               IF t = {} THEN <<>> ELSE Op(it[t \ {Max(t)}], s[Max(t)])]
           it == CHOOSE it : Eqn(it)
           U == S \cup {it[t] : t \in SUBSET (1 .. N)}
           G == [p \in (1 .. N) \X U |-> Op(p[2], s[p[1]])]
<1>1. N \in Nat /\ DOMAIN s = 1 .. N /\ s \in Seq(Range(s))
  BY DEF IsList
<1>2. Dedupe(s) = it[1 .. N]
  BY <1>1 DEF Dedupe, FoldLeft, MapThenFoldSet
<1>3. \A k \in 1 .. N, x \in U : G[<<k, x>>] = Op(x, s[k])
  <2> HIDE DEF Op
  <2> QED OBVIOUS
<1>4. <<>> \in S /\ S \subseteq U
  OBVIOUS
<1>5. ASSUME NEW k \in 1 .. N, NEW x \in S PROVE Op(x, s[k]) \in S
  BY <1>1 DEF Range
<1> HIDE DEF G, S, U, Op
<1>6. StaysIn(G, N, S)
  BY <1>3, <1>4, <1>5 DEF StaysIn
<1>7. Eqn(it)
  <2>1. PICK jt \in [SUBSET (1 .. N) -> S] : FoldsBy(jt, N, <<>>, G)
    BY <1>1, <1>4, <1>6, FoldExists
  <2>2. ASSUME NEW t \in SUBSET (1 .. N), t # {}
        PROVE jt[t] = Op(jt[t \ {Max(t)}], s[Max(t)])
    <3>1. Max(t) \in 1 .. N
      BY <1>1, <2>2, MaxInside
    <3>2. jt[t] = G[<<Max(t), jt[t \ {Max(t)}]>>]
      BY <2>1, <2>2 DEF FoldsBy
    <3>3. jt[t \ {Max(t)}] \in U
      BY <1>4, <2>1
    <3> QED BY <1>3, <3>1, <3>2, <3>3
  <2>3. jt[{}] = <<>>
    BY <2>1 DEF FoldsBy
  <2>4. Eqn(jt)
    BY <2>1, <2>2, <2>3
  <2> HIDE DEF Eqn
  <2> QED BY <2>4
<1>8. FoldsBy(it, N, <<>>, G)
  <2>1. ASSUME NEW t \in SUBSET (1 .. N), t # {}
        PROVE it[t] = G[<<Max(t), it[t \ {Max(t)}]>>]
    <3>1. Max(t) \in 1 .. N
      BY <1>1, <2>1, MaxInside
    <3>2. it[t] = Op(it[t \ {Max(t)}], s[Max(t)])
      BY <1>7, <2>1
    <3>3. it[t \ {Max(t)}] \in U
      BY DEF U
    <3> QED BY <1>3, <3>1, <3>2, <3>3
  <2>2. it[{}] = <<>>
    BY <1>7
  <2> HIDE DEF it
  <2> QED BY <2>1, <2>2 DEF FoldsBy
<1> HIDE DEF it
<1>9. PICK F \in [0 .. N -> S] :
          /\ F[0] = <<>> /\ F[N] = it[1 .. N]
          /\ \A n \in 1 .. N : F[n] = G[<<n, F[n - 1]>>]
  BY <1>1, <1>4, <1>6, <1>8, FoldValues
<1>10. ASSUME NEW n \in 1 .. N PROVE F[n] = Op(F[n - 1], s[n])
  <2>1. F[n - 1] \in U
    BY <1>1, <1>4, <1>9
  <2> QED BY <1>3, <1>9, <2>1
<1> QED BY <1>2, <1>9, <1>10 DEF S, Op, DedupeRun

-----------------------------------------------------------------------------
\* Insertion into a list, the step of the stable sort.

\* Inserting at p moves the elements from p on by one place.
LEMMA InsertFacts ==
    ASSUME NEW S, NEW x \in Seq(S), NEW e \in S, NEW p \in 1 .. Len(x) + 1
    PROVE  /\ InsertAt(x, p, e) \in Seq(S) /\ Len(InsertAt(x, p, e)) = Len(x) + 1
           /\ \A i \in 1 .. Len(x) + 1 :
                  InsertAt(x, p, e)[i] = IF i < p THEN x[i] ELSE IF i = p THEN e ELSE x[i - 1]
<1> DEFINE u == SubSeq(x, 1, p - 1)
           w == SubSeq(x, p, Len(x))
<1>0. Len(x) \in Nat /\ p \in Nat
  OBVIOUS
<1>1. u \in Seq(S) /\ Len(u) = p - 1 /\ \A i \in 1 .. p - 1 : u[i] = x[i]
  OBVIOUS
<1>2. w \in Seq(S) /\ Len(w) = Len(x) - p + 1 /\ \A i \in 1 .. Len(w) : w[i] = x[p + i - 1]
  OBVIOUS
<1>3. InsertAt(x, p, e) = (u \o <<e>>) \o w
  BY DEF InsertAt
<1> HIDE DEF u, w
<1> DEFINE v == u \o <<e>>
<1>4. v \in Seq(S) /\ Len(v) = p /\ \A i \in 1 .. p : v[i] = IF i < p THEN x[i] ELSE e
  BY <1>1
<1> HIDE DEF v
<1>5. /\ v \o w \in Seq(S) /\ Len(v \o w) = Len(v) + Len(w)
      /\ \A i \in 1 .. Len(v) + Len(w) :
             (v \o w)[i] = IF i <= Len(v) THEN v[i] ELSE w[i - Len(v)]
  BY <1>2, <1>4, ConcatProperties
<1> DEFINE y == v \o w
<1> HIDE DEF y
<1>6. /\ y \in Seq(S) /\ Len(y) = Len(x) + 1
      /\ \A i \in 1 .. Len(x) + 1 : y[i] = IF i <= p THEN v[i] ELSE w[i - p]
  BY <1>0, <1>2, <1>4, <1>5 DEF y
<1>7. ASSUME NEW i \in 1 .. Len(x) + 1
      PROVE y[i] = IF i < p THEN x[i] ELSE IF i = p THEN e ELSE x[i - 1]
  <2>1. CASE i <= p
    BY <1>0, <1>4, <1>6, <2>1
  <2>2. CASE i > p
    <3>1. i - p \in 1 .. Len(w) /\ p + (i - p) - 1 = i - 1
      BY <1>0, <1>2, <2>2
    <3>2. y[i] = w[i - p]
      BY <1>0, <1>6, <2>2
    <3> QED BY <1>0, <1>2, <2>2, <3>1, <3>2
  <2> QED BY <1>0, <2>1, <2>2
<1> QED BY <1>3, <1>6, <1>7 DEF v, y

\* An element goes after the last one it does not sort before.
LEMMA PlaceInside ==
    ASSUME NEW S, NEW x \in Seq(S), NEW b, NEW keys
    PROVE  /\ Place(x, b, keys) \in 1 .. Len(x) + 1
           /\ \A i \in 1 .. Len(x) : i >= Place(x, b, keys) => SortsBefore(keys, b, x[i])
           /\ Place(x, b, keys) > 1 => ~ SortsBefore(keys, b, x[Place(x, b, keys) - 1])
<1> DEFINE T == {0} \cup {i \in DOMAIN x : ~ SortsBefore(keys, b, x[i])}
<1>1. T \in SUBSET (0 .. Len(x)) /\ T # {} /\ Len(x) \in Nat /\ DOMAIN x = 1 .. Len(x)
  OBVIOUS
<1>2. Max(T) \in T /\ \A k \in T : k <= Max(T)
  <2> HIDE DEF T
  <2> QED BY <1>1, MaxIsGreatest
<1>3. Place(x, b, keys) = Max(T) + 1
  BY DEF Place
<1> DEFINE m == Max(T)
<1> HIDE DEF m
<1>4. m \in T /\ (\A k \in T : k <= m) /\ Place(x, b, keys) = m + 1
  BY <1>2, <1>3 DEF m
<1> QED BY <1>1, <1>4

-----------------------------------------------------------------------------
\* The order that sort keys make of backends.

\* Backends that the keys can order: no value is NaN.
Ordinary(b, keys) ==
    IsBackend(b) /\ \A i \in DOMAIN keys : Value(b, keys[i].key) # NaN

\* A backend has a number, nothing or NaN for a key.
LEMMA ValueType ==
    ASSUME NEW b, IsBackend(b), NEW key
    PROVE  Value(b, key) \in Int \cup {NoValue, NaN}
BY DEF IsBackend, Value, Meta

\* The keys give an ordinary backend ranks.
LEMMA RankType ==
    ASSUME NEW b, NEW keys, Ordinary(b, keys), NEW i \in DOMAIN keys
    PROVE  Rank(b, keys[i]) \in Int \X Int
<1>1. Value(b, keys[i].key) \in Int \cup {NoValue}
  BY ValueType DEF Ordinary
<1> QED BY <1>1 DEF Rank, Has

\* Below orders the ranks strictly and totally.
LEMMA BelowOrder ==
    ASSUME NEW x \in Int \X Int, NEW y \in Int \X Int, NEW z \in Int \X Int
    PROVE  /\ ~ Below(x, x)
           /\ Below(x, y) \/ Below(y, x) \/ x = y
           /\ Below(x, y) => ~ Below(y, x)
           /\ Below(x, y) /\ Below(y, z) => Below(x, z)
BY DEF Below

\* The order the keys make of ordinary backends is transitive, ...
LEMMA LexTransitive ==
    ASSUME NEW keys, IsList(keys), NEW a, NEW b, NEW c,
           Ordinary(a, keys), Ordinary(b, keys), Ordinary(c, keys),
           LexBelow(a, b, keys), LexBelow(b, c, keys)
    PROVE  LexBelow(a, c, keys)
<1>0. DOMAIN keys = 1 .. Len(keys) /\ Len(keys) \in Nat
  BY DEF IsList
<1>1. PICK i \in DOMAIN keys : /\ Below(Rank(a, keys[i]), Rank(b, keys[i]))
                               /\ \A j \in 1 .. i - 1 : Rank(a, keys[j]) = Rank(b, keys[j])
  BY DEF LexBelow
<1>2. PICK k \in DOMAIN keys : /\ Below(Rank(b, keys[k]), Rank(c, keys[k]))
                               /\ \A j \in 1 .. k - 1 : Rank(b, keys[j]) = Rank(c, keys[j])
  BY DEF LexBelow
<1> DEFINE m == IF i <= k THEN i ELSE k
<1>3. m \in DOMAIN keys /\ m \in Int /\ i \in Int /\ k \in Int /\ m <= i /\ m <= k
  BY <1>0
<1>4. Below(Rank(a, keys[m]), Rank(c, keys[m]))
  <2>1. CASE i < k
    BY <1>1, <1>2, <1>0, <2>1
  <2>2. CASE k < i
    BY <1>1, <1>2, <1>0, <2>2
  <2>3. CASE i = k
    BY <1>1, <1>2, <2>3, RankType, BelowOrder
  <2> QED BY <1>3, <2>1, <2>2, <2>3
<1>5. \A j \in 1 .. m - 1 : Rank(a, keys[j]) = Rank(c, keys[j])
  <2> TAKE j \in 1 .. m - 1
  <2>1. j \in 1 .. i - 1 /\ j \in 1 .. k - 1
    BY <1>3
  <2> QED BY <1>1, <1>2, <2>1
<1> HIDE DEF m
<1> QED BY <1>3, <1>4, <1>5 DEF LexBelow

\* ... and two of them that it leaves apart have the same ranks.
LEMMA LexEqual ==
    ASSUME NEW keys, IsList(keys), NEW a, NEW b, Ordinary(a, keys), Ordinary(b, keys),
           ~ LexBelow(a, b, keys), ~ LexBelow(b, a, keys)
    PROVE  \A i \in DOMAIN keys : Rank(a, keys[i]) = Rank(b, keys[i])
<1> DEFINE D == {i \in DOMAIN keys : Rank(a, keys[i]) # Rank(b, keys[i])}
<1>0. DOMAIN keys = 1 .. Len(keys) /\ Len(keys) \in Nat
  BY DEF IsList
<1> SUFFICES ASSUME D # {} PROVE FALSE
  OBVIOUS
<1>1. PICK i \in D : \A j \in D : i <= j
  <2>1. D \in SUBSET Nat
    BY <1>0
  <2> HIDE DEF D
  <2> QED BY <2>1, LeastElement
<1>2. \A j \in 1 .. i - 1 : Rank(a, keys[j]) = Rank(b, keys[j])
  <2> TAKE j \in 1 .. i - 1
  <2>1. j \in DOMAIN keys /\ ~ (i <= j)
    BY <1>0
  <2> QED BY <1>1, <2>1
<1>3. Below(Rank(a, keys[i]), Rank(b, keys[i])) \/ Below(Rank(b, keys[i]), Rank(a, keys[i]))
  BY RankType, BelowOrder
<1> QED BY <1>2, <1>3 DEF LexBelow

\* The sort's order is a strict weak order: what neither comes before the
\* other stays together.
LEMMA LexWeak ==
    ASSUME NEW keys, IsList(keys), NEW a, NEW b, NEW c,
           Ordinary(a, keys), Ordinary(b, keys), Ordinary(c, keys)
    PROVE  /\ ~ LexBelow(a, a, keys)
           /\ LexBelow(a, b, keys) => ~ LexBelow(b, a, keys)
           /\ ~ LexBelow(b, a, keys) /\ ~ LexBelow(c, b, keys) => ~ LexBelow(c, a, keys)
<1>1. \A x : Ordinary(x, keys) => ~ LexBelow(x, x, keys)
  BY RankType, BelowOrder DEF LexBelow
<1>2. LexBelow(a, b, keys) => ~ LexBelow(b, a, keys)
  BY <1>1, LexTransitive
<1>3. ASSUME ~ LexBelow(b, a, keys), ~ LexBelow(c, b, keys), LexBelow(c, a, keys) PROVE FALSE
  <2>1. CASE LexBelow(a, b, keys)
    BY <1>3, <2>1, LexTransitive
  <2>2. CASE ~ LexBelow(a, b, keys)
    <3>1. \A i \in DOMAIN keys : Rank(a, keys[i]) = Rank(b, keys[i])
      BY <1>3, <2>2, LexEqual
    <3>2. DOMAIN keys = 1 .. Len(keys) /\ Len(keys) \in Nat
      BY DEF IsList
    <3>3. ASSUME NEW i \in DOMAIN keys PROVE 1 .. i - 1 \subseteq DOMAIN keys
      BY <3>2
    <3> QED BY <1>3, <3>1, <3>3 DEF LexBelow
  <2> QED BY <2>1, <2>2
<1> QED BY <1>1, <1>2, <1>3

\* On such backends the less function of the code is that order.
LEMMA SortIsLex ==
    ASSUME NEW keys, IsList(keys), NEW a, NEW b, Ordinary(a, keys), Ordinary(b, keys)
    PROVE  SortsBefore(keys, a, b) <=> LexBelow(a, b, keys)
<1>0. DOMAIN keys = 1 .. Len(keys) /\ Len(keys) \in Nat
  BY DEF IsList
<1>1. ASSUME NEW i \in DOMAIN keys
      PROVE  /\ Decides(keys[i], a, b) <=> Rank(a, keys[i]) # Rank(b, keys[i])
             /\ Decides(keys[i], a, b) => (Wins(keys[i], a, b) <=>
                                           Below(Rank(a, keys[i]), Rank(b, keys[i])))
             /\ Below(Rank(a, keys[i]), Rank(b, keys[i])) => Decides(keys[i], a, b)
  <2>1. /\ Value(a, keys[i].key) \in Int \cup {NoValue}
        /\ Value(b, keys[i].key) \in Int \cup {NoValue}
    BY ValueType DEF Ordinary
  <2> HIDE DEF Value
  <2> QED BY <2>1, NumbersAssumption DEF Decides, Wins, Less, Rank, Below, Has
<1>2. ASSUME NEW i \in DOMAIN keys PROVE 1 .. i - 1 \subseteq DOMAIN keys
  BY <1>0
<1> QED BY <1>1, <1>2 DEF SortsBefore, LexBelow

-----------------------------------------------------------------------------
\* Sorting arranges a list in that order, equals in their earlier order.

\* F[n] is the first n elements of s, inserted one by one.
SortRun(F, s, keys) ==
    /\ F[0] = <<>>
    /\ \A n \in 1 .. Len(s) :
          F[n] = InsertAt(F[n - 1], Place(F[n - 1], s[n], keys), s[n])

\* Sorted is where the run of its insertions ends.
LEMMA SortSteps ==
    ASSUME NEW s, IsList(s), NEW keys
    PROVE  \E F \in [0 .. Len(s) -> Seq(Range(s))] :
               SortRun(F, s, keys) /\ F[Len(s)] = Sorted(s, keys)
<1> DEFINE N == Len(s)
           S == Seq(Range(s))
           Op(acc, b) == InsertAt(acc, Place(acc, b, keys), b)
           Eqn(it) == it = [t \in SUBSET (1 .. N) |->
                               IF t = {} THEN <<>> ELSE Op(it[t \ {Max(t)}], s[Max(t)])]
           it == CHOOSE it : Eqn(it)
           U == S \cup {it[t] : t \in SUBSET (1 .. N)}
           G == [p \in (1 .. N) \X U |-> Op(p[2], s[p[1]])]
<1>1. N \in Nat /\ DOMAIN s = 1 .. N /\ s \in Seq(Range(s))
  BY DEF IsList
<1>2. Sorted(s, keys) = it[1 .. N]
  BY <1>1 DEF Sorted, FoldLeft, MapThenFoldSet
<1>3. \A k \in 1 .. N, x \in U : G[<<k, x>>] = Op(x, s[k])
  <2> HIDE DEF Op
  <2> QED OBVIOUS
<1>4. <<>> \in S /\ S \subseteq U
  OBVIOUS
<1>5. ASSUME NEW k \in 1 .. N, NEW x \in S PROVE Op(x, s[k]) \in S
  <2>1. s[k] \in Range(s)
    BY <1>1 DEF Range
  <2>2. Place(x, s[k], keys) \in 1 .. Len(x) + 1
    BY PlaceInside
  <2> QED BY <2>1, <2>2, InsertFacts
<1> HIDE DEF G, S, U, Op
<1>6. StaysIn(G, N, S)
  BY <1>3, <1>4, <1>5 DEF StaysIn
<1>7. Eqn(it)
  <2>1. PICK jt \in [SUBSET (1 .. N) -> S] : FoldsBy(jt, N, <<>>, G)
    BY <1>1, <1>4, <1>6, FoldExists
  <2>2. ASSUME NEW t \in SUBSET (1 .. N), t # {}
        PROVE jt[t] = Op(jt[t \ {Max(t)}], s[Max(t)])
    <3>1. Max(t) \in 1 .. N
      BY <1>1, <2>2, MaxInside
    <3>2. jt[t] = G[<<Max(t), jt[t \ {Max(t)}]>>]
      BY <2>1, <2>2 DEF FoldsBy
    <3>3. jt[t \ {Max(t)}] \in U
      BY <1>4, <2>1
    <3> QED BY <1>3, <3>1, <3>2, <3>3
  <2>3. jt[{}] = <<>>
    BY <2>1 DEF FoldsBy
  <2>4. Eqn(jt)
    BY <2>1, <2>2, <2>3
  <2> HIDE DEF Eqn
  <2> QED BY <2>4
<1>8. FoldsBy(it, N, <<>>, G)
  <2>1. ASSUME NEW t \in SUBSET (1 .. N), t # {}
        PROVE it[t] = G[<<Max(t), it[t \ {Max(t)}]>>]
    <3>1. Max(t) \in 1 .. N
      BY <1>1, <2>1, MaxInside
    <3>2. it[t] = Op(it[t \ {Max(t)}], s[Max(t)])
      BY <1>7, <2>1
    <3>3. it[t \ {Max(t)}] \in U
      BY DEF U
    <3> QED BY <1>3, <3>1, <3>2, <3>3
  <2>2. it[{}] = <<>>
    BY <1>7
  <2> HIDE DEF it
  <2> QED BY <2>1, <2>2 DEF FoldsBy
<1> HIDE DEF it
<1>9. PICK F \in [0 .. N -> S] :
          /\ F[0] = <<>> /\ F[N] = it[1 .. N]
          /\ \A n \in 1 .. N : F[n] = G[<<n, F[n - 1]>>]
  BY <1>1, <1>4, <1>6, <1>8, FoldValues
<1>10. ASSUME NEW n \in 1 .. N PROVE F[n] = Op(F[n - 1], s[n])
  <2>1. F[n - 1] \in U
    BY <1>1, <1>4, <1>9
  <2> QED BY <1>3, <1>9, <2>1
<1> QED BY <1>2, <1>9, <1>10 DEF S, Op, SortRun

\* x is the first n elements of s in another order, the one the keys ask for.
AllOrdinary(s, keys) == \A b \in Range(s) : Ordinary(b, keys)
Arranges(p, n, s, x, keys) ==
    /\ p \in [1 .. n -> 1 .. n]
    /\ \A i \in 1 .. n : x[i] = s[p[i]]
    /\ \A k \in 1 .. n : \E i \in 1 .. n : p[i] = k
    /\ \A i, j \in 1 .. n : i < j => p[i] # p[j]
    /\ AllOrdinary(s, keys) => \A i, j \in 1 .. n : i < j => Ahead(s, p[i], p[j], keys)

\* Inserting the next element where it belongs arranges one element more.
LEMMA InsertArranges ==
    ASSUME NEW s, IsList(s), NEW keys, IsList(keys),
           NEW x \in Seq(Range(s)), Len(x) < Len(s),
           NEW p, Arranges(p, Len(x), s, x, keys)
    PROVE  LET b == s[Len(x) + 1]
           IN  \E q : Arranges(q, Len(x) + 1, s, InsertAt(x, Place(x, b, keys), b), keys)
<1> DEFINE n == Len(x)
           m == n + 1
           b == s[m]
           l == Place(x, b, keys)
           y == InsertAt(x, l, b)
           q == [i \in 1 .. m |-> IF i < l THEN p[i] ELSE IF i = l THEN m ELSE p[i - 1]]
<1>0. /\ n \in Nat /\ m \in Nat /\ m > n /\ b \in Range(s)
      /\ DOMAIN s = 1 .. Len(s) /\ n <= Len(s) /\ Len(s) \in Nat
  BY DEF IsList, Range
<1>1. /\ l \in 1 .. m
      /\ \A i \in 1 .. n : i >= l => SortsBefore(keys, b, x[i])
      /\ l > 1 => ~ SortsBefore(keys, b, x[l - 1])
  BY PlaceInside
<1>2. \A i \in 1 .. m : y[i] = IF i < l THEN x[i] ELSE IF i = l THEN b ELSE x[i - 1]
  <2>1. b \in Range(s) /\ l \in 1 .. Len(x) + 1
    BY <1>0, <1>1
  <2> HIDE DEF b, l
  <2> QED BY <2>1, InsertFacts
<1>a. Arranges(p, n, s, x, keys)
  OBVIOUS
<1>3. \A i \in 1 .. n : x[i] = s[p[i]] /\ p[i] \in 1 .. n
  BY <1>a DEF Arranges
<1> HIDE DEF b, l, y, n
<1>4. ASSUME NEW i \in 1 .. m
      PROVE  /\ i < l => i \in 1 .. n /\ q[i] = p[i]
             /\ i = l => q[i] = m
             /\ i > l => i - 1 \in 1 .. n /\ q[i] = p[i - 1]
  BY <1>0, <1>1
<1>5. \A i \in 1 .. m : q[i] \in 1 .. m /\ y[i] = s[q[i]]
  <2> TAKE i \in 1 .. m
  <2>1. CASE i < l
    BY <1>0, <1>1, <1>2, <1>3, <1>4, <2>1
  <2>2. CASE i = l
    BY <1>0, <1>1, <1>2, <1>4, <2>2 DEF b
  <2>3. CASE i > l
    BY <1>0, <1>1, <1>2, <1>3, <1>4, <2>3
  <2> QED BY <1>0, <1>1, <2>1, <2>2, <2>3
<1>6. ASSUME NEW k \in 1 .. m PROVE \E i \in 1 .. m : q[i] = k
  <2>1. CASE k = m
    BY <1>1, <1>4, <2>1
  <2>2. CASE k # m
    <3>1. PICK i \in 1 .. n : p[i] = k
      BY <1>0, <2>2, <1>a DEF Arranges
    <3>2. CASE i < l
      BY <1>0, <1>4, <3>1, <3>2
    <3>3. CASE i >= l
      <4>1. i + 1 \in 1 .. m /\ i + 1 > l /\ (i + 1) - 1 = i
        BY <1>0, <1>1, <3>3
      <4> QED BY <1>4, <3>1, <4>1
    <3> QED BY <1>0, <1>1, <3>2, <3>3
  <2> QED BY <2>1, <2>2
<1>7. q \in [1 .. m -> 1 .. m]
  BY <1>5
<1>8. ASSUME NEW i \in 1 .. m, NEW j \in 1 .. m, i < j PROVE q[i] # q[j]
  <2>1. CASE i = l
    BY <1>0, <1>1, <1>3, <1>4, <1>8, <2>1
  <2>2. CASE j = l
    BY <1>0, <1>1, <1>3, <1>4, <1>8, <2>2
  <2>3. CASE i # l /\ j # l
    <3>1. PICK u \in 1 .. n, v \in 1 .. n : u < v /\ q[i] = p[u] /\ q[j] = p[v]
      BY <1>0, <1>1, <1>4, <1>8, <2>3
    <3>2. \A k, o \in 1 .. n : k < o => p[k] # p[o]
      BY <1>a DEF Arranges
    <3> HIDE DEF q
    <3> QED BY <3>1, <3>2
  <2> QED BY <2>1, <2>2, <2>3
<1>9. ASSUME AllOrdinary(s, keys), NEW i \in 1 .. m, NEW j \in 1 .. m, i < j
      PROVE  Ahead(s, q[i], q[j], keys)
  <2>0. Ordinary(b, keys) /\ \A k \in 1 .. n : Ordinary(x[k], keys)
    <3>1. \A k \in 1 .. n : x[k] \in Range(s)
      <4>1. \A k \in 1 .. n : p[k] \in DOMAIN s
        BY <1>0, <1>3
      <4> QED BY <1>3, <4>1 DEF Range
    <3> QED BY <1>0, <1>9, <3>1 DEF AllOrdinary
  <2>1. CASE i = l
    <3>1. j - 1 \in 1 .. n /\ j - 1 >= l /\ q[j] = p[j - 1] /\ q[i] = m
      BY <1>0, <1>1, <1>4, <1>9, <2>1
    <3>2. LexBelow(b, x[j - 1], keys)
      BY <1>1, <2>0, <3>1, SortIsLex
    <3> QED BY <1>3, <3>1, <3>2 DEF Ahead, b
  <2>2. CASE j = l
    <3>1. i \in 1 .. n /\ q[i] = p[i] /\ q[j] = m /\ l - 1 \in 1 .. n /\ i <= l - 1 /\ l > 1
      BY <1>0, <1>1, <1>4, <1>9, <2>2
    <3>2. ~ LexBelow(b, x[l - 1], keys)
      BY <1>1, <2>0, <3>1, SortIsLex
    <3>3. ~ LexBelow(b, x[i], keys)
      <4>1. CASE i = l - 1
        BY <3>2, <4>1
      <4>2. CASE i # l - 1
        <5>1. Ahead(s, p[i], p[l - 1], keys)
          BY <1>9, <3>1, <4>2, <1>0, <1>a DEF Arranges
        <5>2. ~ LexBelow(x[l - 1], x[i], keys)
          <6>1. x[i] = s[p[i]] /\ x[l - 1] = s[p[l - 1]]
            BY <1>3, <3>1
          <6>2. LexBelow(x[i], x[l - 1], keys) \/ ~ LexBelow(x[l - 1], x[i], keys)
            BY <5>1, <6>1 DEF Ahead
          <6> QED BY <2>0, <3>1, <6>2, LexWeak
        <5> QED BY <2>0, <3>1, <3>2, <5>2, LexWeak
      <4> QED BY <4>1, <4>2
    <3>4. p[i] < m
      BY <1>0, <1>3, <3>1
    <3> QED BY <1>3, <3>1, <3>3, <3>4 DEF Ahead, b
  <2>3. CASE i # l /\ j # l
    <3>1. PICK u \in 1 .. n, v \in 1 .. n : u < v /\ q[i] = p[u] /\ q[j] = p[v]
      BY <1>0, <1>1, <1>4, <1>9, <2>3
    <3> QED BY <1>9, <3>1, <1>a DEF Arranges
  <2> QED BY <2>1, <2>2, <2>3
<1> HIDE DEF q, m
<1>10. Arranges(q, m, s, y, keys)
  BY <1>5, <1>6, <1>7, <1>8, <1>9 DEF Arranges
<1> QED BY <1>10 DEF y, l, b, m, n

\* Sorted rearranges its list, by the keys and then by the places they had.
LEMMA SortArranges ==
    ASSUME NEW s, IsList(s), NEW keys, IsList(keys)
    PROVE  LET r == Sorted(s, keys)
           IN  /\ r \in Seq(Range(s)) /\ Len(r) = Len(s)
               /\ \E p : Arranges(p, Len(s), s, r, keys)
<1> DEFINE N == Len(s)
<1>1. N \in Nat
  BY DEF IsList
<1>2. PICK F \in [0 .. N -> Seq(Range(s))] :
          SortRun(F, s, keys) /\ F[N] = Sorted(s, keys)
  BY SortSteps
<1> DEFINE T == {n \in 0 .. N : Len(F[n]) = n /\ \E p : Arranges(p, n, s, F[n], keys)}
<1>3. 0 \in T
  <2>1. Arranges([i \in 1 .. 0 |-> 0], 0, s, F[0], keys)
    BY DEF Arranges
  <2> QED BY <1>1, <1>2, <2>1 DEF SortRun
<1>4. ASSUME NEW n \in 0 .. N - 1, n \in T PROVE n + 1 \in T
  <2>1. F[n] \in Seq(Range(s)) /\ Len(F[n]) = n /\ n \in Nat
    BY <1>1, <1>4
  <2>2. PICK p : Arranges(p, n, s, F[n], keys)
    BY <1>4
  <2>3. n + 1 \in 1 .. N /\ (n + 1) - 1 = n
    BY <1>1
  <2>4. F[n + 1] = InsertAt(F[n], Place(F[n], s[n + 1], keys), s[n + 1])
    BY <1>2, <2>3 DEF SortRun
  <2>5. \E q : Arranges(q, n + 1, s, F[n + 1], keys)
    BY <1>1, <2>1, <2>2, <2>3, <2>4, InsertArranges
  <2>6. Len(F[n + 1]) = n + 1
    <3>1. s[n + 1] \in Range(s)
      BY <2>3 DEF IsList, Range
    <3>2. Place(F[n], s[n + 1], keys) \in 1 .. Len(F[n]) + 1
      BY <2>1, PlaceInside
    <3> QED BY <2>1, <2>4, <3>1, <3>2, InsertFacts
  <2> QED BY <2>3, <2>5, <2>6
<1>5. 0 .. N \subseteq T
  <2> HIDE DEF T
  <2> QED BY <1>1, <1>3, <1>4, InductionUpTo
<1>6. N \in T
  BY <1>1, <1>5
<1> QED BY <1>1, <1>2, <1>6

-----------------------------------------------------------------------------
\* Filtering keeps what passes, in its order.

\* x is what passes of the first n elements of s, in their order.
Keeps(m, n, s, x, filters, who, at) ==
    /\ m \in [1 .. Len(x) -> 1 .. n]
    /\ \A i \in 1 .. Len(x) : x[i] = s[m[i]]
    /\ \A i, j \in 1 .. Len(x) : i < j => m[i] < m[j]
    /\ \A k \in 1 .. n : Passes(filters, s[k], who, at) <=> \E i \in 1 .. Len(x) : m[i] = k

\* ApplyFilters keeps what passes, in order.
LEMMA FilterKeeps ==
    ASSUME NEW s, IsList(s), NEW filters, NEW who, NEW at
    PROVE  LET x == ApplyFilters(s, filters, who, at)
           IN  x \in Seq(Range(s)) /\ \E m : Keeps(m, Len(s), s, x, filters, who, at)
<1> DEFINE N == Len(s)
           Ok(k) == Passes(filters, s[k], who, at)
<1>1. N \in Nat /\ DOMAIN s = 1 .. N
  BY DEF IsList
<1>2. PICK F \in [0 .. N -> Seq(Range(s))] :
          FilterRun(F, s, filters, who, at) /\ F[N] = ApplyFilters(s, filters, who, at)
  BY FilterSteps
<1> DEFINE Good(m, n, x) == Keeps(m, n, s, x, filters, who, at)
           T == {n \in 0 .. N : \E m : Good(m, n, F[n])}
<1>3. 0 \in T
  <2>1. Good([i \in 1 .. 0 |-> 0], 0, <<>>)
    BY DEF Keeps
  <2> HIDE DEF Good
  <2> QED BY <1>1, <1>2, <2>1 DEF FilterRun
<1>4. ASSUME NEW n \in 0 .. N - 1, n \in T PROVE n + 1 \in T
  <2> DEFINE x == F[n]
             l == Len(x)
  <2>1. PICK m : Good(m, n, x)
    BY <1>4
  <2>2. x \in Seq(Range(s)) /\ l \in Nat /\ n \in Nat /\ n + 1 \in 1 .. N /\ (n + 1) - 1 = n
    BY <1>1
  <2>3. /\ m \in [1 .. l -> 1 .. n]
        /\ \A i \in 1 .. l : x[i] = s[m[i]]
        /\ \A i, j \in 1 .. l : i < j => m[i] < m[j]
        /\ \A k \in 1 .. n : Ok(k) <=> \E i \in 1 .. l : m[i] = k
    BY <2>1 DEF Keeps
  <2>4. F[n + 1] = IF Ok(n + 1) THEN Append(x, s[n + 1]) ELSE x
    BY <1>2, <2>2 DEF FilterRun
  <2> HIDE DEF x, Ok
  <2>5. CASE ~ Ok(n + 1)
    <3>1. m \in [1 .. l -> 1 .. n + 1]
      BY <2>2, <2>3, SMTT(30)
    <3>2. ASSUME NEW k \in 1 .. n + 1 PROVE Ok(k) <=> \E i \in 1 .. l : m[i] = k
      <4>1. CASE k = n + 1
        BY <2>2, <2>3, <2>5, <4>1
      <4>2. CASE k # n + 1
        BY <2>2, <2>3, <4>2
      <4> QED BY <4>1, <4>2
    <3>3. Good(m, n + 1, x)
      BY <2>3, <3>1, <3>2 DEF Keeps, Ok
    <3>4. F[n + 1] = x
      BY <2>4, <2>5
    <3> HIDE DEF Good
    <3> QED BY <2>2, <3>3, <3>4
  <2>6. CASE Ok(n + 1)
    <3> DEFINE y == Append(x, s[n + 1])
               q == [i \in 1 .. l + 1 |-> IF i = l + 1 THEN n + 1 ELSE m[i]]
    <3>1. Len(y) = l + 1 /\ \A i \in 1 .. l + 1 : y[i] = IF i = l + 1 THEN s[n + 1] ELSE x[i]
      BY <2>2
    <3> HIDE DEF y, l
    <3>2. q \in [1 .. l + 1 -> 1 .. n + 1]
      BY <2>2, <2>3
    <3>3. ASSUME NEW i \in 1 .. l + 1 PROVE y[i] = s[q[i]]
      <4>1. CASE i = l + 1
        BY <3>1, <4>1
      <4>2. CASE i # l + 1
        <5>1. i \in 1 .. l /\ q[i] = m[i]
          BY <2>2, <4>2
        <5> HIDE DEF q
        <5> QED BY <2>3, <3>1, <4>2, <5>1
      <4> QED BY <4>1, <4>2
    <3>4. \A i, j \in 1 .. l + 1 : i < j => q[i] < q[j]
      BY <2>2, <2>3
    <3>5. ASSUME NEW k \in 1 .. n + 1 PROVE Ok(k) <=> \E i \in 1 .. l + 1 : q[i] = k
      <4>1. CASE k = n + 1
        BY <2>2, <2>6, <4>1
      <4>2. CASE k # n + 1
        <5>1. \A i \in 1 .. l + 1 : q[i] = k => i \in 1 .. l /\ m[i] = k
          BY <2>2, <4>2
        <5>2. \A i \in 1 .. l : i \in 1 .. l + 1 /\ q[i] = m[i]
          BY <2>2
        <5>3. Ok(k) <=> \E i \in 1 .. l : m[i] = k
          BY <2>2, <2>3, <4>2
        <5> HIDE DEF q
        <5> QED BY <5>1, <5>2, <5>3, Zenon
      <4> QED BY <4>1, <4>2
    <3> HIDE DEF q
    <3>6. Good(q, n + 1, y)
      BY <3>1, <3>2, <3>3, <3>4, <3>5 DEF Keeps, Ok
    <3>7. F[n + 1] = y
      BY <2>4, <2>6 DEF y
    <3> HIDE DEF Good, y
    <3> QED BY <2>2, <3>6, <3>7
  <2> QED BY <2>5, <2>6
<1>5. 0 .. N \subseteq T
  <2> HIDE DEF T
  <2> QED BY <1>1, <1>3, <1>4, InductionUpTo
<1>6. N \in T
  BY <1>1, <1>5
<1> QED BY <1>1, <1>2, <1>6

-----------------------------------------------------------------------------
\* Filtering, sorting and limiting together: the best of what passes.

\* Places of s that pass.
Passing(s, filters, who, at) == {p \in DOMAIN s : Passes(filters, s[p], who, at)}

\* The list that is filtered, sorted and limited.
Chosen(s, k, who, at) == Limited(Sorted(ApplyFilters(s, k.filters, who, at), k.sort), k.limit)

\* Filtering, sorting and limiting keep elements of the list that pass, from
\* different places: all of them or as many as the limit lets through, and the
\* first by the keys and the places.
LEMMA ChosenAreBest ==
    ASSUME NEW s, IsBackends(s), NEW k, IsList(k.sort), k.limit \in Int, NEW who, NEW at
    PROVE  LET r == Chosen(s, k, who, at)
               P == Passing(s, k.filters, who, at)
           IN  /\ r \in Seq(Range(s)) /\ (P # {} => r # <<>>)
               /\ \E from \in [DOMAIN r -> P] :
                      /\ \A i \in DOMAIN r : r[i] = s[from[i]]
                      /\ Range(from) = P \/ (k.limit > 0 /\ Len(r) = k.limit)
                      /\ Ordered(s, k.sort) =>
                             /\ \A i, j \in DOMAIN r : i < j => Ahead(s, from[i], from[j], k.sort)
                             /\ \A p \in P \ Range(from), i \in DOMAIN r :
                                    Ahead(s, from[i], p, k.sort)
<1> DEFINE P == Passing(s, k.filters, who, at)
           x == ApplyFilters(s, k.filters, who, at)
           y == Sorted(x, k.sort)
           r == Limited(y, k.limit)
           N == Len(x)
           L == Len(r)
<1>0. IsList(s) /\ DOMAIN s = 1 .. Len(s) /\ Len(s) \in Nat
  BY DEF IsBackends, IsList
<1>1. x \in Seq(Range(s)) /\ \E m : Keeps(m, Len(s), s, x, k.filters, who, at)
  BY <1>0, FilterKeeps
<1> HIDE DEF x
<1>2. N \in Nat /\ DOMAIN x = 1 .. N /\ IsList(x) /\ Range(x) \subseteq Range(s)
  BY <1>1 DEF IsList, Range
<1>3. y \in Seq(Range(x)) /\ Len(y) = N /\ \E p : Arranges(p, N, x, y, k.sort)
  BY <1>2, SortArranges
<1> HIDE DEF y
<1>4. PICK m : Keeps(m, Len(s), s, x, k.filters, who, at)
  BY <1>1
<1>5. PICK p : Arranges(p, N, x, y, k.sort)
  BY <1>3
<1>6. /\ r \in Seq(Range(s)) /\ L \in 0 .. N /\ DOMAIN r = 1 .. L
      /\ \A i \in 1 .. L : r[i] = y[i]
      /\ L = N \/ (k.limit > 0 /\ L = k.limit)
      /\ N > 0 => L > 0
  <2>1. y \in Seq(Range(s))
    BY <1>2, <1>3
  <2>2. CASE k.limit > 0 /\ N > k.limit
    BY <1>2, <1>3, <2>1, <2>2 DEF Limited
  <2>3. CASE ~ (k.limit > 0 /\ N > k.limit)
    BY <1>2, <1>3, <2>1, <2>3 DEF Limited
  <2> QED BY <2>2, <2>3
<1> HIDE DEF r
<1>7. /\ m \in [1 .. N -> P]
      /\ \A i \in 1 .. N : x[i] = s[m[i]] /\ m[i] \in Int
      /\ \A i, j \in 1 .. N : i < j => m[i] < m[j]
      /\ \A q \in P : \E i \in 1 .. N : m[i] = q
  <2>1. /\ m \in [1 .. N -> 1 .. Len(s)]
        /\ \A i \in 1 .. N : x[i] = s[m[i]]
        /\ \A i, j \in 1 .. N : i < j => m[i] < m[j]
        /\ \A q \in 1 .. Len(s) :
               Passes(k.filters, s[q], who, at) <=> \E i \in 1 .. N : m[i] = q
    BY <1>4 DEF Keeps
  <2>2. \A i \in 1 .. N : m[i] \in P
    BY <1>0, <2>1 DEF Passing
  <2>3. \A q \in P : \E i \in 1 .. N : m[i] = q
    BY <1>0, <2>1 DEF Passing
  <2> QED BY <2>1, <2>2, <2>3
<1>8. /\ \A i \in 1 .. N : p[i] \in 1 .. N /\ y[i] = x[p[i]]
      /\ \A q \in 1 .. N : \E i \in 1 .. N : p[i] = q
      /\ AllOrdinary(x, k.sort) =>
             \A i, j \in 1 .. N : i < j => Ahead(x, p[i], p[j], k.sort)
  BY <1>5 DEF Arranges
<1> HIDE DEF P, N, L
<1> DEFINE from == [i \in 1 .. L |-> m[p[i]]]
<1>9. from \in [DOMAIN r -> P] /\ \A i \in 1 .. L : r[i] = s[from[i]]
  <2>1. ASSUME NEW i \in 1 .. L PROVE from[i] \in P /\ r[i] = s[from[i]]
    <3>1. i \in 1 .. N
      BY <1>2, <1>6
    <3>2. p[i] \in 1 .. N /\ r[i] = x[p[i]]
      BY <1>6, <1>8, <3>1
    <3>3. m[p[i]] \in P /\ x[p[i]] = s[m[p[i]]]
      BY <1>7, <3>2
    <3> QED BY <3>2, <3>3
  <2> QED BY <1>6, <2>1
<1>10. \A q \in P : \E j \in 1 .. N : q = m[p[j]] /\ (j \in 1 .. L => q \in Range(from))
  <2> TAKE q \in P
  <2>1. PICK i \in 1 .. N : m[i] = q
    BY <1>7
  <2>2. PICK j \in 1 .. N : p[j] = i
    BY <1>8
  <2>3. j \in 1 .. L => from[j] = q /\ j \in DOMAIN from
    BY <2>1, <2>2
  <2> HIDE DEF from
  <2> QED BY <2>1, <2>2, <2>3 DEF Range
<1>11. Range(from) = P \/ (k.limit > 0 /\ L = k.limit)
  <2>1. Range(from) \subseteq P
    BY <1>9 DEF Range
  <2>2. CASE L = N
    BY <1>10, <2>1, <2>2
  <2> QED BY <1>6, <2>2
<1>12. P # {} => r # <<>>
  <2>1. P # {} => N > 0
    BY <1>2, <1>7 DEF N
  <2> QED BY <1>6, <2>1 DEF L
<1>13. ASSUME Ordered(s, k.sort), NEW i \in 1 .. N, NEW j \in 1 .. N, i < j
       PROVE  Ahead(s, m[p[i]], m[p[j]], k.sort)
  <2>1. AllOrdinary(x, k.sort)
    BY <1>2, <1>13 DEF AllOrdinary, Ordinary, Ordered, IsBackends
  <2>2. Ahead(x, p[i], p[j], k.sort)
    BY <1>8, <1>13, <2>1
  <2>3. p[i] \in 1 .. N /\ p[j] \in 1 .. N
    BY <1>8
  <2>4. x[p[i]] = s[m[p[i]]] /\ x[p[j]] = s[m[p[j]]] /\ (p[i] < p[j] => m[p[i]] < m[p[j]])
    BY <1>7, <2>3
  <2> QED BY <2>2, <2>4 DEF Ahead
<1>14. ASSUME Ordered(s, k.sort)
       PROVE  /\ \A i, j \in DOMAIN r : i < j => Ahead(s, from[i], from[j], k.sort)
              /\ \A q \in P \ Range(from), i \in DOMAIN r : Ahead(s, from[i], q, k.sort)
  <2>1. ASSUME NEW i \in DOMAIN r, NEW j \in DOMAIN r, i < j
        PROVE Ahead(s, from[i], from[j], k.sort)
    BY <1>2, <1>6, <1>13, <1>14, <2>1
  <2>2. ASSUME NEW q \in P \ Range(from), NEW i \in DOMAIN r
        PROVE Ahead(s, from[i], q, k.sort)
    <3>1. PICK j \in 1 .. N : q = m[p[j]] /\ ~ (j \in 1 .. L)
      BY <1>10
    <3>2. i \in 1 .. N /\ i < j /\ from[i] = m[p[i]]
      BY <1>2, <1>6, <3>1
    <3> QED BY <1>13, <1>14, <3>1, <3>2
  <2> QED BY <2>1, <2>2
<1> HIDE DEF from
<1>15. \A i \in DOMAIN r : r[i] = s[from[i]]
  BY <1>6, <1>9
<1>16. r = Chosen(s, k, who, at) /\ P = Passing(s, k.filters, who, at) /\ L = Len(r)
  BY DEF Chosen, r, y, x, P, L
<1>17. \E f \in [DOMAIN r -> P] :
           /\ \A i \in DOMAIN r : r[i] = s[f[i]]
           /\ Range(f) = P \/ (k.limit > 0 /\ L = k.limit)
           /\ Ordered(s, k.sort) =>
                  /\ \A i, j \in DOMAIN r : i < j => Ahead(s, f[i], f[j], k.sort)
                  /\ \A q \in P \ Range(f), i \in DOMAIN r : Ahead(s, f[i], q, k.sort)
  BY <1>9, <1>11, <1>14, <1>15
<1> QED BY <1>6, <1>12, <1>16, <1>17

-----------------------------------------------------------------------------
\* Filters as time goes by, controls, picks and duplicates.

\* What passes valid filters now passed them before: a start time that is not
\* past yet was not past then.
LEMMA PassesEarlier ==
    ASSUME NEW b, IsBackend(b), NEW filters, \A i \in DOMAIN filters : ValidFilter(filters[i]),
           NEW who, NEW at \in Int, NEW before \in Int, before <= at,
           Passes(filters, b, who, at)
    PROVE  Passes(filters, b, who, before)
<1> SUFFICES ASSUME NEW i \in DOMAIN filters, FilterMatches(filters[i], b, who, at)
             PROVE  FilterMatches(filters[i], b, who, before)
  BY DEF Passes
<1> DEFINE f == filters[i]
<1>1. CASE f.type = "compare" \/ f.type = "whitelist"
  BY <1>1 DEF FilterMatches
<1>2. CASE f.type = "game_start_not_past"
  <2>1. StartNotPast(f, b, at)
    BY <1>2 DEF FilterMatches
  <2>2. Meta(b, f.key) \in Int \cup {NoValue, NaN}
    BY DEF IsBackend, Meta
  <2>3. StartNotPast(f, b, before)
    <3> DEFINE n == Meta(b, f.key)
    <3> HIDE DEF n
    <3>1. n \in Int => Millis(n) \in Int
      BY NumbersAssumption DEF Millis
    <3>2. n = NoValue \/ (n # NaN /\ (n = -1 \/ Millis(n) > at))
      BY <2>1 DEF StartNotPast, n
    <3>3. n = NoValue \/ (n # NaN /\ (n = -1 \/ Millis(n) > before))
      BY <2>2, <3>1, <3>2 DEF n
    <3> QED BY <3>3 DEF StartNotPast, n
  <2> QED BY <1>2, <2>3 DEF FilterMatches
<1> QED BY <1>1, <1>2 DEF ValidFilter

\* Controls of a valid pool, with or without a fallback.
LEMMA ControlsFacts ==
    ASSUME NEW pool, IsPool(pool), ValidPool(pool), NEW k, k = 0 \/ k \in DOMAIN pool.fallback
    PROVE  LET c == Controls(pool, k)
           IN  /\ c.filters = FiltersOf(pool, k) /\ IsList(c.sort) /\ c.limit \in Int
               /\ c.strategy \in Strategy
               /\ \A i \in DOMAIN c.filters : ValidFilter(c.filters[i])
<1>0. k \in Nat
  BY DEF IsPool, IsList
<1>1. CASE k = 0
  BY <1>1 DEF Controls, BaseControls, FiltersOf, IsPool, IsControls, ValidPool
<1>2. CASE k # 0
  <2> DEFINE fb == pool.fallback[k]
  <2>1. IsControls(fb) /\ ValidFallback(fb) /\ k > 0
    BY <1>0, <1>2 DEF IsPool, ValidPool
  <2>2. /\ Controls(pool, k).filters = IF "filters" \in DOMAIN fb THEN fb.filters ELSE pool.filters
        /\ Controls(pool, k).sort = IF "sort" \in DOMAIN fb THEN fb.sort ELSE pool.sort
        /\ Controls(pool, k).limit = IF "limit" \in DOMAIN fb THEN fb.limit ELSE pool.limit
        /\ Controls(pool, k).strategy =
               IF "strategy" \in DOMAIN fb THEN fb.strategy ELSE pool.strategy
    BY <1>2 DEF Controls, BaseControls
  <2>3. FiltersOf(pool, k) = Controls(pool, k).filters
    BY <2>1, <2>2 DEF FiltersOf
  <2>4. /\ IsList(Controls(pool, k).sort) /\ Controls(pool, k).limit \in Int
        /\ Controls(pool, k).strategy \in Strategy
    BY <2>1, <2>2 DEF IsPool, IsControls, ValidPool, ValidFallback
  <2>5. \A i \in DOMAIN Controls(pool, k).filters : ValidFilter(Controls(pool, k).filters[i])
    BY <2>1, <2>2 DEF ValidPool, ValidFallback
  <2> QED BY <2>3, <2>4, <2>5
<1> QED BY <1>1, <1>2

\* A strategy picks one of the candidates.
LEMMA PicksInside ==
    ASSUME NEW c, c.strategy \in Strategy, NEW S, NEW s \in Seq(S), s # <<>>, NEW v \in Nat
    PROVE  Picks(c, s, v) \subseteq 1 .. Len(s)
<1>0. Len(s) \in Nat \ {0} /\ DOMAIN s = 1 .. Len(s)
  OBVIOUS
<1>1. CASE c.strategy = "round_robin"
  <2>1. v % Len(s) \in 0 .. Len(s) - 1
    BY <1>0
  <2> QED BY <1>0, <1>1, <2>1 DEF Picks
<1>2. CASE c.strategy = "random"
  BY <1>0, <1>2 DEF Picks
<1>3. CASE c.strategy = "weighted"
  <2>1. ASSUME NEW r PROVE WeightedPick(s, r) \in 1 .. Len(s)
    <3> DEFINE I == {i \in DOMAIN s : r < SharesUpTo(s, i)} \cup {Len(s)}
    <3>1. I \in SUBSET Nat /\ I # {} /\ I \subseteq 1 .. Len(s)
      BY <1>0
    <3>2. WeightedPick(s, r) = Min(I)
      BY DEF WeightedPick
    <3> HIDE DEF I
    <3> QED BY <3>1, <3>2, MinIsLeast
  <2> QED BY <1>3, <2>1 DEF Picks
<1>4. CASE c.strategy = "least_loaded"
  <2> DEFINE I == LeastOf(s, DOMAIN s, c.key)
  <2>1. I \in SUBSET Nat /\ I \subseteq 1 .. Len(s)
    BY <1>0 DEF LeastOf, Loaded
  <2>2. LeastLoaded(s, c.key) = {IF I = {} THEN 1 ELSE Min(I)}
    BY DEF LeastLoaded
  <2> HIDE DEF I
  <2>3. LeastLoaded(s, c.key) \subseteq 1 .. Len(s)
    <3>1. I # {} => Min(I) \in I
      BY <2>1, MinIsLeast
    <3>2. (IF I = {} THEN 1 ELSE Min(I)) \in 1 .. Len(s)
      <4>1. 1 \in 1 .. Len(s)
        BY <1>0
      <4> QED BY <2>1, <3>1, <4>1, Zenon
    <3> QED BY <2>2, <3>2
  <2> QED BY <1>4, <2>3 DEF Picks
<1>5. CASE c.strategy = "p2c"
  <2>1. PowerOfChoices(s, c.key, c.sample) \subseteq 1 .. Len(s)
    <3> DEFINE size == Min({IF c.sample <= 0 THEN 2 ELSE c.sample, Len(s)})
    <3>1. \A I \in kSubset(size, DOMAIN s) : I \subseteq 1 .. Len(s)
      BY <1>0 DEF kSubset
    <3>2. \A I \in kSubset(size, DOMAIN s) : LeastOf(s, I, c.key) \subseteq 1 .. Len(s)
      BY <3>1 DEF LeastOf, Loaded
    <3>3. PowerOfChoices(s, c.key, c.sample) =
              UNION {IF LeastOf(s, I, c.key) = {} THEN {1} ELSE LeastOf(s, I, c.key) :
                         I \in kSubset(size, DOMAIN s)}
      BY DEF PowerOfChoices
    <3> HIDE DEF size
    <3> QED BY <1>0, <3>2, <3>3
  <2> QED BY <1>5, <2>1 DEF Picks
<1> QED BY <1>1, <1>2, <1>3, <1>4, <1>5 DEF Strategy, NeedsKey

\* Dedupe keeps the first backend of each address.
LEMMA DedupeKeepsFirst ==
    ASSUME NEW s, IsList(s)
    PROVE  LET x == Dedupe(s)
           IN  /\ x \in Seq(Range(s))
               /\ \A i, j \in 1 .. Len(x) : x[i].addr = x[j].addr => i = j
               /\ \A k \in 1 .. Len(s) :
                      /\ \E i \in 1 .. Len(x) : x[i].addr = s[k].addr
                      /\ (\A j \in 1 .. k - 1 : s[j].addr # s[k].addr) =>
                             \E i \in 1 .. Len(x) : x[i] = s[k]
<1> DEFINE N == Len(s)
<1>1. N \in Nat /\ DOMAIN s = 1 .. N
  BY DEF IsList
<1>2. PICK F \in [0 .. N -> Seq(Range(s))] : DedupeRun(F, s) /\ F[N] = Dedupe(s)
  BY DedupeSteps
<1> DEFINE One(x) == \A i, j \in 1 .. Len(x) : x[i].addr = x[j].addr => i = j
           Known(x, k) == \E i \in 1 .. Len(x) : x[i].addr = s[k].addr
           First(k) == \A j \in 1 .. k - 1 : s[j].addr # s[k].addr
           There(x, k) == \E i \in 1 .. Len(x) : x[i] = s[k]
           Sound(n, x) == \A i \in 1 .. Len(x) : \E k \in 1 .. n : x[i] = s[k]
           Good(n, x) == /\ One(x) /\ Sound(n, x)
                         /\ \A k \in 1 .. n : Known(x, k) /\ (First(k) => There(x, k))
           T == {n \in 0 .. N : Good(n, F[n])}
<1>3. 0 \in T
  <2>1. F[0] = <<>>
    BY <1>2 DEF DedupeRun
  <2> QED BY <1>1, <2>1
<1>4. ASSUME NEW n \in 0 .. N - 1, n \in T PROVE n + 1 \in T
  <2> DEFINE x == F[n]
             l == Len(x)
             m == n + 1
             b == s[m]
             y == Append(x, b)
  <2>1. x \in Seq(Range(s)) /\ l \in Nat /\ n \in Nat /\ m \in 1 .. N /\ m - 1 = n /\ m = n + 1
    BY <1>1, <1>2
  <2>2. Good(n, x)
    BY <1>4
  <2>3. F[m] = IF \E i \in DOMAIN F[m - 1] : F[m - 1][i].addr = s[m].addr
               THEN F[m - 1] ELSE Append(F[m - 1], s[m])
    BY <1>2, <2>1 DEF DedupeRun
  <2>4. F[m] = IF Known(x, m) THEN x ELSE y
    BY <2>1, <2>3
  <2> HIDE DEF x, m
  <2>5. CASE Known(x, m)
    <3>1. ASSUME First(m) PROVE FALSE
      <4>1. PICK i \in 1 .. l : x[i].addr = b.addr
        BY <2>5
      <4>2. PICK k \in 1 .. n : x[i] = s[k]
        BY <2>2
      <4> QED BY <2>1, <3>1, <4>1, <4>2
    <3>2. ASSUME NEW k \in 1 .. m PROVE Known(x, k) /\ (First(k) => There(x, k))
      <4>1. CASE k = m
        BY <2>5, <3>1, <4>1
      <4>2. CASE k # m
        <5>1. k \in 1 .. n
          BY <2>1, <4>2
        <5> HIDE DEF Known, First, There
        <5> QED BY <2>2, <5>1
      <4> QED BY <4>1, <4>2
    <3>3. Sound(m, x)
      <4>1. \A k \in 1 .. n : k \in 1 .. m
        BY <2>1
      <4> QED BY <2>2, <4>1
    <3>4. One(x)
      BY <2>2
    <3> HIDE DEF Known, First, There, Sound, One
    <3>5. Good(m, x)
      BY <3>2, <3>3, <3>4
    <3> QED BY <2>1, <2>4, <2>5, <3>5 DEF m
  <2>6. CASE ~ Known(x, m)
    <3>1. Len(y) = l + 1 /\ \A i \in 1 .. l + 1 : y[i] = IF i = l + 1 THEN b ELSE x[i]
      BY <2>1
    <3> HIDE DEF y
    <3>2. \A i \in 1 .. l : i \in 1 .. l + 1 /\ y[i] = x[i]
      BY <2>1, <3>1
    <3>3. y[l + 1] = b /\ l + 1 \in 1 .. l + 1
      BY <2>1, <3>1
    <3>4. ASSUME NEW k \in 1 .. m PROVE Known(y, k) /\ (First(k) => There(y, k))
      <4>1. CASE k = m
        BY <3>1, <3>3, <4>1
      <4>2. CASE k # m
        <5>1. k \in 1 .. n
          BY <2>1, <4>2
        <5>2. Known(x, k) /\ (First(k) => There(x, k))
          BY <2>2, <5>1
        <5>3. Known(x, k) => Known(y, k)
          BY <3>1, <3>2
        <5>4. There(x, k) => There(y, k)
          BY <3>1, <3>2
        <5> QED BY <5>2, <5>3, <5>4
      <4> QED BY <4>1, <4>2
    <3>5. Sound(m, y)
      <4>1. \A k \in 1 .. n : k \in 1 .. m
        BY <2>1
      <4>2. m \in 1 .. m
        BY <2>1
      <4>3. ASSUME NEW i \in 1 .. l + 1 PROVE \E k \in 1 .. m : y[i] = s[k]
        <5>1. CASE i = l + 1
          BY <3>3, <4>2, <5>1
        <5>2. CASE i # l + 1
          <6>1. i \in 1 .. l
            BY <2>1, <5>2
          <6> QED BY <2>2, <3>2, <4>1, <6>1
        <5> QED BY <5>1, <5>2
      <4> QED BY <3>1, <4>3
    <3>6. One(y)
      <4> SUFFICES ASSUME NEW i \in 1 .. l + 1, NEW j \in 1 .. l + 1, y[i].addr = y[j].addr
                   PROVE  i = j
        BY <3>1
      <4>1. CASE i # l + 1 /\ j # l + 1
        <5>1. i \in 1 .. l
          BY <2>1, <4>1
        <5>2. j \in 1 .. l
          BY <2>1, <4>1
        <5> QED BY <2>2, <3>2, <5>1, <5>2
      <4>2. CASE i = l + 1 /\ j # l + 1
        <5>1. j \in 1 .. l
          BY <2>1, <4>2
        <5> QED BY <2>6, <3>2, <3>3, <4>2, <5>1
      <4>3. CASE i # l + 1 /\ j = l + 1
        <5>1. i \in 1 .. l
          BY <2>1, <4>3
        <5> QED BY <2>6, <3>2, <3>3, <4>3, <5>1
      <4> QED BY <4>1, <4>2, <4>3
    <3> HIDE DEF Known, First, There, Sound, One
    <3>7. Good(m, y)
      BY <3>4, <3>5, <3>6
    <3> QED BY <2>1, <2>4, <2>6, <3>7 DEF m
  <2> QED BY <2>5, <2>6
<1>5. 0 .. N \subseteq T
  <2> HIDE DEF T
  <2> QED BY <1>1, <1>3, <1>4, InductionUpTo
<1>6. Good(N, F[N])
  <2>1. N \in T
    <3> HIDE DEF T
    <3> QED BY <1>1, <1>5
  <2> HIDE DEF Good
  <2> QED BY <2>1
<1>7. F[N] \in Seq(Range(s)) /\ F[N] = Dedupe(s)
  BY <1>1, <1>2
<1>8. Good(N, Dedupe(s))
  <2> HIDE DEF Good
  <2> QED BY <1>6, <1>7
<1> QED BY <1>7, <1>8, Zenon

=============================================================================
