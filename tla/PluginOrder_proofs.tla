------------------------- MODULE PluginOrder_proofs -------------------------
(***************************************************************************)
(* Proofs about PluginOrder, for every number of plugins and every         *)
(* configuration of them.                                                  *)
(***************************************************************************)
EXTENDS PluginOrder, FiniteSetTheorems, WellFoundedInduction, TLAPS

\* The edges into q that come from plugins not yet placed.
Waits(q) == {e \in Into(cfg, turn, q) : e[1] \notin placed}

\* What the counters count, and what has been appended so far.
Counted == indeg = [q \in Plugin |-> Cardinality(Waits(q))]
Appended ==
    /\ out \in Seq(Plugin)
    /\ IsInjective(out)
    /\ \A p \in Plugin :
           (\E i \in DOMAIN out : out[i] = p) <=>
               (status = "ordered" \/ StageNumber(p) < turn \/ p \in placed)
Stuck == status = "cycle" => Free = {} /\ placed # InStage(cfg, turn)

OrderInv ==
    /\ cfg \in Config /\ turn \in DOMAIN Stages
    /\ placed \subseteq InStage(cfg, turn)
    /\ status \in {"running", "ordered", "cycle"}
    /\ Counted /\ Appended /\ Stuck /\ OrderRespected

\* A nonempty set of positions has a least one, which Min picks.
LEMMA MinIsMember ==
    \A S \in SUBSET Nat : S # {} => Min(S) \in S /\ \A y \in S : Min(S) =< y
<1> SUFFICES ASSUME NEW S \in SUBSET Nat, S # {}
             PROVE  Min(S) \in S /\ \A y \in S : Min(S) =< y
  OBVIOUS
<1> DEFINE R == OpToRel(<, Nat)
<1>1. PICK x \in S : \A y \in S : ~ (<<y, x>> \in R)
  BY NatLessThanWellFounded, WFMin
<1>2. ASSUME NEW y \in S PROVE x =< y
  <2>1. ~ (y < x)
    BY <1>1 DEF OpToRel
  <2> QED
    BY <2>1
<1> QED
  BY <1>2 DEF Min

\* A plugin's stage has one number.
LEMMA StageNumbers ==
    ASSUME cfg \in Config
    PROVE  /\ \A p \in Plugin : StageNumber(p) \in DOMAIN Stages
           /\ \A p \in Plugin, t \in DOMAIN Stages :
                  p \in InStage(cfg, t) <=> StageNumber(p) = t
<1>1. DOMAIN Stages = 1 .. 3 /\ Len(Stages) = 3
  BY DEF Stages
<1>2. Stages[1] = "deny" /\ Stages[2] = "route" /\ Stages[3] = "mutate"
  BY DEF Stages
<1>3. ASSUME NEW p \in Plugin
      PROVE  cfg.stage[p] \in {"deny", "route", "mutate"}
  <2>1. Range(Stages) = {"deny", "route", "mutate"}
    BY <1>1, <1>2 DEF Range
  <2> QED
    BY <2>1, ConfigAssumption
<1>4. ASSUME NEW p \in Plugin
      PROVE  \E t \in DOMAIN Stages :
                 /\ Stages[t] = cfg.stage[p]
                 /\ \A u \in DOMAIN Stages : Stages[u] = cfg.stage[p] => u = t
  BY <1>1, <1>2, <1>3
<1>5. ASSUME NEW p \in Plugin
      PROVE  /\ StageNumber(p) \in DOMAIN Stages
             /\ Stages[StageNumber(p)] = cfg.stage[p]
  BY <1>4 DEF StageNumber
<1>6. ASSUME NEW p \in Plugin, NEW t \in DOMAIN Stages
      PROVE  p \in InStage(cfg, t) <=> StageNumber(p) = t
  BY <1>1, <1>4, <1>5 DEF InStage
<1> QED
  BY <1>5, <1>6

\* There are finitely many edges.
LEMMA EdgesFinite ==
    ASSUME NEW c, NEW t
    PROVE  /\ IsFiniteSet(Edges(c, t))
           /\ \A q : IsFiniteSet(Into(c, t, q)) /\ Into(c, t, q) \subseteq Edges(c, t)
<1> DEFINE P == InStage(c, t)
           L == {"after", "before"}
           Triple == P \X P \X L
           f == [x \in (P \X P) \X L |-> <<x[1][1], x[1][2], x[2]>>]
<1>1. IsFiniteSet(P)
  <2>1. IsFiniteSet(Plugin)
    BY NPluginsAssumption, FS_Interval DEF Plugin
  <2> QED
    BY <2>1, FS_Subset DEF InStage
<1>2. IsFiniteSet(L)
  <2>1. IsFiniteSet({"after"} \cup {"before"})
    BY FS_Singleton, FS_AddElement
  <2> QED
    BY <2>1
<1>3. IsFiniteSet((P \X P) \X L)
  BY <1>1, <1>2, FS_Product
<1>4. f \in Surjection((P \X P) \X L, Triple)
  <2>1. f \in [(P \X P) \X L -> Triple]
    OBVIOUS
  <2>2. ASSUME NEW e \in Triple
        PROVE  \E x \in (P \X P) \X L : f[x] = e
    <3>1. <<<<e[1], e[2]>>, e[3]>> \in (P \X P) \X L
      OBVIOUS
    <3>2. f[<<<<e[1], e[2]>>, e[3]>>] = e
      BY <3>1
    <3> QED
      BY <3>1, <3>2
  <2> QED
    BY <2>1, <2>2 DEF Surjection
<1>5. IsFiniteSet(Triple)
  BY <1>3, <1>4, FS_Surjection
<1>6. Edges(c, t) \in SUBSET Triple
  BY DEF Edges
<1>7. IsFiniteSet(Edges(c, t))
  BY <1>5, <1>6, FS_Subset
<1>8. \A q : Into(c, t, q) \in SUBSET Edges(c, t)
  BY DEF Into
<1> QED
  BY <1>7, <1>8, FS_Subset

\* Nothing is placed, and every edge is counted, when OrderPluginConfigs starts.
LEMMA InitOrder == Init => OrderInv
<1> SUFFICES ASSUME Init PROVE OrderInv
  OBVIOUS
<1> USE DEF Init
<1>1. turn \in DOMAIN Stages
  BY DEF Stages
<1>2. Counted
  BY DEF Counted, Waits, Into, InDegrees
<1>3. Appended
  <2>1. \A p \in Plugin : ~ (StageNumber(p) < turn)
    BY StageNumbers DEF Stages
  <2> QED
    BY <2>1 DEF Appended, IsInjective
<1>4. Stuck /\ OrderRespected
  BY DEF Stuck, OrderRespected
<1> QED
  BY <1>1, <1>2, <1>3, <1>4 DEF OrderInv

\* Placing a plugin that waits for none keeps the order and the counts.
LEMMA PlaceOrder == OrderInv /\ Place => OrderInv'
<1> SUFFICES ASSUME OrderInv, Place PROVE OrderInv'
  OBVIOUS
<1> DEFINE p == Min(Free)
           From(q) == {e \in Into(cfg, turn, q) : e[1] = p}
<1>0. /\ cfg' = cfg /\ turn' = turn /\ status' = status /\ status = "running"
      /\ placed' = placed \cup {p} /\ out' = Append(out, p)
      /\ indeg' = [q \in Plugin |-> indeg[q] - Cardinality(From(q))]
  BY DEF Place
<1>1. p \in Free
  <2>1. Free \in SUBSET Nat /\ Free # {}
    BY DEF Place, Free, InStage, Plugin
  <2> QED
    BY <2>1, MinIsMember
<1>2. p \in Plugin /\ p \in InStage(cfg, turn) /\ p \notin placed /\ indeg[p] = 0
  BY <1>1 DEF Free, InStage
<1>3. StageNumber(p) = turn
  BY <1>2, StageNumbers DEF OrderInv
<1>4. ASSUME NEW q
      PROVE  IsFiniteSet(Waits(q))
  BY EdgesFinite, FS_Subset DEF Waits
<1>5. Counted'
  <2>1. ASSUME NEW q \in Plugin
        PROVE  indeg[q] - Cardinality(From(q)) = Cardinality(Waits(q))'
    <3>1. Waits(q)' = Waits(q) \ From(q)
      BY <1>0 DEF Waits
    <3>2. Waits(q) \cap From(q) = From(q)
      BY <1>2 DEF Waits
    <3>3. Cardinality(Waits(q) \ From(q)) = Cardinality(Waits(q)) - Cardinality(Waits(q) \cap From(q))
      BY <1>4, FS_Difference
    <3>4. indeg[q] = Cardinality(Waits(q))
      BY DEF OrderInv, Counted
    <3> QED
      BY <3>1, <3>2, <3>3, <3>4
  <2> QED
    BY <1>0, <2>1 DEF Counted
<1>6. Appended'
  <2>1. out \in Seq(Plugin) /\ IsInjective(out)
    BY DEF OrderInv, Appended
  <2>2. \A i \in DOMAIN out : out[i] # p
    <3>1. turn \in Nat
      BY DEF OrderInv, Stages
    <3>2. ~ (status = "ordered" \/ StageNumber(p) < turn \/ p \in placed)
      BY <1>0, <1>2, <1>3, <3>1
    <3> QED
      BY <1>2, <3>2 DEF OrderInv, Appended
  <2>3. /\ out' \in Seq(Plugin) /\ DOMAIN out' = 1 .. Len(out) + 1
        /\ \A i \in DOMAIN out : out'[i] = out[i]
        /\ out'[Len(out) + 1] = p
    BY <1>0, <1>2, <2>1
  <2>4. IsInjective(out')
    BY <2>1, <2>2, <2>3 DEF IsInjective
  <2>5. ASSUME NEW q \in Plugin
        PROVE  (\E i \in DOMAIN out' : out'[i] = q) <=>
                   (status' = "ordered" \/ StageNumber(q) < turn' \/ q \in placed')
    <3>1. (\E i \in DOMAIN out' : out'[i] = q) <=> (\E i \in DOMAIN out : out[i] = q) \/ q = p
      BY <2>1, <2>3
    <3>2. (\E i \in DOMAIN out : out[i] = q) <=>
              (status = "ordered" \/ StageNumber(q) < turn \/ q \in placed)
      BY DEF OrderInv, Appended
    <3> QED
      BY <1>0, <3>1, <3>2
  <2>6. \A q \in Plugin : StageNumber(q)' = StageNumber(q)
    BY <1>0 DEF StageNumber
  <2> QED
    BY <2>3, <2>4, <2>5, <2>6 DEF Appended
<1>7. Waits(p) = {}
  BY <1>2, <1>4, FS_EmptySet DEF OrderInv, Counted
<1>8. ASSUME NEW q \in Plugin, MustPrecede(q, p)
      PROVE  \E i \in DOMAIN out : out[i] = q
  <2>1. CASE StageNumber(q) < StageNumber(p)
    BY <1>3, <2>1 DEF OrderInv, Appended
  <2>2. CASE StageNumber(q) = StageNumber(p) /\ q \in cfg.after[p]
    <3>1. q \in InStage(cfg, turn)
      BY <1>3, <2>2, StageNumbers DEF OrderInv
    <3>2. <<q, p, "after">> \in Into(cfg, turn, p)
      BY <1>2, <2>2, <3>1 DEF Into, Edges
    <3>3. q \in placed
      BY <1>7, <3>2 DEF Waits
    <3> QED
      BY <3>3 DEF OrderInv, Appended
  <2>3. CASE StageNumber(q) = StageNumber(p) /\ p \in cfg.before[q]
    <3>1. q \in InStage(cfg, turn)
      BY <1>3, <2>3, StageNumbers DEF OrderInv
    <3>2. <<q, p, "before">> \in Into(cfg, turn, p)
      BY <1>2, <2>3, <3>1 DEF Into, Edges
    <3>3. q \in placed
      BY <1>7, <3>2 DEF Waits
    <3> QED
      BY <3>3 DEF OrderInv, Appended
  <2> QED
    BY <1>8, <2>1, <2>2, <2>3 DEF MustPrecede
<1>9. OrderRespected'
  <2>1. out \in Seq(Plugin)
    BY DEF OrderInv, Appended
  <2>2. \A x, y : MustPrecede(x, y)' <=> MustPrecede(x, y)
    BY <1>0 DEF MustPrecede, StageNumber
  <2>3. ASSUME NEW j \in DOMAIN out', NEW q \in Plugin, MustPrecede(q, out'[j])
        PROVE  \E i \in 1 .. j - 1 : out'[i] = q
    <3>1. CASE j \in DOMAIN out
      <4>1. out'[j] = out[j]
        BY <1>0, <1>2, <2>1, <3>1
      <4>2. PICK i \in 1 .. j - 1 : out[i] = q
        BY <2>3, <3>1, <4>1 DEF OrderInv, OrderRespected
      <4>3. i \in DOMAIN out /\ out'[i] = out[i]
        BY <1>0, <1>2, <2>1, <3>1, <4>2
      <4> QED
        BY <4>2, <4>3
    <3>2. CASE j = Len(out) + 1
      <4>1. out'[j] = p
        BY <1>0, <1>2, <2>1, <3>2
      <4>2. PICK i \in DOMAIN out : out[i] = q
        BY <1>8, <2>3, <4>1
      <4>3. i \in 1 .. j - 1 /\ out'[i] = out[i]
        BY <1>0, <1>2, <2>1, <3>2, <4>2
      <4> QED
        BY <4>2, <4>3
    <3> QED
      BY <1>0, <1>2, <2>1, <3>1, <3>2
  <2> QED
    BY <1>0, <2>2, <2>3 DEF OrderRespected
<1>10. Stuck' /\ placed' \subseteq InStage(cfg, turn)'
  BY <1>0, <1>2 DEF OrderInv, Stuck
<1> QED
  BY <1>0, <1>5, <1>6, <1>9, <1>10 DEF OrderInv

\* A stage is left when all of it is placed.
LEMMA NextStageOrder == OrderInv /\ NextStage => OrderInv'
<1> SUFFICES ASSUME OrderInv, NextStage PROVE OrderInv'
  OBVIOUS
<1>0. /\ cfg' = cfg /\ out' = out /\ status = "running"
      /\ placed = InStage(cfg, turn) /\ turn \in 1 .. 3 /\ Len(Stages) = 3
  BY DEF NextStage, OrderInv, Stages
<1>1. \A x, y : MustPrecede(x, y)' <=> MustPrecede(x, y)
  BY <1>0 DEF MustPrecede, StageNumber
<1>2. \A q \in Plugin : StageNumber(q)' = StageNumber(q) /\ StageNumber(q) \in 1 .. 3
  BY <1>0, StageNumbers DEF StageNumber, OrderInv, Stages
<1>3. \A q \in Plugin : q \in placed <=> StageNumber(q) = turn
  BY <1>0, StageNumbers DEF OrderInv
<1>4. out \in Seq(Plugin) /\ IsInjective(out)
  BY DEF OrderInv, Appended
<1>5. CASE turn = 3
  <2>1. status' = "ordered" /\ turn' = turn /\ indeg' = indeg /\ placed' = placed
    BY <1>0, <1>5 DEF NextStage
  <2>2. \A q \in Plugin : \E i \in DOMAIN out : out[i] = q
    BY <1>2, <1>3, <1>5 DEF OrderInv, Appended
  <2>3. Appended'
    BY <1>0, <1>4, <2>1, <2>2 DEF Appended
  <2>4. Range(out) = Plugin
    BY <1>4, <2>2 DEF Range
  <2>5. OrderRespected'
    BY <1>0, <1>1, <2>1, <2>4 DEF OrderInv, OrderRespected
  <2>6. Counted' /\ Stuck' /\ (placed \subseteq InStage(cfg, turn))'
    BY <1>0, <2>1 DEF OrderInv, Counted, Waits, Stuck
  <2> QED
    BY <1>0, <2>1, <2>3, <2>5, <2>6 DEF OrderInv
<1>6. CASE turn # 3
  <2>1. /\ status' = status /\ turn' = turn + 1 /\ placed' = {}
        /\ indeg' = InDegrees(cfg, turn + 1)
    BY <1>0, <1>6 DEF NextStage
  <2>2. Counted'
    BY <1>0, <2>1 DEF Counted, Waits, Into, InDegrees
  <2>3. Appended'
    <3>1. ASSUME NEW q \in Plugin
          PROVE  (\E i \in DOMAIN out' : out'[i] = q) <=>
                     (status' = "ordered" \/ StageNumber(q)' < turn' \/ q \in placed')
      BY <1>0, <1>2, <1>3, <2>1 DEF OrderInv, Appended
    <3> QED
      BY <1>0, <1>4, <3>1 DEF Appended
  <2>4. OrderRespected' /\ Stuck' /\ (placed \subseteq InStage(cfg, turn))'
    BY <1>0, <1>1, <2>1 DEF OrderInv, OrderRespected, Stuck
  <2>5. turn' \in DOMAIN Stages
    BY <1>0, <1>6, <2>1 DEF Stages
  <2> QED
    BY <1>0, <2>1, <2>2, <2>3, <2>4, <2>5 DEF OrderInv
<1> QED
  BY <1>5, <1>6

\* Every step of the sort keeps OrderInv.
LEMMA NextOrder == OrderInv /\ [Next]_vars => OrderInv'
<1> SUFFICES ASSUME OrderInv, [Next]_vars PROVE OrderInv'
  OBVIOUS
<1>1. CASE Cycle
  <2>1. /\ cfg' = cfg /\ turn' = turn /\ indeg' = indeg /\ placed' = placed
        /\ out' = out /\ status = "running" /\ status' = "cycle"
    BY <1>1 DEF Cycle
  <2>2. Counted' /\ Appended'
    BY <2>1 DEF OrderInv, Counted, Waits, Appended, StageNumber
  <2>3. Stuck'
    BY <1>1, <2>1 DEF Stuck, Cycle, Free
  <2>4. OrderRespected'
    BY <2>1 DEF OrderInv, OrderRespected, MustPrecede, StageNumber
  <2> QED
    BY <2>1, <2>2, <2>3, <2>4 DEF OrderInv
<1>2. CASE UNCHANGED vars
  <2>1. /\ cfg' = cfg /\ turn' = turn /\ indeg' = indeg /\ placed' = placed
        /\ out' = out /\ status' = status
    BY <1>2 DEF vars
  <2>2. Counted' /\ Appended'
    BY <2>1 DEF OrderInv, Counted, Waits, Appended, StageNumber
  <2>3. Stuck'
    BY <2>1 DEF OrderInv, Stuck, Free
  <2>4. OrderRespected'
    BY <2>1 DEF OrderInv, OrderRespected, MustPrecede, StageNumber
  <2> QED
    BY <2>1, <2>2, <2>3, <2>4 DEF OrderInv
<1> QED
  BY <1>1, <1>2, PlaceOrder, NextStageOrder DEF Next

\* A plugin that waits in a stage where none is free waits for another such one.
LEMMA CycleExists == OrderInv => RefusedForCycle
<1> SUFFICES ASSUME OrderInv, status = "cycle"
             PROVE  \E S \in SUBSET Plugin \ {{}} : \A q \in S : \E p \in S :
                        MustPrecede(p, q)
  BY DEF RefusedForCycle
<1> DEFINE W == InStage(cfg, turn) \ placed
<1>1. W \in SUBSET Plugin /\ W # {}
  BY DEF OrderInv, Stuck, InStage
<1>2. ASSUME NEW q \in W PROVE \E p \in W : MustPrecede(p, q)
  <2>1. q \in Plugin /\ indeg[q] # 0
    BY <1>1 DEF OrderInv, Stuck, Free
  <2>2. Waits(q) # {}
    BY <2>1, FS_EmptySet DEF OrderInv, Counted
  <2>3. PICK e \in Waits(q) : TRUE
    BY <2>2
  <2>4. /\ e[1] \in W /\ e[2] = q
        /\ e[1] \in cfg.after[q] \/ q \in cfg.before[e[1]]
    BY <2>3 DEF Waits, Into, Edges
  <2>5. StageNumber(e[1]) = StageNumber(q)
    BY <1>1, <2>1, <2>4, StageNumbers DEF OrderInv
  <2> QED
    BY <2>4, <2>5 DEF MustPrecede
<1> QED
  BY <1>1, <1>2

\* The types of the sort's variables follow from OrderInv.
LEMMA OrderTypes == OrderInv => TypeOK
<1> SUFFICES ASSUME OrderInv PROVE TypeOK
  OBVIOUS
<1>1. \A q \in Plugin : IsFiniteSet(Waits(q))
  BY EdgesFinite, FS_Subset DEF Waits
<1>2. indeg \in [Plugin -> Nat]
  BY <1>1, FS_CardinalityType DEF OrderInv, Counted
<1>3. Range(out) \subseteq Plugin
  BY DEF OrderInv, Appended, Range
<1> QED
  BY <1>2, <1>3 DEF OrderInv, Appended, TypeOK
=============================================================================
