---------------------------- MODULE PluginOrder ----------------------------
(***************************************************************************)
(* The order in which plugins are called: OrderPluginConfigs and           *)
(* topoSortByConstraints (internal/plugins/order.go), for a configuration  *)
(* that Config.Validate accepts (unique names, known stages), so that a    *)
(* name is the position of its plugin.  An edge keeps the list it comes    *)
(* from, because the code counts a constraint stated on both sides twice.  *)
(***************************************************************************)
EXTENDS Integers, Sequences, FiniteSets, SequencesExt, FiniteSetsExt

CONSTANTS
    NPlugins,    \* plugins 1 .. NPlugins, in the order of the configuration
    Config       \* configurations [stage, before, after] of them

Plugin == 1 .. NPlugins
Stages == <<"deny", "route", "mutate">>

ASSUME NPluginsAssumption == NPlugins \in Nat
ASSUME ConfigAssumption ==
    Config \subseteq [stage : [Plugin -> Range(Stages)],
                      before : [Plugin -> SUBSET Plugin],
                      after : [Plugin -> SUBSET Plugin]]

VARIABLES
    cfg,         \* the configuration
    turn,        \* the stage being sorted, as an index of Stages
    indeg,       \* per plugin of the stage: its edges from unplaced plugins
    placed,      \* plugins of the stage that have been placed
    out,         \* the order so far
    status       \* running, ordered or cycle

vars == <<cfg, turn, indeg, placed, out, status>>

InStage(c, t) == {p \in Plugin : t <= Len(Stages) /\ c.stage[p] = Stages[t]}

\* Mutant: before is read the way after is.
EdgesBackwards(c, t) ==
    { e \in InStage(c, t) \X InStage(c, t) \X {"after", "before"} :
        e[1] \in IF e[3] = "after" THEN c.after[e[2]] ELSE c.before[e[2]] }

\* <<p, q, list>>: p runs before q.  Names of other stages have no effect.
Edges(c, t) ==
    { e \in InStage(c, t) \X InStage(c, t) \X {"after", "before"} :
        IF e[3] = "after" THEN e[1] \in c.after[e[2]] ELSE e[2] \in c.before[e[1]] }

Into(c, t, q) == {e \in Edges(c, t) : e[2] = q}
InDegrees(c, t) == [q \in Plugin |-> Cardinality(Into(c, t, q))]

Init ==
    /\ cfg \in Config
    /\ turn = 1
    /\ indeg = InDegrees(cfg, 1)
    /\ placed = {} /\ out = <<>>
    /\ status = "running"

\* Mutant: the plugins already placed are looked at again.
FreeAgain == {p \in InStage(cfg, turn) : indeg[p] = 0 /\ placed # InStage(cfg, turn)}

Free == {p \in InStage(cfg, turn) \ placed : indeg[p] = 0}

\* Mutant: the edges of the placed plugin are taken to be one each.
PlaceOnce ==
    /\ status = "running" /\ Free # {}
    /\ LET p == Min(Free) IN
        /\ placed' = placed \cup {p}
        /\ out' = Append(out, p)
        /\ indeg' = [q \in Plugin |-> indeg[q] - IF \E l \in {"after", "before"} :
                         <<p, q, l>> \in Edges(cfg, turn) THEN 1 ELSE 0]
    /\ UNCHANGED <<cfg, turn, status>>

\* The first plugin, in the order of the configuration, that waits for no
\* other is the next of the order.
Place ==
    /\ status = "running" /\ Free # {}
    /\ LET p == Min(Free) IN
        /\ placed' = placed \cup {p}
        /\ out' = Append(out, p)
        /\ indeg' = [q \in Plugin |->
              indeg[q] - Cardinality({e \in Into(cfg, turn, q) : e[1] = p})]
    /\ UNCHANGED <<cfg, turn, status>>

\* len(out) < len(ids) and nothing found: the server does not start.
Cycle ==
    /\ status = "running" /\ Free = {} /\ placed # InStage(cfg, turn)
    /\ status' = "cycle"
    /\ UNCHANGED <<cfg, turn, indeg, placed, out>>

\* The order of this stage is appended to that of the stages before.
NextStage ==
    /\ status = "running" /\ placed = InStage(cfg, turn)
    /\ IF turn = Len(Stages)
       THEN status' = "ordered" /\ UNCHANGED <<turn, indeg, placed>>
       ELSE /\ turn' = turn + 1
            /\ indeg' = InDegrees(cfg, turn + 1)
            /\ placed' = {}
            /\ UNCHANGED status
    /\ UNCHANGED <<cfg, out>>

Next == Place \/ Cycle \/ NextStage

Spec == Init /\ [][Next]_vars

-----------------------------------------------------------------------------
\* The order is a list of distinct plugins.
TypeOK ==
    /\ turn \in DOMAIN Stages
    /\ indeg \in [Plugin -> Nat]
    /\ placed \subseteq InStage(cfg, turn)
    /\ IsInjective(out) /\ Range(out) \subseteq Plugin
    /\ status \in {"running", "ordered", "cycle"}

\* p has to run before q (docs/plugin-configuration.md:17-30).
StageNumber(p) == CHOOSE t \in DOMAIN Stages : Stages[t] = cfg.stage[p]
MustPrecede(p, q) ==
    \/ StageNumber(p) < StageNumber(q)
    \/ StageNumber(p) = StageNumber(q) /\ (p \in cfg.after[q] \/ q \in cfg.before[p])

\* A plugin placed by OrderPluginConfigs comes after every plugin that has to
\* run before it, and an accepted order leaves no plugin out.
OrderRespected ==
    /\ \A j \in DOMAIN out, p \in Plugin :
           MustPrecede(p, out[j]) => \E i \in 1 .. j - 1 : out[i] = p
    /\ status = "ordered" => Range(out) = Plugin

\* The server refuses to start only for plugins that wait for each other in a
\* circle: some set of them in which each has to run after another one of it.
RefusedForCycle ==
    status = "cycle" =>
        \E S \in SUBSET Plugin \ {{}} : \A q \in S : \E p \in S :
            MustPrecede(p, q)
=============================================================================
