----------------------- MODULE ServerLifecycle_proofs -----------------------
(***************************************************************************)
(* Proofs about ServerLifecycle, for every number of plugins, every set of *)
(* files and every number of connections.                                  *)
(***************************************************************************)
EXTENDS ServerLifecycle, PluginOrder_proofs

\* What Run has done when it gets to a phase.
Sorting == {"load", "new", "tls", "discovery", "order"}
Serving == {"accept", "close"}
Accepted == \E h \in Handler : conn[h] # "none"

\* The providers of a file that gets to Run are those of its manager.
ProvidersInv ==
    /\ phase = "new" => Valid(file)
    /\ phase \in {"tls", "discovery", "order", "plugins"} \cup Serving \/ Accepted =>
           built = NameOf(file.providers) /\ file.refs \subseteq built
    /\ phase \in {"order", "plugins"} \cup Serving \/ Accepted => started = built
    /\ AcceptedIsBuilt

\* The plugins opened are the first of the order, and all of it once Run listens.
OpenedInv ==
    /\ phase \in Phases
    /\ phase \in Sorting => status = "running" /\ opened = <<>>
    /\ phase \in {"plugins"} \cup Serving \/ Accepted => status = "ordered"
    /\ phase \in Serving \/ Accepted => opened = out
    /\ Accepted => phase \in Serving \cup {"returned", "exited"}
    /\ opened \in Seq(Plugin) /\ Len(opened) <= Len(out)
    /\ \A i \in DOMAIN opened : opened[i] = out[i]
    /\ closed \in 0 .. Len(opened)
    /\ NothingLeftOpen

\* A handler asks the first ones of them.
AskedInv ==
    /\ conn \in [Handler -> {"none", "open", "shut"}]
    /\ asked \in [Handler -> Seq(Plugin)]
    /\ \A h \in Handler :
           /\ conn[h] = "none" => asked[h] = <<>>
           /\ Len(asked[h]) <= Len(opened)
           /\ \A i \in DOMAIN asked[h] : asked[h][i] = opened[i]

RunInv == OrderInv /\ ProvidersInv /\ OpenedInv /\ AskedInv

\* config.Load has not been called, and nothing is open.
LEMMA InitRun == RunInit => RunInv
<1> SUFFICES ASSUME RunInit PROVE RunInv
  OBVIOUS
<1>1. OrderInv
  BY InitOrder DEF RunInit
<1>2. ~ Accepted
  BY DEF RunInit, Accepted
<1>3. ProvidersInv
  BY <1>2, NoErrAssumption DEF RunInit, ProvidersInv, AcceptedIsBuilt, Serving, Failures
<1>4. OpenedInv
  BY <1>1, <1>2 DEF RunInit, Init, OpenedInv, Phases, Sorting, Serving, NothingLeftOpen,
                    OrderInv, Appended
<1>5. AskedInv
  BY DEF RunInit, AskedInv
<1> QED
  BY <1>1, <1>3, <1>4, <1>5 DEF RunInv

\* PluginOrder's variables change by its own steps only.
LEMMA RunSorts == [RunNext]_runVars => [Next]_vars
BY DEF RunNext, runVars, Step, Cancel, LoadConfig, NewServer, Certificate, StartProvider,
       ProviderFails, DiscoveryStarted, Order, LoadPlugin, PluginFails, Listen, ListenFails,
       Accept, AcceptEnds, ClosePlugin, Return, Ask, CloseConn, Exit

\* What Validate accepts, discovery.New makes.
LEMMA ValidMakes == \A f : Valid(f) => Makes(f.providers)
BY DEF Valid, ProvidersValid, Makes

\* Steps of main, New and Run.
LEMMA StartupRun == RunInv /\ (Step \/ ProviderFails \/ AcceptEnds \/ Exit) => RunInv'
<1> SUFFICES ASSUME RunInv, Step \/ ProviderFails \/ AcceptEnds \/ Exit PROVE RunInv'
  OBVIOUS
<1> USE NoErrAssumption DEF Phases, Sorting, Serving, Failures
<1>1. OrderInv'
  BY RunSorts, NextOrder DEF RunInv, RunNext
<1>2. /\ serving' = serving /\ file' = file
      /\ Accepted' <=> Accepted
  BY DEF Step, LoadConfig, NewServer, Certificate, ProviderFails, DiscoveryStarted, Order,
         LoadPlugin, PluginFails, Listen, ListenFails, AcceptEnds, ClosePlugin, Return,
         Exit, serving, Accepted
<1>3. /\ opened \in Seq(Plugin) /\ out \in Seq(Plugin) /\ Len(opened) <= Len(out)
      /\ closed \in 0 .. Len(opened)
  BY DEF RunInv, OpenedInv, OrderInv, Appended
<1>4. CASE LoadConfig \/ NewServer
  <2>1. ~ Accepted
    BY <1>4 DEF RunInv, OpenedInv, LoadConfig, NewServer
  <2>2. ASSUME LoadConfig PROVE ProvidersInv'
    BY <1>2, <2>1, <2>2 DEF RunInv, ProvidersInv, AcceptedIsBuilt, LoadConfig
  <2>3. ASSUME NewServer PROVE ProvidersInv'
    <3>1. Valid(file) /\ Makes(file.providers) /\ file.refs \subseteq NameOf(file.providers)
      BY <2>3, ValidMakes DEF RunInv, ProvidersInv, NewServer, Valid
    <3>2. built' = NameOf(file.providers) /\ err' \in {"secret", NoErr}
          /\ phase' \in {"tls", "returned"}
      BY <2>3, <3>1 DEF NewServer
    <3> QED
      BY <1>2, <2>1, <3>1, <3>2 DEF ProvidersInv, AcceptedIsBuilt
  <2>4. ProvidersInv'
    BY <1>4, <2>2, <2>3
  <2>5. OpenedInv'
    BY <1>2, <1>3, <1>4 DEF RunInv, OpenedInv, NothingLeftOpen, LoadConfig, NewServer, vars
  <2>6. AskedInv'
    BY <1>2, <1>4 DEF RunInv, AskedInv, LoadConfig, NewServer, serving
  <2> QED
    BY <1>1, <2>4, <2>5, <2>6 DEF RunInv
<1>5. CASE Certificate \/ ProviderFails \/ DiscoveryStarted
  <2>1. ProvidersInv'
    BY <1>2, <1>5
    DEF RunInv, ProvidersInv, OpenedInv, AcceptedIsBuilt, Certificate, ProviderFails,
        DiscoveryStarted
  <2>2. OpenedInv'
    BY <1>2, <1>3, <1>5
    DEF RunInv, OpenedInv, NothingLeftOpen, Certificate, ProviderFails, DiscoveryStarted, vars
  <2>3. AskedInv'
    BY <1>2, <1>5 DEF RunInv, AskedInv, Certificate, ProviderFails, DiscoveryStarted, serving
  <2> QED
    BY <1>1, <2>1, <2>2, <2>3 DEF RunInv
<1>6. CASE Order
  <2>1. ~ Accepted /\ opened = <<>> /\ closed = 0 /\ opened' = opened /\ closed' = closed
    BY <1>6 DEF RunInv, OpenedInv, Order
  <2>2. status = "running" /\ status' \in {"running", "ordered", "cycle"}
    BY <1>1, <1>6 DEF RunInv, OpenedInv, OrderInv, Order
  <2>3. status' \notin {"cycle", "ordered"} => phase' = "order" /\ status' = "running"
    BY <1>6, <2>2 DEF Order
  <2>4. ProvidersInv'
    BY <1>2, <1>6, <2>1 DEF RunInv, ProvidersInv, AcceptedIsBuilt, Order
  <2>5. OpenedInv'
    BY <1>1, <1>2, <1>6, <2>1, <2>2, <2>3
    DEF OpenedInv, NothingLeftOpen, Order, OrderInv, Appended
  <2>6. AskedInv'
    BY <1>2, <1>6 DEF RunInv, AskedInv, Order, serving
  <2> QED
    BY <1>1, <2>4, <2>5, <2>6 DEF RunInv
<1>7. CASE LoadPlugin
  <2>1. ~ Accepted /\ phase' = "plugins" /\ phase = "plugins" /\ out' = out /\ status' = status
    BY <1>7 DEF RunInv, OpenedInv, LoadPlugin, vars
  <2>2. /\ opened' \in Seq(Plugin) /\ Len(opened') = Len(opened) + 1
        /\ Len(opened') <= Len(out)
        /\ \A i \in DOMAIN opened : opened'[i] = opened[i]
        /\ opened'[Len(opened) + 1] = out[Len(opened) + 1]
    BY <1>3, <1>7 DEF LoadPlugin, Loaded
  <2>3. \A i \in DOMAIN opened' : opened'[i] = out'[i]
    BY <1>3, <2>1, <2>2 DEF RunInv, OpenedInv
  <2>4. ProvidersInv'
    BY <1>2, <1>7 DEF RunInv, ProvidersInv, AcceptedIsBuilt, LoadPlugin
  <2>5. OpenedInv'
    BY <1>2, <1>3, <1>7, <2>1, <2>2, <2>3 DEF RunInv, OpenedInv, NothingLeftOpen, LoadPlugin
  <2>6. AskedInv'
    BY <1>2, <1>3, <1>7, <2>1, <2>2 DEF RunInv, AskedInv, LoadPlugin, serving, Accepted
  <2> QED
    BY <1>1, <2>4, <2>5, <2>6 DEF RunInv
<1>8. CASE PluginFails \/ Listen \/ ListenFails
  <2>1. Loaded => opened = out
    BY <1>3 DEF Loaded, RunInv, OpenedInv
  <2>2. ProvidersInv'
    BY <1>2, <1>8
    DEF RunInv, ProvidersInv, AcceptedIsBuilt, PluginFails, Listen, ListenFails
  <2>3. OpenedInv'
    BY <1>2, <1>3, <1>8, <2>1
    DEF RunInv, OpenedInv, NothingLeftOpen, PluginFails, Listen, ListenFails, vars
  <2>4. AskedInv'
    BY <1>2, <1>8 DEF RunInv, AskedInv, PluginFails, Listen, ListenFails, serving
  <2> QED
    BY <1>1, <2>2, <2>3, <2>4 DEF RunInv
<1>9. CASE AcceptEnds \/ ClosePlugin \/ Return \/ Exit
  <2>1. ProvidersInv'
    BY <1>2, <1>9
    DEF RunInv, ProvidersInv, OpenedInv, AcceptedIsBuilt, AcceptEnds, ClosePlugin, Return, Exit
  <2>2. OpenedInv'
    BY <1>2, <1>3, <1>9
    DEF RunInv, OpenedInv, NothingLeftOpen, AcceptEnds, ClosePlugin, Return, Exit, vars
  <2>3. AskedInv'
    BY <1>2, <1>9 DEF RunInv, AskedInv, AcceptEnds, ClosePlugin, Return, Exit, serving
  <2> QED
    BY <1>1, <2>1, <2>2, <2>3 DEF RunInv
<1> QED
  BY <1>4, <1>5, <1>6, <1>7, <1>8, <1>9 DEF Step

\* Steps of the environment, and of the handlers.
LEMMA HandlersRun ==
    ASSUME RunInv,
           Cancel \/ (\E n \in built : StartProvider(n)) \/ UNCHANGED runVars
           \/ \E h \in Handler : Accept(h) \/ Ask(h) \/ CloseConn(h)
    PROVE  RunInv'
<1> USE NoErrAssumption DEF Phases, Sorting, Serving, Failures
<1>1. OrderInv'
  BY RunSorts, NextOrder DEF RunInv, RunNext
<1>3. opened \in Seq(Plugin) /\ closed \in 0 .. Len(opened)
  BY DEF RunInv, OpenedInv
<1>4. CASE Cancel \/ UNCHANGED runVars
  <2>1. UNCHANGED <<vars, file, phase, err, built, started, opened, closed, serving>>
    BY <1>4 DEF Cancel, runVars
  <2>2. Accepted' <=> Accepted
    BY <2>1 DEF Accepted, serving
  <2>3. ProvidersInv'
    BY <2>1, <2>2 DEF RunInv, ProvidersInv, AcceptedIsBuilt
  <2>4. OpenedInv'
    BY <2>1, <2>2 DEF RunInv, OpenedInv, NothingLeftOpen, vars
  <2>5. AskedInv'
    BY <2>1 DEF RunInv, AskedInv, serving
  <2> QED
    BY <1>1, <2>3, <2>4, <2>5 DEF RunInv
<1>5. ASSUME NEW n \in built, StartProvider(n) PROVE RunInv'
  <2>1. (Accepted' <=> Accepted) /\ ~ Accepted
    BY <1>5 DEF StartProvider, Accepted, serving, RunInv, OpenedInv
  <2>2. ProvidersInv'
    BY <1>5, <2>1 DEF RunInv, ProvidersInv, AcceptedIsBuilt, StartProvider
  <2>3. OpenedInv'
    BY <1>5, <2>1 DEF RunInv, OpenedInv, NothingLeftOpen, StartProvider, vars
  <2>4. AskedInv'
    BY <1>5 DEF RunInv, AskedInv, StartProvider, serving
  <2> QED
    BY <1>1, <2>2, <2>3, <2>4 DEF RunInv
<1>6. ASSUME NEW h \in Handler, Accept(h) PROVE RunInv'
  <2>1. ProvidersInv'
    BY <1>6 DEF RunInv, ProvidersInv, AcceptedIsBuilt, Accept
  <2>2. OpenedInv'
    BY <1>6 DEF RunInv, OpenedInv, NothingLeftOpen, Accept, vars
  <2>3. AskedInv'
    BY <1>6 DEF RunInv, AskedInv, Accept
  <2> QED
    BY <1>1, <2>1, <2>2, <2>3 DEF RunInv
<1>7. ASSUME NEW h \in Handler, Ask(h) \/ CloseConn(h) PROVE RunInv'
  <2>1. Accepted' <=> Accepted
    BY <1>7 DEF Accepted, Ask, CloseConn, RunInv, AskedInv
  <2>2. ProvidersInv'
    BY <1>7, <2>1 DEF RunInv, ProvidersInv, AcceptedIsBuilt, Ask, CloseConn
  <2>3. OpenedInv'
    BY <1>7, <2>1 DEF RunInv, OpenedInv, NothingLeftOpen, Ask, CloseConn, vars
  <2>4. CASE Ask(h)
    <3>1. opened[Len(asked[h]) + 1] \in Plugin
      BY <1>3, <2>4 DEF Ask, RunInv, AskedInv
    <3>2. /\ asked'[h] \in Seq(Plugin) /\ Len(asked'[h]) = Len(asked[h]) + 1
          /\ \A i \in DOMAIN asked[h] : asked'[h][i] = asked[h][i]
          /\ asked'[h][Len(asked[h]) + 1] = opened[Len(asked[h]) + 1]
          /\ \A g \in Handler \ {h} : asked'[g] = asked[g]
          /\ asked' \in [Handler -> Seq(Plugin)]
      BY <2>4, <3>1 DEF Ask, RunInv, AskedInv
    <3>3. \A i \in DOMAIN asked'[h] : i \in DOMAIN asked[h] \/ i = Len(asked[h]) + 1
      BY <3>2 DEF RunInv, AskedInv
    <3>4. AskedInv'
      BY <1>3, <2>4, <3>2, <3>3 DEF RunInv, AskedInv, Ask
    <3> QED
      BY <1>1, <2>2, <2>3, <3>4 DEF RunInv
  <2>5. CASE CloseConn(h)
    <3>1. AskedInv'
      BY <2>5 DEF RunInv, AskedInv, CloseConn
    <3> QED
      BY <1>1, <2>2, <2>3, <3>1 DEF RunInv
  <2> QED
    BY <1>7, <2>4, <2>5
<1> QED
  BY <1>4, <1>5, <1>6, <1>7

\* RunInv is inductive.
LEMMA RunInductive == RunSpec => []RunInv
<1>1. RunInv /\ [RunNext]_runVars => RunInv'
  BY StartupRun, HandlersRun DEF RunNext
<1> QED
  BY InitRun, <1>1, PTL DEF RunSpec

\* The order computed from before, after and the stages is the one in which
\* plugins are placed, whatever the configuration (internal/plugins/order.go).
THEOREM OrderIsRespected == RunSpec => []OrderRespected
<1>1. RunInv => OrderRespected
  BY DEF RunInv, OrderInv
<1> QED
  BY RunInductive, <1>1, PTL

\* OrderPluginConfigs refuses a configuration only for a circle of constraints.
THEOREM OnlyCyclesAreRefused == RunSpec => []RefusedForCycle
<1>1. RunInv => RefusedForCycle
  BY CycleExists DEF RunInv
<1> QED
  BY RunInductive, <1>1, PTL

\* Manager.ApplyOnConnect calls the plugins in an order that the constraints of
\* the file allow, for every number of plugins and of connections.
THEOREM CallsKeepOrder == RunSpec => []AskedInOrder
<1>1. RunInv => AskedInOrder
  <2> SUFFICES ASSUME RunInv, NEW h \in Handler, NEW j \in DOMAIN asked[h], NEW p \in Plugin,
                      MustPrecede(p, asked[h][j])
               PROVE  \E i \in 1 .. j - 1 : asked[h][i] = p
    BY DEF AskedInOrder
  <2>1. /\ asked[h] \in Seq(Plugin) /\ opened \in Seq(Plugin) /\ out \in Seq(Plugin)
        /\ Len(asked[h]) <= Len(opened) /\ Len(opened) <= Len(out)
    BY DEF RunInv, AskedInv, OpenedInv, OrderInv, Appended
  <2>2. \A i \in 1 .. j : asked[h][i] = out[i]
    BY <2>1 DEF RunInv, AskedInv, OpenedInv
  <2>3. j \in DOMAIN out /\ asked[h][j] = out[j] /\ j \in Nat
    BY <2>1, <2>2
  <2>4. PICK i \in 1 .. j - 1 : out[i] = p
    BY <2>3 DEF RunInv, OrderInv, OrderRespected
  <2> QED
    BY <2>2, <2>3, <2>4
<1> QED
  BY RunInductive, <1>1, PTL

\* Run closes every plugin it opened, at whichever step it fails, unless it is
\* LoadAll that fails.
THEOREM PluginsAreClosed == RunSpec => []NothingLeftOpen
<1>1. RunInv => NothingLeftOpen
  BY DEF RunInv, OpenedInv
<1> QED
  BY RunInductive, <1>1, PTL

\* Whoever is accepted is served with every provider and plugin of the file.
THEOREM ServersAreWhole == RunSpec => []ServesWhole
<1>1. RunInv => ServesWhole
  BY DEF RunInv, OrderInv, OrderRespected, ProvidersInv, OpenedInv, Accepted, ServesWhole
<1> QED
  BY RunInductive, <1>1, PTL

\* discovery.New refuses no file that Validate accepts.
THEOREM ChecksAgree == RunSpec => []AcceptedIsBuilt
<1>1. RunInv => AcceptedIsBuilt
  BY DEF RunInv, ProvidersInv
<1> QED
  BY RunInductive, <1>1, PTL

-----------------------------------------------------------------------------
(* The protocol of a connection. *)

\* A set of numbers that is finite has a greatest one.
LEMMA GreatestNumber ==
    ASSUME NEW T \in SUBSET Int, IsFiniteSet(T), T # {}
    PROVE  \E x \in T : \A y \in T : y <= x
<1> DEFINE Bad == {n \in Nat : \E U \in SUBSET T :
                      U # {} /\ Cardinality(U) = n /\ \A x \in U : \E y \in U : ~ (y <= x)}
<1>1. Bad = {}
  <2> SUFFICES ASSUME Bad # {} PROVE FALSE
    OBVIOUS
  <2>1. PICK n \in Bad : \A m \in Bad : n <= m
    BY MinIsMember
  <2>2. PICK U \in SUBSET T :
           U # {} /\ Cardinality(U) = n /\ \A x \in U : \E y \in U : ~ (y <= x)
    OBVIOUS
  <2>3. PICK a \in U : TRUE
    BY <2>2
  <2>4. /\ IsFiniteSet(U) /\ IsFiniteSet(U \ {a})
        /\ Cardinality(U \ {a}) = n - 1 /\ n \in Nat /\ Cardinality(U \ {a}) \in Nat
    BY <2>2, <2>3, FS_Subset, FS_RemoveElement, FS_CardinalityType
  <2>5. U \ {a} # {}
    <3>1. PICK b \in U : ~ (b <= a)
      BY <2>2, <2>3
    <3>2. a \in Int /\ b \in Int
      BY <2>3, <3>1
    <3> QED BY <3>1, <3>2
  <2>6. n - 1 \notin Bad
    BY <2>1, <2>4
  <2>7. PICK x \in U \ {a} : \A y \in U \ {a} : y <= x
    BY <2>4, <2>5, <2>6
  <2>8. /\ a <= x => \A y \in U : y <= x
        /\ x <= a => \A y \in U : y <= a
    BY <2>3, <2>7
  <2> QED BY <2>2, <2>3, <2>7, <2>8
<1>2. Cardinality(T) \in Nat
  BY FS_CardinalityType
<1> QED BY <1>1, <1>2

\* Whatever members of a finite set are numbered by, one of them has the
\* greatest number.
LEMMA GreatestOf ==
    ASSUME NEW S, IsFiniteSet(S), S # {}, NEW f, \A x \in S : f[x] \in Int
    PROVE  \E x \in S : \A y \in S : f[y] <= f[x]
<1> DEFINE T == {f[x] : x \in S}
<1>1. IsFiniteSet(T)
  <2> DEFINE g == [x \in S |-> f[x]]
  <2>1. g \in Surjection(S, T)
    BY DEF Surjection
  <2> QED BY <2>1, FS_Surjection
<1>2. T \in SUBSET Int /\ T # {}
  OBVIOUS
<1>3. PICK n \in T : \A k \in T : k <= n
  BY <1>1, <1>2, GreatestNumber
<1> QED BY <1>3

\* The comparison of sort.Slice has a first among finitely many protocols:
\* no other is newer, if any of them has a version.
LEMMA NewestIsFirst ==
    ASSUME NEW S \in SUBSET Hytale, IsFiniteSet(S), S # {}
    PROVE  LET p == CHOOSE p \in S : \A q \in S \ {p} : NewerFirst(p, q)
           IN p \in S /\ \A q \in S \ {p} : NewerFirst(p, q)
<1> DEFINE Numbered == {p \in S : Version[p] # Unparsed}
<1>1. /\ \A p \in S : Text[p] \in Int
      /\ \A p, q \in S : Text[p] = Text[q] => p = q
      /\ \A p \in Numbered : Version[p] \in Int
  BY ProtoAssumption
<1>2. \E p \in S : \A q \in S \ {p} : NewerFirst(p, q)
  <2>1. CASE Numbered = {}
    <3>1. PICK p \in S : \A q \in S : Text[q] <= Text[p]
      BY <1>1, GreatestOf
    <3>2. ASSUME NEW q \in S \ {p} PROVE NewerFirst(p, q)
      <4>1. Text[p] > Text[q]
        BY <1>1, <3>1
      <4>2. Version[p] = Unparsed /\ Version[q] = Unparsed
        BY <2>1
      <4> QED BY <4>1, <4>2 DEF NewerFirst
    <3> QED BY <3>2
  <2>2. CASE Numbered # {}
    <3> DEFINE N == {p \in Numbered : \A q \in Numbered : Version[q] <= Version[p]}
    <3>1. IsFiniteSet(Numbered)
      BY FS_Subset
    <3>2. N # {}
      <4>1. \E p \in Numbered : \A q \in Numbered : Version[q] <= Version[p]
        BY <1>1, <2>2, <3>1, GreatestOf
      <4> QED BY <4>1
    <3>3. IsFiniteSet(N)
      BY <3>1, FS_Subset
    <3>4. PICK p \in N : \A q \in N : Text[q] <= Text[p]
      BY <1>1, <3>2, <3>3, GreatestOf
    <3>5. ASSUME NEW q \in S \ {p} PROVE NewerFirst(p, q)
      <4>1. Version[p] # Unparsed /\ Version[p] \in Int
        BY <1>1
      <4>2. CASE Version[q] = Unparsed
        BY <4>1, <4>2 DEF NewerFirst
      <4>3. CASE Version[q] # Unparsed /\ Version[q] # Version[p]
        <5>1. Version[q] \in Int /\ Version[q] <= Version[p]
          BY <1>1, <4>3
        <5>2. Version[p] > Version[q]
          BY <4>1, <4>3, <5>1
        <5> QED BY <4>1, <4>3, <5>2 DEF NewerFirst
      <4>4. CASE Version[q] # Unparsed /\ Version[q] = Version[p]
        <5>1. q \in N
          BY <4>4
        <5>2. Text[p] > Text[q]
          BY <1>1, <3>4, <5>1
        <5> QED BY <4>1, <4>4, <5>2 DEF NewerFirst
      <4> QED BY <4>2, <4>3, <4>4
    <3> QED BY <3>5
  <2> QED BY <2>1, <2>2
<1> QED BY <1>2

\* A list names finitely many protocols.
LEMMA NamesFinite ==
    ASSUME NEW list \in Seq(Entry)
    PROVE  IsFiniteSet(Names(list)) /\ Names(list) \subseteq Proto
<1> DEFINE T == {list[i].proto : i \in DOMAIN list}
<1>1. IsFiniteSet(DOMAIN list)
  BY FS_Interval
<1>2. IsFiniteSet(T)
  <2> DEFINE g == [i \in DOMAIN list |-> list[i].proto]
  <2>1. g \in Surjection(DOMAIN list, T)
    BY DEF Surjection
  <2> QED BY <1>1, <2>1, FS_Surjection
<1>3. IsFiniteSet(Names(list))
  BY <1>2, FS_Subset DEF Names
<1>4. \A i \in DOMAIN list : list[i].proto \in Proto \cup {Blank}
  BY DEF Entry
<1> QED BY <1>3, <1>4 DEF Names

\* What is offered letter for letter is among the names.
LEMMA OfferedIsNamed ==
    ASSUME NEW offered \in Seq(Entry), NEW p \in Hytale, Offers(offered, p)
    PROVE  p \in SelectHytale(offered)
<1>1. PICK i \in DOMAIN offered : offered[i] = [proto |-> p, padded |-> FALSE]
  BY DEF Offers, Range
<1>2. offered[i].proto = p /\ p # Blank
  BY <1>1, ProtoAssumption
<1> QED BY <1>2 DEF SelectHytale, Names

\* The newest protocol is one that the client offers, and none that it offers
\* has a greater version.
LEMMA NewestOfferedOk ==
    ASSUME NEW offered \in Seq(Entry), NewestOffered(offered) # Refused
    PROVE  LET n == NewestOffered(offered)
           IN /\ n \in Proto /\ Offers(offered, n)
              /\ \A p \in Hytale :
                     Offers(offered, p) /\ Version[p] # Unparsed =>
                         /\ n \in Hytale /\ Version[n] # Unparsed
                         /\ Version[p] <= Version[n]
<1> DEFINE common == {p \in SelectHytale(offered) : Offers(offered, p)}
           n == CHOOSE p \in common : \A q \in common \ {p} : NewerFirst(p, q)
<1>1. common # {} /\ NewestOffered(offered) = n
  BY DEF NewestOffered
<1>2. common \in SUBSET Hytale /\ IsFiniteSet(common)
  BY NamesFinite, FS_Subset DEF SelectHytale
<1>3. n \in common /\ \A q \in common \ {n} : NewerFirst(n, q)
  BY <1>1, <1>2, NewestIsFirst
<1> HIDE DEF n
<1>4. n \in Hytale /\ n \in Proto
  BY <1>2, <1>3, ProtoAssumption
<1>5. ASSUME NEW p \in Hytale, Offers(offered, p), Version[p] # Unparsed
      PROVE  Version[n] # Unparsed /\ Version[p] <= Version[n]
  <2>1. p \in common
    BY <1>5, OfferedIsNamed
  <2>2. Version[p] \in Int
    BY <1>5, ProtoAssumption
  <2>3. CASE p = n
    BY <1>5, <2>2, <2>3
  <2>4. CASE p # n
    <3>1. NewerFirst(n, p)
      BY <1>3, <2>1, <2>4
    <3>2. Version[n] # Unparsed
      BY <1>5, <3>1 DEF NewerFirst
    <3>3. Version[n] # Version[p] => Version[n] > Version[p]
      BY <1>5, <3>1, <3>2 DEF NewerFirst
    <3>4. Version[n] \in Int
      BY <1>4, <3>2, ProtoAssumption
    <3> QED BY <2>2, <3>2, <3>3, <3>4
  <2> QED BY <2>3, <2>4
<1> QED BY <1>1, <1>3, <1>4, <1>5

\* Otherwise the protocol is one of the configured, or of the two defaults.
LEMMA FirstConfiguredOk ==
    ASSUME NEW configured \in Seq(Entry), NEW offered \in Seq(Entry),
           FirstConfigured(configured, offered) # Refused
    PROVE  LET n == FirstConfigured(configured, offered)
           IN n \in Proto /\ Offers(offered, n) /\ n \in Range(StrictProtos(configured))
<1> DEFINE next == StrictProtos(configured)
           common == {i \in DOMAIN next : Offers(offered, next[i])}
           named == {i \in DOMAIN configured : configured[i].proto \notin {Blank, AnyHytale}}
<1>1. DOMAIN next \subseteq Nat /\ \A i \in DOMAIN next : next[i] \in Proto
  <2>1. CASE named = {}
    <3>1. next = <<HytaleTwo, HytaleOne>>
      BY <2>1 DEF StrictProtos
    <3>2. HytaleTwo \in Proto /\ HytaleOne \in Proto
      BY ProtoAssumption
    <3> QED BY <3>1, <3>2
  <2>2. CASE named # {}
    <3>1. next = [i \in named |-> configured[i].proto]
      BY <2>2 DEF StrictProtos
    <3>2. \A i \in DOMAIN configured : configured[i].proto \in Proto \cup {Blank}
      BY DEF Entry
    <3> QED BY <3>1, <3>2
  <2> QED BY <2>1, <2>2
<1>2. common # {} /\ FirstConfigured(configured, offered) = next[Min(common)]
  BY DEF FirstConfigured
<1> HIDE DEF next
<1>3. Min(common) \in common
  <2>1. common \in SUBSET Nat
    BY <1>1
  <2> QED BY <1>2, <2>1, MinIsMember
<1>4. next[Min(common)] \in Range(next)
  BY <1>3 DEF Range
<1> QED BY <1>1, <1>2, <1>3, <1>4 DEF next

\* What a server and a client agree on, when they do.
LEMMA NegotiatedOk ==
    ASSUME NEW f \in File, NEW n, n = Negotiated(f.alpn, f.offer), n # Refused
    PROVE  /\ n \in Proto /\ Offers(f.offer, n)
           /\ IF AllowHytaleAny(f.alpn)
              THEN \A p \in Hytale :
                       Offers(f.offer, p) /\ Version[p] # Unparsed =>
                           /\ n \in Hytale /\ Version[n] # Unparsed
                           /\ Version[p] <= Version[n]
              ELSE n \in Range(StrictProtos(f.alpn))
<1>1. f.alpn \in Seq(Entry) /\ f.offer \in Seq(Entry)
  BY DEF File
<1>2. CASE AllowHytaleAny(f.alpn) /\ SelectHytale(f.offer) # {}
  <2>1. n = NewestOffered(f.offer)
    BY <1>2 DEF Negotiated
  <2> QED BY <1>1, <1>2, <2>1, NewestOfferedOk
<1>3. CASE ~ (AllowHytaleAny(f.alpn) /\ SelectHytale(f.offer) # {})
  <2>1. n = FirstConfigured(f.alpn, f.offer)
    BY <1>3 DEF Negotiated
  <2>2. n \in Proto /\ Offers(f.offer, n) /\ n \in Range(StrictProtos(f.alpn))
    BY <1>1, <2>1, FirstConfiguredOk
  <2>3. AllowHytaleAny(f.alpn) => \A p \in Hytale : ~ Offers(f.offer, p)
    BY <1>1, <1>3, OfferedIsNamed
  <2> QED BY <2>2, <2>3
<1> QED BY <1>2, <1>3

\* The protocol of a connection stays the one negotiated.
ProtoInv ==
    /\ file \in File
    /\ proto \in [Handler -> Proto \cup {Refused}]
    /\ \A h \in Handler :
           conn[h] # "none" => proto[h] = Negotiated(file.alpn, file.offer) /\ proto[h] # Refused

\* What Run has yet to return, and the providers it has started.
StartInv ==
    /\ err \in Failures \cup {NoErr} /\ ctxDone \in BOOLEAN
    /\ started \subseteq built
    /\ phase \in {"load", "new"} => started = {}

\* ProtoInv and StartInv are inductive, given RunInv.
LEMMA ServedInductive == RunSpec => [](ProtoInv /\ StartInv)
<1>1. RunInit => ProtoInv /\ StartInv
  <2> SUFFICES ASSUME RunInit PROVE ProtoInv /\ StartInv
    OBVIOUS
  <2>1. PICK s \in Startups : file = s[2]
    BY DEF RunInit
  <2>2. file \in File
    BY <2>1, StartupsAssumption
  <2> QED BY <2>2 DEF RunInit, ProtoInv, StartInv
<1>2. RunInv /\ ProtoInv /\ StartInv /\ [RunNext]_runVars => ProtoInv' /\ StartInv'
  <2> SUFFICES ASSUME RunInv, ProtoInv, StartInv, [RunNext]_runVars
               PROVE  ProtoInv' /\ StartInv'
    OBVIOUS
  <2>1. ASSUME Step \/ ProviderFails \/ AcceptEnds \/ Exit PROVE ProtoInv' /\ StartInv'
    <3>1. ProtoInv'
      BY <2>1
      DEF ProtoInv, serving, Step, LoadConfig, NewServer, Certificate, ProviderFails,
          DiscoveryStarted, Order, LoadPlugin, PluginFails, Listen, ListenFails, AcceptEnds,
          ClosePlugin, Return, Exit
    <3>2. StartInv'
      BY <2>1
      DEF StartInv, Failures, Step, LoadConfig, NewServer, Certificate, ProviderFails,
          DiscoveryStarted, Order, LoadPlugin, PluginFails, Listen, ListenFails, AcceptEnds,
          ClosePlugin, Return, Exit
    <3> QED BY <3>1, <3>2
  <2>2. ASSUME Cancel \/ (\E n \in built : StartProvider(n)) \/ UNCHANGED runVars
        PROVE  ProtoInv' /\ StartInv'
    BY <2>2 DEF ProtoInv, StartInv, Cancel, StartProvider, runVars, serving
  <2>3. ASSUME NEW h \in Handler, Accept(h) PROVE ProtoInv' /\ StartInv'
    <3> DEFINE n == Negotiated(file.alpn, file.offer)
    <3>1. n # Refused /\ proto' = [proto EXCEPT ![h] = n] /\ UNCHANGED file
          /\ conn' = [conn EXCEPT ![h] = "open"]
      BY <2>3 DEF Accept
    <3>2. n \in Proto
      BY <3>1, NegotiatedOk DEF ProtoInv
    <3> HIDE DEF n
    <3>3. ASSUME NEW g \in Handler, conn'[g] # "none"
          PROVE  proto'[g] = n /\ proto'[g] # Refused
      <4>1. CASE g = h
        BY <3>1, <4>1 DEF ProtoInv
      <4>2. CASE g # h
        <5>1. conn'[g] = conn[g] /\ proto'[g] = proto[g]
          BY <3>1, <4>2 DEF ProtoInv, RunInv, AskedInv
        <5> QED BY <3>3, <5>1 DEF ProtoInv, n
      <4> QED BY <4>1, <4>2
    <3>4. ProtoInv'
      BY <3>1, <3>2, <3>3 DEF ProtoInv, n
    <3> QED BY <2>3, <3>4 DEF StartInv, Accept
  <2>4. ASSUME NEW h \in Handler, Ask(h) \/ CloseConn(h) PROVE ProtoInv' /\ StartInv'
    <3>1. \A g \in Handler : conn'[g] # "none" => conn[g] # "none"
      BY <2>4 DEF Ask, CloseConn, RunInv, AskedInv
    <3> QED BY <2>4, <3>1 DEF ProtoInv, StartInv, Ask, CloseConn
  <2> QED BY <2>1, <2>2, <2>3, <2>4 DEF RunNext
<1> QED
  BY RunInductive, <1>1, <1>2, PTL DEF RunSpec

\* The state of a run has its type; what is opened is the beginning of the order,
\* and what a handler has asked the beginning of what is opened.
THEOREM RunTypes == RunSpec => []RunTypeOK
<1>1. ASSUME NEW s, NEW t, NEW S, s \in Seq(S), t \in Seq(S), Len(s) <= Len(t),
             \A i \in DOMAIN s : s[i] = t[i]
      PROVE  IsPrefix(s, t)
  BY <1>1 DEF IsPrefix
<1>2. RunInv /\ ProtoInv /\ StartInv => RunTypeOK
  <2> SUFFICES ASSUME RunInv, ProtoInv, StartInv PROVE RunTypeOK
    OBVIOUS
  <2>1. TypeOK
    BY OrderTypes DEF RunInv
  <2>2. out \in Seq(Plugin) /\ opened \in Seq(Plugin) /\ closed \in 0 .. Len(opened)
    BY DEF RunInv, OrderInv, Appended, OpenedInv
  <2>3. IsPrefix(opened, out)
    BY <1>1, <2>2 DEF RunInv, OpenedInv
  <2>4. \A h \in Handler : IsPrefix(asked[h], opened)
    BY <1>1, <2>2 DEF RunInv, AskedInv
  <2> QED
    BY <2>1, <2>2, <2>3, <2>4
    DEF RunTypeOK, RunInv, OpenedInv, AskedInv, ProtoInv, StartInv
<1> QED
  BY RunInductive, ServedInductive, <1>2, PTL

\* hytale/* negotiates the highest version that the client offers; without it
\* only configured protocols, or hytale/2 and hytale/1, are spoken.
THEOREM HighestIsSpoken == RunSpec => []HighestNegotiated
<1>1. ProtoInv => HighestNegotiated
  BY NegotiatedOk DEF ProtoInv, HighestNegotiated
<1> QED
  BY ServedInductive, <1>1, PTL
=============================================================================
