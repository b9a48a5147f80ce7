------------------------- MODULE MCServerLifecycle -------------------------
(* Files for ServerLifecycle.  Constraints between three plugins: after     *)
(* lists of at most one name and one before list, which repeat, contradict  *)
(* or complete each other.                                                  *)
EXTENDS ServerLifecycle

Together == [p \in Plugin |-> "route"]
Apart == [p \in Plugin |-> IF p = 1 THEN "mutate" ELSE IF p = 2 THEN "deny" ELSE "route"]
TwoOne == [p \in Plugin |-> IF p = 2 THEN "deny" ELSE "mutate"]

Lists == { {} } \cup {{p} : p \in Plugin}

Constraints(stages, beforeLists) ==
    { [stage |-> s, before |-> [p \in Plugin |-> IF p = x THEN b ELSE {}], after |-> l] :
        s \in stages, x \in Plugin, b \in beforeLists, l \in [Plugin -> Lists] }

MCConfig == Constraints({Together}, {{}, {1}, {2}, Plugin}) \cup Constraints({Apart, TwoOne}, {{3}})

OneConfig == [stage |-> TwoOne, before |-> [p \in Plugin |-> {}],
              after |-> [p \in Plugin |-> IF p = 1 THEN {3} ELSE {}]]

-----------------------------------------------------------------------------
(* "hytale/huge" stands for a number beyond an int.  As strings, hytale/10   *)
(* comes before hytale/2, and hytale/02 before both.                         *)
MCHytale == {"hytale/*", "hytale/02", "hytale/1", "hytale/10", "hytale/2", "hytale/huge"}
MCProto == MCHytale \cup {"h3"}
MCVersion ==
    [p \in MCHytale |->
        CASE p = "hytale/1" -> 1
          [] p \in {"hytale/02", "hytale/2"} -> 2
          [] p = "hytale/10" -> 10
          [] OTHER -> Unparsed]
MCText ==
    [p \in MCProto |->
        CASE p = "h3" -> 0
          [] p = "hytale/*" -> 1
          [] p = "hytale/02" -> 2
          [] p = "hytale/1" -> 3
          [] p = "hytale/10" -> 4
          [] p = "hytale/2" -> 5
          [] OTHER -> 6]

Exact(p) == [proto |-> p, padded |-> FALSE]
Padded(p) == [proto |-> p, padded |-> TRUE]

Alpns ==
    { <<Exact("hytale/*")>>, <<Padded("hytale/*"), Exact("h3")>>,
      <<Exact("hytale/2")>>, <<Exact("hytale/1"), Padded("hytale/2")>>,
      <<Padded(Blank)>>, <<>> }

OfferLists ==
    { <<x, y, z>> : x, y \in {Exact(p) : p \in MCProto \ {"hytale/*"}},
                    z \in {Exact("h3"), Padded("hytale/10"), Exact("hytale/1")} }

-----------------------------------------------------------------------------
BaseFile ==
    [sound |-> TRUE, alpn |-> <<Exact("hytale/*")>>,
     offer |-> <<Exact("hytale/1"), Exact("hytale/2")>>,
     providers |-> <<>>, refs |-> {}, secret |-> "none"]

Entries ==
    { [name |-> n, type |-> t, sections |-> s, settings |-> x] :
        n \in {"", "k8s", "ago"}, t \in {"kubernetes", "agones", "other"},
        s \in {{"kubernetes"}, {"kubernetes", "agones"}}, x \in {"good", "bad"} }

GoodEntry == [name |-> "k8s", type |-> "kubernetes",
              sections |-> {"kubernetes"}, settings |-> "good"]

\* A name with a blank before it, and the references to it.
MCTrimmed == [n \in {" k8s"} |-> "k8s"]
BlankEntry == [GoodEntry EXCEPT !.name = " k8s"]

ProviderLists == {<<>>} \cup {<<e>> : e \in Entries} \cup {<<GoodEntry, e>> : e \in Entries}

Files ==
    { [BaseFile EXCEPT !.alpn = l, !.offer = o] : l \in Alpns, o \in OfferLists } \cup
    { [BaseFile EXCEPT !.providers = l, !.refs = r, !.secret = k] :
        l \in ProviderLists, r \in SUBSET {"k8s", "ago"}, k \in {"none", "good", "bad"} } \cup
    { [BaseFile EXCEPT !.providers = l, !.refs = r] :
        l \in {<<BlankEntry>>, <<GoodEntry>>, <<GoodEntry, BlankEntry>>},
        r \in SUBSET {"k8s", " k8s"} } \cup
    { [BaseFile EXCEPT !.sound = FALSE] }

MCStartups == (MCConfig \X {BaseFile}) \cup ({OneConfig} \X Files)
MCConfigs == MCConfig \cup {OneConfig}
=============================================================================
