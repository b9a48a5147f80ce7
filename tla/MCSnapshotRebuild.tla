------------------------- MODULE MCSnapshotRebuild -------------------------
(***************************************************************************)
(* Providers, objects and their histories for SnapshotRebuild.             *)
(***************************************************************************)
EXTENDS SnapshotRebuild

Nothing == [k \in {} |-> {}]
Port(name, port) == [name |-> name, port |-> port]
Want(name, number, container) ==
    [name |-> name, number |-> number, container |-> container]
Game == Want("game", 0, 0)

MCPod ==
    [ns |-> "n1", labels |-> [app |-> "x"], annotations |-> Nothing, ip |-> "ip1",
     phase |-> "running", ready |-> "True", ports |-> <<Port("web", 80), Port("game", 5520)>>,
     annotationWeight |-> 0, labelWeight |-> 0]
Unready == [MCPod EXCEPT !.ready = "False"]
Relabelled == [MCPod EXCEPT !.labels.app = "y"]
Drained == [MCPod EXCEPT !.annotations = [drain |-> "no"], !.annotationWeight = 2, !.labelWeight = 3]
MCPods ==
    {MCPod, Unready, Relabelled, Drained,
     [MCPod EXCEPT !.ready = None],
     [MCPod EXCEPT !.phase = "pending", !.ready = None], [MCPod EXCEPT !.ip = None],
     [MCPod EXCEPT !.ns = "n2"],
     [MCPod EXCEPT !.ports = <<Port("web", 80)>>]}

MCSlice ==
    [ns |-> "n1", labels |-> [app |-> "x"], annotations |-> Nothing, service |-> "svc",
     ports |-> <<Port("web", None), Port("game", 5520)>>,
     endpoints |-> {[ready |-> "True", addresses |-> {"ip1", "ip2"}],
                    [ready |-> "False", addresses |-> {"ip3"}]},
     annotationWeight |-> -1, labelWeight |-> 4]
EmptySlice == [MCSlice EXCEPT !.endpoints = {}]
MCSlices ==
    {MCSlice, EmptySlice,
     [MCSlice EXCEPT !.endpoints = {[ready |-> None, addresses |-> {"ip3"}],
                                    [ready |-> "False", addresses |-> {"ip1"}]}],
     [MCSlice EXCEPT !.ports = <<Port("web", 80), Port(None, 81)>>],
     [MCSlice EXCEPT !.ports = <<Port("game", None)>>],
     [MCSlice EXCEPT !.ports = <<Port("web", 0)>>],
     [MCSlice EXCEPT !.service = None], [MCSlice EXCEPT !.ns = "n2"],
     [MCSlice EXCEPT !.annotations = [drain |-> "no"]]}

Addr(type, address) == [type |-> type, address |-> address]
MCServer ==
    [ns |-> "n1", annotations |-> Nothing, state |-> "ready", address |-> "ip1",
     addresses |-> <<Addr("Internal", "ip2"), Addr("External", "ip3")>>,
     ports |-> <<Port("web", 80), Port("game", 7000)>>,
     annotationWeight |-> 0, labelWeight |-> 0]
Allocated == [MCServer EXCEPT !.state = "allocated"]
MCServers ==
    {MCServer, Allocated,
     [MCServer EXCEPT !.state = "shutdown", !.annotations = [drain |-> "no"]],
     [MCServer EXCEPT !.address = None, !.addresses = <<Addr(None, "ip2"), Addr("Host", None)>>],
     [MCServer EXCEPT !.addresses = <<Addr("External", "ip2"), Addr("External", "ip3")>>],
     [MCServer EXCEPT !.addresses = <<>>], [MCServer EXCEPT !.ports = <<Port("game", 0)>>],
     [MCServer EXCEPT !.ns = "n2"], [MCServer EXCEPT !.annotations = [drain |-> "no"]]}

MCObject == MCPods \cup MCSlices \cup MCServers

Resource(kind, ann, port, service) ==
    [kind |-> kind, labels |-> [app |-> {"x"}], annotations |-> ann, port |-> port,
     service |-> service]
Kubernetes(namespaces, resources, strict) ==
    [type |-> "kubernetes", namespaces |-> namespaces, resources |-> resources,
     podReady |-> strict, phases |-> IF strict THEN {"running"} ELSE {}, endpointReady |-> strict]
Svc(ns) == [name |-> "svc", ns |-> ns]
Drain == [drain |-> "no"]

Strict == Kubernetes(<<>>, <<Resource("pods", Nothing, Game, None)>>, TRUE)
\* Two resources list the store of pods, one after the other.
Torn == Kubernetes(<<>>, <<Resource("pods", Drain, Want("game", 4, 0), None),
                           [Resource("pods", Nothing, Game, None) EXCEPT !.labels.app = {"y"}]>>, TRUE)
PodProviders ==
    {Strict, Torn, Kubernetes(<<"n1">>, <<Resource("pods", Nothing, Want(None, 0, 25565), None)>>, FALSE)}
SliceProviders ==
    {Kubernetes(<<"n1", "n2">>, <<Resource("slices", Nothing, Game, Svc(None))>>, TRUE),
     Kubernetes(<<"n1">>, <<Resource("slices", Drain, Want(None, 0, 0), Svc("n2")),
                            Resource("slices", Nothing, Want("none", 0, 0), None)>>, FALSE)}
MixedProvider ==
    Kubernetes(<<>>, <<Resource("slices", Nothing, Game, None),
                       Resource("pods", Nothing, Game, None),
                       Resource("nodes", Nothing, Game, None)>>, TRUE)

Agones(namespaces, states, ann, address, port) ==
    [type |-> "agones", namespaces |-> namespaces, states |-> states, annotations |-> ann,
     address |-> address, port |-> port]
Address(source, preference) == [source |-> source, preference |-> preference]
Observer == Agones({}, {}, Nothing, Address(None, <<>>), Game)
AgonesProviders ==
    {Observer,
     Agones({"n1"}, {"ready", "allocated"}, Nothing, Address(None, <<"External", "Host">>), Game),
     Agones({}, {"ready", "shutdown"}, Drain, Address("addresses", <<>>), Want(None, 0, 0)),
     Agones({}, {}, Nothing, Address("address", <<"External">>), Want("none", 9, 0)),
     Agones({}, {}, Nothing, Address("addresses", <<"Host", "Internal">>), Want("web", -1, 0))}

\* An object comes, and changes into another or goes.
Comes(objects) == {<<{x}>> : x \in objects}
Changes(from, into) == {<<{x}, {y}>> : x \in from, y \in into} \cup {<<{x}, {}>> : x \in from}

Idle == [src \in Source |-> <<>>]
With(providers, src, histories) ==
    {[provider |-> p, history |-> [Idle EXCEPT ![src] = h]] : p \in providers, h \in histories}

MCScenario ==
    With(PodProviders, "pods", Comes(MCPods))
    \cup With({Strict}, "pods", Changes({MCPod}, {Unready}))
    \cup With({Torn}, "pods", Changes({Drained}, {Relabelled}) \cup Changes({Relabelled}, {Drained}))
    \cup With(SliceProviders, "slices", Comes(MCSlices))
    \cup With(AgonesProviders, "servers", Comes(MCServers))
    \cup With({Observer}, "servers", Changes({MCServer}, {Allocated}) \cup Changes({Allocated}, {MCServer}))
    \cup {[provider |-> MixedProvider,
           history |-> [Idle EXCEPT !["pods"] = <<{MCPod}, {}>>,
                                    !["slices"] = <<{MCSlice}, {EmptySlice}>>]]}
=============================================================================
