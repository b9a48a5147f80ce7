-------------------------- MODULE ClusterBackends --------------------------
(***************************************************************************)
(* Which objects of a cluster become backends, with which address, port    *)
(* and weight: the bodies of rebuild and their helpers in                  *)
(* internal/discovery/kubernetes.go and agones.go.                         *)
(*                                                                         *)
(* A provider lists its informers' stores once per resource and namespace; *)
(* one such listing is [source, ns, resource].  Text is compared after     *)
(* trimming, and without case where the code ignores case.  Labels and     *)
(* annotations are functions from the keys that are set.  A weight is the  *)
(* number a label or annotation reads as, 0 if it is none.  Metadata other *)
(* than the weight is left out.                                            *)
(***************************************************************************)
EXTENDS Integers, Sequences, SequencesExt

CONSTANTS
    None,         \* an empty text, or a reference, condition or port not set
    AllNamespaces \* metav1.NamespaceAll

ASSUME NoneAssumption == None \notin Int

-----------------------------------------------------------------------------
(* The shape of objects and of a configuration. *)

IsList(s) == s \in Seq(Range(s))

\* A port is a number, which is 0 if it is not set, or for slices a reference.
IsObject(src, o) ==
    /\ IsList(o.ports)
    /\ \A i \in DOMAIN o.ports :
           o.ports[i].port \in IF src = "slices" THEN Int \cup {None} ELSE Int
    /\ o.annotationWeight \in Int /\ o.labelWeight \in Int
    /\ src = "servers" => IsList(o.addresses)

WantedPort(p, l) == IF l.source = "servers" THEN p.port ELSE l.resource.port

\* The numbers of a configuration are not checked, only typed.
IsListing(p, l) ==
    /\ WantedPort(p, l).number \in Int
    /\ l.source = "pods" => WantedPort(p, l).container \in Int
    /\ l.source = "servers" => IsList(p.address.preference)

-----------------------------------------------------------------------------
(* Selectors. *)

\* labels.Selector: for each key the values it admits.
LabelsMatch(labels, sel) ==
    \A k \in DOMAIN sel : k \in DOMAIN labels /\ labels[k] \in sel[k]

\* Every pair key=value of the expression; validation leaves no empty value.
AnnotationsMatch(annotations, pairs) ==
    \A k \in DOMAIN pairs : k \in DOMAIN annotations /\ annotations[k] = pairs[k]

InNamespace(o, ns) == ns = AllNamespaces \/ o.ns = ns

\* hyrouter/weight, the annotation before the label.
Weight(o) ==
    IF o.annotationWeight > 0 THEN o.annotationWeight
    ELSE IF o.labelWeight > 0 THEN o.labelWeight ELSE 0

\* The first port of those that pass a test, by their indices.
FirstPort(ports, passing) == IF passing = {} THEN None ELSE ports[Min(passing)].port

-----------------------------------------------------------------------------
(* Pods. *)

\* Mutant: a pod that has not reported whether it is ready counts as ready.
PodNotUnready(pod) == pod.ready # "False"

PodReady(pod) == pod.ready = "True"

PodAllowed(pod, p, r) ==
    /\ pod.ip # None
    /\ p.phases # {} => pod.phase \in p.phases
    /\ p.podReady => PodReady(pod)
    /\ AnnotationsMatch(pod.annotations, r.annotations)

PodPort(pod, want) ==
    IF want.container > 0 THEN want.container
    ELSE IF want.number > 0 THEN want.number
    ELSE IF want.name = None THEN None
    ELSE FirstPort(pod.ports, {i \in DOMAIN pod.ports :
                                  pod.ports[i].name = want.name /\ pod.ports[i].port > 0})

PodBackends(p, l, pods) ==
    {[host |-> pod.ip, port |-> PodPort(pod, l.resource.port), weight |-> Weight(pod)] :
        pod \in {o \in pods :
            /\ InNamespace(o, l.ns) /\ LabelsMatch(o.labels, l.resource.labels)
            /\ PodAllowed(o, p, l.resource)
            /\ PodPort(o, l.resource.port) # None}}

-----------------------------------------------------------------------------
(* Endpoint slices. *)

\* Mutant: a name that no port of the slice has is an error.
SlicePortByName(slice, want) ==
    IF want.number > 0 THEN want.number
    ELSE FirstPort(slice.ports, {i \in DOMAIN slice.ports :
                                    /\ slice.ports[i].port # None
                                    /\ want.name = None \/ slice.ports[i].name = want.name})

\* A named port that the slice does not have gives way to its first port.
SlicePort(slice, want) ==
    LET given == {i \in DOMAIN slice.ports : slice.ports[i].port # None}
        named == {i \in given : want.name # None /\ slice.ports[i].name = want.name}
    IN  IF want.number > 0 THEN want.number
        ELSE FirstPort(slice.ports, IF named # {} THEN named ELSE given)

EndpointAllowed(ep, p) == p.endpointReady => ep.ready # "False"

SliceBackends(p, l, slices) ==
    UNION {{[host |-> addr, port |-> SlicePort(slice, l.resource.port), weight |-> Weight(slice)] :
                addr \in UNION {ep.addresses : ep \in {e \in slice.endpoints : EndpointAllowed(e, p)}}} :
        slice \in {o \in slices :
            /\ InNamespace(o, l.ns) /\ LabelsMatch(o.labels, l.resource.labels)
            /\ AnnotationsMatch(o.annotations, l.resource.annotations)
            /\ l.resource.service # None => o.service = l.resource.service.name
            /\ SlicePort(o, l.resource.port) # None}}

-----------------------------------------------------------------------------
(* Game servers. *)

States(p) == IF p.states = {} THEN {"ready"} ELSE p.states

\* Mutant: a server that shuts down is left to the configured states.
StateListed(gs, p) == gs.state \in States(p)

StateAllowed(gs, p) == gs.state # "shutdown" /\ gs.state \in States(p)

\* The entries of status.addresses that have a type and an address.
Typed(addrs) == {i \in DOMAIN addrs : addrs[i].type # None /\ addrs[i].address # None}

OfType(addrs, t) == {i \in Typed(addrs) : addrs[i].type = t}

\* The first preferred type that is listed, else the first type listed.
TypeTaken(addrs, preference) ==
    LET found == {k \in DOMAIN preference : OfType(addrs, preference[k]) # {}}
    IN  IF found # {} THEN preference[Min(found)] ELSE addrs[Min(Typed(addrs))].type

\* The address of that type, of the last entry where several have it, else
\* status.address.
GameServerAddress(gs, want) ==
    LET addrs == gs.addresses
    IN  IF \/ want.source = "address"
           \/ want.source = None /\ want.preference = <<>>
           \/ Typed(addrs) = {}
        THEN gs.address
        ELSE addrs[Max(OfType(addrs, TypeTaken(addrs, want.preference)))].address

GameServerPort(gs, want) ==
    IF want.number > 0 THEN want.number
    ELSE FirstPort(gs.ports, {i \in DOMAIN gs.ports :
                                 /\ want.name = None \/ gs.ports[i].name = want.name
                                 /\ gs.ports[i].port > 0})

GameServerBackends(p, servers) ==
    {[host |-> GameServerAddress(gs, p.address), port |-> GameServerPort(gs, p.port),
      weight |-> Weight(gs)] :
        gs \in {o \in servers :
            /\ p.namespaces # {} => o.ns \in p.namespaces
            /\ AnnotationsMatch(o.annotations, p.annotations)
            /\ StateAllowed(o, p)
            /\ GameServerAddress(o, p.address) # None
            /\ GameServerPort(o, p.port) # None}}

-----------------------------------------------------------------------------
\* The informers that a provider starts.
Informers(p) == IF p.type = "agones" THEN {"servers"} ELSE {"pods", "slices"}

\* The listings of a resource, one per namespace; a service names its own.
ResourceListings(p, r) ==
    LET everywhere == IF p.namespaces = <<>> THEN <<AllNamespaces>> ELSE p.namespaces
        spaces == IF r.kind = "slices" /\ r.service # None /\ r.service.ns # None
                  THEN <<r.service.ns>> ELSE everywhere
    IN  IF r.kind \in {"pods", "slices"}
        THEN [i \in DOMAIN spaces |-> [source |-> r.kind, ns |-> spaces[i], resource |-> r]]
        ELSE <<>>

\* The listings of a rebuild, in their order.
Listings(p) ==
    IF p.type = "agones" THEN <<[source |-> "servers"]>>
    ELSE FlattenSeq([i \in DOMAIN p.resources |-> ResourceListings(p, p.resources[i])])

\* What a rebuild takes from a listing of these objects.
Backends(p, l, objects) ==
    CASE l.source = "pods" -> PodBackends(p, l, objects)
      [] l.source = "slices" -> SliceBackends(p, l, objects)
      [] l.source = "servers" -> GameServerBackends(p, objects)
=============================================================================
