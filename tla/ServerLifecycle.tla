--------------------------- MODULE ServerLifecycle ---------------------------
(***************************************************************************)
(* One run of the router, from its configuration file to its exit:         *)
(* config.Load and Validate (internal/config/config.go), server.New and    *)
(* Run (internal/server/server.go), discovery.New and Start                *)
(* (internal/discovery/manager.go), LoadAll (internal/plugins/load.go) and *)
(* main.  PluginOrder's steps are the call of OrderPluginConfigs, Alpn is  *)
(* the handshake of a connection.                                          *)
(*                                                                         *)
(* A handler asks the plugins for one Connect; ConnectStream has the rest  *)
(* of what it does.                                                        *)
(***************************************************************************)
EXTENDS PluginOrder, Alpn

CONSTANTS
    Startups,    \* pairs of plugin constraints and the rest of a file
    Handler,     \* bound: connections that are accepted
    Trimmed,     \* of provider names with blanks around them: the name within
    NoErr

\* A provider of the discovery section.  `settings` are the selectors, the
\* address source and the interval, which only Validate looks at.
Provider == [name : STRING, type : {"kubernetes", "agones", "other"},
             sections : SUBSET {"kubernetes", "agones"}, settings : {"good", "bad"}]

\* `sound`: the listen address, certificate files, idle timeout, routes and
\* plugins are as Validate wants them.  `refs`: the providers pools refer to.
File == [sound : BOOLEAN, alpn : Seq(Entry), offer : Seq(Entry),
         providers : Seq(Provider), refs : SUBSET STRING,
         secret : {"none", "good", "bad"}]

\* What Run fails of.
Failures == {"config", "discovery", "secret", "tls", "provider", "cycle",
             "plugin", "listen", "accept"}

ASSUME NoErrAssumption == NoErr \notin Failures
ASSUME StartupsAssumption == Startups \subseteq Config \X File

VARIABLES
    file,        \* the configuration file, and what clients offer
    phase,       \* where main, New or Run is
    err,         \* what Run, or Load, returns
    ctxDone,     \* SIGINT or SIGTERM has come
    built,       \* names in the discovery manager
    started,     \* of these, the providers whose Start has returned nil
    opened,      \* plugins loaded, in the order they are called
    closed,      \* how many of them have been closed
    conn,        \* per handler: none, open or shut
    proto,       \* per handler: the negotiated protocol
    asked        \* per handler: plugins called so far

serving == <<conn, proto, asked>>
runVars == <<vars, file, phase, err, ctxDone, built, started, opened, closed, serving>>

NameOf(ps) == {ps[i].name : i \in DOMAIN ps}

\* Mutant: names may be used twice.
ProvidersNamed(ps) ==
    \A i \in DOMAIN ps :
        /\ ps[i].name # ""
        /\ ps[i].type \in ps[i].sections
        /\ ps[i].settings = "good"

\* DiscoveryConfig.Validate
ProvidersValid(ps) ==
    \A i \in DOMAIN ps :
        /\ ps[i].name # "" /\ ps[i].name \notin NameOf(SubSeq(ps, 1, i - 1))
        /\ ps[i].type \in ps[i].sections
        /\ ps[i].settings = "good"

\* Mutant: references to providers are only checked where there are none.
ValidRefsIfAny(f) ==
    /\ f.sound /\ f.alpn # <<>>
    /\ ProvidersValid(f.providers)
    /\ f.refs # {} => f.providers # <<>>

\* Config.Validate, with validateRoutingDiscoveryRefs.
Valid(f) ==
    /\ f.sound /\ f.alpn # <<>>
    /\ ProvidersValid(f.providers)
    /\ f.refs \subseteq NameOf(f.providers)

\* What Decide asks the manager for, by a pool's reference (resolveCandidates).
\* Valid compares the reference as it is written.
Wanted(ref) == IF ref \in DOMAIN Trimmed THEN Trimmed[ref] ELSE ref

\* The providers discovery.New makes an object of, before one it refuses.
Makes(ps) ==
    \A i \in DOMAIN ps :
        /\ ps[i].name # "" /\ ps[i].name \notin NameOf(SubSeq(ps, 1, i - 1))
        /\ ps[i].type \in ps[i].sections

RunInit ==
    /\ Init
    /\ \E s \in Startups : cfg = s[1] /\ file = s[2]
    /\ phase = "load" /\ err = NoErr /\ ctxDone = FALSE
    /\ built = {} /\ started = {} /\ opened = <<>> /\ closed = 0
    /\ conn = [h \in Handler |-> "none"]
    /\ proto = [h \in Handler |-> Refused]
    /\ asked = [h \in Handler |-> <<>>]

-----------------------------------------------------------------------------
(* Startup. *)

Cancel ==
    /\ phase # "exited" /\ ~ctxDone
    /\ ctxDone' = TRUE
    /\ UNCHANGED <<vars, file, phase, err, built, started, opened, closed, serving>>

LoadConfig ==
    /\ phase = "load"
    /\ IF Valid(file) THEN phase' = "new" /\ UNCHANGED err
       ELSE phase' = "returned" /\ err' = "config"
    /\ UNCHANGED <<vars, file, ctxDone, built, started, opened, closed, serving>>

\* server.New notes the first error; Run returns it.
NewServer ==
    /\ phase = "new"
    /\ built' = IF Makes(file.providers) THEN NameOf(file.providers) ELSE {}
    /\ err' = IF ~Makes(file.providers) THEN "discovery"
              ELSE IF file.secret = "bad" THEN "secret" ELSE NoErr
    /\ phase' = IF err' = NoErr THEN "tls" ELSE "returned"
    /\ UNCHANGED <<vars, file, ctxDone, started, opened, closed, serving>>

\* A step of Run that goes on, or has Run return an error; nothing is open.
Certificate ==
    /\ phase = "tls"
    /\ \/ phase' = "discovery" /\ UNCHANGED err
       \/ phase' = "returned" /\ err' = "tls"
    /\ UNCHANGED <<vars, file, ctxDone, built, started, opened, closed, serving>>

\* Mutant: the providers are started side by side, and not waited for.
StartUnawaited(n) ==
    /\ phase = "discovery" /\ n \in built \ started
    /\ phase' = "order"
    /\ started' = started \cup {n}
    /\ UNCHANGED <<vars, file, err, ctxDone, built, opened, closed, serving>>

\* The caches of a provider are synced.  Providers start in map order: any.
StartProvider(n) ==
    /\ phase = "discovery" /\ n \in built \ started
    /\ started' = started \cup {n}
    /\ UNCHANGED <<vars, file, phase, err, ctxDone, built, opened, closed, serving>>

\* No client can be made, or the caches were not synced when the context ended.
ProviderFails ==
    /\ phase = "discovery" /\ built # started
    /\ phase' = "returned" /\ err' = "provider"
    /\ UNCHANGED <<vars, file, ctxDone, built, started, opened, closed, serving>>

DiscoveryStarted ==
    /\ phase = "discovery" /\ built = started
    /\ phase' = "order"
    /\ UNCHANGED <<vars, file, err, ctxDone, built, started, opened, closed, serving>>

\* initPlugins calls OrderPluginConfigs.
Order ==
    /\ phase = "order" /\ Next
    /\ phase' = IF status' = "cycle" THEN "returned"
                ELSE IF status' = "ordered" THEN "plugins" ELSE "order"
    /\ err' = IF status' = "cycle" THEN "cycle" ELSE err
    /\ UNCHANGED <<file, ctxDone, built, started, opened, closed, serving>>

Loaded == Len(opened) = Len(out)

\* Mutant: plugins are opened in the order of the file.
LoadPluginUnordered ==
    /\ phase = "plugins" /\ ~Loaded
    /\ opened' = Append(opened, Len(opened) + 1)
    /\ UNCHANGED <<vars, file, phase, err, ctxDone, built, started, closed, serving>>

LoadPlugin ==
    /\ phase = "plugins" /\ ~Loaded
    /\ opened' = Append(opened, out[Len(opened) + 1])
    /\ UNCHANGED <<vars, file, phase, err, ctxDone, built, started, closed, serving>>

\* LoadAll returns nil: those loaded before stay open, and Run has no manager
\* to close.
PluginFails ==
    /\ phase = "plugins" /\ ~Loaded
    /\ phase' = "returned" /\ err' = "plugin"
    /\ UNCHANGED <<vars, file, ctxDone, built, started, opened, closed, serving>>

Listen ==
    /\ phase = "plugins" /\ Loaded
    /\ phase' = "accept"
    /\ UNCHANGED <<vars, file, err, ctxDone, built, started, opened, closed, serving>>

\* Mutant: the plugins are deferred to be closed after ListenAddr.
ListenFailsBeforeDefer ==
    /\ phase = "plugins" /\ Loaded
    /\ phase' = "returned" /\ err' = "listen"
    /\ UNCHANGED <<vars, file, ctxDone, built, started, opened, closed, serving>>

\* The deferred calls run: plugins.Close.
ListenFails ==
    /\ phase = "plugins" /\ Loaded
    /\ phase' = "close" /\ err' = "listen"
    /\ UNCHANGED <<vars, file, ctxDone, built, started, opened, closed, serving>>

-----------------------------------------------------------------------------
(* The accept loop, the handlers it starts, and the end. *)

\* A handshake succeeds, in the order in which Accept returns connections.
Accept(h) ==
    /\ phase = "accept" /\ conn[h] = "none"
    /\ Negotiated(file.alpn, file.offer) # Refused
    /\ conn' = [conn EXCEPT ![h] = "open"]
    /\ proto' = [proto EXCEPT ![h] = Negotiated(file.alpn, file.offer)]
    /\ UNCHANGED <<vars, file, phase, err, ctxDone, built, started, opened, closed, asked>>

\* Mutant: an error of Accept is never the end of the loop.
AcceptAgain == phase = "accept" /\ UNCHANGED runVars

\* An error of Accept ends the loop; it is Run's only if the context has not ended.
AcceptEnds ==
    /\ phase = "accept"
    /\ phase' = "close"
    /\ err' = IF ctxDone THEN NoErr ELSE "accept"
    /\ UNCHANGED <<vars, file, ctxDone, built, started, opened, closed, serving>>

\* Manager.Close, in the order of the calls, whatever handlers still do.
ClosePlugin ==
    /\ phase = "close" /\ closed < Len(opened)
    /\ closed' = closed + 1
    /\ UNCHANGED <<vars, file, phase, err, ctxDone, built, started, opened, serving>>

Return ==
    /\ phase = "close" /\ closed = Len(opened)
    /\ phase' = "returned"
    /\ UNCHANGED <<vars, file, err, ctxDone, built, started, opened, closed, serving>>

\* ApplyOnConnect calls the next plugin; a closed one, or one whose connection
\* has gone, answers with an error at most, which is skipped.
Ask(h) ==
    /\ phase # "exited" /\ conn[h] # "none" /\ Len(asked[h]) < Len(opened)
    /\ asked' = [asked EXCEPT ![h] = Append(@, opened[Len(@) + 1])]
    /\ UNCHANGED <<vars, file, phase, err, ctxDone, built, started, opened, closed, conn, proto>>

\* handleConn: CloseWithError(0, "shutdown").
CloseConn(h) ==
    /\ phase # "exited" /\ ctxDone /\ conn[h] = "open"
    /\ conn' = [conn EXCEPT ![h] = "shut"]
    /\ UNCHANGED <<vars, file, phase, err, ctxDone, built, started, opened, closed, proto, asked>>

\* main exits with Run: no handler is waited for.
Exit ==
    /\ phase = "returned"
    /\ phase' = "exited"
    /\ UNCHANGED <<vars, file, err, ctxDone, built, started, opened, closed, serving>>

\* What the goroutine of Run does by itself.  It waits in the accept loop, and
\* for the caches of its providers, until the context ends.
Step ==
    \/ LoadConfig \/ NewServer \/ Certificate
    \/ ctxDone /\ ProviderFails
    \/ DiscoveryStarted \/ Order \/ LoadPlugin \/ PluginFails \/ Listen \/ ListenFails
    \/ ctxDone /\ AcceptEnds
    \/ ClosePlugin \/ Return

RunNext ==
    \/ Step \/ Cancel \/ ProviderFails \/ AcceptEnds \/ Exit
    \/ \E n \in built : StartProvider(n)
    \/ \E h \in Handler : Accept(h) \/ Ask(h) \/ CloseConn(h)

RunSpec == RunInit /\ [][RunNext]_runVars

\* The goroutine runs on.
RunLiveSpec == RunSpec /\ WF_runVars(Step)

-----------------------------------------------------------------------------
Phases == {"load", "new", "tls", "discovery", "order", "plugins", "accept",
           "close", "returned", "exited"}

\* Plugins are opened in the order computed, and a handler asks them in it.
RunTypeOK ==
    /\ TypeOK
    /\ phase \in Phases /\ err \in Failures \cup {NoErr} /\ ctxDone \in BOOLEAN
    /\ started \subseteq built
    /\ IsPrefix(opened, out) /\ closed \in 0 .. Len(opened)
    /\ conn \in [Handler -> {"none", "open", "shut"}]
    /\ proto \in [Handler -> Proto \cup {Refused}]
    /\ \A h \in Handler : IsPrefix(asked[h], opened)

\* A plugin is asked about a client only after every plugin that the
\* configuration puts before it, by stage, after or before: from the file to
\* ApplyOnConnect, through the sort, the loading and the manager.
AskedInOrder ==
    \A h \in Handler : \A j \in DOMAIN asked[h], p \in Plugin :
        MustPrecede(p, asked[h][j]) => \E i \in 1 .. j - 1 : asked[h][i] = p

\* When Run has returned, every plugin it opened is closed, whichever step
\* failed; only LoadAll leaves those open that it loaded before a failure
\* (internal/plugins/load.go:19).
NothingLeftOpen ==
    phase \in {"returned", "exited"} /\ closed < Len(opened) => err = "plugin"

\* A client is accepted only by a server whose providers, all those of its
\* file, have synced caches, whose plugins are all loaded in an order that
\* leaves none out, and whose pools find their providers: Decide misses one only
\* where trimming changed the reference (discovery.go:25 against config.go:242).
ServesWhole ==
    (\E h \in Handler : conn[h] # "none") =>
        /\ started = NameOf(file.providers)
        /\ \A r \in file.refs : Wanted(r) \notin built => Wanted(r) # r
        /\ opened = out /\ Range(out) = Plugin

\* A file that Validate accepts is not refused by discovery.New, whose checks
\* are written a second time.
AcceptedIsBuilt == err # "discovery"

\* README.md:58: hytale/* picks the highest hytale/<n> that the client offers
\* (one that fits an int); otherwise only configured protocols are spoken.
HighestNegotiated ==
    \A h \in Handler : conn[h] # "none" =>
        /\ Offers(file.offer, proto[h])
        /\ IF AllowHytaleAny(file.alpn)
           THEN \A p \in Hytale :
                    Offers(file.offer, p) /\ Version[p] # Unparsed =>
                        /\ proto[h] \in Hytale /\ Version[proto[h]] # Unparsed
                        /\ Version[p] <= Version[proto[h]]
           ELSE proto[h] \in Range(StrictProtos(file.alpn))

\* Wherever Run is when the signal comes, it returns: out of the sort, a Start
\* that waits for its caches, the accept loop, or half-way through closing.
Returns == ctxDone ~> phase \in {"returned", "exited"}
=============================================================================
