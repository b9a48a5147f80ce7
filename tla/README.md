# A TLA+ model of Hyrouter

Hyrouter is a QUIC entry point for Hytale clients. It terminates TLS, reads the
client's `Connect` packet, chooses a backend by SNI, lets plugins change the
choice, and answers with a `ClientReferral` (or a `Disconnect`). It never
proxies. These modules model the parts of it that are concurrent, that keep
state, or whose result is hard to get right, and say what holds of them.

## The system's parts

| part | state | operations | talks to |
| --- | --- | --- | --- |
| Server (`internal/server/server.go`) | the listener, the plugin and discovery managers, one goroutine per connection | `New`, `Run`, `handleConn`, shutdown by context | starts discovery and plugins; accepts connections |
| Connect streams (`streams.go`) | per stream, in locals of `dumpFrames`: bytes read, `decision`, `routeErr`, `referralSent`, `referralContent` | accept, read frames, route, call plugins, refer, disconnect | engine, plugin chain, envelope, codec |
| Packet codec (`hytale_codec.go`) | none | frame, encode, decode | streams |
| TLS and ALPN (`tls.go`) | none after start | choose `hytale/N` | QUIC |
| Routing engine (`internal/routing`) | a round-robin counter per route, a random generator, the configuration (read only) | `Decide`: match, resolve, filter, sort, limit, pick, fall back | discovery by callback |
| Discovery manager (`internal/discovery/manager.go`) | providers by name | `New`, `Start`, `Resolve` | providers |
| Kubernetes and Agones providers | informer caches, an atomic snapshot, `rebuildMu`; Agones: `nextAllocate` under `allocateMu` | informer handlers, a 30 s ticker, `rebuild`, `Resolve`, `allocate` | the Kubernetes API |
| Plugin chain (`internal/plugins/manager.go`) | the result handed from plugin to plugin | `ApplyOnConnect`, `Close` | gRPC and WebAssembly plugins |
| WebAssembly plugin (`wasm_plugin.go`) | one module instance and its memory, for all streams | `OnConnect` | the module |
| Plugin order and loading (`order.go`, `load.go`) | none | topological sort per stage, load one by one | configuration |
| Referral envelope (`internal/referral`) | none | encode, sign, parse, verify | streams; backends |
| Configuration (`internal/config`), command line (`cmd/hyrouter`) | none after start | load, validate, run | everything |

A client opens any number of streams on a connection; each has a goroutine in
`dumpFrames`. All of them share the engine's counters, the plugins and the
providers. `PROJECT.json` lists for each part how far it is modelled.

## What is hard here

- A frame may come in any number of pieces, or with the next one, or with the
  error that ends its stream.
- A stream is not finished by its first answer: after a referral `dumpFrames`
  goes on reading, keeps its locals, and a second `Connect` is routed and given
  to the plugins again.
- Plugins may time out, fail, deny, and contradict each other about
  candidates, index and backend. A WebAssembly call is not ended by its timeout,
  and overlapping calls share the module's memory.
- `Decide` runs concurrently on slices that belong to the configuration, and
  the lists it sorts in place begin as those slices. Its fallbacks inherit what
  they do not set.
- Handlers of several informers, `Start` and a ticker rebuild one snapshot, from
  several listings of stores that change meanwhile.
- Callers of the Agones throttle take slots, wait, are cancelled and wake late.
- Every step of `Run` may fail, and a signal may come, when others have opened
  providers and plugins; shutdown meets connections in the middle of their work.

What would make each part correct: the frames handled are those sent, none is
left waiting; a stream's client gets one verdict, for a cause, and eventually; a
decision is the best eligible candidate and fallbacks come only when needed;
plugins are asked in the order their constraints ask for; a change that a
handler has processed is visible from then on, and no client is sent to a server
that has left; requests to the allocator keep their interval; every handler and
`Run` itself ends, and closes what it opened.

## Modules

**`PluginChain`** is one iteration of `ApplyOnConnect` as a function of the
result so far and a plugin's reply: `Replace`, `Pick`, `Override`, `Repair`,
`Attach` are its five `if`s in order.

**`ConnectStream`** is one connection with its streams. `pc[s]` is where the
goroutine of stream `s` stands (`new`, `read`, `decide`, `plugin`, `answer`,
`done`); the locals of `dumpFrames` are per-stream functions of the same names;
`out` and `closed` are what the client sees. A frame is its kind: a `Connect`,
a `Connect` that does not decode, another packet, an impossible length. The engine and the
plugins are sets of possible outcomes. `End` is the code's "encode, write,
close, return", `Silent` is every path that writes nothing. The client may stop
a stream, leave, or stay; the server may shut down.

**`Verdict`** is the promise to a client: at most one referral or rejection per
stream, after a referral only a deny, nothing after the end. `ConnectStream`
implements it under the mapping `Promise`.

**`FrameReader`** is the loop of `dumpFrames` under `ConnectStream`'s inbox: a
`Read` of any length appends to `pending`, `Handle` takes complete frames off
its front, `Invalid` and `ReadFails` return. The bytes are real, with a base and
two bytes per number instead of four: the length is decoded from them, negative
lengths included. `sent`, `wire` and `ends` are the client's side. A read may
return bytes and an error at once, as `io.Reader` allows.

**`FrameQueue`** is what that reader promises: a queue of frames, taken in order,
refused at an impossible one, and left only when empty, broken, or by a handler.
`FrameReader` implements it, and `ConnectStream`'s inbox is such a queue.

**`WasmCall`** is `wasmPlugin.OnConnect` called by several streams on one
instance: allocate, write, call, read, each a step. The module is external and
keeps to the documented interface.

**`AllocateThrottle`** is `allocate` with `reserveAllocateSlot` (one step,
because `allocateMu` is held throughout): callers take slots, wait for their
timers, are cancelled, and send requests. Time is a natural number and may run
ahead of a waiting caller, so timers fire late. Tickets number the reservations
and exist only to state the rate.

**`ClusterBackends`** is what `rebuild` makes of the objects a lister returns:
namespaces, selectors, readiness, phases and states, ports, addresses and
weights, for pods, endpoint slices and game servers; and the listings of a
rebuild, one per resource and namespace. Texts are compared after trimming and
lower-casing. Metadata other than the weight is left out.

**`SnapshotRebuild`** is `Start`, `rebuild` and their callers in both providers,
on top of `ClusterBackends`. A scenario is a provider's configuration and, for
each store, what it holds after each change. Locking, every single listing, and
publishing are separate steps, so a rebuild may see two listings of one store at
different versions. The snapshot is the versions it was built from; `Resolve`
says which backends those are. Kubernetes has two informers, Agones one.
Stopping of informers at shutdown is left out.

**`Selection`** is the pure part of routing: merge and dedupe, filters, sort,
limit, the five strategies as sets of possible picks. The stable sort is written
as the insertion sort that `sort.SliceStable` is up to 20 elements, because with
NaN the comparison is no order and only the algorithm says what comes out.
Sums of weights wrap around at `MaxInt`.

**`PoolValidation`** is `Config.Validate` of the routing section, as the
condition under which the router starts with a configuration. It checks a pool
and its fallbacks one by one; whether they fit together is a property of
`RoutingEngine`.

**`RoutingEngine`** is `Decide`, called by several streams at once, in the steps
match, resolve, filter, sort and limit, pick. `cfg` is a variable: it holds the
backing arrays, and `aliased` says whether a call's list lies in one. It starts from every
configuration of a family that validation accepts. One pass of the filters reads
the clock once; the code reads it for each backend, and what passes at a later
reading would have passed at the earlier one. Only the configurations named
`Crowded` get all the calls; the others get one.

**`PluginOrder`** is `OrderPluginConfigs`: the stages in turn, and in each the
loop that places the first plugin without unplaced predecessors. An edge carries
the list (`before` or `after`) it comes from, because the code counts a
constraint stated on both sides twice and takes it back twice.

**`Alpn`** is the choice of a protocol: the configured list, the offered one, the
order of versions, and what crypto/tls picks from the result. A protocol has its
version and its place among strings. Of the list that `sort.Slice` makes, only
the first protocol that the client offers matters, so the sort is written as the
choice of it.

**`ServerLifecycle`** extends both. It is one run of the router: `Load` and
`Validate`, `New`, the certificate, `Start` of the providers in any order, the
sort (the steps of `PluginOrder`), `LoadAll`, the listener, the accept loop, the
deferred `Close`, and the exit; any step that can fail may. A handler asks the
plugins for one `Connect`, and may still do so when `Run` closes them: `Run` waits
for no handler. A file is what `Validate` and `New` look at. `Wanted` is the name
that `Decide` later asks the manager for: a pool's reference without the blanks
around it.

`MCConnectStream`, `MCFrameReader`, `MCSnapshotRebuild`, `MCRoutingEngine` and
`MCServerLifecycle` give the constants finite values; the other two are small
enough for their `.cfg` alone. Definitions under a `Mutant:` comment are plausible
bugs, each used to show that a property can fail.

## Runs

| run | instance | shows |
| --- | --- | --- |
| `stream_chain` | one stream, two Connects among other frames, a gRPC and a WebAssembly plugin with every combination of reply fields, unencodable hosts, oversize reasons and envelopes | `AnswerShape`, `RejectedForCause`, `ImplementsVerdict` |
| `stream_live` | a bidirectional and a unidirectional stream, a gRPC plugin, unencodable hosts, oversize envelopes, empty and oversize reasons | `ConnectAnswered`, `HandlersStop` |
| `wire` | two frames out of five (empty, short, longest, too long, negative), a buffer of five bytes, broken off anywhere | `FramesAsSent`, `NothingWithheld`, `ImplementsQueue`, `FrameHandled` |
| `throttle` | 3 callers, 3 calls, interval 2 | `SlotsApart`, `RateBound`, `EveryCallEnds` |
| `snapshot` | up to two stores with up to two changes each, 11 providers over 27 objects, all workers | `HandledIsVisible`, `ServesWhatWasSynced`, `SnapshotMonotone`, `OutOfServiceIsLeft`, `InServiceIsServed`, `CatchesUp` |
| `engine` | one call over every strategy, sort, limit, filter, fallback and merge mode of small pools; 3 concurrent calls over two overlapping routes, a default and fallbacks | `FallbackOrder`, `LimitKeepsBest`, `WeightedShares`, `DiscoveredWins`, `KeyMissingOnlyByFallback`, `RoundRobinEven`, `ConfigImmutable`, `Decided` |
| `lifecycle` | 3 plugins under all constraint sets of a family, provider sections of up to two entries, ALPN lists and offers | `OrderRespected`, `RefusedForCycle`, `AskedInOrder`, `NothingLeftOpen`, `ServesWhole`, `AcceptedIsBuilt`, `HighestNegotiated`, `Returns` |

Each of them also checks its module's type invariant, except `stream_live`, which
shares `stream_chain`'s.

Five runs end in a violation, each of a sentence in the documents or comments:

| run | sentence | what the code does |
| --- | --- | --- |
| `stream_oneanswer` | docs/architecture.md:40 "sends `ClientReferral` ... and closes the stream" | the stream stays open; a second Connect is handled and may be denied |
| `stream_wasm` | docs/troubleshooting.md:33 "Each plugin call runs with a fixed timeout" | a WebAssembly call is not interrupted |
| `stream_stale` | docs/plugin-development.md:30 "`backend` - the selected backend" | after a failed routing it is the previous Connect's |
| `stream_index` | docs/plugin-development.md:29 "`selected_index` - index chosen by Hyrouter" | replaced candidates leave an index outside the list |
| `stream_wasm_overlap` | docs/plugin-development.md:85 "Hyrouter will read `resp_len` bytes from module memory starting at `resp_ptr`" | another stream's call may have put its own response there before the read |

### Bounds

Two Connects suffice for a stream: all that one Connect leaves to the next is
`decision`, `routeErr`, `referralSent` and the content, and the second meets
every combination of them. Two plugins suffice for the chain because its state
is the result handed on; the second starts from every result the first can
make. Two frames and a broken-off third meet in one read, and a buffer of five
bytes is longer than a header and shorter than a frame. Three callers of the
throttle allow one to be waiting, one cancelled and
one creating at once; `MaxNow` lies beyond the last slot that can be given.
Two changes per store let one rebuild be overtaken by another that saw more, and
let an object leave, or turn from one resource's into another's, between the
listings of one rebuild. Which objects are eligible is settled object by object,
so one or two of them at a time are enough.
Lists of three candidates have a first, a last and one between, ties included.
With `MaxInt = 7` weights overflow to a negative sum, to zero and past the
wrap. With two candidates and three calls the round-robin counter wraps. Three plugins
make circles of one, two and three, chains, and constraints across stages. Two
provider entries are a duplicate, a good one before a bad one, or both good. One
handler suffices in `lifecycle`: handlers share nothing there but the plugins.

`KeyMissingOnlyByFallback` leaves one way for an accepted configuration to fail
for want of a key, which the code has: a fallback that sets an empty key and no
strategy passes `validateFallback` (validate.go:180-193) and replaces the pool's
key in `mergeFallback`. In the same way `WeightedShares` leaves overflow, which no
limit on a weight rules out, `ServesWhole` leaves a provider whose name has blanks
around it (`Validate` compares a pool's reference to it as written, config.go:242,
and `Decide` trims it, discovery.go:25: the file is accepted, and the provider
never found), and `NothingLeftOpen` leaves the plugins that
`LoadAll` had opened before one failed (load.go:19).

### Fairness

Goroutines of Go run when they can: weak fairness of each handler's own steps,
of the reader, of some call of `Decide` while one can go on, of `Run`'s own steps, of
informers' handlers and of timers. `rebuildMu` is
granted with strong fairness because `sync.Mutex` hands the lock to a waiter
that has been passed over. gRPC calls end by their timeout, hence weak fairness of
`PluginTimesOut`; nothing is assumed of WebAssembly calls, of the client, of
the 30 s ticker or of the cluster. `ConnectAnswered` and `HandlersStop`
therefore speak of gRPC plugins only; `stream_wasm` shows why.
`ConnectAnswered` excuses one silence, that of an answer that cannot be built
(`Unsendable`): a host that no referral can carry, a reason too long for a
Disconnect, or one that renders empty. Content that does not fit an envelope is
no excuse. Denies that fit no Disconnect are in `stream_chain` only. `FrameHandled`
assumes that QUIC delivers what was sent or ends the stream. `Returns` assumes
nothing of the cluster: a `Start` whose caches never sync is left when the
context ends, and so is the accept loop.

`CHECK_DEADLOCK` is off throughout: handlers return, callers finish, `main`
exits, and then nothing is left to do.

## Proofs

Proved with TLAPS for every value of the constants, under the named assumptions
of each module (typing, bounds that are natural numbers, lists
numbered from 1, frames with the payload their header announces, distinct names
for distinct things, and a positive `Interval`).

- `ConnectStream_proofs`: `TypeCorrect`, `AnswersAreShaped`,
  `RejectionsHaveCause`, `StreamsImplementVerdict`. `AnswerShape` is inductive
  with the types. `RejectedForCause` needs `CauseInv`: while a Connect is being
  answered, the chain's backend is missing only if nothing was there to take,
  and a result without an applicable plugin is the decision's own. The
  refinement follows from `AnswerShape`: each handler step that writes is
  `Refer`, `Reject` or `Deny`, and the others stutter.
- `FrameReader_proofs`: `TypeCorrect`, `PrefixHandled`, `NoFrameWaits`,
  `Implements`. `Inv` says where each frame lies in the stream (`Layout`,
  `Rest`), that the buffer is the stream from the end of the last frame handled
  to the last byte received (`Buffered`), that the reader waits only on an
  incomplete frame (`AtRest`), and that the frames handled are those sent
  (`Copied`). `NextFrame` is the heart: the buffer's header is that of the next
  frame sent, so its length is too. `QueueStep` maps every step to one of
  `FrameQueue` or to a stutter.
- `AllocateThrottle_proofs`: `TypeCorrect`, `SlotsStayApart`, `RateIsBounded`.
  `SlotInv` says that the k-th ticket's slot is at least (k-1) intervals
  after the start and that later tickets have later slots; the rate follows by
  counting the tickets whose floor is not after `now`.
- `SnapshotRebuild_proofs`: `TypeCorrect`, `HandledChangesAreVisible`,
  `ServingIsBuilt`, `SnapshotsNeverGoBack`, `OutOfServiceIsGone`,
  `InServiceStaysServed`, for every provider and history.
  `SnapInv` adds mutual exclusion
  (only the holder of `rebuildMu` lists) and freshness (what the holder has
  listed is no older than what is published, than what the handler that called
  it was told, and than what `Start` saw synced), listing by listing. The last
  two theorems are about objects: `ListedIsRecent` says that what is published
  of a listing is a version the store has had since the property looks back,
  and `TakenIsSaid` and `SaidIsTaken` that a provider takes of such a version
  just what is in service, with a port (`PodPortOk`, `SlicePortOk`,
  `GameServerPortOk`), an address (`AddressOk`, `TypeTakenOk`) and a weight
  (`WeightOk`) of the object's own.
- `SelectionLemmas` is what the engine's proofs need of `Selection`. The loops
  of `Decide` over a list are folds in the model, and a fold has a run: one
  value per element (`FoldExists`, `FoldValues`). Induction along the run
  (`Induction`, `Along`) gives what filter, sort, sum and dedupe do to a list of
  any length: filtering keeps just the elements that pass, in their places
  (`FilterKeeps`), the insertion sort arranges them (`SortArranges`, given that
  no key is a NaN), and what the limit leaves is the best of them
  (`ChosenAreBest`).
- `RoutingEngine_proofs`: `ConfigsStay`, from the fact that no list that is
  sorted lies in the configuration (`OwnLists`); and with it `KeysAreThere`.
  `KeyInv` keeps every matched pool a validated one and every attempt within its
  fallbacks; `KeyFields` then goes through what pool and fallback may each set.
  `EngineInv` says, phase by phase (`PhaseOk`), where a call's candidates come
  from: `Fetched` is a list nothing of which passed an earlier attempt, and at no
  later time will (`StaysEmpty`), `FromList` that the candidates are what
  filter, sort and limit made of it at some time, `Ended` how a call may have
  ended. From it follow `EngineTypes`, `FallbacksInOrder`, `LimitCutsTheRest`,
  `SharesOfWeights` (the draws for a backend are the numbers between two
  neighbouring sums) and `ProviderWins`. `EvenInv` counts the turns of a pool
  that rotates: as many full rounds for each backend, and one more for those
  before the counter; `EveryBackendItsTurn` follows for any number of calls.
  All four invariants were checked by TLC on the instance of the run before they were
  proved.
- `PluginOrder_proofs` has the invariant of the sort, `OrderInv`: `indeg[q]` is
  the number of edges into `q` from plugins not yet placed, what is placed has
  all its predecessors before it, and earlier stages are placed completely. A
  cycle follows when no plugin of the stage is free (`CycleExists`).
- `ServerLifecycle_proofs` composes it: the lifecycle's steps are the sort's or
  leave it alone (`RunSorts`), so `OrderInv` holds of a run, and with what each
  phase implies of providers, plugins and handlers (`RunInv`) it gives
  `OrderIsRespected`, `OnlyCyclesAreRefused`, `CallsKeepOrder`,
  `PluginsAreClosed`, `ServersAreWhole` and `ChecksAgree`. With `ProtoInv` and
  `StartInv`, which need it, come `RunTypes` and `HighestIsSpoken`: a finite set
  of protocols has a first in the order of `sort.Slice` (`NewestIsFirst`), which
  is the newest if any of them has a version.

Every invariant and every step property that a passing run checks is also proved.
Only model-checked is all liveness: `ConnectAnswered`, `HandlersStop`,
`EveryCallEnds`, `CatchesUp`, `Decided`, `FrameHandled`, `Returns`. It rests on
fairness, hence on `ENABLED`, which the prover does not do.

The assumptions say what Go's types, the API server and the loaded files give:

- `NumbersAssumption`, `ConfigAssumption`, `ListingAssumption` and
  `BoundsAssumption` (engine): a pool and what a provider lists have the fields
  of the structs in `types.go`, lists are numbered from 1, limits and weights
  are integers, time has a bound, and the constants that stand for no value and
  NaN are no numbers. That a
  configuration is a valid one is no assumption but the guard of `Init`.
- `ScenarioAssumption` and `SourceAssumption` (snapshot): a provider's listings
  come from its own informers, and objects and configured ports are typed.
  By `NoneAssumption` what is not set is no number.
- `ProtoAssumption` and `StartupsAssumption` (lifecycle): hytale/1, hytale/2 and
  hytale/* are among the protocols that begin with hytale/, the last has no
  version, and names that compare as equal strings are the same.

`LimitKeepsBest` speaks of lists without NaN among their sort keys (`Ordered`):
with one, the comparison of `applySort` is no order, and what comes first depends
on the algorithm.

## Not modelled

- Offsets, VarInts, the UUID and other fields inside a payload, and the
  envelope's layout and signature: functions of bytes without state, where a
  model would only repeat the code.
- Locales and wording of messages, and where a message is empty `ConnectStream`
  has it as an outcome.
- The type hints and text comparisons of sort keys (an order is an order), and
  metadata of backends: the engine reads them as values.
- Parsing of files and flags, defaults, finding the kubeconfig, log levels.
- A port's cut to 16 bits (streams.go:203) and a label selector's reading in
  allocate mode (agones.go:484): conversions of one value.
- Giving back a game server that was allocated for a client that is then denied:
  the code has nothing that would.
- gRPC's transport, the QUIC stack, the Kubernetes API, and the example plugins.

## Plan

Done, in the order of how much of a client's fate each decides: `PluginChain`,
`ConnectStream` with `Verdict`, `AllocateThrottle`, `SnapshotRebuild`,
`Selection`, `PoolValidation`, `RoutingEngine`, `PluginOrder`; then `FrameReader`
with `FrameQueue`, `WasmCall`, `Alpn`, `ServerLifecycle`, and `ClusterBackends`
under `SnapshotRebuild`; and the proofs of all they promise but liveness.

Worth having next:

1. `ConnectStream`'s inbox replaced by an instance of `FrameQueue`, so that the
   refinement of the reader is used and not only shown.
2. The lengths of envelope and referral (the fallback to an empty envelope always
   fits), and the locale chosen for a message, as operators under
   `ConnectStream`'s outcomes.
3. A theorem beside `stream_wasm_overlap`: calls of a module that do not overlap
   are given their own answers.
