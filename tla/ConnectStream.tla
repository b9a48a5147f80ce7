--------------------------- MODULE ConnectStream ---------------------------
(***************************************************************************)
(* The streams of one QUIC connection, each served by its own goroutine:   *)
(* handleConn (internal/server/server.go), acceptBidiStreams,              *)
(* acceptUniStreams and dumpFrames (internal/server/streams.go), with the  *)
(* loop of Manager.ApplyOnConnect (internal/plugins/manager.go).           *)
(*                                                                         *)
(* Abstracted: a frame is its kind; the routing engine is the set of       *)
(* outcomes Decide may have; a plugin is the set of answers it may give    *)
(* (or an error, or no answer at all); a disconnect reason is the message  *)
(* template it is rendered from.  Reading chunks into frames is left out.  *)
(***************************************************************************)
EXTENDS PluginChain

CONSTANTS
    Stream,        \* streams the client opens
    Bidi,          \* those of them that are bidirectional
    NPlugins,      \* plugins 1 .. NPlugins, in the order they are called
    Wasm,          \* plugins whose call is not stopped by its timeout
    LongHost,      \* addresses encodeClientReferralPayload refuses
    TooLarge,      \* contents that do not fit an envelope
    Route,         \* decisions a successful Decide may return
    ErrKind,       \* errors a failed Decide may return, as disconnectReason sorts them
    ReasonSize,    \* per template: does it render empty, fit a Disconnect, or not
    Response,      \* answers a plugin may give
    Script         \* sequences of frames a client may send on a stream

NoError == "nil"
Frame == {"connect", "garbled", "other", "invalid"}
NoRoute == [cands |-> <<>>, idx |-> NoIndex, backend |-> NoBackend]
Decision == [cands : Seq(Address), idx : Int, backend : Address]

\* A decision with a backend: idx selects it among the candidates (engine.go:20-29).
Selected(d) == /\ d.idx \in Positions(d.cands)
               /\ d.backend = d.cands[d.idx + 1]
               /\ d.backend # NoBackend

ASSUME StreamAssumption == Bidi \subseteq Stream
ASSUME PluginAssumption == NPlugins \in Nat /\ Wasm \subseteq 1 .. NPlugins
ASSUME AddressAssumption ==
    NoBackend \notin Backend /\ Absent \notin Address /\ LongHost \subseteq Backend
ASSUME ContentAssumption == NoContent \notin Content /\ TooLarge \subseteq Content
ASSUME RouteAssumption ==
    Route \subseteq Decision /\ \A d \in Route : d = NoRoute \/ Selected(d)
ASSUME ReasonAssumption ==
    /\ NoError \notin ErrKind /\ "deny" \notin ErrKind
    /\ ReasonSize \in [ErrKind \cup {NoError} -> {"empty", "fits", "oversize"}]
ASSUME ScriptAssumption == Script \subseteq Seq(Frame)

ASSUME ResponseAssumption == Response \subseteq ConnectResponse

VARIABLES
    running,       \* the server's context is not cancelled
    connOpen,      \* the QUIC connection is open
    inbox,         \* per stream: frames the client sends, not read yet
    writable,      \* per stream: the client accepts data on it
    pc,            \* per stream: where its handler is
    frame,         \* per stream: the Connect being handled
    decision,      \* per stream: dumpFrames' local decision
    routeErr,      \* per stream: dumpFrames' local routeErr
    plugin,        \* per stream: the plugin being called
    res,           \* per stream: ApplyResult; its backend and content are
                   \* dumpFrames' locals backend and referralContent
    referralSent,  \* per stream: dumpFrames' local referralSent
    out,           \* per stream: packets written to it
    closed         \* per stream: the handler closed its sending side

link == <<running, connOpen, writable>>
vars == <<running, connOpen, inbox, writable, pc, frame, decision, routeErr,
          plugin, res, referralSent, out, closed>>

Control == {"new", "read", "decide", "plugin", "answer", "done"}

ClientReferral(b, c) == [kind |-> "referral", to |-> b, content |-> c]
Disconnect(reason) == [kind |-> "disconnect", reason |-> reason]

\* referralEnvelope: no content, or too much of it, gives an empty envelope.
Envelope(content) == IF content \in TooLarge THEN NoContent ELSE content

\* w, ok := r.(io.Writer), and the write succeeds.
CanWrite(s) == s \in Bidi /\ connOpen /\ writable[s]

Init ==
    /\ running = TRUE
    /\ connOpen = TRUE
    /\ inbox \in [Stream -> Script]
    /\ writable = [s \in Stream |-> TRUE]
    /\ pc = [s \in Stream |-> "new"]
    /\ frame = [s \in Stream |-> "connect"]
    /\ decision = [s \in Stream |-> NoRoute]
    /\ routeErr = [s \in Stream |-> NoError]
    /\ plugin = [s \in Stream |-> 1]
    /\ res = [s \in Stream |-> Start(NoRoute, NoContent)]
    /\ referralSent = [s \in Stream |-> FALSE]
    /\ out = [s \in Stream |-> <<>>]
    /\ closed = [s \in Stream |-> FALSE]

Goto(s, l) == pc' = [pc EXCEPT ![s] = l]

-----------------------------------------------------------------------------
(* Accepting the stream and reading frames. *)

Accept(s) ==
    /\ pc[s] = "new" /\ connOpen
    /\ Goto(s, "read")
    /\ UNCHANGED <<link, inbox, frame, decision, routeErr, plugin, res,
                   referralSent, out, closed>>

\* The loop takes the next complete frame off the buffer.
Take(s, kinds) ==
    /\ pc[s] = "read" /\ inbox[s] # <<>> /\ Head(inbox[s]) \in kinds
    /\ inbox' = [inbox EXCEPT ![s] = Tail(@)]
    /\ UNCHANGED <<link, decision, routeErr, plugin, res, referralSent, out,
                   closed>>

\* Packets other than Connect are only logged.
SkipPacket(s) == Take(s, {"other"}) /\ UNCHANGED <<pc, frame>>

\* An impossible length ends the handler; nothing is sent, nothing is closed.
InvalidFrame(s) == Take(s, {"invalid"}) /\ Goto(s, "done") /\ UNCHANGED frame

TakeConnect(s) ==
    /\ Take(s, {"connect", "garbled"})
    /\ Goto(s, "decide")
    /\ frame' = [frame EXCEPT ![s] = Head(inbox[s])]

\* The client ends or resets the stream, or the connection is closed.
ReadEnds(s) ==
    /\ pc[s] = "read"
    /\ Goto(s, "done")
    /\ UNCHANGED <<link, inbox, frame, decision, routeErr, plugin, res,
                   referralSent, out, closed>>

-----------------------------------------------------------------------------
(* Routing, then the plugin chain for a Connect that could be decoded. *)

\* The chain starts from the local `decision`, whatever Decide returned.
Continue(s, d, backend) ==
    /\ IF frame[s] = "connect" /\ NPlugins > 0
       THEN /\ Goto(s, "plugin")
            /\ plugin' = [plugin EXCEPT ![s] = 1]
            /\ res' = [res EXCEPT ![s] = Start(d, @.content)]
       ELSE /\ Goto(s, "answer")
            /\ res' = [res EXCEPT ![s].backend = backend]
            /\ UNCHANGED plugin
    /\ UNCHANGED <<link, inbox, frame, referralSent, out, closed>>

RouteFound(s, d) ==
    /\ pc[s] = "decide"
    /\ decision' = [decision EXCEPT ![s] = d]
    /\ routeErr' = [routeErr EXCEPT ![s] = NoError]
    /\ Continue(s, d, d.backend)

\* `backend` is cleared, `decision` is not.
RouteFails(s, e) ==
    /\ pc[s] = "decide"
    /\ routeErr' = [routeErr EXCEPT ![s] = e]
    /\ Continue(s, decision[s], NoBackend)
    /\ UNCHANGED decision

\* Mutant: one plugin too many.
NextPluginOffByOne(s) ==
    /\ plugin' = [plugin EXCEPT ![s] = @ + 1]
    /\ IF plugin[s] <= NPlugins THEN UNCHANGED pc ELSE Goto(s, "answer")
    /\ UNCHANGED <<link, inbox, frame, decision, routeErr, referralSent, out,
                   closed>>

\* On to the next plugin, or to the answer.
NextPlugin(s) ==
    /\ plugin' = [plugin EXCEPT ![s] = @ + 1]
    /\ IF plugin[s] < NPlugins THEN UNCHANGED pc ELSE Goto(s, "answer")
    /\ UNCHANGED <<link, inbox, frame, decision, routeErr, referralSent, out,
                   closed>>

PluginReplies(s, r) ==
    /\ pc[s] = "plugin" /\ r.deny = "no"
    /\ res' = [res EXCEPT ![s] = ApplyResponse(@, r)]
    /\ NextPlugin(s)

\* The call returns an error: the plugin's, or that of a cancelled context.
PluginFails(s) == pc[s] = "plugin" /\ NextPlugin(s) /\ UNCHANGED res

\* Mutant: a timeout ends the handler.
PluginTimesOutForGood(s) ==
    /\ pc[s] = "plugin" /\ plugin[s] \notin Wasm
    /\ Goto(s, "done")
    /\ UNCHANGED <<link, inbox, frame, decision, routeErr, plugin, res,
                   referralSent, out, closed>>

\* The timeout stops a gRPC call; a WebAssembly call runs on.
PluginTimesOut(s) ==
    /\ pc[s] = "plugin" /\ plugin[s] \notin Wasm
    /\ NextPlugin(s)
    /\ UNCHANGED res

\* Send a Disconnect and close the stream, if that can be done; return anyway.
End(s, reason, size) ==
    /\ Goto(s, "done")
    /\ IF CanWrite(s) /\ size # "oversize"
       THEN /\ out' = [out EXCEPT ![s] = Append(@, Disconnect(reason))]
            /\ closed' = [closed EXCEPT ![s] = TRUE]
       ELSE UNCHANGED <<out, closed>>
    /\ UNCHANGED <<link, inbox, frame, decision, routeErr, plugin, res,
                   referralSent>>

PluginDenies(s, r) ==
    /\ pc[s] = "plugin" /\ r.deny # "no"
    /\ End(s, "deny", IF r.deny = "oversize" THEN "oversize" ELSE "fits")

-----------------------------------------------------------------------------
(* The answer to the Connect. *)

\* Mutant: referralSent is not looked at.
CanReferAgain(s) ==
    /\ pc[s] = "answer"
    /\ res[s].backend # NoBackend /\ res[s].backend \notin LongHost
    /\ CanWrite(s)

\* Mutant: contents that do not fit an envelope keep the referral from being sent.
CanReferIfFits(s) ==
    /\ pc[s] = "answer" /\ ~referralSent[s]
    /\ res[s].backend # NoBackend /\ res[s].backend \notin LongHost
    /\ res[s].content \notin TooLarge
    /\ CanWrite(s)

CanRefer(s) ==
    /\ pc[s] = "answer" /\ ~referralSent[s]
    /\ res[s].backend # NoBackend /\ res[s].backend \notin LongHost
    /\ CanWrite(s)

Refer(s) ==
    /\ CanRefer(s)
    /\ out' = [out EXCEPT
                 ![s] = Append(@, ClientReferral(res[s].backend,
                                                 Envelope(res[s].content)))]
    /\ referralSent' = [referralSent EXCEPT ![s] = TRUE]
    /\ Goto(s, "read")
    /\ UNCHANGED <<link, inbox, frame, decision, routeErr, plugin, res, closed>>

\* Mutant: a referred client is rejected as well.
MustRejectAgain(s) ==
    /\ pc[s] = "answer" /\ res[s].backend = NoBackend
    /\ frame[s] = "garbled" \/ ReasonSize[routeErr[s]] # "empty"

\* An undecodable Connect is answered even when the reason is empty.
MustReject(s) ==
    /\ pc[s] = "answer" /\ ~referralSent[s] /\ res[s].backend = NoBackend
    /\ frame[s] = "garbled" \/ ReasonSize[routeErr[s]] # "empty"

Reject(s) == MustReject(s) /\ End(s, routeErr[s], ReasonSize[routeErr[s]])

\* Nothing is written: a referral was sent before, it cannot be built or
\* written now, or the reason to reject is empty.
Silent(s) ==
    /\ pc[s] = "answer"
    /\ ~CanRefer(s) /\ ~MustReject(s)
    /\ Goto(s, "read")
    /\ UNCHANGED <<link, inbox, frame, decision, routeErr, plugin, res,
                   referralSent, out, closed>>

-----------------------------------------------------------------------------
(* The client, the network and the server's shutdown. *)

handlers == <<inbox, pc, frame, decision, routeErr, plugin, res, referralSent,
              out, closed>>

\* The client refuses further data on the stream.
PeerStops(s) ==
    /\ s \in Bidi /\ connOpen /\ writable[s]
    /\ writable' = [writable EXCEPT ![s] = FALSE]
    /\ UNCHANGED <<handlers, running, connOpen>>

\* The client closes the connection, or it idles out.
ClientGone == connOpen /\ connOpen' = FALSE
              /\ UNCHANGED <<handlers, running, writable>>

Shutdown == running /\ running' = FALSE
            /\ UNCHANGED <<handlers, connOpen, writable>>

\* Mutant: shutdown leaves the connections to their clients.
LeaveOpenOnShutdown == ~running /\ connOpen /\ UNCHANGED vars

\* handleConn closes the connection when the server's context is done.
CloseOnShutdown == ~running /\ connOpen /\ connOpen' = FALSE
                   /\ UNCHANGED <<handlers, running, writable>>

\* What the handler of a stream does without waiting for anyone.
HandlerStep(s) ==
    \/ Accept(s) \/ SkipPacket(s) \/ InvalidFrame(s) \/ TakeConnect(s)
    \/ \E d \in Route : RouteFound(s, d)
    \/ \E e \in ErrKind : RouteFails(s, e)
    \/ PluginTimesOut(s)
    \/ Refer(s) \/ Reject(s) \/ Silent(s)

PluginReturns(s) ==
    \/ \E r \in Response : PluginReplies(s, r) \/ PluginDenies(s, r)
    \/ PluginFails(s)

Next ==
    \/ \E s \in Stream :
         HandlerStep(s) \/ ReadEnds(s) \/ PluginReturns(s) \/ PeerStops(s)
    \/ ClientGone \/ Shutdown \/ CloseOnShutdown

Spec == Init /\ [][Next]_vars

\* Goroutines are scheduled and gRPC calls time out; Decide returns (it does
\* not wait, or waits for a bounded time: AllocateThrottle).  A closed connection
\* ends every read.  Nothing makes a WebAssembly call return.
Fairness ==
    /\ \A s \in Stream : /\ WF_vars(HandlerStep(s))
                         /\ WF_vars(~connOpen /\ ReadEnds(s))
    /\ WF_vars(CloseOnShutdown)

LiveSpec == Spec /\ Fairness

-----------------------------------------------------------------------------
(* Properties. *)

Answer ==
    {ClientReferral(b, c) : b \in Backend \ LongHost,
                            c \in (Content \ TooLarge) \cup {NoContent}}
    \cup {Disconnect(r) : r \in ErrKind \cup {NoError, "deny"}}

\* The state of dumpFrames and of the connection has the types of its variables.
TypeOK ==
    /\ running \in BOOLEAN /\ connOpen \in BOOLEAN
    /\ inbox \in [Stream -> Seq(Frame)]
    /\ writable \in [Stream -> BOOLEAN]
    /\ pc \in [Stream -> Control]
    /\ frame \in [Stream -> {"connect", "garbled"}]
    /\ decision \in [Stream -> Decision]
    /\ routeErr \in [Stream -> ErrKind \cup {NoError}]
    /\ plugin \in [Stream -> 1 .. NPlugins + 1]
    /\ res \in [Stream -> ApplyResult]
    /\ referralSent \in [Stream -> BOOLEAN]
    /\ out \in [Stream -> Seq(Answer)]
    /\ closed \in [Stream -> BOOLEAN]

IsReferral(a) == a.kind = "referral"
IsDisconnect(a) == a.kind = "disconnect"

\* However many Connects arrive on a stream (dumpFrames goes on reading after a
\* referral), it carries at most one referral and at most one Disconnect; the
\* Disconnect comes last and closes the stream, and after a referral only a
\* plugin's deny can send it.
AnswerShape ==
    \A s \in Stream :
        LET o == out[s]  n == Len(out[s]) IN
        /\ n > 0 => s \in Bidi
        /\ n <= 2
        /\ closed[s] <=> n > 0 /\ IsDisconnect(o[n])
        /\ referralSent[s] <=> n > 0 /\ IsReferral(o[1])
        /\ n = 2 => referralSent[s] /\ o[2] = Disconnect("deny")
        /\ closed[s] => pc[s] = "done"

\* The reason of the routing Disconnect that ended the stream, if one did.
Rejected(s) == closed[s] /\ out[s][Len(out[s])] # Disconnect("deny")

\* A client that sent a valid Connect is turned away only when nobody named a
\* backend for it: the reason is that of the latest routing (streams.go:223), a
\* routed client is never told "no route" unless a plugin put a candidate
\* without a host first, and no candidate was left unused (manager.go:88-91).
RejectedForCause ==
    \A s \in Stream : Rejected(s) =>
        /\ out[s][Len(out[s])] = Disconnect(routeErr[s])
        /\ routeErr[s] = NoError /\ decision[s] # NoRoute =>
               res[s].cands # <<>> /\ res[s].cands[1] = NoBackend
        /\ frame[s] = "connect" => NothingToTake(res[s])

\* The client sees no more than Verdict promises: dumpFrames' answers, and the
\* Close after a Disconnect, are steps of the abstract server.
Told(a) == IF IsReferral(a) THEN "referral"
           ELSE IF a = Disconnect("deny") THEN "denied" ELSE "rejected"

Promise == INSTANCE Verdict WITH
    Answerable <- Bidi,
    told <- [s \in Bidi |-> [i \in DOMAIN out[s] |-> Told(out[s][i])]],
    ended <- [s \in Bidi |-> closed[s]]
ImplementsVerdict == Promise!Spec

\* The Connect came to an answer that cannot be built: a backend that no referral
\* can carry, or a reason that fits no Disconnect, or one that renders empty where
\* dumpFrames then says nothing.
Unsendable(s) ==
    /\ pc[s] = "answer"
    /\ \/ res[s].backend \in LongHost
       \/ /\ res[s].backend = NoBackend
          /\ \/ ReasonSize[routeErr[s]] = "oversize"
             \/ ReasonSize[routeErr[s]] = "empty" /\ frame[s] = "connect"

\* A Connect on a stream the client listens to gets an answer (or the stream got
\* one before), if every plugin call is stopped by its timeout and every deny
\* fits a Disconnect: no early return of dumpFrames, no failing plugin and no
\* content leaves the client waiting, unless the answer itself cannot be built.
ConnectAnswered ==
    \A s \in Bidi : pc[s] = "decide" ~>
        (out[s] # <<>> \/ ~connOpen \/ ~writable[s] \/ Unsendable(s))

\* After the server's context is cancelled every handler returns, whatever the
\* client does: shutdown closes the connection, that ends every read, and what
\* was read before is finished.
HandlersStop ==
    \A s \in Stream : ~running ~> (pc[s] \in {"new", "done"})

-----------------------------------------------------------------------------
(* What documents and comments say, and the code does not do. *)

\* docs/architecture.md:40: a referral is sent and the stream closed;
\* streams.go:79: the first Connect packet is used to either deny or refer.
OneAnswerPerStream == \A s \in Stream : Len(out[s]) <= 1

\* docs/troubleshooting.md:33: a plugin call that does not respond is left after
\* a fixed timeout.
PluginCallEnds ==
    \A s \in Stream, p \in 1 .. NPlugins :
        (pc[s] = "plugin" /\ plugin[s] = p) ~> (pc[s] # "plugin" \/ plugin[s] # p)

\* docs/plugin-development.md:30: the event's backend is the selected backend.
\* The first plugin is called with none when routing this Connect selected none.
PluginSeesThisRouting ==
    \A s \in Stream :
        pc[s] = "plugin" /\ plugin[s] = 1 /\ routeErr[s] # NoError =>
            res[s].backend = NoBackend

\* docs/plugin-development.md:28-30: selected_index is the index of a candidate.
IndexInRange ==
    \A s \in Stream :
        pc[s] = "plugin" /\ res[s].cands # <<>> =>
            res[s].idx \in Positions(res[s].cands)
=============================================================================
