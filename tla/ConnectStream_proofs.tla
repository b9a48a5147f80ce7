------------------------ MODULE ConnectStream_proofs ------------------------
(***************************************************************************)
(* Proofs about ConnectStream, for every number of streams and plugins and *)
(* all sets of routes, answers, errors and frames.                         *)
(***************************************************************************)
EXTENDS ConnectStream, SequenceTheorems, WellFoundedInduction, TLAPS

-----------------------------------------------------------------------------
(* What one plugin's answer preserves. *)

\* A non-empty set of naturals has a least element.
LEMMA LeastNatural ==
    ASSUME NEW T, T \subseteq Nat, T # {}
    PROVE  \E m \in T : \A n \in T : m <= n
<1> DEFINE R == OpToRel(<, Nat)
<1>1. PICK m \in T : \A n \in T : ~ (<<n, m>> \in R)
  BY NatLessThanWellFounded, WFMin
<1>2. ASSUME NEW n \in T PROVE m <= n
  <2>1. ~ (n < m)
    BY <1>1 DEF OpToRel
  <2> QED
    BY <2>1
<1> QED BY <1>2

\* Selecting another backend and index keeps the type.
LEMMA RedirectType ==
    ASSUME NEW x \in ApplyResult, NEW i \in Int, NEW b \in Address
    PROVE  [x EXCEPT !.idx = i, !.backend = b] \in ApplyResult
BY DEF ApplyResult

\* Each stage of ApplyResponse returns an ApplyResult.
LEMMA StagesType ==
    ASSUME NEW x \in ApplyResult, NEW r \in ConnectResponse
    PROVE  /\ Replace(x, r) \in ApplyResult
           /\ Pick(x, r) \in ApplyResult
           /\ Override(x, r) \in ApplyResult
           /\ Repair(x) \in ApplyResult
           /\ Attach(x, r) \in ApplyResult
<1>1. Replace(x, r) \in ApplyResult
  BY DEF Replace, ApplyResult, ConnectResponse
<1>2. Pick(x, r) \in ApplyResult
  <2>1. CASE r.idx \in Positions(x.cands)
    <3>1. x.cands[r.idx + 1] \in Address
      BY <2>1 DEF Positions, ApplyResult, ConnectResponse
    <3> QED
      BY <2>1, <3>1 DEF Pick, ApplyResult, ConnectResponse
  <2>2. CASE r.idx \notin Positions(x.cands)
    BY <2>2 DEF Pick
  <2> QED BY <2>1, <2>2
<1>3. Override(x, r) \in ApplyResult
  <2> DEFINE p == FirstPosition(x.cands, r.backend)
             C == {i \in DOMAIN x.cands : x.cands[i] = r.backend}
  <2>1. ASSUME NEW k \in DOMAIN x.cands, x.cands[k] = r.backend
        PROVE  p \in Int
    <3>1. C # {} /\ C \subseteq Nat
      BY <2>1 DEF ApplyResult
    <3>2. PICK m \in C : \A n \in C : m <= n
      BY <3>1, LeastNatural
    <3> QED
      BY <3>1, <3>2 DEF FirstPosition
  <2>2. CASE r.backend = Absent
    BY <2>2 DEF Override
  <2>3. CASE r.backend # Absent
    <3>1. r.backend \in Address
      BY <2>3 DEF ConnectResponse
    <3> DEFINE i == IF \E k \in DOMAIN x.cands : x.cands[k] = r.backend
                    THEN p ELSE x.idx
    <3>2. i \in Int
      BY <2>1 DEF ApplyResult
    <3>3. Override(x, r) = [x EXCEPT !.backend = r.backend, !.idx = i]
      BY <2>3 DEF Override
    <3> HIDE DEF i
    <3> QED
      BY <3>1, <3>2, <3>3 DEF ApplyResult
  <2> QED BY <2>2, <2>3
<1>4. Repair(x) \in ApplyResult
  <2>1. ASSUME x.cands # <<>> PROVE x.cands[1] \in Address
    <3>1. x.cands \in Seq(Address)
      BY DEF ApplyResult
    <3>2. Len(x.cands) \in Nat \ {0}
      BY <2>1, <3>1, EmptySeq
    <3> QED
      BY <3>1, <3>2
  <2>2. CASE x.backend = NoBackend /\ x.cands # <<>>
    <3>1. x.cands[1] \in Address /\ 0 \in Int
      BY <2>1, <2>2
    <3>2. [x EXCEPT !.idx = 0, !.backend = x.cands[1]] \in ApplyResult
      BY <3>1, RedirectType
    <3> QED
      BY <2>2, <3>2 DEF Repair
  <2>3. CASE ~(x.backend = NoBackend /\ x.cands # <<>>)
    BY <2>3 DEF Repair
  <2> QED BY <2>2, <2>3
<1>5. Attach(x, r) \in ApplyResult
  BY DEF Attach, ApplyResult, ConnectResponse
<1> QED BY <1>1, <1>2, <1>3, <1>4, <1>5

\* After one plugin's answer no candidate is left unused (manager.go:88-91), and
\* a non-empty list of candidates stays non-empty.
LEMMA ApplyResponseSettles ==
    ASSUME NEW x \in ApplyResult, NEW r \in ConnectResponse
    PROVE  LET y == ApplyResponse(x, r) IN
           /\ y \in ApplyResult
           /\ NothingToTake(y)
           /\ x.cands # <<>> => y.cands # <<>>
<1> DEFINE x1 == Replace(x, r)
           x2 == Pick(x1, r)
           x3 == Override(x2, r)
           x4 == Repair(x3)
           x5 == Attach(x4, r)
<1>1. x1 \in ApplyResult /\ (x.cands # <<>> => x1.cands # <<>>)
  BY StagesType DEF Replace, ApplyResult
<1>2. x2 \in ApplyResult /\ x2.cands = x1.cands
  <2>1. x2 \in ApplyResult
    BY <1>1, StagesType
  <2> QED
    BY <1>1, <2>1 DEF Pick, ApplyResult
<1>3. x3 \in ApplyResult /\ x3.cands = x2.cands
  <2>1. x3 \in ApplyResult
    BY <1>2, StagesType
  <2> QED
    BY <1>2, <2>1 DEF Override, ApplyResult
<1>4. x4 \in ApplyResult /\ x4.cands = x3.cands /\ NothingToTake(x4)
  <2>1. x4 \in ApplyResult
    BY <1>3, StagesType
  <2> QED
    BY <1>3, <2>1 DEF Repair, NothingToTake, ApplyResult
<1>5. x5 \in ApplyResult /\ x5.cands = x4.cands /\ x5.backend = x4.backend
  <2>1. x5 \in ApplyResult
    BY <1>4, StagesType
  <2> QED
    BY <1>4, <2>1 DEF Attach, ApplyResult
<1>6. NothingToTake(x5)
  BY <1>4, <1>5 DEF NothingToTake
<1>7. ApplyResponse(x, r) = x5
  BY DEF ApplyResponse
<1> HIDE DEF x1, x2, x3, x4, x5
<1> QED BY <1>1, <1>2, <1>3, <1>4, <1>5, <1>6, <1>7

-----------------------------------------------------------------------------
(* Type correctness. *)

\* A plugin being called is one of the chain.
CallInRange == \A s \in Stream : pc[s] = "plugin" => plugin[s] \in 1 .. NPlugins

TypeInv == TypeOK /\ CallInRange

\* The zero Decision is a decision.
LEMMA NoRouteType == NoRoute \in Decision
BY DEF NoRoute, Decision, Address, NoIndex

\* Another backend leaves a result a result.
LEMMA WithBackendType ==
    ASSUME NEW r \in ApplyResult, NEW b \in Address
    PROVE  [r EXCEPT !.backend = b] \in ApplyResult
BY DEF ApplyResult

\* The chain's first result is typed.
LEMMA StartType ==
    ASSUME NEW d \in Decision, NEW c \in Content \cup {NoContent}
    PROVE  Start(d, c) \in ApplyResult
BY DEF Start, Decision, ApplyResult

\* A new connection is typed.
LEMMA InitType == Init => TypeInv
<1> SUFFICES ASSUME Init PROVE TypeInv
  OBVIOUS
<1>1. Start(NoRoute, NoContent) \in ApplyResult
  BY NoRouteType, StartType
<1>2. inbox \in [Stream -> Seq(Frame)]
  BY ScriptAssumption DEF Init
<1>3. plugin \in [Stream -> 1 .. NPlugins + 1]
  BY PluginAssumption DEF Init
<1> QED
  BY <1>1, <1>2, <1>3, NoRouteType DEF Init, TypeInv, TypeOK, CallInRange, Control

\* Every step of the connection keeps the types.
LEMMA NextType == TypeInv /\ [Next]_vars => TypeInv'
<1> SUFFICES ASSUME TypeInv, [Next]_vars PROVE TypeInv'
  OBVIOUS
<1> USE DEF TypeInv, TypeOK, CallInRange, Control, Goto, link
<1>1. ASSUME NEW s \in Stream, Accept(s) PROVE TypeInv'
  BY <1>1 DEF Accept
<1>2. ASSUME NEW s \in Stream, NEW kinds, Take(s, kinds)
      PROVE  /\ Head(inbox[s]) \in Frame /\ inbox' \in [Stream -> Seq(Frame)]
  <2>1. inbox[s] \in Seq(Frame) /\ inbox[s] # <<>>
    BY <1>2 DEF Take
  <2>2. Head(inbox[s]) \in Frame /\ Tail(inbox[s]) \in Seq(Frame)
    BY <2>1, HeadTailProperties
  <2> QED
    BY <1>2, <2>2 DEF Take
<1>3. ASSUME NEW s \in Stream, SkipPacket(s) PROVE TypeInv'
  <2>1. inbox' \in [Stream -> Seq(Frame)]
    BY <1>2, <1>3 DEF SkipPacket
  <2> QED
    BY <1>3, <2>1 DEF SkipPacket, Take
<1>4. ASSUME NEW s \in Stream, InvalidFrame(s) PROVE TypeInv'
  <2>1. inbox' \in [Stream -> Seq(Frame)]
    BY <1>2, <1>4 DEF InvalidFrame
  <2> QED
    BY <1>4, <2>1 DEF InvalidFrame, Take
<1>5. ASSUME NEW s \in Stream, TakeConnect(s) PROVE TypeInv'
  <2>1. inbox' \in [Stream -> Seq(Frame)]
    BY <1>2, <1>5 DEF TakeConnect
  <2>2. Head(inbox[s]) \in {"connect", "garbled"}
    BY <1>5 DEF TakeConnect, Take
  <2> QED
    BY <1>5, <2>1, <2>2 DEF TakeConnect, Take
<1>6. ASSUME NEW s \in Stream, ReadEnds(s) PROVE TypeInv'
  BY <1>6 DEF ReadEnds
<1>7. ASSUME NEW s \in Stream, NEW d \in Decision, NEW b \in Address,
             Continue(s, d, b)
      PROVE  /\ res' \in [Stream -> ApplyResult]
             /\ plugin' \in [Stream -> 1 .. NPlugins + 1]
             /\ pc' \in [Stream -> Control]
             /\ CallInRange'
  <2>1. Start(d, res[s].content) \in ApplyResult
    BY StartType DEF ApplyResult
  <2>2. [res[s] EXCEPT !.backend = b] \in ApplyResult
    <3>1. res[s] \in ApplyResult
      OBVIOUS
    <3> QED BY <3>1, WithBackendType
  <2>3. CASE frame[s] = "connect" /\ NPlugins > 0
    <3>1. res' = [res EXCEPT ![s] = Start(d, res[s].content)]
      BY <1>7, <2>3 DEF Continue
    <3>2. 1 \in 1 .. NPlugins /\ 1 \in 1 .. NPlugins + 1
      BY <2>3, PluginAssumption
    <3>3. plugin' = [plugin EXCEPT ![s] = 1] /\ pc' = [pc EXCEPT ![s] = "plugin"]
      BY <1>7, <2>3 DEF Continue
    <3>4. res' \in [Stream -> ApplyResult]
      BY <2>1, <3>1
    <3> QED
      BY <3>2, <3>3, <3>4
  <2>4. CASE ~(frame[s] = "connect" /\ NPlugins > 0)
    BY <1>7, <2>2, <2>4 DEF Continue
  <2> QED BY <2>3, <2>4
<1>8. ASSUME NEW s \in Stream, NEW d \in Route, RouteFound(s, d) PROVE TypeInv'
  <2>1. d \in Decision /\ d.backend \in Address
    BY RouteAssumption DEF Decision
  <2>2. Continue(s, d, d.backend)
    BY <1>8 DEF RouteFound
  <2> QED
    BY <1>7, <1>8, <2>1, <2>2 DEF RouteFound, Continue
<1>9. ASSUME NEW s \in Stream, NEW e \in ErrKind, RouteFails(s, e) PROVE TypeInv'
  <2>1. decision[s] \in Decision /\ NoBackend \in Address
    BY DEF Address
  <2>2. Continue(s, decision[s], NoBackend)
    BY <1>9 DEF RouteFails
  <2> QED
    BY <1>7, <1>9, <2>1, <2>2 DEF RouteFails, Continue
<1>10. ASSUME NEW s \in Stream, pc[s] = "plugin", NextPlugin(s),
              res' \in [Stream -> ApplyResult]
       PROVE  TypeInv'
  <2>1. plugin[s] \in 1 .. NPlugins /\ NPlugins \in Nat
    BY <1>10, PluginAssumption
  <2>2. plugin[s] + 1 \in 1 .. NPlugins + 1
    BY <2>1
  <2>3. plugin' \in [Stream -> 1 .. NPlugins + 1]
    BY <1>10, <2>2 DEF NextPlugin
  <2>4. pc' \in [Stream -> Control]
    BY <1>10, ZenonT(30) DEF NextPlugin
  <2>5. CallInRange'
    <3>1. CASE plugin[s] < NPlugins
      <4>1. plugin[s] + 1 \in 1 .. NPlugins
        BY <2>1, <3>1
      <4> QED
        BY <1>10, <3>1, <4>1 DEF NextPlugin
    <3>2. CASE ~(plugin[s] < NPlugins)
      BY <1>10, <3>2 DEF NextPlugin
    <3> QED BY <3>1, <3>2
  <2> QED
    BY <1>10, <2>3, <2>4, <2>5 DEF NextPlugin
<1>11. ASSUME NEW s \in Stream, NEW r \in Response, PluginReplies(s, r)
       PROVE  TypeInv'
  <2>1. ApplyResponse(res[s], r) \in ApplyResult
    BY ApplyResponseSettles, ResponseAssumption
  <2>2. res' \in [Stream -> ApplyResult]
    BY <1>11, <2>1 DEF PluginReplies
  <2> QED
    BY <1>10, <1>11, <2>2 DEF PluginReplies
<1>12. ASSUME NEW s \in Stream, PluginFails(s) \/ PluginTimesOut(s)
       PROVE  TypeInv'
  <2>1. res' \in [Stream -> ApplyResult]
    BY <1>12 DEF PluginFails, PluginTimesOut
  <2> QED
    BY <1>10, <1>12, <2>1 DEF PluginFails, PluginTimesOut
<1>13. ASSUME NEW s \in Stream, NEW reason \in ErrKind \cup {NoError, "deny"},
              NEW size, End(s, reason, size)
       PROVE  TypeInv'
  <2>1. Disconnect(reason) \in Answer
    BY DEF Answer
  <2>2. Append(out[s], Disconnect(reason)) \in Seq(Answer)
    BY <2>1, AppendProperties
  <2> QED
    BY <1>13, <2>2 DEF End
<1>14. ASSUME NEW s \in Stream, NEW r \in Response, PluginDenies(s, r)
       PROVE  TypeInv'
  BY <1>13, <1>14 DEF PluginDenies
<1>15. ASSUME NEW s \in Stream, Reject(s) PROVE TypeInv'
  <2>1. routeErr[s] \in ErrKind \cup {NoError, "deny"}
    OBVIOUS
  <2> QED
    BY <1>13, <1>15, <2>1 DEF Reject
<1>16. ASSUME NEW s \in Stream, Refer(s) PROVE TypeInv'
  <2>1. res[s].backend \in Backend \ LongHost
    BY <1>16 DEF Refer, CanRefer, ApplyResult, Address
  <2>2. Envelope(res[s].content) \in (Content \ TooLarge) \cup {NoContent}
    BY ContentAssumption DEF Envelope, ApplyResult
  <2>3. ClientReferral(res[s].backend, Envelope(res[s].content)) \in Answer
    BY <2>1, <2>2 DEF Answer
  <2>4. out' \in [Stream -> Seq(Answer)]
    BY <1>16, <2>3, AppendProperties DEF Refer
  <2> QED
    BY <1>16, <2>4 DEF Refer
<1>17. ASSUME NEW s \in Stream, Silent(s) PROVE TypeInv'
  BY <1>17 DEF Silent
<1>18. ASSUME NEW s \in Stream, PeerStops(s) PROVE TypeInv'
  BY <1>18 DEF PeerStops, handlers
<1>19. CASE ClientGone \/ Shutdown \/ CloseOnShutdown
  BY <1>19 DEF ClientGone, Shutdown, CloseOnShutdown, handlers
<1>20. CASE UNCHANGED vars
  BY <1>20 DEF vars
<1> QED
  BY <1>1, <1>3, <1>4, <1>5, <1>6, <1>8, <1>9, <1>11, <1>12, <1>14, <1>15,
     <1>16, <1>17, <1>18, <1>19, <1>20
  DEF Next, HandlerStep, PluginReturns

\* The types of the code's variables hold in every reachable state.
THEOREM TypeCorrect == Spec => []TypeOK
<1>1. Init => TypeInv
  BY InitType
<1>2. TypeInv /\ [Next]_vars => TypeInv'
  BY NextType
<1>3. TypeInv => TypeOK
  BY DEF TypeInv
<1> QED
  BY <1>1, <1>2, <1>3, PTL DEF Spec

-----------------------------------------------------------------------------
(* What a stream is told. *)

what(s) == <<frame[s], decision[s], routeErr[s], res[s], out[s], closed[s]>>

\* A handler that is done stays so and leaves its stream and its locals alone,
\* whatever any step does.
LEMMA DoneIsFinal ==
    ASSUME TypeInv, [Next]_vars, NEW s \in Stream, pc[s] = "done"
    PROVE  pc'[s] = "done" /\ UNCHANGED what(s)
<1> USE DEF TypeInv, TypeOK, Goto, what
<1>1. ASSUME NEW t \in Stream,
             Accept(t) \/ SkipPacket(t) \/ InvalidFrame(t) \/ TakeConnect(t)
             \/ ReadEnds(t)
      PROVE pc'[s] = "done" /\ UNCHANGED what(s)
  BY <1>1 DEF Accept, SkipPacket, InvalidFrame, TakeConnect, Take, ReadEnds
<1>2. ASSUME NEW t \in Stream, NEW d \in Route, RouteFound(t, d)
      PROVE pc'[s] = "done" /\ UNCHANGED what(s)
  BY <1>2 DEF RouteFound, Continue
<1>3. ASSUME NEW t \in Stream, NEW e \in ErrKind, RouteFails(t, e)
      PROVE pc'[s] = "done" /\ UNCHANGED what(s)
  BY <1>3 DEF RouteFails, Continue
<1>4. ASSUME NEW t \in Stream, PluginFails(t) \/ PluginTimesOut(t)
      PROVE pc'[s] = "done" /\ UNCHANGED what(s)
  BY <1>4 DEF PluginFails, PluginTimesOut, NextPlugin
<1>5. ASSUME NEW t \in Stream, NEW r \in Response, PluginReplies(t, r)
      PROVE pc'[s] = "done" /\ UNCHANGED what(s)
  BY <1>5 DEF PluginReplies, NextPlugin
<1>6. ASSUME NEW t \in Stream, NEW r \in Response, PluginDenies(t, r)
      PROVE pc'[s] = "done" /\ UNCHANGED what(s)
  BY <1>6 DEF PluginDenies, End
<1>7. ASSUME NEW t \in Stream, Refer(t) \/ Reject(t) \/ Silent(t)
      PROVE pc'[s] = "done" /\ UNCHANGED what(s)
  BY <1>7 DEF Refer, CanRefer, Reject, MustReject, End, Silent
<1>8. ASSUME NEW t \in Stream, PeerStops(t)
      PROVE pc'[s] = "done" /\ UNCHANGED what(s)
  BY <1>8 DEF PeerStops, handlers
<1>9. CASE ClientGone \/ Shutdown \/ CloseOnShutdown
  BY <1>9 DEF ClientGone, Shutdown, CloseOnShutdown, handlers
<1>10. CASE UNCHANGED vars
  BY <1>10 DEF vars
<1> QED
  BY <1>1, <1>2, <1>3, <1>4, <1>5, <1>6, <1>7, <1>8, <1>9, <1>10
  DEF Next, HandlerStep, PluginReturns

told == <<out, closed, referralSent>>

\* Only the three answering actions change what the streams are told.
LEMMA OnlyAnswersTell ==
    ASSUME [Next]_vars
    PROVE  \/ UNCHANGED told
           \/ \E s \in Stream : Refer(s) \/ Reject(s)
           \/ \E s \in Stream, r \in Response : PluginDenies(s, r)
<1> USE DEF told
<1>1. ASSUME NEW s \in Stream, HandlerStep(s), ~Refer(s), ~Reject(s)
      PROVE  UNCHANGED told
  BY <1>1 DEF HandlerStep, Accept, SkipPacket, InvalidFrame, TakeConnect, Take,
              RouteFound, RouteFails, Continue, PluginTimesOut, NextPlugin,
              Silent
<1>2. ASSUME NEW s \in Stream, PluginReturns(s),
             ~ \E r \in Response : PluginDenies(s, r)
      PROVE  UNCHANGED told
  BY <1>2 DEF PluginReturns, PluginReplies, PluginFails, NextPlugin
<1>3. ASSUME NEW s \in Stream, ReadEnds(s) \/ PeerStops(s) PROVE UNCHANGED told
  BY <1>3 DEF ReadEnds, PeerStops, handlers
<1>4. CASE ClientGone \/ Shutdown \/ CloseOnShutdown
  BY <1>4 DEF ClientGone, Shutdown, CloseOnShutdown, handlers
<1>5. CASE UNCHANGED vars
  BY <1>5 DEF vars
<1> QED
  BY <1>1, <1>2, <1>3, <1>4, <1>5 DEF Next

\* A stream whose handler has yet to answer was told nothing, or was referred.
LEMMA ToldBefore ==
    ASSUME TypeOK, AnswerShape, NEW s \in Stream, pc[s] # "done"
    PROVE  /\ out[s] \in Seq(Answer)
           /\ referralSent[s] =>
                Len(out[s]) = 1 /\ IsReferral(out[s][1]) /\ ~closed[s]
           /\ ~referralSent[s] => Len(out[s]) = 0 /\ out[s] = <<>> /\ ~closed[s]
<1>1. out[s] \in Seq(Answer) /\ Len(out[s]) \in Nat
  BY DEF TypeOK
<1>2. \A i \in 1 .. Len(out[s]) : IsReferral(out[s][i]) \/ IsDisconnect(out[s][i])
  BY <1>1 DEF Answer, ClientReferral, Disconnect, IsReferral, IsDisconnect
<1>3. ~closed[s] /\ Len(out[s]) <= 2
  BY DEF AnswerShape
<1>4. Len(out[s]) = 2 => out[s][2] = Disconnect("deny")
  BY DEF AnswerShape
<1>5. Len(out[s]) # 2
  BY <1>3, <1>4 DEF AnswerShape, IsDisconnect, Disconnect
<1>6. Len(out[s]) \in {0, 1}
  <2>1. \A n \in Nat : n <= 2 /\ n # 2 => n \in {0, 1}
    OBVIOUS
  <2> QED
    BY <1>1, <1>3, <1>5, <2>1
<1>7. Len(out[s]) = 1 => referralSent[s]
  BY <1>2, <1>3 DEF AnswerShape
<1> QED
  BY <1>1, <1>3, <1>6, <1>7, EmptySeq DEF AnswerShape

\* Every step keeps the shape of the answers on every stream.
LEMMA NextShape == TypeInv /\ AnswerShape /\ [Next]_vars => AnswerShape'
<1> SUFFICES ASSUME TypeInv, AnswerShape, [Next]_vars PROVE AnswerShape'
  OBVIOUS
<1>1. TypeOK
  BY DEF TypeInv
<1>2. CASE UNCHANGED told
  BY <1>2, DoneIsFinal DEF AnswerShape, told
<1>3. ASSUME NEW s \in Stream, NEW a \in Answer, pc[s] # "done",
             s \in Bidi, out' = [out EXCEPT ![s] = Append(@, a)],
             \A t \in Stream \ {s} : closed'[t] = closed[t]
                                     /\ referralSent'[t] = referralSent[t],
             closed'[s] <=> IsDisconnect(a),
             referralSent'[s] <=> referralSent[s] \/ IsReferral(a),
             closed'[s] => pc'[s] = "done",
             referralSent[s] => a = Disconnect("deny")
      PROVE  AnswerShape'
  <2>1. out[s] \in Seq(Answer) /\ Len(out[s]) \in Nat /\ out'[s] = Append(out[s], a)
    BY <1>1, <1>3 DEF TypeOK
  <2>2. /\ Len(out'[s]) = Len(out[s]) + 1
        /\ out'[s][Len(out[s]) + 1] = a
        /\ \A i \in 1 .. Len(out[s]) : out'[s][i] = out[s][i]
    BY <2>1, AppendProperties
  <2>3. Disconnect("deny").kind = "disconnect"
    BY DEF Disconnect
  <2>4. CASE referralSent[s]
    <3>1. Len(out[s]) = 1 /\ IsReferral(out[s][1])
      BY <1>1, <1>3, <2>4, ToldBefore
    <3>2. Len(out'[s]) = 2 /\ out'[s][2] = a /\ out'[s][1] = out[s][1]
      BY <2>2, <3>1
    <3>3. a = Disconnect("deny") /\ IsDisconnect(a) /\ referralSent'[s]
      BY <1>3, <2>3, <2>4 DEF IsDisconnect
    <3>4. closed'[s] /\ pc'[s] = "done"
      BY <1>3, <3>3
    <3> QED
      BY <1>1, <1>3, <3>1, <3>2, <3>3, <3>4, DoneIsFinal DEF AnswerShape, TypeOK
  <2>5. CASE ~referralSent[s]
    <3>1. Len(out[s]) = 0
      BY <1>1, <1>3, <2>5, ToldBefore
    <3>2. Len(out'[s]) = 1 /\ out'[s][1] = a
      BY <2>2, <3>1
    <3> QED
      BY <1>1, <1>3, <2>5, <3>2, DoneIsFinal DEF AnswerShape, TypeOK
  <2> QED BY <2>4, <2>5
<1>4. ASSUME NEW s \in Stream, Refer(s) PROVE AnswerShape'
  <2> DEFINE a == ClientReferral(res[s].backend, Envelope(res[s].content))
  <2>1. a \in Answer
    <3>1. res[s].backend \in Backend \ LongHost
      BY <1>1, <1>4 DEF Refer, CanRefer, TypeOK, ApplyResult, Address
    <3>2. Envelope(res[s].content) \in (Content \ TooLarge) \cup {NoContent}
      BY <1>1, ContentAssumption DEF Envelope, TypeOK, ApplyResult
    <3> QED
      BY <3>1, <3>2 DEF Answer
  <2>2. IsReferral(a) /\ ~IsDisconnect(a)
    BY DEF ClientReferral, IsReferral, IsDisconnect
  <2>3. pc[s] # "done" /\ s \in Bidi /\ ~referralSent[s] /\ out' = [out EXCEPT ![s] = Append(@, a)]
    BY <1>4 DEF Refer, CanRefer, CanWrite
  <2>4. referralSent' = [referralSent EXCEPT ![s] = TRUE] /\ closed' = closed
    BY <1>4 DEF Refer
  <2>5. ~closed'[s]
    BY <1>1, <2>3, <2>4, ToldBefore
  <2> HIDE DEF a
  <2> QED
    BY <1>1, <1>3, <2>1, <2>2, <2>3, <2>4, <2>5 DEF TypeOK
<1>5. ASSUME NEW s \in Stream, NEW reason \in ErrKind \cup {NoError, "deny"},
             NEW size, End(s, reason, size), pc[s] # "done",
             referralSent[s] => reason = "deny"
      PROVE  AnswerShape'
  <2>1. CASE CanWrite(s) /\ size # "oversize"
    <3> DEFINE a == Disconnect(reason)
    <3>1. a \in Answer /\ IsDisconnect(a) /\ ~IsReferral(a)
      BY DEF Answer, Disconnect, IsDisconnect, IsReferral
    <3>2. /\ out' = [out EXCEPT ![s] = Append(@, a)]
          /\ closed' = [closed EXCEPT ![s] = TRUE]
          /\ referralSent' = referralSent /\ s \in Bidi
          /\ pc' = [pc EXCEPT ![s] = "done"]
      BY <1>5, <2>1 DEF End, Goto, CanWrite
    <3>3. referralSent[s] => a = Disconnect("deny")
      BY <1>5
    <3> HIDE DEF a
    <3> QED
      BY <1>1, <1>3, <1>5, <3>1, <3>2, <3>3 DEF TypeOK
  <2>2. CASE ~(CanWrite(s) /\ size # "oversize")
    BY <1>2, <1>5, <2>2 DEF End, told
  <2> QED BY <2>1, <2>2
<1>6. ASSUME NEW s \in Stream, NEW r \in Response, PluginDenies(s, r)
      PROVE  AnswerShape'
  BY <1>5, <1>6 DEF PluginDenies
<1>7. ASSUME NEW s \in Stream, Reject(s) PROVE AnswerShape'
  <2>1. routeErr[s] \in ErrKind \cup {NoError, "deny"}
    BY <1>1 DEF TypeOK
  <2> QED
    BY <1>5, <1>7, <2>1 DEF Reject, MustReject
<1> QED
  BY <1>2, <1>4, <1>6, <1>7, OnlyAnswersTell

\* Every stream is told at most: where to go and later that it is denied.
THEOREM AnswersAreShaped == Spec => []AnswerShape
<1>1. Init => TypeInv /\ AnswerShape
  BY InitType DEF Init, AnswerShape
<1>2. TypeInv /\ AnswerShape /\ [Next]_vars => (TypeInv /\ AnswerShape)'
  BY NextType, NextShape
<1> QED
  BY <1>1, <1>2, PTL DEF Spec

-----------------------------------------------------------------------------
(* Why a client is turned away. *)

Act(s) == HandlerStep(s) \/ ReadEnds(s) \/ PluginReturns(s) \/ PeerStops(s)

\* A handler works on its own stream only.
LEMMA OnlyItself ==
    ASSUME TypeOK, NEW s \in Stream, NEW u \in Stream, u # s, Act(s)
    PROVE  pc'[u] = pc[u] /\ UNCHANGED what(u)
<1> USE DEF TypeOK, Goto, what
<1>1. CASE Accept(s) \/ SkipPacket(s) \/ InvalidFrame(s) \/ TakeConnect(s)
           \/ ReadEnds(s)
  BY <1>1 DEF Accept, SkipPacket, InvalidFrame, TakeConnect, Take, ReadEnds
<1>2. ASSUME NEW d \in Route, RouteFound(s, d)
      PROVE pc'[u] = pc[u] /\ UNCHANGED what(u)
  BY <1>2 DEF RouteFound, Continue
<1>3. ASSUME NEW e \in ErrKind, RouteFails(s, e)
      PROVE pc'[u] = pc[u] /\ UNCHANGED what(u)
  BY <1>3 DEF RouteFails, Continue
<1>4. CASE PluginFails(s) \/ PluginTimesOut(s)
  BY <1>4 DEF PluginFails, PluginTimesOut, NextPlugin
<1>5. ASSUME NEW r \in Response, PluginReplies(s, r)
      PROVE pc'[u] = pc[u] /\ UNCHANGED what(u)
  BY <1>5 DEF PluginReplies, NextPlugin
<1>6. ASSUME NEW r \in Response, PluginDenies(s, r)
      PROVE pc'[u] = pc[u] /\ UNCHANGED what(u)
  BY <1>6 DEF PluginDenies, End
<1>7. CASE Refer(s) \/ Reject(s) \/ Silent(s)
  BY <1>7 DEF Refer, CanRefer, Reject, MustReject, End, Silent
<1>8. CASE PeerStops(s)
  BY <1>8 DEF PeerStops, handlers
<1> QED
  BY <1>1, <1>2, <1>3, <1>4, <1>5, <1>6, <1>7, <1>8
  DEF Act, HandlerStep, PluginReturns

Chained(s) == frame[s] = "connect" /\ NPlugins > 0
Routed(s) == routeErr[s] = NoError /\ decision[s] # NoRoute

\* What is known of a handler's locals on the way to a rejection.
Grounds(s) ==
    /\ decision[s] = NoRoute \/ Selected(decision[s])
    /\ NPlugins = 0 => res[s].cands = <<>>
    /\ pc[s] = "plugin" => Chained(s)
    /\ pc[s] \in {"plugin", "answer"} /\ Chained(s) =>
         NothingToTake(res[s]) /\ (Routed(s) => res[s].cands # <<>>)
    /\ pc[s] = "answer" /\ ~Chained(s) /\ Routed(s) => res[s].backend # NoBackend

\* RejectedForCause for one stream.
ForCause(s) == Rejected(s) =>
    /\ out[s][Len(out[s])] = Disconnect(routeErr[s])
    /\ Routed(s) => res[s].cands # <<>> /\ res[s].cands[1] = NoBackend
    /\ frame[s] = "connect" => NothingToTake(res[s])

CauseInv == \A s \in Stream : Grounds(s) /\ ForCause(s)

\* A chain starts from candidates exactly when the decision has a backend.
LEMMA StartSettled ==
    ASSUME NEW d \in Decision, d = NoRoute \/ Selected(d),
           NEW c \in Content \cup {NoContent}
    PROVE  /\ NothingToTake(Start(d, c))
           /\ d # NoRoute => d.cands # <<>> /\ d.backend # NoBackend
           /\ Start(d, c).cands = d.cands
<1>1. CASE d = NoRoute
  BY <1>1 DEF NothingToTake, Start, NoRoute
<1>2. CASE Selected(d)
  <2>1. Len(d.cands) > 0 /\ d.backend # NoBackend
    BY <1>2 DEF Selected, Positions, Decision
  <2> QED
    BY <2>1 DEF NothingToTake, Start
<1> QED BY <1>1, <1>2

\* A step of s keeps the grounds of s for turning its client away.
LEMMA ActCause ==
    ASSUME TypeInv, AnswerShape, CauseInv, NEW s \in Stream, Act(s), pc[s] # "done"
    PROVE  Grounds(s)' /\ ForCause(s)'
<1> USE DEF TypeInv, TypeOK, Goto
<1>1. Grounds(s) /\ ~closed[s]
  BY DEF CauseInv, AnswerShape
<1>2. ASSUME closed'[s] = closed[s] PROVE ForCause(s)'
  BY <1>1, <1>2 DEF ForCause, Rejected
<1>3. CASE Accept(s) \/ SkipPacket(s) \/ InvalidFrame(s) \/ TakeConnect(s)
           \/ ReadEnds(s)
  <2>1. /\ decision' = decision /\ routeErr' = routeErr /\ res' = res
        /\ closed' = closed /\ pc'[s] \in {"read", "done", "decide"}
    BY <1>3 DEF Accept, SkipPacket, InvalidFrame, TakeConnect, Take, ReadEnds
  <2> QED
    BY <1>1, <1>2, <2>1 DEF Grounds, Selected
<1>4. ASSUME NEW d \in Decision, NEW b, Continue(s, d, b),
             decision'[s] = d, d = NoRoute \/ Selected(d),
             (routeErr'[s] = NoError => b = d.backend)
      PROVE  Grounds(s)' /\ ForCause(s)'
  <2>1. /\ NothingToTake(Start(d, res[s].content))
        /\ d # NoRoute => d.cands # <<>> /\ d.backend # NoBackend
        /\ Start(d, res[s].content).cands = d.cands
    BY <1>4, StartSettled DEF ApplyResult
  <2>2. closed'[s] = closed[s] /\ frame'[s] = frame[s]
    BY <1>4 DEF Continue
  <2>3. CASE Chained(s)
    <3>1. pc'[s] = "plugin" /\ res'[s] = Start(d, res[s].content)
      BY <1>4, <2>3 DEF Continue, Chained
    <3> QED
      BY <1>2, <1>4, <2>1, <2>2, <2>3, <3>1
      DEF Grounds, Chained, Routed, Selected, NothingToTake
  <2>4. CASE ~Chained(s)
    <3>1. pc'[s] = "answer" /\ res'[s] = [res[s] EXCEPT !.backend = b]
      BY <1>4, <2>4 DEF Continue, Chained
    <3>2. res'[s].backend = b /\ res'[s].cands = res[s].cands
      BY <3>1 DEF ApplyResult
    <3> QED
      BY <1>1, <1>2, <1>4, <2>1, <2>2, <2>4, <3>1, <3>2
      DEF Grounds, Chained, Routed, Selected
  <2> QED BY <2>3, <2>4
<1>5. ASSUME NEW d \in Route, RouteFound(s, d) PROVE Grounds(s)' /\ ForCause(s)'
  <2>1. d \in Decision /\ (d = NoRoute \/ Selected(d))
    BY RouteAssumption
  <2>2. decision'[s] = d /\ Continue(s, d, d.backend)
    BY <1>5 DEF RouteFound
  <2> QED BY <1>4, <2>1, <2>2
<1>6. ASSUME NEW e \in ErrKind, RouteFails(s, e) PROVE Grounds(s)' /\ ForCause(s)'
  <2>1. decision[s] \in Decision /\ (decision[s] = NoRoute \/ Selected(decision[s]))
    BY <1>1 DEF Grounds
  <2>2. /\ decision'[s] = decision[s] /\ Continue(s, decision[s], NoBackend)
        /\ routeErr'[s] # NoError
    BY <1>6, ReasonAssumption DEF RouteFails
  <2> QED BY <1>4, <2>1, <2>2
<1>7. ASSUME pc[s] = "plugin", NextPlugin(s),
             res'[s].cands = <<>> => res[s].cands = <<>>,
             NothingToTake(res'[s])
      PROVE  Grounds(s)' /\ ForCause(s)'
  <2>1. NPlugins # 0 /\ Chained(s)
    BY <1>1, <1>7, PluginAssumption DEF Grounds, Chained
  <2>2. /\ UNCHANGED <<closed, frame, decision, routeErr>>
        /\ pc'[s] \in {"plugin", "answer"}
    BY <1>7 DEF NextPlugin
  <2> QED
    BY <1>1, <1>2, <1>7, <2>1, <2>2
    DEF Grounds, Chained, Routed, Selected, NothingToTake
<1>8. CASE PluginFails(s) \/ PluginTimesOut(s)
  <2>1. pc[s] = "plugin" /\ NextPlugin(s) /\ res' = res
    BY <1>8 DEF PluginFails, PluginTimesOut
  <2>2. NothingToTake(res[s])
    BY <1>1, <2>1 DEF Grounds
  <2> QED
    BY <1>7, <2>1, <2>2
<1>9. ASSUME NEW r \in Response, PluginReplies(s, r)
      PROVE  Grounds(s)' /\ ForCause(s)'
  <2>1. pc[s] = "plugin" /\ NextPlugin(s) /\ res'[s] = ApplyResponse(res[s], r)
    BY <1>9 DEF PluginReplies
  <2>2. /\ NothingToTake(ApplyResponse(res[s], r))
        /\ res[s].cands # <<>> => ApplyResponse(res[s], r).cands # <<>>
    BY ApplyResponseSettles, ResponseAssumption
  <2> QED BY <1>7, <2>1, <2>2
<1>10. ASSUME NEW reason, NEW size, End(s, reason, size),
              reason = "deny" \/ (reason = routeErr[s] /\ MustReject(s))
       PROVE  Grounds(s)' /\ ForCause(s)'
  <2>1. /\ UNCHANGED <<frame, decision, routeErr, res>>
        /\ pc'[s] = "done"
    BY <1>10 DEF End
  <2>2. Grounds(s)'
    BY <1>1, <2>1 DEF Grounds, Selected
  <2>3. CASE out' = out /\ closed' = closed
    BY <1>2, <2>2, <2>3
  <2>4. CASE out' = [out EXCEPT ![s] = Append(@, Disconnect(reason))]
    <3>1. out[s] = <<>> \/ Len(out[s]) \in Nat
      OBVIOUS
    <3>2. out'[s][Len(out'[s])] = Disconnect(reason)
      BY <2>4
    <3>3. CASE reason = "deny"
      BY <2>2, <3>2, <3>3 DEF ForCause, Rejected
    <3>4. CASE reason = routeErr[s] /\ MustReject(s)
      <4>1. pc[s] = "answer" /\ res[s].backend = NoBackend
        BY <3>4 DEF MustReject
      <4>2. Routed(s) => res[s].cands # <<>> /\ res[s].cands[1] = NoBackend
        BY <1>1, <4>1 DEF Grounds, NothingToTake
      <4>3. frame[s] = "connect" => NothingToTake(res[s])
        <5>1. CASE Chained(s)
          BY <1>1, <4>1, <5>1 DEF Grounds
        <5>2. CASE NPlugins = 0
          BY <1>1, <5>2 DEF Grounds, NothingToTake
        <5> QED BY <5>1, <5>2, PluginAssumption DEF Chained
      <4> QED
        BY <2>1, <2>2, <3>2, <3>4, <4>2, <4>3 DEF ForCause, Routed, NothingToTake
    <3> QED BY <1>10, <3>3, <3>4
  <2> QED BY <1>10, <2>3, <2>4 DEF End
<1>11. ASSUME NEW r \in Response, PluginDenies(s, r)
       PROVE  Grounds(s)' /\ ForCause(s)'
  BY <1>10, <1>11 DEF PluginDenies
<1>12. CASE Reject(s)
  BY <1>10, <1>12 DEF Reject
<1>13. CASE Refer(s) \/ Silent(s)
  <2>1. /\ UNCHANGED <<frame, decision, routeErr, res, closed>>
        /\ pc'[s] = "read"
    BY <1>13 DEF Refer, CanRefer, Silent
  <2> QED
    BY <1>1, <1>2, <2>1 DEF Grounds, Selected
<1>14. CASE PeerStops(s)
  BY <1>1, <1>2, <1>14
  DEF PeerStops, handlers, Grounds, Selected, Chained, Routed, NothingToTake
<1> QED
  BY <1>3, <1>5, <1>6, <1>8, <1>9, <1>11, <1>12, <1>13, <1>14
  DEF Act, HandlerStep, PluginReturns

\* Steps of the stream, of other streams and of the network keep CauseInv.
LEMMA NextCause ==
    TypeInv /\ AnswerShape /\ CauseInv /\ [Next]_vars => CauseInv'
<1> SUFFICES ASSUME TypeInv, AnswerShape, CauseInv, [Next]_vars, NEW u \in Stream
             PROVE  Grounds(u)' /\ ForCause(u)'
  BY DEF CauseInv
<1>1. ASSUME pc'[u] = pc[u], UNCHANGED what(u) PROVE Grounds(u)' /\ ForCause(u)'
  BY <1>1 DEF CauseInv, Grounds, ForCause, what, Chained, Routed, Rejected,
              Selected, NothingToTake
<1>2. CASE pc[u] = "done"
  BY <1>1, <1>2, DoneIsFinal
<1>3. ASSUME pc[u] # "done", Act(u) PROVE Grounds(u)' /\ ForCause(u)'
  BY <1>3, ActCause
<1>4. ASSUME NEW s \in Stream, s # u, Act(s) PROVE Grounds(u)' /\ ForCause(u)'
  BY <1>1, <1>4, OnlyItself DEF TypeInv
<1>5. CASE ClientGone \/ Shutdown \/ CloseOnShutdown \/ UNCHANGED vars
  BY <1>1, <1>5 DEF ClientGone, Shutdown, CloseOnShutdown, handlers, vars, what
<1> QED
  BY <1>2, <1>3, <1>4, <1>5 DEF Next, Act

\* Nobody is turned away for want of a backend that somebody named.
THEOREM RejectionsHaveCause == Spec => []RejectedForCause
<1>1. Init => TypeInv /\ AnswerShape /\ CauseInv
  <2>1. Init => TypeInv /\ AnswerShape
    BY InitType DEF Init, AnswerShape
  <2>2. Init => CauseInv
    BY DEF Init, CauseInv, Grounds, ForCause, Rejected, Start, NoRoute
  <2> QED BY <2>1, <2>2
<1>2. TypeInv /\ AnswerShape /\ CauseInv /\ [Next]_vars
        => (TypeInv /\ AnswerShape /\ CauseInv)'
  BY NextType, NextShape, NextCause
<1>3. CauseInv => RejectedForCause
  BY DEF CauseInv, RejectedForCause, ForCause, Routed
<1> QED
  BY <1>1, <1>2, <1>3, PTL DEF Spec

-----------------------------------------------------------------------------
(* The streams implement Verdict. *)

verdicts(o) == [i \in DOMAIN o |-> Told(o[i])]
toldV == [s \in Bidi |-> [i \in DOMAIN out[s] |-> Told(out[s][i])]]
endedV == [s \in Bidi |-> closed[s]]

\* Writing one more packet appends its verdict.
LEMMA VerdictsOfAppend ==
    ASSUME NEW o \in Seq(Answer), NEW a \in Answer
    PROVE  verdicts(Append(o, a)) = Append(verdicts(o), Told(a))
<1> DEFINE T == {"referral", "denied", "rejected"}
<1>1. /\ Append(o, a) \in Seq(Answer) /\ Len(Append(o, a)) = Len(o) + 1
      /\ \A i \in 1 .. Len(o) : Append(o, a)[i] = o[i]
      /\ Append(o, a)[Len(o) + 1] = a
  BY AppendProperties
<1>2. DOMAIN o = 1 .. Len(o) /\ DOMAIN Append(o, a) = 1 .. Len(o) + 1
      /\ Len(o) \in Nat
  BY <1>1, LenProperties
<1>3. \A x : Told(x) \in T
  BY DEF Told
<1>4. verdicts(o) \in Seq(T) /\ Len(verdicts(o)) = Len(o)
  BY <1>2, <1>3 DEF verdicts
<1>5. verdicts(Append(o, a)) \in Seq(T)
      /\ Len(verdicts(Append(o, a))) = Len(o) + 1
  BY <1>2, <1>3 DEF verdicts
<1> DEFINE w == Append(verdicts(o), Told(a))
<1>6. /\ w \in Seq(T) /\ Len(w) = Len(o) + 1
      /\ \A i \in 1 .. Len(o) : w[i] = verdicts(o)[i]
      /\ w[Len(o) + 1] = Told(a)
  BY <1>3, <1>4, AppendProperties
<1>7. \A i \in 1 .. Len(o) + 1 : verdicts(Append(o, a))[i] = w[i]
  BY <1>1, <1>2, <1>6 DEF verdicts
<1>8. verdicts(Append(o, a)) = w
  <2> HIDE DEF w, T
  <2> QED
    BY <1>5, <1>6, <1>7, SeqEqual
<1> QED BY <1>8

\* Nothing written, nothing told.
LEMMA NoVerdicts == verdicts(<<>>) = <<>>
BY DEF verdicts

\* A new connection has told its streams nothing.
LEMMA InitImplements == Init => Promise!Init
<1> SUFFICES ASSUME Init PROVE Promise!Init
  OBVIOUS
<1>1. \A s \in Bidi : [i \in DOMAIN out[s] |-> Told(out[s][i])] = <<>> /\ closed[s] = FALSE
  BY NoVerdicts, StreamAssumption DEF Init, verdicts
<1> QED
  BY <1>1 DEF Promise!Init

\* Every step is a step of Verdict, or invisible to it.
LEMMA NextImplements ==
    ASSUME TypeInv, AnswerShape, [Next]_vars
    PROVE  [Promise!Next]_<<toldV, endedV>>
<1>1. TypeOK
  BY DEF TypeInv
<1>2. CASE UNCHANGED told
  BY <1>2 DEF told, toldV, endedV
<1>3. toldV = [s \in Bidi |-> verdicts(out[s])]
      /\ toldV' = [s \in Bidi |-> verdicts(out'[s])]
  BY DEF toldV, verdicts
<1>4. ASSUME NEW s \in Stream, NEW a \in Answer, s \in Bidi,
             out' = [out EXCEPT ![s] = Append(@, a)]
      PROVE  toldV' = [toldV EXCEPT ![s] = Append(@, Told(a))]
  <2>1. out[s] \in Seq(Answer)
    BY <1>1 DEF TypeOK
  <2>2. verdicts(out'[s]) = Append(verdicts(out[s]), Told(a))
    BY <1>1, <1>4, <2>1, VerdictsOfAppend DEF TypeOK
  <2>3. \A u \in Bidi \ {s} : out'[u] = out[u]
    BY <1>1, <1>4, StreamAssumption DEF TypeOK
  <2> QED
    BY <1>3, <2>2, <2>3
<1>5. ASSUME NEW s \in Stream, Refer(s) PROVE Promise!Refer(s)
  <2> DEFINE a == ClientReferral(res[s].backend, Envelope(res[s].content))
  <2>1. a \in Answer /\ Told(a) = "referral"
    <3>1. res[s].backend \in Backend \ LongHost
      BY <1>1, <1>5 DEF Refer, CanRefer, TypeOK, ApplyResult, Address
    <3>2. Envelope(res[s].content) \in (Content \ TooLarge) \cup {NoContent}
      BY <1>1, ContentAssumption DEF Envelope, TypeOK, ApplyResult
    <3>3. IsReferral(a)
      BY DEF IsReferral, ClientReferral
    <3> QED
      BY <3>1, <3>2, <3>3 DEF Answer, Told
  <2>2. /\ pc[s] # "done" /\ s \in Bidi /\ ~referralSent[s]
        /\ out' = [out EXCEPT ![s] = Append(@, a)] /\ closed' = closed
    BY <1>5 DEF Refer, CanRefer, CanWrite
  <2>3. out[s] = <<>> /\ ~closed[s]
    BY <1>1, <2>2, ToldBefore
  <2> HIDE DEF a
  <2>4. toldV' = [toldV EXCEPT ![s] = Append(@, "referral")]
    BY <1>4, <2>1, <2>2
  <2>5. toldV[s] = <<>> /\ ~endedV[s] /\ endedV' = endedV
    BY <1>3, <2>2, <2>3, NoVerdicts DEF endedV
  <2>6. Append(toldV[s], "referral") = <<"referral">>
    BY <2>5
  <2> QED
    BY <2>4, <2>5, <2>6 DEF Promise!Refer, toldV, endedV
<1>6. ASSUME NEW s \in Stream, NEW reason \in ErrKind \cup {NoError, "deny"},
             NEW size, End(s, reason, size), pc[s] # "done", ~ UNCHANGED told
      PROVE  /\ s \in Bidi
             /\ Promise!Finish(s, IF reason = "deny" THEN "denied" ELSE "rejected")
  <2> DEFINE a == Disconnect(reason)
  <2>1. a \in Answer /\ Told(a) = IF reason = "deny" THEN "denied" ELSE "rejected"
    BY DEF Answer, Told, Disconnect, IsReferral
  <2>2. /\ out' = [out EXCEPT ![s] = Append(@, a)] /\ s \in Bidi
        /\ closed' = [closed EXCEPT ![s] = TRUE]
    BY <1>6 DEF End, told, CanWrite
  <2>3. ~closed[s]
    BY <1>1, <1>6, ToldBefore
  <2> HIDE DEF a
  <2>4. toldV' = [toldV EXCEPT ![s] = Append(@, Told(a))]
    BY <1>4, <2>1, <2>2
  <2>5. ~endedV[s] /\ endedV' = [endedV EXCEPT ![s] = TRUE]
    BY <1>1, <2>2, <2>3, StreamAssumption DEF endedV, TypeOK
  <2> QED
    BY <2>1, <2>2, <2>4, <2>5 DEF Promise!Finish, toldV, endedV
<1>7. ASSUME NEW s \in Stream, NEW r \in Response, PluginDenies(s, r),
             ~ UNCHANGED told
      PROVE  Promise!Next
  <2>1. s \in Bidi /\ Promise!Finish(s, "denied")
    BY <1>6, <1>7 DEF PluginDenies
  <2> QED
    BY <2>1 DEF Promise!Next, Promise!Deny
<1>8. ASSUME NEW s \in Stream, Reject(s), ~ UNCHANGED told
      PROVE  Promise!Next
  <2>1. /\ routeErr[s] \in ErrKind \cup {NoError, "deny"} /\ routeErr[s] # "deny"
        /\ pc[s] # "done" /\ ~referralSent[s]
        /\ End(s, routeErr[s], ReasonSize[routeErr[s]])
    BY <1>1, <1>8, ReasonAssumption DEF Reject, MustReject, TypeOK, NoError
  <2>2. s \in Bidi /\ Promise!Finish(s, "rejected")
    BY <1>6, <1>8, <2>1
  <2>3. toldV[s] = <<>>
    BY <1>1, <1>3, <2>1, <2>2, ToldBefore, NoVerdicts
  <2> QED
    BY <2>2, <2>3 DEF Promise!Next, Promise!Reject, toldV
<1>9. ASSUME NEW s \in Stream, Refer(s) PROVE Promise!Next
  BY <1>5, <1>9 DEF Promise!Next, Refer, CanRefer, CanWrite
<1> QED
  BY <1>2, <1>7, <1>8, <1>9, OnlyAnswersTell

\* The client of a connection sees only what Verdict promises.
THEOREM StreamsImplementVerdict == Spec => ImplementsVerdict
<1>1. Init => TypeInv /\ AnswerShape /\ Promise!Init
  BY InitType, InitImplements DEF Init, AnswerShape
<1>2. TypeInv /\ AnswerShape /\ [Next]_vars
        => (TypeInv /\ AnswerShape)' /\ [Promise!Next]_<<toldV, endedV>>
  BY NextType, NextShape, NextImplements
<1> QED
  BY <1>1, <1>2, PTL DEF Spec, ImplementsVerdict, Promise!Spec, toldV, endedV
=============================================================================
