-------------------------- MODULE MCConnectStream --------------------------
(***************************************************************************)
(* Instances of ConnectStream for TLC: b1, b2 are ordinary backends, far   *)
(* has a host that no ClientReferral can carry, big does not fit an        *)
(* envelope.                                                               *)
(***************************************************************************)
EXTENDS ConnectStream

CONSTANTS b1, b2, far, small, big

MCBackend == {b1, b2, far}
MCLongHost == {far}
MCContent == {small, big}
MCTooLarge == {big}
MCErrKind == {"no_backends", "discovery"}

MCRoute == {NoRoute,
            [cands |-> <<b1, b2>>, idx |-> 1, backend |-> b2],
            [cands |-> <<far>>, idx |-> 0, backend |-> far]}
GoodRoute == {NoRoute, [cands |-> <<b1, b2>>, idx |-> 1, backend |-> b2]}

\* "no route" fits, the others show the two other sizes.
MCReasonSize == [e \in MCErrKind \cup {NoError} |->
    CASE e = NoError -> "fits" [] e = "discovery" -> "empty" [] OTHER -> "oversize"]
AllFit == [e \in MCErrKind \cup {NoError} |-> "fits"]

Keep == [deny |-> "no", cands |-> <<>>, idx |-> NoIndex, backend |-> Absent,
         content |-> NoContent]
Denies == {[Keep EXCEPT !.deny = d] : d \in {"yes", "oversize"}}

\* Every combination of what an answer may change.
ManyResponses == Denies \cup
    {[Keep EXCEPT !.cands = c, !.idx = i, !.backend = b, !.content = x] :
        c \in {<<>>, <<b2>>, <<NoBackend, b1>>}, i \in {NoIndex, 1},
        b \in {Absent, NoBackend, b2, far}, x \in {NoContent, big}}

\* One answer of each sort; their backends can be encoded.
FewResponses == {Keep, [Keep EXCEPT !.deny = "yes"],
    [Keep EXCEPT !.backend = NoBackend, !.content = small],
    [Keep EXCEPT !.cands = <<b1>>]}

\* As FewResponses, with an address and a content that are refused; denies fit.
SomeResponses == FewResponses \cup
    {[Keep EXCEPT !.content = big], [Keep EXCEPT !.backend = far, !.content = small]}

\* Two Connects at most: a third meets the same states as the second.
TwoConnects == {<<"connect", "connect">>, <<"connect", "garbled">>,
                <<"garbled", "connect">>, <<"other", "connect", "invalid">>}
OneConnect == {<<"connect">>, <<"garbled", "other">>}
=============================================================================
