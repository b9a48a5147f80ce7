---------------------------- MODULE PluginChain ----------------------------
(***************************************************************************)
(* What one plugin's answer does to the routing result of a Connect:       *)
(* the body of the loop of Manager.ApplyOnConnect                          *)
(* (internal/plugins/manager.go).  The loop itself, with its calls that    *)
(* may fail, time out or deny, is in ConnectStream.                        *)
(*                                                                         *)
(* A backend is its address (host and port, all that the code compares);   *)
(* NoBackend is one whose host is empty.  Indices count from 0, as in the  *)
(* code, and NoIndex stands for "no index".                                *)
(***************************************************************************)
EXTENDS Integers, Sequences

CONSTANTS
    Backend,      \* addresses with a host
    Content,      \* referral contents a plugin may attach
    NoBackend,    \* the zero Backend{}
    NoContent,    \* nil content
    Absent        \* a nil *Backend in a plugin's answer

Address == Backend \cup {NoBackend}
NoIndex == -1

(***************************************************************************)
(* ConnectResponse.  An absent or empty candidates list changes nothing,   *)
(* so both are <<>>; so are a nil and an out-of-range index.  "oversize"   *)
(* is a deny whose reason encodeDisconnectPayload refuses.                 *)
(***************************************************************************)
ConnectResponse ==
    [deny    : {"no", "yes", "oversize"},
     cands   : Seq(Address),
     idx     : Int,
     backend : Address \cup {Absent},
     content : Content \cup {NoContent}]

\* ApplyResult: what the chain hands from plugin to plugin.
ApplyResult ==
    [cands   : Seq(Address),
     idx     : Int,
     backend : Address,
     content : Content \cup {NoContent}]

\* The chain starts from the routing decision and the content attached so far.
Start(decision, content) ==
    [cands |-> decision.cands, idx |-> decision.idx,
     backend |-> decision.backend, content |-> content]

Positions(cands) == 0 .. (Len(cands) - 1)

\* A non-empty candidates list replaces the current one; index and backend stay.
Replace(res, r) ==
    IF r.cands = <<>> THEN res ELSE [res EXCEPT !.cands = r.cands]

\* An index counts only when it lies in the (possibly replaced) list.
Pick(res, r) ==
    IF r.idx \in Positions(res.cands)
    THEN [res EXCEPT !.idx = r.idx, !.backend = res.cands[r.idx + 1]]
    ELSE res

\* Where an address first occurs in the list.
FirstPosition(cands, b) ==
    (CHOOSE i \in DOMAIN cands :
        cands[i] = b /\ \A j \in DOMAIN cands : cands[j] = b => i <= j) - 1

\* A backend always wins; the index follows it if the list has its address.
Override(res, r) ==
    IF r.backend = Absent THEN res
    ELSE [res EXCEPT
            !.backend = r.backend,
            !.idx = IF \E i \in DOMAIN res.cands : res.cands[i] = r.backend
                    THEN FirstPosition(res.cands, r.backend) ELSE @]

\* Mutant: an empty backend stays.
RepairForgotten(res) == res

\* An empty backend gives way to the first candidate.
Repair(res) ==
    IF res.backend = NoBackend /\ res.cands # <<>>
    THEN [res EXCEPT !.idx = 0, !.backend = res.cands[1]]
    ELSE res

Attach(res, r) ==
    IF r.content = NoContent THEN res ELSE [res EXCEPT !.content = r.content]

ApplyResponse(res, r) ==
    Attach(Repair(Override(Pick(Replace(res, r), r), r)), r)

\* No candidate is left unused: without a backend, there was none to take.
NothingToTake(res) ==
    res.backend = NoBackend => (res.cands = <<>> \/ res.cands[1] = NoBackend)
=============================================================================
