------------------------------ MODULE Verdict ------------------------------
(***************************************************************************)
(* What the server promises the client of a connection, whatever frames,   *)
(* routing results and plugins there are: a stream is given at most one    *)
(* verdict on where to go (a referral, or a rejection that ends it); only  *)
(* a plugin may still deny a client that has been referred; an ended       *)
(* stream carries nothing more.                                            *)
(***************************************************************************)
EXTENDS Sequences

CONSTANT Answerable     \* streams the server can write to
VARIABLES told, ended   \* per stream: the verdicts given; nothing will follow

Init == /\ told = [s \in Answerable |-> <<>>]
        /\ ended = [s \in Answerable |-> FALSE]

Refer(s) == /\ ~ended[s] /\ told[s] = <<>>
            /\ told' = [told EXCEPT ![s] = <<"referral">>]
            /\ UNCHANGED ended

Finish(s, verdict) == /\ ~ended[s]
                      /\ told' = [told EXCEPT ![s] = Append(@, verdict)]
                      /\ ended' = [ended EXCEPT ![s] = TRUE]

Reject(s) == told[s] = <<>> /\ Finish(s, "rejected")

Deny(s) == Finish(s, "denied")

Next == \E s \in Answerable : Refer(s) \/ Reject(s) \/ Deny(s)

Spec == Init /\ [][Next]_<<told, ended>>
=============================================================================
