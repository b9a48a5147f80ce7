----------------------------- MODULE FrameQueue -----------------------------
(***************************************************************************)
(* What a stream of frames promises to the code that handles them: frames  *)
(* are handled one by one in the order they were sent, each at most once,  *)
(* none behind one with an impossible length; and nobody stops while there *)
(* are frames to handle, unless a handler or a broken stream says so.      *)
(* ConnectStream's inbox is such a queue.                                  *)
(***************************************************************************)
EXTENDS Sequences

CONSTANTS
    Frame,       \* frames that may be sent
    Acceptable   \* those of them with a possible length

VARIABLES
    queue,       \* frames sent and not yet handled
    sending,     \* the client may send more
    intact,      \* the stream was not reset, nor its connection closed
    serving      \* frames are being handled

vars == <<queue, sending, intact, serving>>

Init == queue = <<>> /\ sending = TRUE /\ intact = TRUE /\ serving = TRUE

Put ==
    /\ sending
    /\ \E f \in Frame : queue' = Append(queue, f)
    /\ UNCHANGED <<sending, intact, serving>>

\* A handler goes on, or is done with the stream.
Take ==
    /\ serving /\ queue # <<>> /\ Head(queue) \in Acceptable
    /\ queue' = Tail(queue)
    /\ serving' \in BOOLEAN
    /\ UNCHANGED <<sending, intact>>

Refuse ==
    /\ serving /\ queue # <<>> /\ Head(queue) \notin Acceptable
    /\ serving' = FALSE
    /\ UNCHANGED <<queue, sending, intact>>

\* The stream has ended and all of it is handled, or it broke.
Stop ==
    /\ serving
    /\ ~intact \/ (~sending /\ queue = <<>>)
    /\ serving' = FALSE
    /\ UNCHANGED <<queue, sending, intact>>

Finish == sending /\ sending' = FALSE /\ UNCHANGED <<queue, intact, serving>>

Break == intact /\ intact' = FALSE /\ UNCHANGED <<queue, sending, serving>>

Next == Put \/ Take \/ Refuse \/ Stop \/ Finish \/ Break

Spec == Init /\ [][Next]_vars
=============================================================================
