---------------------------- MODULE FrameReader ----------------------------
(***************************************************************************)
(* How dumpFrames (internal/server/streams.go) cuts the bytes of a stream  *)
(* into frames: what Read returns is appended to `pending`, and complete   *)
(* frames are taken off its front and handled.  A Read returns any number  *)
(* of bytes, up to the buffer's length, wherever the network cut them, and *)
(* possibly together with the error that ends the stream.                  *)
(*                                                                         *)
(* A length or a packet ID has two bytes here, four in the code, least     *)
(* significant first.  What handling a frame does is left to ConnectStream *)
(* except that the handler may be done with the stream.                    *)
(***************************************************************************)
EXTENDS Integers, Sequences

CONSTANTS
    Base,         \* values of a byte
    MaxPayload,   \* maxDebugBufferedPayload, the smaller of the two limits
    BufSize,      \* length of the buffer a Read fills
    Frame,        \* frames a client sends: [header, payload]
    MaxFrames     \* bound: frames the client sends

Byte == 0 .. Base - 1
HeaderSize == 4

\* int32(binary.LittleEndian.Uint32(...)) of the two halves of a header.
Signed(v) == IF 2 * v < Base * Base THEN v ELSE v - Base * Base
PayloadLen(b) == Signed(b[1] + Base * b[2])
PacketID(b) == Signed(b[3] + Base * b[4])

InBounds(n) == 0 <= n /\ n <= MaxPayload
Valid(f) == InBounds(PayloadLen(f.header))

\* The client's packets have the payload that their header announces; an
\* impossible header is followed by nothing.
ASSUME FrameReaderAssumption ==
    /\ Base \in Nat /\ Base > 1 /\ MaxPayload \in Nat /\ BufSize \in Nat \ {0}
    /\ MaxFrames \in Nat
    /\ Frame \subseteq [header : [1 .. HeaderSize -> Byte], payload : Seq(Byte)]
    /\ \A f \in Frame : Len(f.payload) = IF Valid(f) THEN PayloadLen(f.header) ELSE 0

Bytes(f) == f.header \o f.payload

VARIABLES
    sent,         \* frames the client has sent
    wire,         \* their bytes, and those of a last one that it broke off
    ends,         \* where each of the frames ends
    sending,      \* the client has not ended the stream
    intact,       \* the stream was not reset, nor its connection closed
    received,     \* bytes that Read has returned
    pc,           \* read, parse or done
    readErr,      \* the last Read returned an error with its bytes
    pending,      \* dumpFrames' local pending
    handled       \* frames handled

client == <<sent, wire, ends, sending, intact>>
vars == <<client, received, pc, readErr, pending, handled>>

Init ==
    /\ sent = <<>> /\ wire = <<>> /\ ends = <<>>
    /\ sending = TRUE /\ intact = TRUE
    /\ received = 0
    /\ pc = "read"
    /\ readErr = FALSE
    /\ pending = <<>>
    /\ handled = <<>>

-----------------------------------------------------------------------------
(* The client and the network. *)

Send(f) ==
    /\ sending /\ Len(sent) < MaxFrames
    /\ sent' = Append(sent, f)
    /\ wire' = wire \o Bytes(f)
    /\ ends' = Append(ends, Len(wire) + Len(Bytes(f)))
    /\ UNCHANGED <<sending, intact, received, pc, readErr, pending, handled>>

\* The client ends the stream after m bytes of another frame.
Finish(f, m) ==
    /\ sending /\ m < Len(Bytes(f))
    /\ wire' = wire \o SubSeq(Bytes(f), 1, m)
    /\ sending' = FALSE
    /\ UNCHANGED <<sent, ends, intact, received, pc, readErr, pending, handled>>

Break ==
    /\ intact
    /\ intact' = FALSE
    /\ UNCHANGED <<sent, wire, ends, sending, received, pc, readErr, pending, handled>>

-----------------------------------------------------------------------------
(* dumpFrames. *)

\* A Read that leaves the reader at byte n may return an error.
MayEnd(n) == ~intact \/ (~sending /\ n = Len(wire))

\* Mutant: what is left of the buffer before is dropped.
ReadOver(n, err) ==
    /\ pc = "read" /\ n \in 1 .. BufSize /\ received + n <= Len(wire)
    /\ err => MayEnd(received + n)
    /\ pending' = SubSeq(wire, received + 1, received + n)
    /\ received' = received + n
    /\ readErr' = err
    /\ pc' = "parse"
    /\ UNCHANGED <<client, handled>>

\* Mutant: an error is looked at before the bytes that came with it.
ReadErrFirst(n, err) ==
    /\ pc = "read" /\ n \in 1 .. BufSize /\ received + n <= Len(wire)
    /\ err => MayEnd(received + n)
    /\ pending' = pending \o SubSeq(wire, received + 1, received + n)
    /\ received' = received + n
    /\ readErr' = err
    /\ pc' = IF err THEN "done" ELSE "parse"
    /\ UNCHANGED <<client, handled>>

Read(n, err) ==
    /\ pc = "read" /\ n \in 1 .. BufSize /\ received + n <= Len(wire)
    /\ err => MayEnd(received + n)
    /\ pending' = pending \o SubSeq(wire, received + 1, received + n)
    /\ received' = received + n
    /\ readErr' = err
    /\ pc' = "parse"
    /\ UNCHANGED <<client, handled>>

\* Read returns nothing but an error.
ReadFails ==
    /\ pc = "read" /\ MayEnd(received)
    /\ pc' = "done"
    /\ UNCHANGED <<client, received, readErr, pending, handled>>

HasHeader == Len(pending) >= HeaderSize
FrameLen == HeaderSize + PayloadLen(pending)

Invalid ==
    /\ pc = "parse" /\ HasHeader /\ ~ InBounds(PayloadLen(pending))
    /\ pc' = "done"
    /\ UNCHANGED <<client, received, readErr, pending, handled>>

\* Mutant: a frame that ends where the buffer ends waits for more.
CompleteButLast == HasHeader /\ InBounds(PayloadLen(pending)) /\ Len(pending) > FrameLen

Complete == HasHeader /\ InBounds(PayloadLen(pending)) /\ Len(pending) >= FrameLen

First == [header |-> SubSeq(pending, 1, HeaderSize),
          payload |-> SubSeq(pending, HeaderSize + 1, FrameLen)]

\* Mutant: one frame per Read.
HandleOne(returns) ==
    /\ pc = "parse" /\ Complete
    /\ handled' = Append(handled, First)
    /\ pending' = SubSeq(pending, FrameLen + 1, Len(pending))
    /\ pc' = IF returns THEN "done" ELSE "read"
    /\ UNCHANGED <<client, received, readErr>>

\* The handler of a frame returns from dumpFrames, or the frame is cut off.
Handle(returns) ==
    /\ pc = "parse" /\ Complete
    /\ handled' = Append(handled, First)
    /\ IF returns THEN pc' = "done" /\ UNCHANGED pending
       ELSE /\ pending' = SubSeq(pending, FrameLen + 1, Len(pending))
            /\ UNCHANGED pc
    /\ UNCHANGED <<client, received, readErr>>

\* No complete frame is left: read on, or look at the error.
Incomplete ==
    /\ pc = "parse"
    /\ HasHeader => InBounds(PayloadLen(pending)) /\ ~ Complete
    /\ pc' = IF readErr THEN "done" ELSE "read"
    /\ UNCHANGED <<client, received, readErr, pending, handled>>

Reader ==
    \/ \E n \in 1 .. BufSize, err \in BOOLEAN : Read(n, err)
    \/ ReadFails \/ Invalid \/ Incomplete
    \/ \E returns \in BOOLEAN : Handle(returns)

Client ==
    \/ \E f \in Frame : Send(f) \/ \E m \in 0 .. Len(Bytes(f)) : Finish(f, m)
    \/ Break

Next == Client \/ Reader

Spec == Init /\ [][Next]_vars

\* The goroutine is scheduled, and QUIC delivers what was sent or ends the
\* stream.
LiveSpec == Spec /\ WF_vars(Reader)

-----------------------------------------------------------------------------
TypeOK ==
    /\ sent \in Seq(Frame) /\ handled \in Seq(Frame)
    /\ wire \in Seq(Byte) /\ pending \in Seq(Byte)
    /\ ends \in Seq(Nat)
    /\ sending \in BOOLEAN /\ intact \in BOOLEAN /\ readErr \in BOOLEAN
    /\ received \in 0 .. Len(wire)
    /\ pc \in {"read", "parse", "done"}

\* The frames handled are the first of those sent, byte by byte and each once,
\* however the network cuts the stream and wherever the client breaks it off.
FramesAsSent ==
    /\ Len(handled) <= Len(sent)
    /\ handled = SubSeq(sent, 1, Len(handled))

\* A frame that has been read is never left in the buffer to wait for bytes the
\* client may never send: while the reader waits, the next one is not all here.
NothingWithheld ==
    pc = "read" /\ Len(handled) < Len(sent) => received < ends[Len(handled) + 1]

\* The reader is a queue of frames: it handles them in order, and ends only for a
\* reason the client or a handler gives.
Queue == INSTANCE FrameQueue WITH
    Acceptable <- {f \in Frame : Valid(f)},
    queue <- SubSeq(sent, Len(handled) + 1, Len(sent)),
    serving <- pc # "done"
ImplementsQueue == Queue!Spec

\* Every frame is handled in the end, unless the reader returned for such a
\* reason.
FrameHandled ==
    \A k \in 1 .. MaxFrames : Len(sent) >= k ~> (Len(handled) >= k \/ pc = "done")
=============================================================================
