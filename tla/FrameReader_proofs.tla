------------------------- MODULE FrameReader_proofs -------------------------
(***************************************************************************)
(* Proofs about FrameReader, for every set of frames, buffer length and    *)
(* limit on payloads, and every way to cut the stream into reads.          *)
(***************************************************************************)
EXTENDS FrameReader, SequenceTheorems, TLAPS

\* The bytes of a frame: a header, and as much payload as it announces.
LEMMA FrameBytes ==
    ASSUME NEW f \in Frame
    PROVE  /\ f.header \in Seq(Byte) /\ Len(f.header) = HeaderSize
           /\ f.payload \in Seq(Byte) /\ Len(f.payload) \in Nat
           /\ Bytes(f) \in Seq(Byte)
           /\ Len(Bytes(f)) = HeaderSize + Len(f.payload)
           /\ \A j \in 1 .. HeaderSize : Bytes(f)[j] = f.header[j]
           /\ \A j \in 1 .. Len(f.payload) : Bytes(f)[HeaderSize + j] = f.payload[j]
           /\ f = [header |-> f.header, payload |-> f.payload]
<1>1. f \in [header : [1 .. HeaderSize -> Byte], payload : Seq(Byte)]
  BY FrameReaderAssumption
<1>2. f.header \in [1 .. HeaderSize -> Byte] /\ f.payload \in Seq(Byte)
  BY <1>1
<1>3. f.header \in Seq(Byte)
  BY <1>2, SeqDef DEF HeaderSize
<1>4. Len(f.header) = HeaderSize
  BY <1>2, <1>3, LenProperties DEF HeaderSize
<1>5. Len(f.payload) \in Nat
  BY <1>2, LenProperties
<1>6. /\ Bytes(f) \in Seq(Byte)
      /\ Len(Bytes(f)) = Len(f.header) + Len(f.payload)
      /\ \A i \in 1 .. Len(f.header) + Len(f.payload) :
             Bytes(f)[i] = IF i <= Len(f.header) THEN f.header[i]
                           ELSE f.payload[i - Len(f.header)]
  <2> HIDE DEF HeaderSize
  <2> QED BY <1>2, <1>3, ConcatProperties DEF Bytes
<1>7. \A j \in 1 .. HeaderSize : Bytes(f)[j] = f.header[j]
  BY <1>4, <1>5, <1>6 DEF HeaderSize
<1>8. \A j \in 1 .. Len(f.payload) : Bytes(f)[HeaderSize + j] = f.payload[j]
  BY <1>4, <1>5, <1>6 DEF HeaderSize
<1> QED BY <1>1, <1>2, <1>3, <1>4, <1>5, <1>6, <1>7, <1>8

\* A length read from two bytes is an integer that depends on nothing else.
LEMMA LengthOfHeader ==
    /\ \A b \in Seq(Byte) : Len(b) >= HeaderSize => PayloadLen(b) \in Int
    /\ \A b, c \in Seq(Byte) : b[1] = c[1] /\ b[2] = c[2] => PayloadLen(b) = PayloadLen(c)
<1>1. ASSUME NEW b \in Seq(Byte), Len(b) >= HeaderSize PROVE PayloadLen(b) \in Int
  <2>1. b[1] \in Int /\ b[2] \in Int
    <3>1. 1 \in 1 .. Len(b) /\ 2 \in 1 .. Len(b)
      BY <1>1, LenProperties DEF HeaderSize
    <3> QED BY <3>1, ElementOfSeq, FrameReaderAssumption DEF Byte
  <2>2. Base * b[2] \in Int /\ Base * Base \in Int
    BY <2>1, FrameReaderAssumption
  <2> QED BY <2>1, <2>2 DEF PayloadLen, Signed
<1>2. ASSUME NEW b \in Seq(Byte), NEW c \in Seq(Byte), b[1] = c[1], b[2] = c[2]
      PROVE PayloadLen(b) = PayloadLen(c)
  BY <1>2 DEF PayloadLen
<1> QED BY <1>1, <1>2

-----------------------------------------------------------------------------
(* The invariant. *)

\* Where frame k + 1 begins.
BeforeIn(e, k) == IF k = 0 THEN 0 ELSE e[k]
Before(k) == BeforeIn(ends, k)

\* The stream is the frames sent, one behind the other, and the broken off one.
Layout ==
    /\ Len(ends) = Len(sent)
    /\ \A i \in 1 .. Len(sent) :
           /\ ends[i] <= Len(wire)
           /\ ends[i] = Before(i - 1) + Len(Bytes(sent[i]))
           /\ \A j \in 1 .. Len(Bytes(sent[i])) :
                  wire[Before(i - 1) + j] = Bytes(sent[i])[j]

Tail_ == Len(wire) - Before(Len(sent))

Rest ==
    /\ sending => Len(wire) = Before(Len(sent))
    /\ ~sending => \E f \in Frame :
           /\ Tail_ < Len(Bytes(f))
           /\ \A j \in 1 .. Tail_ : wire[Before(Len(sent)) + j] = Bytes(f)[j]

\* The buffer holds what was received behind the last frame handled.
Buffered ==
    pc # "done" =>
        /\ received = Before(Len(handled)) + Len(pending)
        /\ \A j \in 1 .. Len(pending) : pending[j] = wire[Before(Len(handled)) + j]

AtRest == pc = "read" => (HasHeader => InBounds(PayloadLen(pending)) /\ ~Complete)

\* An error that came with bytes is still there when they are handled.
Ended == pc # "read" /\ readErr => MayEnd(received)

Copied ==
    /\ Len(handled) <= Len(sent)
    /\ \A i \in 1 .. Len(handled) : handled[i] = sent[i]

Inv == TypeOK /\ Layout /\ Rest /\ Buffered /\ AtRest /\ Ended /\ Copied

\* Nothing is sent, received or handled.
LEMMA InitInv == Init => Inv
<1> SUFFICES ASSUME Init PROVE Inv
  OBVIOUS
<1> USE DEF Init
<1>1. TypeOK
  <2>1. /\ <<>> \in Seq(Frame) /\ <<>> \in Seq(Byte)
        /\ <<>> \in Seq(Nat) /\ Len(<<>>) = 0
    BY EmptySeq
  <2>2. sending \in BOOLEAN /\ intact \in BOOLEAN /\ readErr \in BOOLEAN
    OBVIOUS
  <2>3. received \in 0 .. Len(wire) /\ pc \in {"read", "parse", "done"}
    BY <2>1
  <2> QED BY <2>1, <2>2, <2>3, Zenon DEF TypeOK
<1>2. Layout /\ Rest
  BY DEF Layout, Rest, Tail_, Before, BeforeIn
<1>3. Buffered /\ AtRest /\ Ended
  BY DEF Buffered, AtRest, Ended, Before, BeforeIn, HasHeader, HeaderSize
<1>4. Copied
  BY DEF Copied
<1> QED BY <1>1, <1>2, <1>3, <1>4 DEF Inv

\* The frames handled are a prefix of those sent.
LEMMA CopiedIsPrefix == ASSUME TypeOK, Copied PROVE FramesAsSent
<1> DEFINE p == SubSeq(sent, 1, Len(handled))
<1>1. /\ Len(handled) \in Nat /\ Len(sent) \in Nat /\ Len(handled) <= Len(sent)
      /\ handled \in Seq(Frame)
  BY LenProperties DEF TypeOK, Copied
<1>2. \A i \in 1 .. Len(handled) : sent[i] \in Frame
  BY <1>1, ElementOfSeq DEF TypeOK
<1>3. /\ p \in Seq(Frame)
      /\ Len(p) = IF 1 <= Len(handled) THEN Len(handled) - 1 + 1 ELSE 0
      /\ \A i \in 1 .. Len(handled) - 1 + 1 : p[i] = sent[1 + i - 1]
  BY <1>1, <1>2, SubSeqProperties, SMTT(30)
<1> HIDE DEF p
<1>4. Len(p) = Len(handled)
  <2>1. (IF 1 <= Len(handled) THEN Len(handled) - 1 + 1 ELSE 0) = Len(handled)
    BY <1>1
  <2> QED BY <1>3, <2>1
<1>5. ASSUME NEW i \in 1 .. Len(handled) PROVE handled[i] = p[i]
  <2>1. 1 + i - 1 = i /\ i \in 1 .. Len(handled) - 1 + 1
    BY <1>1
  <2> QED BY <1>3, <2>1 DEF Copied
<1>6. handled = p
  BY <1>1, <1>3, <1>4, <1>5, SeqEqual
<1> QED BY <1>1, <1>6 DEF FramesAsSent, p

\* The place where a frame begins is inside the stream.
LEMMA BeforeType ==
    ASSUME TypeOK, Layout, NEW k \in 0 .. Len(sent)
    PROVE  /\ Before(k) \in Nat /\ Before(k) <= Len(wire)
           /\ Len(sent) \in Nat /\ Len(wire) \in Nat /\ Len(pending) \in Nat
           /\ Len(handled) \in Nat
<1>1. Len(sent) \in Nat /\ Len(wire) \in Nat /\ Len(pending) \in Nat /\ Len(handled) \in Nat
  BY LenProperties DEF TypeOK
<1>2. CASE k = 0
  BY <1>1, <1>2 DEF Before, BeforeIn
<1>3. CASE k # 0
  <2>1. k \in 1 .. Len(ends)
    BY <1>1, <1>3 DEF Layout
  <2>2. ends[k] \in Nat
    BY <2>1, ElementOfSeq DEF TypeOK
  <2> QED BY <1>1, <1>3, <2>1, <2>2 DEF Before, BeforeIn, Layout
<1> QED BY <1>2, <1>3

\* The header at the front of the buffer is that of the next frame sent, or of
\* the one that was broken off, which is never complete.
LEMMA Front ==
    ASSUME Inv, pc # "done", HasHeader
    PROVE  \E f \in Frame :
               /\ \A j \in 1 .. Len(pending) : j <= Len(Bytes(f)) => pending[j] = Bytes(f)[j]
               /\ \/ Len(handled) < Len(sent) /\ f = sent[Len(handled) + 1]
                  \/ Len(handled) = Len(sent) /\ Len(pending) < Len(Bytes(f))
<1> DEFINE h == Len(handled)
<1>1. /\ h \in 0 .. Len(sent) /\ Before(h) \in Nat /\ Len(pending) \in Nat
      /\ Len(sent) \in Nat /\ Len(wire) \in Nat /\ received \in 0 .. Len(wire)
  <2>1. h \in Nat /\ Len(sent) \in Nat
    BY LenProperties DEF Inv, TypeOK
  <2>2. h \in 0 .. Len(sent)
    BY <2>1 DEF Inv, Copied
  <2> QED BY <2>1, <2>2, BeforeType DEF Inv, TypeOK
<1>2. /\ received = Before(h) + Len(pending)
      /\ \A j \in 1 .. Len(pending) : pending[j] = wire[Before(h) + j]
  BY DEF Inv, Buffered
<1>3. CASE h < Len(sent)
  <2>1. h + 1 \in 1 .. Len(sent) /\ (h + 1) - 1 = h
    BY <1>1, <1>3
  <2>2. sent[h + 1] \in Frame
    BY <2>1, ElementOfSeq DEF Inv, TypeOK
  <2>3. \A j \in 1 .. Len(Bytes(sent[h + 1])) : wire[Before(h) + j] = Bytes(sent[h + 1])[j]
    BY <2>1 DEF Inv, Layout
  <2>4. Len(Bytes(sent[h + 1])) \in Nat
    BY <2>2, FrameBytes, LenProperties
  <2>5. \A j \in 1 .. Len(pending) : j <= Len(Bytes(sent[h + 1]))
            => pending[j] = Bytes(sent[h + 1])[j]
    BY <1>1, <1>2, <2>3, <2>4
  <2> QED BY <1>3, <2>2, <2>5
<1>4. CASE h = Len(sent)
  <2>1. Len(pending) > 0 /\ Len(wire) >= Before(Len(sent)) + Len(pending)
    BY <1>1, <1>2, <1>4 DEF HasHeader, HeaderSize
  <2>2. ~sending
    BY <1>1, <1>4, <2>1 DEF Inv, Rest
  <2>3. PICK f \in Frame :
            /\ Tail_ < Len(Bytes(f))
            /\ \A j \in 1 .. Tail_ : wire[Before(Len(sent)) + j] = Bytes(f)[j]
    BY <2>2 DEF Inv, Rest
  <2>4. Len(Bytes(f)) \in Nat
    BY <2>3, FrameBytes, LenProperties
  <2>5. Len(pending) <= Tail_ /\ Tail_ \in Nat
    BY <1>1, <1>4, <2>1 DEF Tail_
  <2>6. Len(pending) < Len(Bytes(f))
    BY <1>1, <2>3, <2>4, <2>5
  <2>7. \A j \in 1 .. Len(pending) : pending[j] = Bytes(f)[j]
    BY <1>1, <1>2, <1>4, <2>3, <2>5
  <2> QED BY <1>4, <2>3, <2>6, <2>7
<1> QED BY <1>1, <1>3, <1>4

\* A complete frame in the buffer is the next frame sent; a header with an
\* impossible length belongs to the next frame sent as well.
LEMMA NextFrame ==
    ASSUME Inv, pc # "done", HasHeader, InBounds(PayloadLen(pending)) => Complete
    PROVE  /\ Len(handled) + 1 \in 1 .. Len(sent)
           /\ LET f == sent[Len(handled) + 1]
              IN  /\ f \in Frame
                  /\ Valid(f) <=> InBounds(PayloadLen(pending))
                  /\ Valid(f) => First = f /\ FrameLen = Len(Bytes(f))
<1>1. PICK f \in Frame :
          /\ \A j \in 1 .. Len(pending) : j <= Len(Bytes(f)) => pending[j] = Bytes(f)[j]
          /\ \/ Len(handled) < Len(sent) /\ f = sent[Len(handled) + 1]
             \/ Len(handled) = Len(sent) /\ Len(pending) < Len(Bytes(f))
  BY Front
<1>2. /\ pending \in Seq(Byte) /\ Len(pending) \in Nat /\ HeaderSize \in Nat
      /\ Len(handled) \in Nat /\ Len(sent) \in Nat
  BY LenProperties DEF Inv, TypeOK, HeaderSize
<1>3. /\ f.header \in Seq(Byte) /\ Len(f.header) = HeaderSize /\ Len(f.payload) \in Nat
      /\ f.payload \in Seq(Byte) /\ Bytes(f) \in Seq(Byte)
      /\ Len(Bytes(f)) = HeaderSize + Len(f.payload)
      /\ \A j \in 1 .. HeaderSize : Bytes(f)[j] = f.header[j]
      /\ \A j \in 1 .. Len(f.payload) : Bytes(f)[HeaderSize + j] = f.payload[j]
      /\ f = [header |-> f.header, payload |-> f.payload]
  BY FrameBytes
<1>4. \A j \in 1 .. HeaderSize : pending[j] = f.header[j]
  BY <1>1, <1>2, <1>3 DEF HasHeader
<1>5. PayloadLen(pending) = PayloadLen(f.header) /\ PayloadLen(f.header) \in Int
  <2>1. pending[1] = f.header[1] /\ pending[2] = f.header[2]
    BY <1>4 DEF HeaderSize
  <2>2. PayloadLen(pending) = PayloadLen(f.header)
    BY <1>2, <1>3, <2>1, LengthOfHeader
  <2>3. PayloadLen(f.header) \in Int
    BY <1>2, <1>3, LengthOfHeader
  <2> QED BY <2>2, <2>3
<1>6. Valid(f) <=> InBounds(PayloadLen(pending))
  BY <1>5 DEF Valid
<1>7. Len(f.payload) = IF Valid(f) THEN PayloadLen(f.header) ELSE 0
  BY FrameReaderAssumption
<1>8. Len(pending) >= Len(Bytes(f))
  <2>1. CASE Valid(f)
    BY <1>3, <1>5, <1>6, <1>7, <2>1 DEF Complete, FrameLen
  <2>2. CASE ~Valid(f)
    BY <1>2, <1>3, <1>7, <2>2 DEF HasHeader
  <2> QED BY <2>1, <2>2
<1>9. Len(handled) < Len(sent) /\ f = sent[Len(handled) + 1]
  BY <1>1, <1>2, <1>3, <1>8
<1>10. ASSUME Valid(f) PROVE First = f /\ FrameLen = Len(Bytes(f))
  <2>1. FrameLen = Len(Bytes(f)) /\ Len(f.payload) = FrameLen - HeaderSize
    BY <1>3, <1>5, <1>7, <1>10 DEF FrameLen, HeaderSize
  <2>2. \A j \in 1 .. Len(pending) : pending[j] \in Byte
    BY <1>2, ElementOfSeq
  <2>3. SubSeq(pending, 1, HeaderSize) = f.header
    <3> DEFINE p == SubSeq(pending, 1, HeaderSize)
    <3>1. \A j \in 1 .. HeaderSize : pending[j] \in Byte
      BY <1>2, <2>2 DEF HasHeader
    <3>2. /\ p \in Seq(Byte)
          /\ Len(p) = IF 1 <= HeaderSize THEN HeaderSize - 1 + 1 ELSE 0
          /\ \A j \in 1 .. HeaderSize - 1 + 1 : p[j] = pending[1 + j - 1]
      BY <1>2, <3>1, SubSeqProperties, SMTT(30)
    <3> HIDE DEF p
    <3>3. Len(p) = HeaderSize /\ \A j \in 1 .. HeaderSize : p[j] = pending[1 + j - 1]
      BY <3>2 DEF HeaderSize
    <3>4. \A j \in 1 .. HeaderSize : p[j] = f.header[j]
      <4> SUFFICES ASSUME NEW j \in 1 .. HeaderSize PROVE p[j] = f.header[j]
        OBVIOUS
      <4>1. 1 + j - 1 = j
        BY <1>2
      <4> QED BY <1>4, <3>3, <4>1
    <3>5. p = f.header
      BY <1>3, <3>2, <3>3, <3>4, SeqEqual
    <3> QED BY <3>5 DEF p
  <2>5. SubSeq(pending, HeaderSize + 1, FrameLen) = f.payload
    <3> DEFINE p == SubSeq(pending, HeaderSize + 1, FrameLen)
    <3>1. FrameLen \in Nat /\ FrameLen >= HeaderSize /\ FrameLen <= Len(pending)
      BY <1>2, <1>3, <1>8, <2>1
    <3>2. \A j \in HeaderSize + 1 .. FrameLen : pending[j] \in Byte
      BY <1>2, <2>2, <3>1
    <3>3. /\ p \in Seq(Byte)
          /\ Len(p) = IF HeaderSize + 1 <= FrameLen THEN FrameLen - (HeaderSize + 1) + 1 ELSE 0
          /\ \A j \in 1 .. FrameLen - (HeaderSize + 1) + 1 :
                 p[j] = pending[(HeaderSize + 1) + j - 1]
      BY <1>2, <3>1, <3>2, SubSeqProperties, SMTT(30)
    <3> HIDE DEF p
    <3>4. Len(p) = Len(f.payload)
      <4>1. (IF HeaderSize + 1 <= FrameLen THEN FrameLen - (HeaderSize + 1) + 1 ELSE 0)
                = FrameLen - HeaderSize
        BY <1>2, <3>1
      <4> QED BY <2>1, <3>3, <4>1
    <3>5. ASSUME NEW j \in 1 .. Len(f.payload) PROVE p[j] = f.payload[j]
      <4>1. (HeaderSize + 1) + j - 1 = HeaderSize + j
            /\ j \in 1 .. FrameLen - (HeaderSize + 1) + 1
            /\ HeaderSize + j \in 1 .. Len(pending) /\ HeaderSize + j <= Len(Bytes(f))
        BY <1>2, <1>3, <1>8, <2>1, <3>1, SMTT(30)
      <4>2. p[j] = pending[HeaderSize + j] /\ pending[HeaderSize + j] = Bytes(f)[HeaderSize + j]
        BY <1>1, <3>3, <4>1
      <4> QED BY <1>3, <4>2
    <3>6. p = f.payload
      BY <1>3, <3>3, <3>4, <3>5, SeqEqual
    <3> QED BY <3>6 DEF p
  <2>8. First = [header |-> f.header, payload |-> f.payload]
    BY <2>3, <2>5 DEF First
  <2>9. f = [header |-> f.header, payload |-> f.payload]
    BY FrameBytes
  <2>10. First = f
    BY <2>8, <2>9
  <2> QED BY <2>1, <2>10
<1> QED BY <1>2, <1>6, <1>9, <1>10

\* When all the bytes of the next frame were received, it can be seen.
LEMMA AllHere ==
    ASSUME Inv, pc # "done", Len(handled) < Len(sent),
           received >= ends[Len(handled) + 1]
    PROVE  HasHeader /\ (InBounds(PayloadLen(pending)) => Complete)
<1> DEFINE h == Len(handled)
           f == sent[h + 1]
<1>1. h \in Nat /\ Len(sent) \in Nat
  BY LenProperties DEF Inv, TypeOK
<1>2. h \in 0 .. Len(sent) /\ h + 1 \in 1 .. Len(sent) /\ (h + 1) - 1 = h
  BY <1>1
<1>3. f \in Frame
  BY <1>2, ElementOfSeq DEF Inv, TypeOK
<1>4. Before(h) \in Nat /\ Len(pending) \in Nat
  BY <1>2, BeforeType DEF Inv
<1>5. ends[h + 1] = Before(h) + Len(Bytes(f))
  BY <1>2 DEF Inv, Layout
<1>6. received = Before(h) + Len(pending)
  BY DEF Inv, Buffered
<1>7. Len(Bytes(f)) = HeaderSize + Len(f.payload) /\ Len(f.payload) \in Nat
  BY <1>3, FrameBytes
<1>8. Len(pending) >= HeaderSize + Len(f.payload)
  BY <1>4, <1>5, <1>6, <1>7
<1>9. HasHeader
  BY <1>4, <1>7, <1>8 DEF HasHeader, HeaderSize
<1>10. ASSUME InBounds(PayloadLen(pending)) PROVE Complete
  <2>1. /\ \A j \in 1 .. Len(pending) : pending[j] = wire[Before(h) + j]
        /\ \A j \in 1 .. Len(Bytes(f)) : wire[Before(h) + j] = Bytes(f)[j]
        /\ \A j \in 1 .. HeaderSize : Bytes(f)[j] = f.header[j]
    BY <1>2, <1>3, FrameBytes, SMTT(30) DEF Inv, Buffered, Layout
  <2>2. 1 \in 1 .. Len(pending) /\ 2 \in 1 .. Len(pending)
        /\ 1 \in 1 .. Len(Bytes(f)) /\ 2 \in 1 .. Len(Bytes(f))
    BY <1>4, <1>7, <1>8 DEF HeaderSize
  <2>3. pending[1] = f.header[1] /\ pending[2] = f.header[2]
    BY <2>1, <2>2 DEF HeaderSize
  <2>4. pending \in Seq(Byte) /\ f.header \in Seq(Byte)
    BY <1>3, FrameBytes DEF Inv, TypeOK
  <2>5. PayloadLen(pending) = PayloadLen(f.header)
    BY <2>3, <2>4, LengthOfHeader
  <2>6. Len(f.payload) = PayloadLen(pending)
    BY <1>3, <1>10, <2>5, FrameReaderAssumption DEF Valid
  <2> QED BY <1>8, <1>9, <1>10, <2>6 DEF Complete, FrameLen
<1> QED BY <1>9, <1>10

-----------------------------------------------------------------------------
(* Every step preserves the invariant. *)

\* The client writes a whole frame: it lies behind those sent before.
LEMMA SendInv == ASSUME Inv, NEW f \in Frame, Send(f) PROVE Inv'
<1> USE DEF Send
<1>1. /\ Len(sent) \in Nat /\ Len(wire) \in Nat /\ Len(handled) \in Nat
      /\ Len(pending) \in Nat /\ received \in 0 .. Len(wire)
      /\ Len(handled) <= Len(sent) /\ Len(ends) = Len(sent)
      /\ Len(Bytes(f)) \in Nat /\ Bytes(f) \in Seq(Byte)
  BY LenProperties, FrameBytes DEF Inv, TypeOK, Copied, Layout
<1>2. /\ wire' \in Seq(Byte) /\ Len(wire') = Len(wire) + Len(Bytes(f))
      /\ \A i \in 1 .. Len(wire) : wire'[i] = wire[i]
      /\ \A i \in 1 .. Len(Bytes(f)) : wire'[Len(wire) + i] = Bytes(f)[i]
  <2>1. wire \in Seq(Byte)
    BY DEF Inv, TypeOK
  <2>2. /\ wire' \in Seq(Byte) /\ Len(wire') = Len(wire) + Len(Bytes(f))
        /\ \A i \in 1 .. Len(wire) + Len(Bytes(f)) :
               wire'[i] = IF i <= Len(wire) THEN wire[i] ELSE Bytes(f)[i - Len(wire)]
    BY <1>1, <2>1, ConcatProperties
  <2>3. ASSUME NEW i \in 1 .. Len(Bytes(f)) PROVE wire'[Len(wire) + i] = Bytes(f)[i]
    <3>1. /\ Len(wire) + i \in 1 .. Len(wire) + Len(Bytes(f))
          /\ ~(Len(wire) + i <= Len(wire)) /\ (Len(wire) + i) - Len(wire) = i
      BY <1>1
    <3> QED BY <2>2, <3>1
  <2> QED BY <1>1, <2>2, <2>3
<1>3. /\ sent' \in Seq(Frame) /\ Len(sent') = Len(sent) + 1
      /\ \A i \in 1 .. Len(sent) : sent'[i] = sent[i]
      /\ sent'[Len(sent) + 1] = f
  BY AppendProperties DEF Inv, TypeOK
<1>4. /\ ends' \in Seq(Nat) /\ Len(ends') = Len(sent) + 1
      /\ \A i \in 1 .. Len(sent) : ends'[i] = ends[i]
      /\ ends'[Len(sent) + 1] = Len(wire) + Len(Bytes(f))
  <2>1. ends \in Seq(Nat) /\ Len(wire) + Len(Bytes(f)) \in Nat
    BY <1>1 DEF Inv, TypeOK
  <2> QED BY <1>1, <2>1, AppendProperties
<1>5. \A k \in 0 .. Len(sent) : BeforeIn(ends', k) = Before(k)
  BY <1>1, <1>4 DEF Before, BeforeIn
<1>6. Before(Len(sent)) = Len(wire)
  BY DEF Inv, Rest
<1>7. TypeOK'
  BY <1>1, <1>2, <1>3, <1>4 DEF Inv, TypeOK
<1>8. Layout'
  <2> SUFFICES ASSUME NEW i \in 1 .. Len(sent')
               PROVE  /\ ends'[i] <= Len(wire')
                      /\ ends'[i] = BeforeIn(ends', i - 1) + Len(Bytes(sent'[i]))
                      /\ \A j \in 1 .. Len(Bytes(sent'[i])) :
                             wire'[BeforeIn(ends', i - 1) + j] = Bytes(sent'[i])[j]
    <3>1. Len(ends') = Len(sent')
      BY <1>3, <1>4
    <3> QED BY <3>1 DEF Layout, Before
  <2>1. CASE i \in 1 .. Len(sent)
    <3>1. /\ ends[i] <= Len(wire) /\ ends[i] = Before(i - 1) + Len(Bytes(sent[i]))
          /\ \A j \in 1 .. Len(Bytes(sent[i])) : wire[Before(i - 1) + j] = Bytes(sent[i])[j]
      BY <2>1 DEF Inv, Layout
    <3>2. i - 1 \in 0 .. Len(sent) /\ sent[i] \in Frame
      BY <1>1, <2>1, ElementOfSeq DEF Inv, TypeOK
    <3>3. Before(i - 1) \in Nat /\ Len(Bytes(sent[i])) \in Nat /\ ends[i] \in Int
      <4>1. Before(i - 1) \in Nat
        BY <3>2, BeforeType DEF Inv
      <4>2. Len(Bytes(sent[i])) \in Nat
        BY <3>2, FrameBytes, LenProperties
      <4> QED BY <3>1, <4>1, <4>2
    <3>4. \A j \in 1 .. Len(Bytes(sent[i])) : Before(i - 1) + j \in 1 .. Len(wire)
      BY <1>1, <3>1, <3>3, SMTT(30)
    <3>5. sent'[i] = sent[i] /\ ends'[i] = ends[i] /\ BeforeIn(ends', i - 1) = Before(i - 1)
      BY <1>3, <1>4, <1>5, <2>1, <3>2
    <3>6. \A j \in 1 .. Len(Bytes(sent[i])) : wire'[Before(i - 1) + j] = Bytes(sent[i])[j]
      BY <1>2, <3>1, <3>4
    <3>7. ends[i] <= Len(wire')
      BY <1>1, <1>2, <3>1, <3>3
    <3> QED BY <3>1, <3>5, <3>6, <3>7
  <2>2. CASE i = Len(sent) + 1
    <3>1. i - 1 = Len(sent) /\ Len(sent) \in 0 .. Len(sent)
      BY <1>1, <2>2
    <3>2. BeforeIn(ends', i - 1) = Len(wire)
      BY <1>5, <1>6, <3>1
    <3>3. sent'[i] = f /\ ends'[i] = Len(wire) + Len(Bytes(f))
      BY <1>3, <1>4, <2>2
    <3>4. ends'[i] <= Len(wire')
      BY <1>1, <1>2, <3>3
    <3>5. ends'[i] = BeforeIn(ends', i - 1) + Len(Bytes(sent'[i]))
      BY <3>2, <3>3
    <3>6. \A j \in 1 .. Len(Bytes(sent'[i])) :
              wire'[BeforeIn(ends', i - 1) + j] = Bytes(sent'[i])[j]
      BY <1>2, <3>2, <3>3
    <3> QED BY <3>4, <3>5, <3>6
  <2>3. i \in 1 .. Len(sent) \/ i = Len(sent) + 1
    BY <1>1, <1>3
  <2> QED BY <2>1, <2>2, <2>3
<1>9. Rest'
  <2>1. BeforeIn(ends', Len(sent')) = Len(wire')
    BY <1>1, <1>2, <1>3, <1>4 DEF Before, BeforeIn
  <2> QED BY <2>1 DEF Rest, Before
<1>10. Buffered'
  <2> SUFFICES ASSUME pc # "done"
               PROVE  /\ received = BeforeIn(ends', Len(handled)) + Len(pending)
                      /\ \A j \in 1 .. Len(pending) :
                             pending[j] = wire'[BeforeIn(ends', Len(handled)) + j]
    BY DEF Buffered, Before
  <2>1. BeforeIn(ends', Len(handled)) = Before(Len(handled)) /\ Before(Len(handled)) \in Nat
    BY <1>1, <1>5, BeforeType DEF Inv
  <2>2. /\ received = Before(Len(handled)) + Len(pending)
        /\ \A j \in 1 .. Len(pending) : pending[j] = wire[Before(Len(handled)) + j]
    BY DEF Inv, Buffered
  <2>3. \A j \in 1 .. Len(pending) : Before(Len(handled)) + j \in 1 .. Len(wire)
    BY <1>1, <2>1, <2>2
  <2> QED BY <1>2, <2>1, <2>2, <2>3
<1>11. AtRest' /\ Ended'
  BY DEF Inv, AtRest, Ended, MayEnd, HasHeader, Complete, FrameLen, PayloadLen
<1>12. Copied'
  <2>1. handled' = handled /\ Len(handled) <= Len(sent')
    BY <1>1, <1>3
  <2>2. \A i \in 1 .. Len(handled) : i \in 1 .. Len(sent) /\ handled[i] = sent[i]
    BY <1>1 DEF Inv, Copied
  <2> QED BY <1>3, <2>1, <2>2 DEF Copied
<1> QED BY <1>7, <1>8, <1>9, <1>10, <1>11, <1>12 DEF Inv

\* The client ends its stream, or breaks off inside a frame.
LEMMA FinishInv ==
    ASSUME Inv, NEW f \in Frame, NEW m \in 0 .. Len(Bytes(f)), Finish(f, m) PROVE Inv'
<1> DEFINE part == SubSeq(Bytes(f), 1, m)
<1> USE DEF Finish
<1>1. /\ Len(sent) \in Nat /\ Len(wire) \in Nat /\ Len(handled) \in Nat
      /\ Len(pending) \in Nat /\ received \in 0 .. Len(wire)
      /\ Len(handled) <= Len(sent) /\ Len(ends) = Len(sent)
      /\ Len(Bytes(f)) \in Nat /\ Bytes(f) \in Seq(Byte) /\ m < Len(Bytes(f)) /\ m \in Nat
  BY LenProperties, FrameBytes DEF Inv, TypeOK, Copied, Layout
<1>2. part \in Seq(Byte) /\ Len(part) = m /\ \A j \in 1 .. m : part[j] = Bytes(f)[j]
  <2>1. \A j \in 1 .. m : Bytes(f)[j] \in Byte
    BY <1>1, ElementOfSeq
  <2>2. /\ part \in Seq(Byte)
        /\ Len(part) = IF 1 <= m THEN m - 1 + 1 ELSE 0
        /\ \A j \in 1 .. m - 1 + 1 : part[j] = Bytes(f)[1 + j - 1]
    BY <1>1, <2>1, SubSeqProperties, SMTT(30)
  <2> HIDE DEF part
  <2>3. (IF 1 <= m THEN m - 1 + 1 ELSE 0) = m
    BY <1>1
  <2>4. ASSUME NEW j \in 1 .. m PROVE part[j] = Bytes(f)[j]
    <3>1. j \in 1 .. m - 1 + 1 /\ 1 + j - 1 = j
      BY <1>1
    <3> QED BY <2>2, <3>1
  <2> QED BY <2>2, <2>3, <2>4
<1>3. /\ wire' \in Seq(Byte) /\ Len(wire') = Len(wire) + m
      /\ \A i \in 1 .. Len(wire) : wire'[i] = wire[i]
      /\ \A i \in 1 .. m : wire'[Len(wire) + i] = Bytes(f)[i]
  <2>1. wire \in Seq(Byte) /\ wire' = wire \o part
    BY DEF Inv, TypeOK
  <2> HIDE DEF part
  <2>2. /\ wire' \in Seq(Byte) /\ Len(wire') = Len(wire) + m
        /\ \A i \in 1 .. Len(wire) + m :
               wire'[i] = IF i <= Len(wire) THEN wire[i] ELSE part[i - Len(wire)]
    BY <1>1, <1>2, <2>1, ConcatProperties
  <2>3. ASSUME NEW i \in 1 .. m PROVE wire'[Len(wire) + i] = Bytes(f)[i]
    <3>1. /\ Len(wire) + i \in 1 .. Len(wire) + m
          /\ ~(Len(wire) + i <= Len(wire)) /\ (Len(wire) + i) - Len(wire) = i
      BY <1>1
    <3> QED BY <1>2, <2>2, <3>1
  <2> QED BY <1>1, <2>2, <2>3
<1> HIDE DEF part
<1>4. Before(Len(sent)) = Len(wire)
  BY DEF Inv, Rest
<1>5. TypeOK'
  <2>1. TypeOK
    BY DEF Inv
  <2>2. received \in 0 .. Len(wire')
    BY <1>1, <1>3
  <2>3. sending' \in BOOLEAN
    OBVIOUS
  <2> QED BY <1>3, <2>1, <2>2, <2>3, Zenon DEF TypeOK
<1>6. Layout'
  <2> SUFFICES ASSUME NEW i \in 1 .. Len(sent)
               PROVE  /\ ends[i] <= Len(wire')
                      /\ ends[i] = Before(i - 1) + Len(Bytes(sent[i]))
                      /\ \A j \in 1 .. Len(Bytes(sent[i])) :
                             wire'[Before(i - 1) + j] = Bytes(sent[i])[j]
    BY <1>1 DEF Layout, Before
  <2>1. /\ ends[i] <= Len(wire) /\ ends[i] = Before(i - 1) + Len(Bytes(sent[i]))
        /\ \A j \in 1 .. Len(Bytes(sent[i])) : wire[Before(i - 1) + j] = Bytes(sent[i])[j]
    BY DEF Inv, Layout
  <2>2. i - 1 \in 0 .. Len(sent) /\ sent[i] \in Frame
    BY <1>1, ElementOfSeq DEF Inv, TypeOK
  <2>3. Before(i - 1) \in Nat
    BY <2>2, BeforeType DEF Inv
  <2>4. Len(Bytes(sent[i])) \in Nat
    BY <2>2, FrameBytes, LenProperties
  <2>5. \A j \in 1 .. Len(Bytes(sent[i])) : Before(i - 1) + j \in 1 .. Len(wire)
    BY <1>1, <2>1, <2>3, <2>4, SMTT(30)
  <2>6. ends[i] <= Len(wire')
    BY <1>1, <1>3, <2>1, <2>3, <2>4
  <2> QED BY <1>3, <2>1, <2>5, <2>6
<1>7. Rest'
  <2>1. Tail_' = m
    BY <1>1, <1>3, <1>4 DEF Tail_, Before
  <2>2. \A j \in 1 .. m : wire'[Before(Len(sent)) + j] = Bytes(f)[j]
    BY <1>3, <1>4
  <2> QED BY <1>1, <2>1, <2>2 DEF Rest, Before
<1>8. Buffered'
  <2> SUFFICES ASSUME pc # "done"
               PROVE  /\ received = Before(Len(handled)) + Len(pending)
                      /\ \A j \in 1 .. Len(pending) :
                             pending[j] = wire'[Before(Len(handled)) + j]
    BY DEF Buffered, Before
  <2>1. Before(Len(handled)) \in Nat
    BY <1>1, BeforeType DEF Inv
  <2>2. /\ received = Before(Len(handled)) + Len(pending)
        /\ \A j \in 1 .. Len(pending) : pending[j] = wire[Before(Len(handled)) + j]
    BY DEF Inv, Buffered
  <2>3. \A j \in 1 .. Len(pending) : Before(Len(handled)) + j \in 1 .. Len(wire)
    BY <1>1, <2>1, <2>2
  <2> QED BY <1>3, <2>2, <2>3
<1>9. AtRest' /\ Ended'
  BY DEF Inv, AtRest, Ended, MayEnd, HasHeader, Complete, FrameLen, PayloadLen
<1>10. Copied'
  BY DEF Inv, Copied
<1> QED BY <1>5, <1>6, <1>7, <1>8, <1>9, <1>10 DEF Inv

\* A read appends to the buffer what comes next on the wire.
LEMMA ReadInv ==
    ASSUME Inv, NEW n \in 1 .. BufSize, NEW err \in BOOLEAN, Read(n, err) PROVE Inv'
<1> DEFINE got == SubSeq(wire, received + 1, received + n)
<1> USE DEF Read, client
<1>1. /\ Len(sent) \in Nat /\ Len(wire) \in Nat /\ Len(handled) \in Nat
      /\ Len(pending) \in Nat /\ received \in 0 .. Len(wire) /\ n \in Nat \ {0}
      /\ received + n <= Len(wire) /\ Len(handled) \in 0 .. Len(sent)
  BY LenProperties, FrameReaderAssumption DEF Inv, TypeOK, Copied
<1>2. got \in Seq(Byte) /\ Len(got) = n /\ \A j \in 1 .. n : got[j] = wire[received + j]
  <2>1. \A j \in received + 1 .. received + n : wire[j] \in Byte
    <3> SUFFICES ASSUME NEW j \in received + 1 .. received + n PROVE wire[j] \in Byte
      OBVIOUS
    <3>1. j \in 1 .. Len(wire)
      BY <1>1
    <3> QED BY <3>1, ElementOfSeq DEF Inv, TypeOK
  <2>2. /\ got \in Seq(Byte)
        /\ Len(got) = IF received + 1 <= received + n
                      THEN (received + n) - (received + 1) + 1 ELSE 0
        /\ \A j \in 1 .. (received + n) - (received + 1) + 1 :
               got[j] = wire[(received + 1) + j - 1]
    BY <1>1, <2>1, SubSeqProperties, SMTT(30)
  <2> HIDE DEF got
  <2>3. (IF received + 1 <= received + n THEN (received + n) - (received + 1) + 1 ELSE 0) = n
    BY <1>1
  <2>4. ASSUME NEW j \in 1 .. n PROVE got[j] = wire[received + j]
    <3>1. /\ j \in 1 .. (received + n) - (received + 1) + 1
          /\ (received + 1) + j - 1 = received + j
      BY <1>1
    <3> QED BY <2>2, <3>1
  <2> QED BY <2>2, <2>3, <2>4
<1>3. /\ pending' \in Seq(Byte) /\ Len(pending') = Len(pending) + n
      /\ \A i \in 1 .. Len(pending) : pending'[i] = pending[i]
      /\ \A i \in 1 .. n : pending'[Len(pending) + i] = wire[received + i]
  <2>1. pending \in Seq(Byte) /\ pending' = pending \o got
    BY DEF Inv, TypeOK
  <2> HIDE DEF got, Read
  <2>2. /\ pending' \in Seq(Byte) /\ Len(pending') = Len(pending) + n
        /\ \A i \in 1 .. Len(pending) + n :
               pending'[i] = IF i <= Len(pending) THEN pending[i] ELSE got[i - Len(pending)]
    BY <1>1, <1>2, <2>1, ConcatProperties
  <2>3. ASSUME NEW i \in 1 .. n PROVE pending'[Len(pending) + i] = wire[received + i]
    <3>1. /\ Len(pending) + i \in 1 .. Len(pending) + n
          /\ ~(Len(pending) + i <= Len(pending)) /\ (Len(pending) + i) - Len(pending) = i
      BY <1>1
    <3> QED BY <1>2, <2>2, <3>1
  <2> QED BY <1>1, <2>2, <2>3
<1> HIDE DEF got
<1>4. TypeOK'
  <2>1. TypeOK
    BY DEF Inv
  <2>2. received' \in 0 .. Len(wire')
    BY <1>1
  <2>3. readErr' \in BOOLEAN /\ pc' \in {"read", "parse", "done"}
    OBVIOUS
  <2> QED BY <1>3, <2>1, <2>2, <2>3, Zenon DEF TypeOK
<1>5. Layout' /\ Rest' /\ Copied'
  BY DEF Inv, Layout, Rest, Copied, Tail_, Before
<1>6. Buffered'
  <2>1. Before(Len(handled)) \in Nat
    BY <1>1, BeforeType DEF Inv
  <2>2. /\ received = Before(Len(handled)) + Len(pending)
        /\ \A j \in 1 .. Len(pending) : pending[j] = wire[Before(Len(handled)) + j]
    BY DEF Inv, Buffered
  <2>3. received' = Before(Len(handled)) + Len(pending')
    BY <1>1, <1>3, <2>1, <2>2, SMTT(30)
  <2>4. ASSUME NEW j \in 1 .. Len(pending') PROVE pending'[j] = wire[Before(Len(handled)) + j]
    <3>1. CASE j \in 1 .. Len(pending)
      BY <1>3, <2>2, <3>1
    <3>2. CASE j \notin 1 .. Len(pending)
      <4> HIDE DEF Read
      <4>1. j \in 1 .. Len(pending) + n /\ ~(j <= Len(pending))
        BY <1>1, <1>3, <3>2
      <4>2. j - Len(pending) \in 1 .. n /\ Len(pending) + (j - Len(pending)) = j
        BY <1>1, <4>1
      <4>3. received = Before(Len(handled)) + Len(pending)
        BY <2>2
      <4>4. received + (j - Len(pending)) = Before(Len(handled)) + j
        BY <1>1, <2>1, <4>1, <4>3
      <4> QED BY <1>3, <4>2, <4>4
    <3> QED BY <3>1, <3>2
  <2> QED BY <2>3, <2>4 DEF Buffered, Before
<1>7. AtRest' /\ Ended'
  BY DEF AtRest, Ended, MayEnd
<1> QED BY <1>4, <1>5, <1>6, <1>7 DEF Inv

\* What Handle takes off the buffer is the next frame sent, and all of it.
LEMMA HandleInv == ASSUME Inv, NEW returns \in BOOLEAN, Handle(returns) PROVE Inv'
<1> DEFINE h == Len(handled)
<1> USE DEF Handle, client
<1>1. /\ h \in Nat /\ Len(sent) \in Nat /\ Len(pending) \in Nat
      /\ pending \in Seq(Byte) /\ handled \in Seq(Frame)
  BY LenProperties DEF Inv, TypeOK
<1>2. /\ h + 1 \in 1 .. Len(sent) /\ sent[h + 1] \in Frame /\ First = sent[h + 1]
      /\ FrameLen = Len(Bytes(sent[h + 1]))
  BY NextFrame DEF Complete
<1>3. /\ handled' \in Seq(Frame) /\ Len(handled') = h + 1
      /\ \A i \in 1 .. h : handled'[i] = handled[i]
      /\ handled'[h + 1] = sent[h + 1]
  BY <1>1, <1>2, AppendProperties
<1>4. FrameLen \in Nat /\ FrameLen <= Len(pending)
  BY <1>1, <1>2, FrameBytes, LenProperties DEF Complete
<1>5. Copied'
  <2>1. ASSUME NEW i \in 1 .. h + 1 PROVE handled'[i] = sent[i]
    <3>1. i \in 1 .. h \/ i = h + 1
      BY <1>1
    <3> QED BY <1>3, <3>1 DEF Inv, Copied
  <2> QED BY <1>1, <1>2, <1>3, <2>1 DEF Copied
<1>6. Layout' /\ Rest' /\ AtRest' /\ Ended'
  BY DEF Inv, Layout, Rest, Tail_, Before, AtRest, Ended, MayEnd
<1>7. CASE returns
  <2>1. TypeOK'
    BY <1>3, <1>7 DEF Inv, TypeOK
  <2>2. Buffered'
    BY <1>7 DEF Buffered
  <2> QED BY <1>5, <1>6, <2>1, <2>2 DEF Inv
<1>8. CASE ~returns
  <2>1. /\ pending' \in Seq(Byte) /\ Len(pending') = Len(pending) - FrameLen
        /\ \A j \in 1 .. Len(pending) - FrameLen : pending'[j] = pending[FrameLen + j]
    <3>1. \A j \in FrameLen + 1 .. Len(pending) : pending[j] \in Byte
      <4> SUFFICES ASSUME NEW j \in FrameLen + 1 .. Len(pending) PROVE pending[j] \in Byte
        OBVIOUS
      <4>1. j \in 1 .. Len(pending)
        BY <1>1, <1>4
      <4> QED BY <1>1, <4>1, ElementOfSeq
    <3>2. pending' = SubSeq(pending, FrameLen + 1, Len(pending))
      BY <1>8
    <3>3. /\ pending' \in Seq(Byte)
          /\ Len(pending') = IF FrameLen + 1 <= Len(pending)
                             THEN Len(pending) - (FrameLen + 1) + 1 ELSE 0
          /\ \A j \in 1 .. Len(pending) - (FrameLen + 1) + 1 :
                 pending'[j] = pending[(FrameLen + 1) + j - 1]
      BY <1>1, <1>4, <3>1, <3>2, SubSeqProperties, SMTT(30)
    <3>4. (IF FrameLen + 1 <= Len(pending) THEN Len(pending) - (FrameLen + 1) + 1 ELSE 0)
             = Len(pending) - FrameLen
      BY <1>1, <1>4
    <3>5. ASSUME NEW j \in 1 .. Len(pending) - FrameLen PROVE pending'[j] = pending[FrameLen + j]
      <4>1. /\ j \in 1 .. Len(pending) - (FrameLen + 1) + 1
            /\ (FrameLen + 1) + j - 1 = FrameLen + j
        BY <1>1, <1>4
      <4> QED BY <3>3, <4>1
    <3> QED BY <3>3, <3>4, <3>5
  <2>2. TypeOK'
    BY <1>3, <1>8, <2>1 DEF Inv, TypeOK
  <2>3. Buffered'
    <3>1. /\ received = Before(h) + Len(pending)
          /\ \A j \in 1 .. Len(pending) : pending[j] = wire[Before(h) + j]
      BY DEF Inv, Buffered
    <3>2. Before(h) \in Nat /\ Before(h + 1) \in Nat /\ Before(h + 1) = Before(h) + FrameLen
      <4>1. h \in 0 .. Len(sent) /\ h + 1 \in 0 .. Len(sent) /\ (h + 1) - 1 = h /\ h + 1 # 0
        BY <1>1, <1>2
      <4>2. ends[h + 1] = Before(h) + Len(Bytes(sent[h + 1]))
        BY <1>2, <4>1 DEF Inv, Layout
      <4> QED BY <1>2, <4>1, <4>2, BeforeType DEF Inv, Before, BeforeIn
    <3>3. received = Before(h + 1) + Len(pending')
      BY <1>1, <1>4, <2>1, <3>1, <3>2
    <3>4. ASSUME NEW j \in 1 .. Len(pending') PROVE pending'[j] = wire[Before(h + 1) + j]
      <4>1. /\ j \in 1 .. Len(pending) - FrameLen /\ FrameLen + j \in 1 .. Len(pending)
            /\ Before(h) + (FrameLen + j) = Before(h + 1) + j
        BY <1>1, <1>4, <2>1, <3>2
      <4> QED BY <2>1, <3>1, <4>1
    <3>5. BeforeIn(ends', Len(handled')) = Before(h + 1)
      BY <1>3 DEF Before
    <3> QED BY <3>3, <3>4, <3>5 DEF Buffered, Before
  <2> QED BY <1>5, <1>6, <2>2, <2>3 DEF Inv
<1> QED BY <1>7, <1>8

\* The other steps leave bytes and frames alone.
LEMMA OthersInv ==
    ASSUME Inv, Break \/ ReadFails \/ Invalid \/ Incomplete \/ UNCHANGED vars
    PROVE  Inv'
<1> USE DEF client
<1>1. TypeOK'
  <2>1. TypeOK
    BY DEF Inv
  <2>2. /\ sent' = sent /\ wire' = wire /\ ends' = ends /\ sending' = sending
        /\ received' = received /\ readErr' = readErr /\ pending' = pending
        /\ handled' = handled
    BY DEF Break, ReadFails, Invalid, Incomplete, vars
  <2>3. intact' \in BOOLEAN /\ pc' \in {"read", "parse", "done"}
    BY <2>1 DEF Break, ReadFails, Invalid, Incomplete, vars, TypeOK
  <2> QED BY <2>1, <2>2, <2>3, Zenon DEF TypeOK
<1>2. CASE Break
  BY <1>1, <1>2 DEF Break, Inv, Layout, Rest, Tail_, Before, Buffered, AtRest, Ended,
     MayEnd, Copied, HasHeader, Complete, FrameLen, PayloadLen
<1>3. CASE ReadFails \/ Invalid
  <2>1. Layout' /\ Rest' /\ Copied'
    BY <1>3, SMTT(30) DEF ReadFails, Invalid, Inv, Layout, Rest, Tail_, Before, Copied
  <2>2. Buffered' /\ AtRest' /\ Ended'
    <3>1. pc' = "done" /\ intact' = intact /\ sending' = sending
      BY <1>3 DEF ReadFails, Invalid
    <3>2. received' = received /\ wire' = wire /\ readErr' = readErr
      BY <1>3 DEF ReadFails, Invalid
    <3>3. readErr => MayEnd(received)
      BY <1>3 DEF ReadFails, Invalid, Inv, Ended
    <3> QED BY <3>1, <3>2, <3>3 DEF Buffered, AtRest, Ended, MayEnd
  <2> QED BY <1>1, <2>1, <2>2 DEF Inv
<1>4. CASE Incomplete
  <2>1. Layout' /\ Rest' /\ Buffered' /\ Ended' /\ Copied'
    BY <1>4 DEF Incomplete, Inv, Layout, Rest, Tail_, Before, Buffered, Ended, MayEnd, Copied
  <2>2. AtRest'
    BY <1>4 DEF Incomplete, Inv, AtRest, HasHeader, Complete, FrameLen, PayloadLen
  <2> QED BY <1>1, <2>1, <2>2 DEF Inv
<1>5. CASE UNCHANGED vars
  BY <1>1, <1>5 DEF vars, Inv, Layout, Rest, Tail_, Before, Buffered, AtRest, Ended,
     MayEnd, Copied, HasHeader, Complete, FrameLen, PayloadLen
<1> QED BY <1>2, <1>3, <1>4, <1>5

\* Inv is inductive.
LEMMA NextInv == ASSUME Inv, [Next]_vars PROVE Inv'
<1>1. CASE Client
  BY <1>1, SendInv, FinishInv, OthersInv DEF Client
<1>2. CASE Reader
  BY <1>2, ReadInv, HandleInv, OthersInv DEF Reader
<1>3. CASE UNCHANGED vars
  BY <1>3, OthersInv
<1> QED BY <1>1, <1>2, <1>3 DEF Next

\* Inv holds of every reader.
LEMMA Invariant == Spec => []Inv
<1>1. Inv /\ [Next]_vars => Inv'
  BY NextInv
<1> QED BY InitInv, <1>1, PTL DEF Spec

-----------------------------------------------------------------------------
\* The reader's variables keep their types: what it handles are frames that a
\* client may send, and its position in the stream stays inside it.
THEOREM TypeCorrect == Spec => []TypeOK
<1>1. Inv => TypeOK
  BY DEF Inv
<1> QED BY <1>1, Invariant, PTL

\* However the network cuts the stream and wherever the client breaks it off,
\* dumpFrames handles a prefix of the frames sent.
THEOREM PrefixHandled == Spec => []FramesAsSent
<1>1. Inv => FramesAsSent
  BY CopiedIsPrefix DEF Inv
<1> QED BY <1>1, Invariant, PTL

\* dumpFrames never waits for bytes while it holds a whole frame.
THEOREM NoFrameWaits == Spec => []NothingWithheld
<1>1. ASSUME Inv PROVE NothingWithheld
  <2> SUFFICES ASSUME pc = "read", Len(handled) < Len(sent),
                      ~(received < ends[Len(handled) + 1])
               PROVE  FALSE
    BY DEF NothingWithheld
  <2>1. received \in Nat /\ ends[Len(handled) + 1] \in Nat
    <3>1. /\ Len(handled) \in Nat /\ Len(sent) \in Nat /\ Len(wire) \in Nat
          /\ Len(ends) = Len(sent) /\ received \in 0 .. Len(wire)
      BY <1>1, LenProperties DEF Inv, TypeOK, Layout
    <3>2. Len(handled) + 1 \in 1 .. Len(ends)
      BY <3>1
    <3> QED BY <1>1, <3>1, <3>2, ElementOfSeq DEF Inv, TypeOK
  <2>2. received >= ends[Len(handled) + 1]
    BY <2>1
  <2>3. HasHeader /\ (InBounds(PayloadLen(pending)) => Complete)
    BY <1>1, <2>2, AllHere
  <2> QED BY <1>1, <2>3 DEF Inv, AtRest
<1> QED BY <1>1, Invariant, PTL

-----------------------------------------------------------------------------
(* The reader implements FrameQueue. *)

Unhandled == SubSeq(sent, Len(handled) + 1, Len(sent))

UnhandledIs ==
    /\ Unhandled \in Seq(Frame)
    /\ Len(Unhandled) = Len(sent) - Len(handled)
    /\ \A j \in 1 .. Len(sent) - Len(handled) : Unhandled[j] = sent[Len(handled) + j]

\* The frames still to be handled are the last of those sent.
LEMMA UnhandledKnown == TypeOK /\ Copied => UnhandledIs
<1> SUFFICES ASSUME TypeOK, Copied PROVE UnhandledIs
  OBVIOUS
<1>1. /\ Len(handled) \in Nat /\ Len(sent) \in Nat /\ Len(handled) <= Len(sent)
      /\ sent \in Seq(Frame)
  BY LenProperties DEF TypeOK, Copied
<1>2. \A j \in Len(handled) + 1 .. Len(sent) : sent[j] \in Frame
  <2> SUFFICES ASSUME NEW j \in Len(handled) + 1 .. Len(sent) PROVE sent[j] \in Frame
    OBVIOUS
  <2>1. j \in 1 .. Len(sent)
    BY <1>1
  <2> QED BY <1>1, <2>1, ElementOfSeq
<1>3. /\ Unhandled \in Seq(Frame)
      /\ Len(Unhandled) = IF Len(handled) + 1 <= Len(sent)
                          THEN Len(sent) - (Len(handled) + 1) + 1 ELSE 0
      /\ \A j \in 1 .. Len(sent) - (Len(handled) + 1) + 1 :
             Unhandled[j] = sent[(Len(handled) + 1) + j - 1]
  BY <1>1, <1>2, SubSeqProperties, SMTT(30) DEF Unhandled
<1>4. (IF Len(handled) + 1 <= Len(sent) THEN Len(sent) - (Len(handled) + 1) + 1 ELSE 0)
         = Len(sent) - Len(handled)
  BY <1>1
<1>5. ASSUME NEW j \in 1 .. Len(sent) - Len(handled)
      PROVE  Unhandled[j] = sent[Len(handled) + j]
  <2>1. /\ j \in 1 .. Len(sent) - (Len(handled) + 1) + 1
        /\ (Len(handled) + 1) + j - 1 = Len(handled) + j
    BY <1>1
  <2> QED BY <1>3, <2>1
<1> QED BY <1>3, <1>4, <1>5 DEF UnhandledIs

\* A frame sent is put into the queue.
LEMMA PutStep == ASSUME Inv, Inv', NEW f \in Frame, Send(f) PROVE Queue!Put
<1>1. /\ Len(handled) \in Nat /\ Len(sent) \in Nat /\ Len(handled) <= Len(sent)
      /\ sent \in Seq(Frame)
  BY LenProperties DEF Inv, TypeOK, Copied
<1>2. /\ handled' = handled /\ Len(sent') = Len(sent) + 1 /\ sent'[Len(sent) + 1] = f
      /\ \A i \in 1 .. Len(sent) : sent'[i] = sent[i]
  BY <1>1, AppendProperties DEF Send
<1>3. /\ Unhandled \in Seq(Frame) /\ Len(Unhandled) = Len(sent) - Len(handled)
      /\ \A j \in 1 .. Len(sent) - Len(handled) : Unhandled[j] = sent[Len(handled) + j]
  BY UnhandledKnown DEF Inv, UnhandledIs
<1>4. /\ Unhandled' \in Seq(Frame) /\ Len(Unhandled') = Len(sent') - Len(handled')
      /\ \A j \in 1 .. Len(sent') - Len(handled') : Unhandled'[j] = sent'[Len(handled') + j]
  <2>1. TypeOK' /\ Copied'
    BY DEF Inv
  <2>2. UnhandledIs'
    BY <2>1, UnhandledKnown, PTL
  <2> QED BY <2>2 DEF UnhandledIs
<1>5. /\ Append(Unhandled, f) \in Seq(Frame)
      /\ Len(Append(Unhandled, f)) = Len(Unhandled) + 1
      /\ \A i \in 1 .. Len(Unhandled) : Append(Unhandled, f)[i] = Unhandled[i]
      /\ Append(Unhandled, f)[Len(Unhandled) + 1] = f
  BY <1>3, AppendProperties
<1>6. Len(Unhandled') = Len(Append(Unhandled, f))
  BY <1>1, <1>2, <1>3, <1>4, <1>5
<1>7. ASSUME NEW i \in 1 .. Len(Unhandled') PROVE Unhandled'[i] = Append(Unhandled, f)[i]
  <2>1. i \in 1 .. Len(sent') - Len(handled')
    BY <1>4
  <2>2. Unhandled'[i] = sent'[Len(handled) + i]
    BY <1>2, <1>4, <2>1
  <2>3. CASE i \in 1 .. Len(Unhandled)
    <3>1. Len(handled) + i \in 1 .. Len(sent)
      BY <1>1, <1>3, <2>3
    <3> QED BY <1>2, <1>3, <1>5, <2>2, <2>3, <3>1
  <2>4. CASE i \notin 1 .. Len(Unhandled)
    <3>1. i = Len(Unhandled) + 1 /\ Len(handled) + i = Len(sent) + 1
      BY <1>1, <1>2, <1>3, <2>1, <2>4
    <3> QED BY <1>2, <1>5, <2>2, <3>1
  <2> QED BY <2>3, <2>4
<1>8. Unhandled' = Append(Unhandled, f)
  BY <1>4, <1>5, <1>6, <1>7, SeqEqual
<1> QED BY <1>8 DEF Send, Queue!Put, Unhandled

\* A frame handled is taken from it.
LEMMA TakeStep == ASSUME Inv, Inv', NEW returns \in BOOLEAN, Handle(returns) PROVE Queue!Take
<1> DEFINE g == sent[Len(handled) + 1]
<1>1. /\ Len(handled) + 1 \in 1 .. Len(sent) /\ g \in Frame /\ Valid(g)
      /\ InBounds(PayloadLen(pending))
  BY NextFrame DEF Handle, Complete
<1>2. /\ Len(handled) \in Nat /\ Len(sent) \in Nat /\ handled \in Seq(Frame)
  BY LenProperties DEF Inv, TypeOK
<1>3. /\ Unhandled \in Seq(Frame) /\ Len(Unhandled) = Len(sent) - Len(handled)
      /\ \A j \in 1 .. Len(sent) - Len(handled) : Unhandled[j] = sent[Len(handled) + j]
  BY UnhandledKnown DEF Inv, UnhandledIs
<1>4. Len(handled') = Len(handled) + 1 /\ sent' = sent
  <2>1. First \in Frame
    BY <1>1, NextFrame DEF Handle, Complete
  <2> QED BY <1>2, <2>1, AppendProperties DEF Handle, client
<1>5. /\ Unhandled' \in Seq(Frame) /\ Len(Unhandled') = Len(sent') - Len(handled')
      /\ \A j \in 1 .. Len(sent') - Len(handled') : Unhandled'[j] = sent'[Len(handled') + j]
  <2>1. TypeOK' /\ Copied'
    BY DEF Inv
  <2>2. UnhandledIs'
    BY <2>1, UnhandledKnown, PTL
  <2> QED BY <2>2 DEF UnhandledIs
<1>6. Unhandled # <<>> /\ Head(Unhandled) = g
  <2>1. 1 \in 1 .. Len(sent) - Len(handled)
    BY <1>1, <1>2
  <2>2. Unhandled # <<>>
    BY <1>1, <1>2, <1>3, EmptySeq
  <2>3. Head(Unhandled) = Unhandled[1]
    BY <1>3, <2>2
  <2> QED BY <1>3, <2>1, <2>2, <2>3
<1>7. Unhandled' = Tail(Unhandled)
  <2>1. /\ Tail(Unhandled) \in Seq(Frame) /\ Len(Tail(Unhandled)) = Len(Unhandled) - 1
        /\ \A i \in 1 .. Len(Tail(Unhandled)) : Tail(Unhandled)[i] = Unhandled[i + 1]
    BY <1>3, <1>6, HeadTailProperties
  <2>2. Len(Unhandled') = Len(Tail(Unhandled))
    BY <1>2, <1>3, <1>4, <1>5, <2>1
  <2>3. ASSUME NEW i \in 1 .. Len(Unhandled') PROVE Unhandled'[i] = Tail(Unhandled)[i]
    <3>0. i \in 1 .. Len(sent) - (Len(handled) + 1)
      BY <1>4, <1>5
    <3>1. /\ i \in 1 .. Len(sent') - Len(handled')
          /\ i + 1 \in 1 .. Len(sent) - Len(handled)
          /\ Len(handled') + i = Len(handled) + (i + 1)
      BY <1>2, <1>4, <3>0
    <3> QED BY <1>3, <1>4, <1>5, <2>1, <2>2, <3>1
  <2> QED BY <1>5, <2>1, <2>2, <2>3, SeqEqual
<1>8. g \in {f \in Frame : Valid(f)}
  BY <1>1
<1>9. pc # "done" /\ sending' = sending /\ intact' = intact
  BY DEF Handle, client
<1>10. (pc # "done")' \in BOOLEAN
  OBVIOUS
<1> QED BY <1>6, <1>7, <1>8, <1>9, <1>10 DEF Queue!Take, Unhandled

\* At an impossible length the queue holds no frame that was sent.
LEMMA RefuseStep == ASSUME Inv, Invalid PROVE Queue!Refuse
<1> DEFINE g == sent[Len(handled) + 1]
<1>1. Len(handled) + 1 \in 1 .. Len(sent) /\ ~Valid(g)
  <2>1. pc # "done" /\ HasHeader /\ ~InBounds(PayloadLen(pending))
    BY DEF Invalid
  <2> QED BY <2>1, NextFrame
<1>2. Len(handled) \in Nat /\ Len(sent) \in Nat
  BY LenProperties DEF Inv, TypeOK
<1>3. /\ Unhandled \in Seq(Frame) /\ Len(Unhandled) = Len(sent) - Len(handled)
      /\ \A j \in 1 .. Len(sent) - Len(handled) : Unhandled[j] = sent[Len(handled) + j]
  BY UnhandledKnown DEF Inv, UnhandledIs
<1>4. Unhandled # <<>> /\ Head(Unhandled) = g
  <2>1. 1 \in 1 .. Len(sent) - Len(handled)
    BY <1>1, <1>2
  <2>2. Unhandled # <<>>
    BY <1>1, <1>2, <1>3, EmptySeq
  <2>3. Head(Unhandled) = Unhandled[1]
    BY <1>3, <2>2
  <2> QED BY <1>3, <2>1, <2>2, <2>3
<1>5. Unhandled' = Unhandled /\ sending' = sending /\ intact' = intact /\ pc # "done"
  BY DEF Invalid, client, Unhandled
<1>6. (pc # "done")' = FALSE
  BY DEF Invalid
<1> QED BY <1>1, <1>4, <1>5, <1>6 DEF Queue!Refuse, Unhandled

\* When the stream has ended and all of it was read, a reader that finds no
\* complete frame has handled them all.
LEMMA NothingLeft ==
    ASSUME Inv, pc # "done", ~sending, received = Len(wire),
           HasHeader => InBounds(PayloadLen(pending)) /\ ~Complete
    PROVE  Unhandled = <<>>
<1>1. /\ Len(handled) \in Nat /\ Len(sent) \in Nat /\ Len(handled) <= Len(sent)
      /\ Len(wire) \in Nat
  BY LenProperties DEF Inv, TypeOK, Copied
<1>2. ~(Len(handled) < Len(sent))
  <2> SUFFICES ASSUME Len(handled) < Len(sent) PROVE FALSE
    OBVIOUS
  <2>1. Len(handled) + 1 \in 1 .. Len(sent)
    BY <1>1
  <2>2. ends[Len(handled) + 1] <= received
    BY <2>1 DEF Inv, Layout
  <2>3. ends[Len(handled) + 1] \in Nat
    <3>1. ends \in Seq(Nat) /\ Len(ends) = Len(sent)
      BY DEF Inv, TypeOK, Layout
    <3> QED BY <2>1, <3>1, ElementOfSeq
  <2>4. received >= ends[Len(handled) + 1]
    BY <1>1, <2>2, <2>3
  <2> QED BY <2>4, AllHere
<1>3. Len(Unhandled) = 0 /\ Unhandled \in Seq(Frame)
  BY <1>1, <1>2, UnhandledKnown DEF Inv, UnhandledIs
<1> QED BY <1>3, EmptySeq

\* Every step is one of the queue's, or leaves it as it is.
LEMMA QueueStep ==
    ASSUME Inv, Inv', [Next]_vars PROVE [Queue!Next]_(Queue!vars)
<1>1. ASSUME NEW f \in Frame, Send(f) PROVE Queue!Next
  BY <1>1, PutStep DEF Queue!Next
<1>2. ASSUME NEW f \in Frame, NEW m \in 0 .. Len(Bytes(f)), Finish(f, m) PROVE Queue!Next
  BY <1>2 DEF Finish, Queue!Finish, Queue!Next
<1>3. CASE Break
  BY <1>3 DEF Break, Queue!Break, Queue!Next
<1>4. ASSUME NEW n \in 1 .. BufSize, NEW err \in BOOLEAN, Read(n, err)
      PROVE  UNCHANGED Queue!vars
  <2>1. (pc # "done") = TRUE /\ (pc # "done")' = TRUE
    BY <1>4 DEF Read
  <2> QED BY <1>4, <2>1 DEF Read, client, Queue!vars
<1>5. CASE ReadFails
  <2>1. ~intact \/ (~sending /\ Unhandled = <<>>)
    BY <1>5, NothingLeft DEF ReadFails, MayEnd, Inv, AtRest
  <2>2. pc # "done" /\ (pc # "done")' = FALSE
    BY <1>5 DEF ReadFails
  <2> QED BY <1>5, <2>1, <2>2 DEF ReadFails, client, Queue!Stop, Queue!Next, Unhandled
<1>6. CASE Invalid
  BY <1>6, RefuseStep DEF Queue!Next
<1>7. CASE Incomplete /\ readErr
  <2>1. MayEnd(received)
    BY <1>7 DEF Incomplete, Inv, Ended
  <2>2. ~intact \/ (~sending /\ Unhandled = <<>>)
    BY <1>7, <2>1, NothingLeft DEF Incomplete, MayEnd
  <2>3. pc # "done" /\ (pc # "done")' = FALSE
    BY <1>7 DEF Incomplete
  <2> QED BY <1>7, <2>2, <2>3 DEF Incomplete, client, Queue!Stop, Queue!Next, Unhandled
<1>8. CASE Incomplete /\ ~readErr
  <2>1. (pc # "done") = TRUE /\ (pc # "done")' = TRUE
    BY <1>8 DEF Incomplete
  <2> QED BY <1>8, <2>1 DEF Incomplete, client, Queue!vars
<1>9. ASSUME NEW returns \in BOOLEAN, Handle(returns) PROVE Queue!Next
  BY <1>9, TakeStep DEF Queue!Next
<1>10. CASE UNCHANGED vars
  BY <1>10 DEF vars, client, Queue!vars
<1>11. Client => [Queue!Next]_(Queue!vars)
  BY <1>1, <1>2, <1>3 DEF Client
<1>12. Reader => [Queue!Next]_(Queue!vars)
  BY <1>4, <1>5, <1>6, <1>7, <1>8, <1>9 DEF Reader
<1> QED BY <1>10, <1>11, <1>12 DEF Next

\* dumpFrames implements the queue of frames that ConnectStream reads from: the
\* frames are handled one by one in order, and the loop is left only at the end of
\* the stream, at an impossible length, or because a handler returned.
THEOREM Implements == Spec => ImplementsQueue
<1>1. Init => Queue!Init
  <2> SUFFICES ASSUME Init PROVE Queue!Init
    OBVIOUS
  <2>1. Inv
    BY InitInv
  <2>2. Len(sent) = 0 /\ Len(handled) = 0
    BY EmptySeq DEF Init
  <2>3. Len(Unhandled) = 0 /\ Unhandled \in Seq(Frame)
    BY <2>1, <2>2, UnhandledKnown DEF Inv, UnhandledIs
  <2>4. Unhandled = <<>>
    BY <2>3, EmptySeq
  <2>5. (pc # "done") = TRUE
    BY DEF Init
  <2> QED BY <2>4, <2>5 DEF Init, Queue!Init, Unhandled
<1>2. Inv /\ Inv' /\ [Next]_vars => [Queue!Next]_(Queue!vars)
  BY QueueStep
<1> QED BY <1>1, <1>2, Invariant, PTL DEF Spec, ImplementsQueue, Queue!Spec
=============================================================================
