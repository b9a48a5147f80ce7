--------------------------- MODULE MCFrameReader ---------------------------
(* Frames with empty, short and too long payloads, and a negative length.   *)
EXTENDS FrameReader

Header(n, id) == <<n % Base, n \div Base, id % Base, id \div Base>>

MCFrame ==
    { [header |-> Header(0, 2), payload |-> <<>>],
      [header |-> Header(2, 0), payload |-> <<1, 0>>],
      [header |-> Header(3, 5), payload |-> <<0, 1, 1>>],
      [header |-> Header(MaxPayload + 1, 0), payload |-> <<>>],
      [header |-> Header(Base * Base - 1, 0), payload |-> <<>>] }
=============================================================================
