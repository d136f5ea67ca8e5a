------------------------------- MODULE RingOps -------------------------------
(***************************************************************************)
(* Index arithmetic of the ring buffer behind an output port               *)
(* (systemml/port.cpp).  Indices move DOWN round the ring: sample k is     *)
(* written to buffer -k modulo the ring size, and a reader of lag l meets  *)
(* it l samples later because its index starts l places above the writer's.*)
(***************************************************************************)
EXTENDS Integers

\* Fault: the index runs off the low end of the ring.
DownWithoutWrap(b, size) == b - 1

\* The buffer after b, both for the writer and for a reader.
Down(b, size) == IF b > 0 THEN b - 1 ELSE size - 1

\* How many samples away buffer l is from an index that now stands at "at".
SamplesTill(at, l, size) == IF at - l < 0 THEN at - l + size ELSE at - l

\* Fault: read-ready has priority where both indices point at the same buffer.
TieStartsReadReady(readBuffer, writeBuffer, l, size) ==
    SamplesTill(readBuffer, l, size) > SamplesTill(writeBuffer, l, size)

\* A buffer that the writer reaches no later than the reader starts as
\* write-ready ("write-ready has priority"), any other as read-ready.
StartsWriteReady(readBuffer, writeBuffer, l, size) ==
    SamplesTill(readBuffer, l, size) >= SamplesTill(writeBuffer, l, size)

\* Where the writer and a reader of the given lag stand after "services"
\* services, as Process::progress computes it for a resumed system.
WriteBufferAfter(services, size) ==
    LET w == -(services % size) IN IF w < 0 THEN w + size ELSE w

\* Fault: the reader starts at the writer's buffer whatever its lag.
ReadBufferWithoutLag(services, lag, size) == WriteBufferAfter(services, size)

ReadBufferAfter(services, lag, size) ==
    LET r == lag - (services % size) IN IF r < 0 THEN r + size ELSE r
=============================================================================
