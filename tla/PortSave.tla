------------------------------ MODULE PortSave ------------------------------
(***************************************************************************)
(* Saving the rings of a stopped system: Engine::close writes the contents *)
(* of every buffer to the output System File under the lag at which it was *)
(* written, and Process::progress reads them back by that lag when the     *)
(* execution is resumed.  Both find the buffer with getWriteBuffer.        *)
(***************************************************************************)
EXTENDS PortRing

\* Range of a UINT32, scaled down: 2^8 leaves the same remainder as 2^32 when
\* divided by any ring size up to 7.
Range32 == 256

\* RingBuffer::getWriteBuffer(offset): (writeBuffer - offset) is computed in
\* UINT32, and only then taken modulo the ring size.
GetWriteBuffer(offset) == ((writeBuffer - offset) % Range32) % Size

\* The port is between services, as it is when Engine::close saves the system.
Stopped == wpc = "lock" /\ windex = 0

\* "we can also use this to return the buffer that was written 'offset' samples
\* before the current write buffer gets written" (RingBuffer::getWriteBuffer).
SavedUnderItsLag ==
    Stopped => \A offset \in 1 .. Size :
        contents[GetWriteBuffer(offset)] = Content(written - offset)
=============================================================================
