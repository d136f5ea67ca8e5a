------------------------------- MODULE PortRing -------------------------------
(***************************************************************************)
(* One output port, its ring of buffers and the input ports that read it   *)
(* (systemml/port.cpp, systemml/alternator.h).  A writer services the port *)
(* once per sample: it write-locks the alternator of every reader on the   *)
(* current buffer, in reader order, lets the process fill the buffer, and  *)
(* releases the alternators in the same order.  A reader locks one         *)
(* alternator, uses the buffer and releases it.  An alternator is a pair   *)
(* of auto-reset signals, read-ready and write-ready, at most one of them  *)
(* set; locking consumes a signal and releasing sets the other.            *)
(*                                                                         *)
(* Alternators of a reader in the writer's own thread are "redundant":     *)
(* locking and releasing them does nothing, and only the order in which    *)
(* the thread services its processes keeps the two apart.  That order is   *)
(* a guard here (InTurn..) and is discharged by WorkerService, which shows *)
(* that the service loop implements this module for every port.            *)
(***************************************************************************)
EXTENDS RingOps

CONSTANTS Readers,     \* number of attached readers (N alternators a buffer)
          Lag,         \* the lag, in samples, of each reader's link
          Size,        \* number of buffers in the ring
          Redundant,   \* readers serviced by the writer's own thread
          ReadsFirst,  \* those of them serviced no later than the writer
          Start,       \* samples due before the execution starts (resume)
          Stop         \* samples due before the execution stops

Reader == 0 .. Readers - 1
Buffer == 0 .. Size - 1

\* RingBuffer::expand keeps at least two buffers and lag+1 for each reader; a
\* zero-lag reader is serviced after its writer (System::load orders them).
ASSUME RingAssumption ==
    /\ Readers \in Nat
    /\ Size \in Nat /\ Size >= 2
    /\ Lag \in [Reader -> Nat]
    /\ \A r \in Reader : Lag[r] < Size
    /\ Redundant \subseteq Reader
    /\ ReadsFirst \subseteq Redundant
    /\ \A r \in ReadsFirst : Lag[r] > 0
    /\ Start \in Nat /\ Stop \in Nat

VARIABLES writeBuffer,  \* RingBuffer::writeBuffer
          readBuffer,   \* InputPort::readBuffer, of each reader
          readReady,    \* for each reader, the buffers whose readReady is set
          writeReady,   \* for each reader, the buffers whose writeReady is set
          contents,     \* the sample each buffer holds
          wpc, windex,  \* the writer's phase, and the alternator it is at
          dueData,      \* each reader's InputPort::dueData, a buffer or NULL
          written,      \* samples written and released by the writer
          consumed      \* samples read and released by each reader

vars == <<writeBuffer, readBuffer, readReady, writeReady, contents, wpc, windex,
          dueData, written, consumed>>

NULL     == -1
Initial  == -1

Content(k) == IF k >= 0 THEN k ELSE Initial

Age(w, b) == IF b > w THEN b - w ELSE b - w + Size

-----------------------------------------------------------------------------
\* RingBuffer::expand, Process::progress and OutputPort::initInterThreadLocks
\* leave every alternator with exactly one signal set.  Resumed, the buffers hold
\* what they held at the save (PortSave is about how the two find each other).
Init ==
    /\ writeBuffer = WriteBufferAfter(Start, Size)
    /\ readBuffer = [r \in Reader |-> ReadBufferAfter(Start, Lag[r], Size)]
    /\ readReady  = [r \in Reader |-> {b \in Buffer :
            ~ StartsWriteReady(readBuffer[r], writeBuffer, b, Size)}]
    /\ writeReady = [r \in Reader |-> {b \in Buffer :
              StartsWriteReady(readBuffer[r], writeBuffer, b, Size)}]
    /\ contents = [b \in Buffer |-> Content(Start - Age(writeBuffer, b))]
    /\ wpc = "lock" /\ windex = 0
    /\ dueData = [r \in Reader |-> NULL]
    /\ written = Start
    /\ consumed = [r \in Reader |-> Start]

-----------------------------------------------------------------------------
\* The thread's order, for the readers whose alternators are redundant.
Begun(r) == consumed[r] + (IF dueData[r] = NULL THEN 0 ELSE 1)

InTurnToWrite ==
    \A r \in Redundant :
        IF r \in ReadsFirst THEN Begun(r) = written + 1
                            ELSE consumed[r] = written

InTurnToPublish == \A r \in ReadsFirst : consumed[r] = written + 1

InTurnToRead(r) ==
    /\ wpc = "lock" /\ windex = 0
    /\ IF r \in ReadsFirst THEN consumed[r] = written
                           ELSE consumed[r] = written - 1

-----------------------------------------------------------------------------
\* Fault: the writer takes the buffer without waiting for the reader.
WriteLockWithoutWait(r) ==
    /\ wpc = "lock" /\ windex = r
    /\ written < Stop
    /\ windex = 0 => InTurnToWrite
    /\ writeReady' = [writeReady EXCEPT ![r] = @ \ {writeBuffer}]
    /\ windex' = r + 1
    /\ UNCHANGED <<writeBuffer, readBuffer, readReady, contents, wpc, dueData,
                   written, consumed>>

\* OutputPort::writeLock takes the alternators of the current buffer in turn.
WriteLock(r) ==
    /\ wpc = "lock" /\ windex = r
    /\ written < Stop
    /\ windex = 0 => InTurnToWrite
    /\ r \notin Redundant => writeBuffer \in writeReady[r]
    /\ writeReady' = IF r \in Redundant THEN writeReady
                     ELSE [writeReady EXCEPT ![r] = @ \ {writeBuffer}]
    /\ windex' = r + 1
    /\ UNCHANGED <<writeBuffer, readBuffer, readReady, contents, wpc, dueData,
                   written, consumed>>

\* All are locked: the buffer becomes the port's due data.
WriteLocked ==
    /\ wpc = "lock" /\ windex = Readers
    /\ written < Stop
    /\ wpc' = "fill" /\ windex' = 0
    /\ UNCHANGED <<writeBuffer, readBuffer, readReady, writeReady, contents,
                   dueData, written, consumed>>

\* EVENT_RUN_SERVICE: the process writes the sample into the due buffer.
Fill ==
    /\ wpc = "fill"
    /\ contents' = [contents EXCEPT ![writeBuffer] = written]
    /\ wpc' = "release"
    /\ UNCHANGED <<writeBuffer, readBuffer, readReady, writeReady, windex,
                   dueData, written, consumed>>

\* OutputPort::writeRelease releases the alternators in turn ...
WriteRelease(r) ==
    /\ wpc = "release" /\ windex = r
    /\ InTurnToPublish
    /\ readReady' = IF r \in Redundant THEN readReady
                    ELSE [readReady EXCEPT ![r] = @ \cup {writeBuffer}]
    /\ windex' = r + 1
    /\ UNCHANGED <<writeBuffer, readBuffer, writeReady, contents, wpc, dueData,
                   written, consumed>>

\* ... and then selects the next write buffer.
WriteReleased ==
    /\ wpc = "release" /\ windex = Readers
    /\ InTurnToPublish
    /\ writeBuffer' = Down(writeBuffer, Size)
    /\ written' = written + 1
    /\ wpc' = "lock" /\ windex' = 0
    /\ UNCHANGED <<readBuffer, readReady, writeReady, contents, dueData, consumed>>

\* OutputPort::readLock waits for the reader's alternator on its buffer.
ReadLock(r) ==
    /\ dueData[r] = NULL
    /\ consumed[r] < Stop
    /\ IF r \in Redundant THEN InTurnToRead(r)
                          ELSE readBuffer[r] \in readReady[r]
    /\ readReady' = IF r \in Redundant THEN readReady
                    ELSE [readReady EXCEPT ![r] = @ \ {readBuffer[r]}]
    /\ dueData' = [dueData EXCEPT ![r] = readBuffer[r]]
    /\ UNCHANGED <<writeBuffer, readBuffer, writeReady, contents, wpc, windex,
                   written, consumed>>

\* Fault: the reader moves on first, and so hands back the wrong buffer.
ReadReleaseNext(r) ==
    /\ dueData[r] # NULL
    /\ readBuffer' = [readBuffer EXCEPT ![r] = Down(@, Size)]
    /\ writeReady' = IF r \in Redundant THEN writeReady
                     ELSE [writeReady EXCEPT ![r] = @ \cup {readBuffer'[r]}]
    /\ dueData' = [dueData EXCEPT ![r] = NULL]
    /\ consumed' = [consumed EXCEPT ![r] = @ + 1]
    /\ UNCHANGED <<writeBuffer, readReady, contents, wpc, windex, written>>

\* OutputPort::readRelease hands the buffer back and advances the reader.
ReadRelease(r) ==
    /\ dueData[r] # NULL
    /\ writeReady' = IF r \in Redundant THEN writeReady
                     ELSE [writeReady EXCEPT ![r] = @ \cup {readBuffer[r]}]
    /\ dueData' = [dueData EXCEPT ![r] = NULL]
    /\ readBuffer' = [readBuffer EXCEPT ![r] = Down(@, Size)]
    /\ consumed' = [consumed EXCEPT ![r] = @ + 1]
    /\ UNCHANGED <<writeBuffer, readReady, contents, wpc, windex, written>>

Writer == \/ \E r \in Reader : WriteLock(r) \/ WriteRelease(r)
          \/ WriteLocked \/ Fill \/ WriteReleased

Next == Writer \/ \E r \in Reader : ReadLock(r) \/ ReadRelease(r)

Spec == Init /\ [][Next]_vars

-----------------------------------------------------------------------------
TypeOK ==
    /\ writeBuffer \in Buffer
    /\ readBuffer \in [Reader -> Buffer]
    /\ readReady \in [Reader -> SUBSET Buffer]
    /\ writeReady \in [Reader -> SUBSET Buffer]
    /\ contents \in [Buffer -> Int]
    /\ wpc \in {"lock", "fill", "release"}
    /\ windex \in 0 .. Readers
    /\ dueData \in [Reader -> Buffer \cup {NULL}]
    /\ written \in Nat
    /\ consumed \in [Reader -> Nat]

\* No reader works on the buffer that the writer is filling, whether an
\* alternator or the thread's order keeps them apart (OutputPort::writeLock,
\* OutputPort::readLock).
BufferExclusion ==
    wpc = "fill" => \A r \in Reader : dueData[r] # writeBuffer

\* A reader at its service number n works on sample n - lag, or on initial
\* data when there is no such sample yet, for as long as it holds the buffer.
FreshSample ==
    \A r \in Reader : dueData[r] # NULL =>
        contents[dueData[r]] = Content(consumed[r] - Lag[r])

\* An alternator never offers a buffer to its reader and its writer at once, and
\* offers it to nobody while one of them is between its lock and its release.
WriterHolds(r, b) ==
    /\ b = writeBuffer
    /\ \/ wpc = "lock" /\ r < windex
       \/ wpc = "fill"
       \/ wpc = "release" /\ r >= windex

ReaderHolds(r, b) == dueData[r] = b

OneTurn ==
    \A r \in Reader \ Redundant, b \in Buffer :
        /\ ~ (b \in readReady[r] /\ b \in writeReady[r])
        /\ WriterHolds(r, b) \/ ReaderHolds(r, b) =>
               b \notin readReady[r] /\ b \notin writeReady[r]

-----------------------------------------------------------------------------
\* The inductive invariant behind these properties.  Lead is how many samples a
\* reader may still take (its distance above the write buffer); it is -1 when
\* the reader is done with a sample the writer has not finished releasing.
Lead(r) == written + Lag[r] - consumed[r]

Released(r) == wpc = "release" /\ r < windex

At(x) == IF writeBuffer + x < 0 THEN writeBuffer + x + Size
         ELSE IF writeBuffer + x >= Size THEN writeBuffer + x - Size
         ELSE writeBuffer + x

\* Samples written to the reader's knowledge since buffer b was written.
AgeFor(r, b) == IF Released(r) /\ b = writeBuffer THEN 0 ELSE Age(writeBuffer, b)

WriterBegun == ~ (wpc = "lock" /\ windex = 0)

\* Each reader stands where the samples it has taken put it.
PositionInv ==
    \A r \in Reader :
        /\ readBuffer[r] = At(Lead(r))
        /\ dueData[r] # NULL => dueData[r] = readBuffer[r]

\* The signals of an alternator follow from whose turn its buffer is.
LeadInv(r) ==
    /\ IF Released(r) THEN Lead(r) \in -1 .. Size - 1 ELSE Lead(r) \in 0 .. Size
    /\ dueData[r] # NULL => Lead(r) >= (IF Released(r) THEN 0 ELSE 1)

AlternatorInv(r, b) ==
    /\ b \in readReady[r]  <=> AgeFor(r, b) <= Lead(r) /\ ~ ReaderHolds(r, b)
    /\ b \in writeReady[r] <=> AgeFor(r, b) > Lead(r) /\ ~ WriterHolds(r, b)
    /\ WriterHolds(r, b) => Lead(r) < Size

SignalInv ==
    \A r \in Reader \ Redundant :
        LeadInv(r) /\ \A b \in Buffer : AlternatorInv(r, b)

\* Readers in the writer's thread keep step with the writer.
TurnInv ==
    \A r \in Redundant :
        IF r \in ReadsFirst
        THEN /\ consumed[r] \in {written, written + 1}
             /\ dueData[r] # NULL => consumed[r] = written
             /\ WriterBegun => Begun(r) = written + 1
             /\ wpc = "release" /\ windex > 0 => consumed[r] = written + 1
        ELSE /\ consumed[r] \in {written - 1, written}
             /\ dueData[r] # NULL => consumed[r] = written - 1
             /\ WriterBegun => consumed[r] = written

\* Every buffer holds the latest sample that was due in it.
ContentsInv ==
    \A b \in Buffer :
        contents[b] = IF b = writeBuffer /\ wpc = "release"
                      THEN Content(written)
                      ELSE Content(written - Age(writeBuffer, b))

PhaseInv == wpc = "fill" => windex = 0

RingInv == TypeOK /\ PhaseInv /\ PositionInv /\ SignalInv /\ TurnInv /\ ContentsInv

-----------------------------------------------------------------------------
\* What each reader sees of the ring is a bounded first-in first-out channel.
Channel(r) ==
    INSTANCE SampleChannel WITH
        Lag <- Lag[r], Capacity <- Size, Start <- Start,
        pub <- written + (IF wpc = "release" /\ r < windex THEN 1 ELSE 0),
        con <- consumed[r],
        taken <- IF dueData[r] = NULL THEN -2 ELSE contents[dueData[r]]

ImplementsChannels ==
    /\ \A r \in Reader : Channel(r)!Init
    /\ [][\A r \in Reader : [Channel(r)!Next]_(Channel(r)!channelVars)]_vars

\* Fairness: the writer and every reader run in threads the system schedules,
\* and a signal that stays set is eventually seen by its only waiter.
FairSpec ==
    /\ Spec
    /\ WF_vars(Writer)
    /\ \A r \in Reader : WF_vars(ReadLock(r)) /\ WF_vars(ReadRelease(r))

\* The ring never jams: every sample due is written and read by every reader.
AllSamplesServiced ==
    <>[](written = Stop /\ \A r \in Reader : consumed[r] = Stop)

=============================================================================
