--------------------------- MODULE PortRingProofs ---------------------------
(***************************************************************************)
(* Proofs about PortRing: RingInv is inductive for every number of         *)
(* readers, every lag, every ring size and every resume point, and the     *)
(* properties of the ring follow from it.  The induction is that of        *)
(* PortRingFamily, of which this ring is the family of one.                *)
(***************************************************************************)
EXTENDS PortRing, TLAPS

Family ==
    INSTANCE PortRingFamily WITH
        Port <- {0}, ReadersOf <- LAMBDA o : Readers, LagOf <- LAMBDA o : Lag,
        SizeOf <- LAMBDA o : Size, RedundantOf <- LAMBDA o : Redundant,
        ReadsFirstOf <- LAMBDA o : ReadsFirst, StartOf <- LAMBDA o : Start,
        StopOf <- LAMBDA o : Stop,
        ring <- [o \in {0} |->
            [writeBuffer |-> writeBuffer, readBuffer |-> readBuffer,
             readReady |-> readReady, writeReady |-> writeReady,
             contents |-> contents, wpc |-> wpc, windex |-> windex,
             dueData |-> dueData, written |-> written, consumed |-> consumed]]

USE DEF Reader, Buffer, NULL, Family!Ring!Reader, Family!Ring!Buffer, Family!Ring!NULL

-----------------------------------------------------------------------------
\* The assumption of PortRing is what the family asks of each of its rings.
LEMMA FamilyConfig == 0 \in {0} /\ Family!Config(0)
BY RingAssumption DEF Family!Config

\* Every lag fits the ring.
LEMMA LagRange == \A r \in Reader : Lag[r] \in 0 .. Size - 1
BY RingAssumption

\* A buffer was written between one and Size samples ago.
LEMMA AgeRange == \A w, b \in Buffer : Age(w, b) \in 1 .. Size
BY RingAssumption DEF Age

\* What the family says of its only ring it says of this one.
LEMMA SameInv ==
    /\ Family!Ring(0)!RingInv <=> RingInv
    /\ (Family!Ring(0)!RingInv)' <=> RingInv'
<1>1. /\ Family!Ring(0)!TypeOK <=> TypeOK
      /\ (Family!Ring(0)!TypeOK)' <=> TypeOK'
  BY DEF TypeOK, Family!Ring!TypeOK
<1>2. /\ Family!Ring(0)!PhaseInv <=> PhaseInv
      /\ (Family!Ring(0)!PhaseInv)' <=> PhaseInv'
  BY DEF PhaseInv, Family!Ring!PhaseInv
<1>3. /\ Family!Ring(0)!PositionInv <=> PositionInv
      /\ (Family!Ring(0)!PositionInv)' <=> PositionInv'
  BY DEF PositionInv, Family!Ring!PositionInv, At, Family!Ring!At, Lead,
         Family!Ring!Lead
<1>4. /\ Family!Ring(0)!SignalInv <=> SignalInv
      /\ (Family!Ring(0)!SignalInv)' <=> SignalInv'
  BY DEF SignalInv, Family!Ring!SignalInv, LeadInv, Family!Ring!LeadInv,
         AlternatorInv, Family!Ring!AlternatorInv, Lead, Family!Ring!Lead,
         Released, Family!Ring!Released, AgeFor, Family!Ring!AgeFor, Age,
         Family!Ring!Age, WriterHolds, Family!Ring!WriterHolds, ReaderHolds,
         Family!Ring!ReaderHolds
<1>5. /\ Family!Ring(0)!TurnInv <=> TurnInv
      /\ (Family!Ring(0)!TurnInv)' <=> TurnInv'
  BY DEF TurnInv, Family!Ring!TurnInv, WriterBegun, Family!Ring!WriterBegun,
         Begun, Family!Ring!Begun
<1>6. /\ Family!Ring(0)!ContentsInv <=> ContentsInv
      /\ (Family!Ring(0)!ContentsInv)' <=> ContentsInv'
  BY DEF ContentsInv, Family!Ring!ContentsInv, Content, Family!Ring!Content,
         Initial, Family!Ring!Initial, Age, Family!Ring!Age
<1> QED
  BY <1>1, <1>2, <1>3, <1>4, <1>5, <1>6 DEF RingInv, Family!Ring!RingInv

\* The ring starts as the family's only ring does ...
LEMMA SameInit == Init => Family!Ring(0)!Init
<1>1. /\ WriteBufferAfter(Start, Size) = Family!Ring(0)!WriteBufferAfter(Start, Size)
      /\ \A l : ReadBufferAfter(Start, l, Size) = Family!Ring(0)!ReadBufferAfter(Start, l, Size)
  BY DEF WriteBufferAfter, Family!Ring!WriteBufferAfter, ReadBufferAfter,
         Family!Ring!ReadBufferAfter
<1>2. \A c, w, b : StartsWriteReady(c, w, b, Size)
                     <=> Family!Ring(0)!StartsWriteReady(c, w, b, Size)
  BY DEF StartsWriteReady, Family!Ring!StartsWriteReady, SamplesTill,
         Family!Ring!SamplesTill
<1>3. \A w, b : Content(Start - Age(w, b))
                  = Family!Ring(0)!Content(Start - Family!Ring(0)!Age(w, b))
  BY DEF Content, Family!Ring!Content, Initial, Family!Ring!Initial, Age,
         Family!Ring!Age
<1> SUFFICES ASSUME Init PROVE Family!Ring(0)!Init
  OBVIOUS
<1>4. /\ readReady = [r \in Reader |-> {b \in Buffer :
             ~ Family!Ring(0)!StartsWriteReady(readBuffer[r], writeBuffer, b, Size)}]
      /\ writeReady = [r \in Reader |-> {b \in Buffer :
             Family!Ring(0)!StartsWriteReady(readBuffer[r], writeBuffer, b, Size)}]
  BY <1>2 DEF Init
<1>5. contents = [b \in Buffer |->
             Family!Ring(0)!Content(Start - Family!Ring(0)!Age(writeBuffer, b))]
  BY <1>3 DEF Init
<1>6. /\ writeBuffer = Family!Ring(0)!WriteBufferAfter(Start, Size)
      /\ readBuffer = [r \in Reader |->
             Family!Ring(0)!ReadBufferAfter(Start, Lag[r], Size)]
  BY <1>1 DEF Init
<1>7. /\ wpc = "lock" /\ windex = 0 /\ dueData = [r \in Reader |-> NULL]
      /\ written = Start /\ consumed = [r \in Reader |-> Start]
  BY DEF Init
<1> QED
  BY <1>4, <1>5, <1>6, <1>7 DEF Family!Ring!Init

\* ... and every step of it is a step of that one.
LEMMA SameNext == [Next]_vars => [Family!Ring(0)!Next]_(Family!Ring(0)!vars)
<1>1. ASSUME NEW r \in Reader, WriteLock(r) PROVE Family!Ring(0)!WriteLock(r)
  BY <1>1 DEF WriteLock, Family!Ring!WriteLock, InTurnToWrite,
              Family!Ring!InTurnToWrite, Begun, Family!Ring!Begun
<1>2. ASSUME NEW r \in Reader, WriteRelease(r) PROVE Family!Ring(0)!WriteRelease(r)
  BY <1>2 DEF WriteRelease, Family!Ring!WriteRelease, InTurnToPublish,
              Family!Ring!InTurnToPublish
<1>3. ASSUME NEW r \in Reader, ReadLock(r) PROVE Family!Ring(0)!ReadLock(r)
  BY <1>3 DEF ReadLock, Family!Ring!ReadLock, InTurnToRead,
              Family!Ring!InTurnToRead
<1>4. ASSUME NEW r \in Reader, ReadRelease(r) PROVE Family!Ring(0)!ReadRelease(r)
  BY <1>4 DEF ReadRelease, Family!Ring!ReadRelease, Down, Family!Ring!Down
<1>5. WriteLocked => Family!Ring(0)!WriteLocked
  BY DEF WriteLocked, Family!Ring!WriteLocked
<1>6. Fill => Family!Ring(0)!Fill
  BY DEF Fill, Family!Ring!Fill
<1>7. WriteReleased => Family!Ring(0)!WriteReleased
  BY DEF WriteReleased, Family!Ring!WriteReleased, InTurnToPublish,
         Family!Ring!InTurnToPublish, Down, Family!Ring!Down
<1>8. UNCHANGED vars => UNCHANGED (Family!Ring(0)!vars)
  BY DEF vars, Family!Ring!vars
<1> QED
  BY <1>1, <1>2, <1>3, <1>4, <1>5, <1>6, <1>7, <1>8
     DEF Next, Writer, Family!Ring!Next, Family!Ring!Writer

\* So the initial positions and signals satisfy the invariant, fresh or resumed, ...
LEMMA InitRingInv == Init => RingInv
BY FamilyConfig, SameInv, SameInit, Family!InitRingInv

\* ... and every step preserves it.
LEMMA RingStep == RingInv /\ [Next]_vars => RingInv'
BY FamilyConfig, SameInv, SameNext, Family!RingStep

\* No reader works on the buffer the writer is filling.
LEMMA RingInvExclusion == RingInv => BufferExclusion
<1>1. Family!Ring(0)!BufferExclusion => BufferExclusion
  BY DEF BufferExclusion, Family!Ring!BufferExclusion
<1> QED
  BY <1>1, FamilyConfig, SameInv, Family!RingInvExclusion

\* Every reader works on the sample its lag calls for.
LEMMA RingInvFresh == RingInv => FreshSample
<1>1. Family!Ring(0)!FreshSample => FreshSample
  BY DEF FreshSample, Content, Initial, Family!Ring!FreshSample, Family!Ring!Content,
         Family!Ring!Initial
<1> QED
  BY <1>1, FamilyConfig, SameInv, Family!RingInvFresh

\* Geometry of the ring: buffers above the write buffer, by age.
LEMMA AtAge ==
    ASSUME writeBuffer \in Buffer
    PROVE  /\ \A x \in -1 .. Size : At(x) \in Buffer
           /\ \A x \in 1 .. Size : Age(writeBuffer, At(x)) = x
           /\ \A b \in Buffer : At(Age(writeBuffer, b)) = b
           /\ \A x \in 0 .. Size : Down(At(x), Size) = At(x - 1)
           /\ At(0) = writeBuffer
           /\ \A x \in 1 .. Size - 1 : At(x) # writeBuffer
<1>1. \A x : Family!Ring(0)!At(x) = At(x)
  BY DEF At, Family!Ring!At
<1>2. \A w, b : Family!Ring(0)!Age(w, b) = Age(w, b) /\ Family!Ring(0)!Down(w, b) = Down(w, b)
  BY DEF Age, Down, Family!Ring!Age, Family!Ring!Down
<1> QED
  BY <1>1, <1>2, FamilyConfig, Family!AtAge

\* A reader is at most one sample ahead of the writer and a ring behind it.
LEMMA LeadRange ==
    ASSUME RingInv, NEW r \in Reader
    PROVE  /\ Lead(r) \in -1 .. Size
           /\ dueData[r] # NULL => Lead(r) \in 0 .. Size
           /\ r \in Redundant /\ WriterBegun => Lead(r) \in -1 .. Size - 1
<1>1. Family!Ring(0)!Lead(r) = Lead(r) /\ (Family!Ring(0)!WriterBegun <=> WriterBegun)
  BY DEF Lead, WriterBegun, Family!Ring!Lead, Family!Ring!WriterBegun
<1> QED
  BY <1>1, FamilyConfig, SameInv, Family!LeadRange

-----------------------------------------------------------------------------
\* The invariant is inductive: whatever the number of readers, the lags, the
\* ring size and the resume point, every step of the ring preserves it.
THEOREM RingInvariant == Spec => []RingInv
BY InitRingInv, RingStep, PTL DEF Spec

\* The variables of the ring keep their types.
THEOREM RingTypes == Spec => []TypeOK
<1>1. RingInv => TypeOK
  BY DEF RingInv
<1> QED
  BY <1>1, RingInvariant, PTL

\* OutputPort::writeLock and readLock, or the order of a shared thread: no reader works
\* on the buffer that the writer is filling.
THEOREM RingExclusion == Spec => []BufferExclusion
BY RingInvariant, RingInvExclusion, PTL

\* Every reader works on the sample that its lag calls for, or on initial data, while
\* it holds the buffer (OutputPort::readLock).
THEOREM RingFreshness == Spec => []FreshSample
BY RingInvariant, RingInvFresh, PTL

\* An alternator never offers its buffer to both sides, nor to a third party.
THEOREM RingOneTurn == Spec => []OneTurn
<1>1. RingInv => OneTurn
  <2> SUFFICES ASSUME RingInv, NEW r \in Reader \ Redundant, NEW b \in Buffer
               PROVE  OneTurn!(r, b)
    BY DEF OneTurn
  <2>1. AlternatorInv(r, b) /\ Lead(r) \in Int /\ AgeFor(r, b) \in Int
    BY LeadRange, AgeRange DEF RingInv, SignalInv, AgeFor, TypeOK
  <2>2. WriterHolds(r, b) => AgeFor(r, b) = Size
    BY RingAssumption DEF WriterHolds, AgeFor, Released, Age, RingInv, TypeOK
  <2>3. ReaderHolds(r, b) => AgeFor(r, b) <= Lead(r)
    <3> USE RingAssumption
    <3>0. writeBuffer \in Buffer
      BY DEF RingInv, TypeOK
    <3> SUFFICES ASSUME ReaderHolds(r, b) PROVE AgeFor(r, b) <= Lead(r)
      OBVIOUS
    <3>1. dueData[r] = b /\ dueData[r] # NULL /\ b = At(Lead(r))
      BY SMTT(30) DEF ReaderHolds, RingInv, PositionInv
    <3>2. LeadInv(r) /\ Lead(r) \in 0 .. Size
      BY <3>1, LeadRange DEF RingInv, SignalInv
    <3>3. CASE Lead(r) = 0
      BY <3>0, <3>1, <3>2, <3>3, AtAge DEF AgeFor, LeadInv
    <3>4. CASE Lead(r) \in 1 .. Size
      <4>1. Age(writeBuffer, b) = Lead(r)
        BY <3>0, <3>1, <3>4, AtAge
      <4> QED
        BY <3>4, <4>1 DEF AgeFor
    <3> QED
      BY <3>2, <3>3, <3>4
  <2> QED
    BY <2>1, <2>2, <2>3, RingAssumption DEF AlternatorInv
<1> QED
  BY <1>1, RingInvariant, PTL

-----------------------------------------------------------------------------
\* The samples published to reader r, as its channel sees them.
Pub(r) == written + (IF wpc = "release" /\ r < windex THEN 1 ELSE 0)

Taken(r) == IF dueData[r] = NULL THEN -2 ELSE contents[dueData[r]]

ChannelStep(r) == [Channel(r)!Next]_(Channel(r)!channelVars)

\* A step of the ring that the channel of a reader does not see.
LEMMA ChannelStutter ==
    ASSUME NEW r \in Reader, Pub(r)' = Pub(r), consumed'[r] = consumed[r],
           Taken(r)' = Taken(r)
    PROVE  ChannelStep(r)
BY DEF ChannelStep, Pub, Taken, Channel!channelVars

\* Telling a reader that a buffer is ready publishes a sample on its channel.
LEMMA ChannelPublish ==
    ASSUME NEW r \in Reader, Pub(r) + Lag[r] - consumed[r] < Size,
           Pub(r)' = Pub(r) + 1, consumed'[r] = consumed[r], Taken(r)' = Taken(r)
    PROVE  ChannelStep(r)
BY DEF ChannelStep, Pub, Taken, Channel!Next, Channel!Publish

\* Locking a buffer for reading takes the next sample off the channel.
LEMMA ChannelTake ==
    ASSUME NEW r \in Reader, dueData[r] = NULL, consumed[r] < Pub(r) + Lag[r],
           Taken(r)' = Content(consumed[r] - Lag[r]),
           Pub(r)' = Pub(r), consumed'[r] = consumed[r]
    PROVE  ChannelStep(r)
BY DEF ChannelStep, Pub, Taken, Channel!Next, Channel!Take, Channel!NoSample,
       Channel!Content, Channel!Initial, Content, Initial

\* Releasing it gives its place in the channel back.
LEMMA ChannelGiveBack ==
    ASSUME NEW r \in Reader, Taken(r) # -2, dueData'[r] = NULL,
           Pub(r)' = Pub(r), consumed'[r] = consumed[r] + 1
    PROVE  ChannelStep(r)
BY DEF ChannelStep, Pub, Taken, Channel!Next, Channel!GiveBack, Channel!NoSample

\* Every step of the ring is, for each reader, a step of its channel or none.
LEMMA RingStepImplements ==
    ASSUME RingInv, RingInv', FreshSample', Next, NEW r \in Reader
    PROVE  ChannelStep(r)
<1> USE RingAssumption
<1>0. /\ written \in Nat /\ consumed[r] \in Nat /\ Lag[r] \in Nat
      /\ writeBuffer \in Buffer /\ dueData[r] \in Buffer \cup {NULL}
  BY DEF RingInv, TypeOK
<1>1. ASSUME NEW s \in Reader, WriteLock(s) PROVE ChannelStep(r)
  <2>1. Pub(r)' = Pub(r) /\ Taken(r)' = Taken(r) /\ consumed'[r] = consumed[r]
    BY <1>1 DEF WriteLock, Pub, Taken
  <2> QED
    BY <2>1, ChannelStutter
<1>2. CASE WriteLocked
  <2>1. Pub(r)' = Pub(r) /\ Taken(r)' = Taken(r) /\ consumed'[r] = consumed[r]
    BY <1>2 DEF WriteLocked, Pub, Taken
  <2> QED
    BY <2>1, ChannelStutter
<1>3. CASE Fill
  <2>1. dueData[r] # writeBuffer
    BY <1>3, RingInvExclusion DEF BufferExclusion, Fill
  <2>2. windex = 0 /\ windex' = 0
    BY <1>3 DEF RingInv, PhaseInv, Fill
  <2>3. Pub(r)' = Pub(r) /\ consumed'[r] = consumed[r]
    BY <1>3, <2>2 DEF Fill, Pub
  <2>4. Taken(r)' = Taken(r)
    BY <1>0, <1>3, <2>1 DEF Fill, Taken, RingInv, TypeOK
  <2> QED
    BY <2>3, <2>4, ChannelStutter
<1>4. ASSUME NEW s \in Reader, WriteRelease(s) PROVE ChannelStep(r)
  <2>1. /\ Taken(r)' = Taken(r) /\ consumed'[r] = consumed[r]
        /\ wpc = "release" /\ wpc' = "release" /\ windex = s /\ windex' = s + 1
        /\ written' = written
    BY <1>4 DEF WriteRelease, Taken
  <2>2. CASE s = r
    <3>1. Pub(r) = written /\ Pub(r)' = Pub(r) + 1
      BY <1>0, <2>1, <2>2 DEF Pub
    <3>2. Lead(r) \in Int /\ Lead(r) < Size
      <4>1. CASE r \in Redundant
        BY <2>1, <4>1, LeadRange DEF WriterBegun
      <4>2. CASE r \notin Redundant
        <5>1. WriterHolds(r, writeBuffer)
          BY <2>1, <2>2 DEF WriterHolds
        <5> QED
          BY <1>0, <4>2, <5>1, LeadRange DEF RingInv, SignalInv, AlternatorInv
      <4> QED
        BY <4>1, <4>2
    <3>3. Pub(r) + Lag[r] - consumed[r] < Size
      BY <3>1, <3>2 DEF Lead
    <3> QED
      BY <2>1, <3>1, <3>3, ChannelPublish
  <2>3. CASE s # r
    <3>1. Pub(r)' = Pub(r)
      BY <2>1, <2>3 DEF Pub
    <3> QED
      BY <2>1, <3>1, ChannelStutter
  <2> QED
    BY <2>2, <2>3
<1>5. CASE WriteReleased
  <2>1. /\ wpc = "release" /\ windex = Readers /\ wpc' = "lock"
        /\ written' = written + 1 /\ Taken(r)' = Taken(r) /\ consumed'[r] = consumed[r]
    BY <1>5 DEF WriteReleased, Taken
  <2>2. Pub(r)' = Pub(r)
    BY <1>0, <2>1 DEF Pub
  <2> QED
    BY <2>1, <2>2, ChannelStutter
<1>6. ASSUME NEW s \in Reader, ReadLock(s) PROVE ChannelStep(r)
  <2>1. Pub(r)' = Pub(r) /\ consumed'[r] = consumed[r] /\ contents' = contents
    BY <1>6 DEF ReadLock, Pub
  <2>2. CASE s = r
    <3>1. dueData[r] = NULL /\ dueData'[r] # NULL
      BY <1>6, <2>2 DEF ReadLock, RingInv, TypeOK
    <3>3. contents'[dueData'[r]] = Content(consumed[r] - Lag[r])
      <4>1. contents'[dueData'[r]] = Content(consumed'[r] - Lag[r])
        BY <3>1 DEF FreshSample
      <4> QED
        BY <2>1, <4>1
    <3>4. Taken(r)' = Content(consumed[r] - Lag[r])
      BY <3>1, <3>3 DEF Taken
    <3>5. consumed[r] < Pub(r) + Lag[r]
      <4>1. CASE r \in ReadsFirst
        <5>1. consumed[r] = written /\ Lag[r] > 0 /\ wpc = "lock"
          BY <1>6, <2>2, <4>1 DEF ReadLock, InTurnToRead
        <5> QED
          BY <1>0, <5>1 DEF Pub
      <4>2. CASE r \in Redundant \ ReadsFirst
        <5>1. consumed[r] = written - 1 /\ wpc = "lock"
          BY <1>6, <2>2, <4>2 DEF ReadLock, InTurnToRead
        <5> QED
          BY <1>0, <5>1 DEF Pub
      <4>3. CASE r \notin Redundant
        <5>1. LeadInv(r)' /\ Lead(r)' = Lead(r) /\ Released(r)' = Released(r)
          BY <1>6, <4>3 DEF RingInv, SignalInv, ReadLock, Lead, Released
        <5>2. Lead(r) >= (IF Released(r) THEN 0 ELSE 1)
          BY <3>1, <5>1 DEF LeadInv
        <5>3. Pub(r) = written + (IF Released(r) THEN 1 ELSE 0)
          BY DEF Pub, Released
        <5> QED
          BY <1>0, <5>2, <5>3 DEF Lead
      <4> QED
        BY <4>1, <4>2, <4>3
    <3> QED
      BY <2>1, <3>1, <3>4, <3>5, ChannelTake
  <2>3. CASE s # r
    <3>1. Taken(r)' = Taken(r)
      BY <1>6, <2>3 DEF ReadLock, Taken, RingInv, TypeOK
    <3> QED
      BY <2>1, <3>1, ChannelStutter
  <2> QED
    BY <2>2, <2>3
<1>7. ASSUME NEW s \in Reader, ReadRelease(s) PROVE ChannelStep(r)
  <2>1. Pub(r)' = Pub(r) /\ contents' = contents
    BY <1>7 DEF ReadRelease, Pub
  <2>2. CASE s = r
    <3>1. dueData[r] # NULL /\ dueData'[r] = NULL /\ consumed'[r] = consumed[r] + 1
      BY <1>7, <2>2 DEF ReadRelease, RingInv, TypeOK
    <3>2. Taken(r) # -2
      <4>1. Taken(r) = Content(consumed[r] - Lag[r])
        BY <3>1, RingInvFresh DEF FreshSample, Taken
      <4> QED
        BY <1>0, <4>1 DEF Content, Initial
    <3> QED
      BY <2>1, <3>1, <3>2, ChannelGiveBack
  <2>3. CASE s # r
    <3>1. Taken(r)' = Taken(r) /\ consumed'[r] = consumed[r]
      BY <1>7, <2>3 DEF ReadRelease, Taken, RingInv, TypeOK
    <3> QED
      BY <2>1, <3>1, ChannelStutter
  <2> QED
    BY <2>2, <2>3
<1> QED
  BY <1>1, <1>2, <1>3, <1>4, <1>5, <1>6, <1>7 DEF Next, Writer

\* What the ring gives each reader is a bounded first-in first-out channel that
\* delivers sample n - lag at service n: nothing lost, repeated or early.
THEOREM RingImplementsChannels == Spec => ImplementsChannels
<1>1. Init => \A r \in Reader : Channel(r)!Init
  <2> SUFFICES ASSUME Init, NEW r \in Reader PROVE Channel(r)!Init
    OBVIOUS
  <2>1. wpc = "lock" /\ dueData[r] = -1 /\ written = Start /\ consumed[r] = Start
    BY DEF Init
  <2>2. Start + 0 = Start
    BY RingAssumption
  <2> QED
    BY <2>1, <2>2 DEF Channel!Init, Channel!NoSample
<1>2. RingInv /\ RingInv' /\ FreshSample' /\ [Next]_vars =>
        [\A r \in Reader : [Channel(r)!Next]_(Channel(r)!channelVars)]_vars
  BY RingStepImplements DEF ChannelStep
<1> QED
  BY <1>1, <1>2, RingInvariant, RingFreshness, PTL DEF Spec, ImplementsChannels

=============================================================================
