---------------------------- MODULE PortRingFamily ----------------------------
(***************************************************************************)
(* The induction behind module PortRing, for a family of rings: that of    *)
(* every output port o of a voice, with the parameters its connections     *)
(* give it.  RingInv of each ring is inductive.  PortRingProofs takes the  *)
(* family of one ring, WorkerServiceProofs that of all ports of the voice. *)
(***************************************************************************)
EXTENDS RingOps, TLAPS

CONSTANTS
    Port,            \* the output ports
    ReadersOf(_),    \* the parameters of PortRing, port by port
    LagOf(_), SizeOf(_), RedundantOf(_), ReadsFirstOf(_), StartOf(_), StopOf(_)

VARIABLE ring        \* for each port, a record of the variables of PortRing

Ring(o) ==
    INSTANCE PortRing WITH
        Readers <- ReadersOf(o), Lag <- LagOf(o), Size <- SizeOf(o),
        Redundant <- RedundantOf(o), ReadsFirst <- ReadsFirstOf(o),
        Start <- StartOf(o), Stop <- StopOf(o),
        writeBuffer <- ring[o].writeBuffer, readBuffer <- ring[o].readBuffer,
        readReady <- ring[o].readReady, writeReady <- ring[o].writeReady,
        contents <- ring[o].contents, wpc <- ring[o].wpc,
        windex <- ring[o].windex, dueData <- ring[o].dueData,
        written <- ring[o].written, consumed <- ring[o].consumed

\* What RingAssumption of PortRing asks of a ring.
Config(o) ==
    /\ ReadersOf(o) \in Nat
    /\ SizeOf(o) \in Nat /\ SizeOf(o) >= 2
    /\ LagOf(o) \in [0 .. ReadersOf(o) - 1 -> Nat]
    /\ \A r \in 0 .. ReadersOf(o) - 1 : LagOf(o)[r] < SizeOf(o)
    /\ RedundantOf(o) \subseteq 0 .. ReadersOf(o) - 1
    /\ ReadsFirstOf(o) \subseteq RedundantOf(o)
    /\ \A r \in ReadsFirstOf(o) : LagOf(o)[r] > 0
    /\ StartOf(o) \in Nat /\ StopOf(o) \in Nat

USE DEF Ring!Reader, Ring!Buffer, Ring!NULL, Config

-----------------------------------------------------------------------------

\* Every lag fits the ring.
LEMMA LagRange ==
    ASSUME NEW o \in Port, Config(o)
    PROVE  \A r \in Ring(o)!Reader : LagOf(o)[r] \in 0 .. SizeOf(o) - 1
OBVIOUS

\* A buffer was written between one and Size samples ago.
LEMMA AgeRange ==
    ASSUME NEW o \in Port, Config(o)
    PROVE  \A w, b \in Ring(o)!Buffer : Ring(o)!Age(w, b) \in 1 .. SizeOf(o)
BY DEF Ring!Age

\* Adding a member to one of a family of sets, or taking one away.
LEMMA SetChange ==
    ASSUME NEW S, NEW B, NEW f \in [S -> SUBSET B], NEW r \in S, NEW b \in B
    PROVE  /\ [f EXCEPT ![r] = @ \ {b}] \in [S -> SUBSET B]
           /\ [f EXCEPT ![r] = @ \cup {b}] \in [S -> SUBSET B]
           /\ [f EXCEPT ![r] = @ \ {b}][r] = f[r] \ {b}
           /\ [f EXCEPT ![r] = @ \cup {b}][r] = f[r] \cup {b}
           /\ \A s \in S : s # r => /\ [f EXCEPT ![r] = @ \ {b}][s] = f[s]
                                   /\ [f EXCEPT ![r] = @ \cup {b}][s] = f[s]
OBVIOUS

\* The types of one reader's positions.
LEMMA ReaderTypes ==
    ASSUME NEW o \in Port, Config(o), Ring(o)!TypeOK, NEW r \in Ring(o)!Reader
    PROVE  /\ ring[o].readBuffer[r] \in Ring(o)!Buffer
           /\ ring[o].consumed[r] \in Nat
           /\ ring[o].written \in Nat
           /\ LagOf(o)[r] \in Nat
           /\ Ring(o)!Lead(r) = ring[o].written + LagOf(o)[r] - ring[o].consumed[r]
           /\ Ring(o)!Lead(r) \in Int
<1>1. /\ ring[o].readBuffer[r] \in Ring(o)!Buffer
      /\ ring[o].consumed[r] \in Nat
      /\ ring[o].written \in Nat
      /\ LagOf(o)[r] \in Nat
  BY DEF Ring!TypeOK
<1>2. Ring(o)!Lead(r) = ring[o].written + LagOf(o)[r] - ring[o].consumed[r]
  BY DEF Ring!Lead
<1>3. Ring(o)!Lead(r) \in Int
  <2> DEFINE w == ring[o].written
             c == ring[o].consumed[r]
             l == LagOf(o)[r]
             d == Ring(o)!Lead(r)
  <2>1. w \in Nat /\ c \in Nat /\ l \in Nat /\ d = w + l - c
    BY <1>1, <1>2
  <2> HIDE DEF w, c, l, d
  <2>2. d \in Int
    BY <2>1
  <2> QED
    BY <2>2 DEF d
<1> QED
  BY <1>1, <1>2, <1>3

\* The initial positions and signals satisfy the invariant, fresh or resumed.
LEMMA InitRingInv == ASSUME NEW o \in Port, Config(o), Ring(o)!Init PROVE Ring(o)!RingInv
<1> DEFINE q == StartOf(o) % SizeOf(o)
<1>1. q \in 0 .. SizeOf(o) - 1
  OBVIOUS
<1>q. /\ ring[o].writeBuffer = IF -q < 0 THEN -q + SizeOf(o) ELSE -q
      /\ ring[o].readBuffer = [r \in Ring(o)!Reader |-> IF LagOf(o)[r] - q < 0
            THEN LagOf(o)[r] - q + SizeOf(o)
                                        ELSE LagOf(o)[r] - q]
  BY DEF Ring!Init, Ring!WriteBufferAfter, Ring!ReadBufferAfter
<1> HIDE DEF q
<1>2. /\ ring[o].writeBuffer = IF q = 0 THEN 0 ELSE SizeOf(o) - q
      /\ \A r \in Ring(o)!Reader : ring[o].readBuffer[r] = IF LagOf(o)[r] >= q
            THEN LagOf(o)[r] - q
                                           ELSE LagOf(o)[r] - q + SizeOf(o)
  BY <1>1, <1>q, LagRange
<1>3. /\ ring[o].writeBuffer \in Ring(o)!Buffer
      /\ ring[o].readBuffer \in [Ring(o)!Reader -> Ring(o)!Buffer]
  BY SMTT(30), <1>1, <1>2, <1>q, LagRange
<1>4. Ring(o)!TypeOK
  <2>1. ring[o].contents \in [Ring(o)!Buffer -> Int]
    <3>1. \A b \in Ring(o)!Buffer : Ring(o)!Age(ring[o].writeBuffer, b) \in Int
      BY <1>3, AgeRange
    <3>2. \A k \in Int : Ring(o)!Content(k) \in Int
      BY DEF Ring!Content, Ring!Initial
    <3>3. \A b \in Ring(o)!Buffer :
             Ring(o)!Content(StartOf(o) - Ring(o)!Age(ring[o].writeBuffer, b)) \in Int
      BY <3>1, <3>2
    <3> QED
      BY <3>3 DEF Ring!Init
  <2>2. ring[o].readReady \in [Ring(o)!Reader -> SUBSET Ring(o)!Buffer]
           /\ ring[o].writeReady \in [Ring(o)!Reader -> SUBSET Ring(o)!Buffer]
    BY DEF Ring!Init
  <2> QED
    BY <1>3, <2>1, <2>2 DEF Ring!Init, Ring!TypeOK
<1>5. \A r \in Ring(o)!Reader : Ring(o)!Lead(r) = LagOf(o)[r]
  BY DEF Ring!Init, Ring!Lead
<1>6. Ring(o)!PositionInv
  <2> SUFFICES ASSUME NEW r \in Ring(o)!Reader
               PROVE  ring[o].readBuffer[r] = Ring(o)!At(Ring(o)!Lead(r))
    BY DEF Ring!Init, Ring!PositionInv
  <2> DEFINE w == ring[o].writeBuffer
             b == ring[o].readBuffer[r]
             l == LagOf(o)[r]
             n == SizeOf(o)
  <2>1. /\ n \in Nat /\ n >= 2 /\ q \in 0 .. n - 1 /\ l \in 0 .. n - 1
        /\ w = IF q = 0 THEN 0 ELSE n - q
        /\ b = IF l >= q THEN l - q ELSE l - q + n
    BY <1>1, <1>2, LagRange
  <2>2. Ring(o)!At(Ring(o)!Lead(r)) = IF w + l < 0 THEN w + l + n
                                      ELSE IF w + l >= n THEN w + l - n ELSE w + l
    BY <1>5 DEF Ring!At
  <2> HIDE DEF w, b, l, n
  <2>3. b = Ring(o)!At(Ring(o)!Lead(r))
    BY <2>1, <2>2
  <2> QED
    BY <2>3 DEF b
<1>7. Ring(o)!SignalInv
  <2> SUFFICES ASSUME NEW r \in Ring(o)!Reader \ RedundantOf(o)
               PROVE  Ring(o)!LeadInv(r)
                         /\ \A b \in Ring(o)!Buffer : Ring(o)!AlternatorInv(r, b)
    BY DEF Ring!SignalInv
  <2>1. ~ Ring(o)!Released(r) /\ ring[o].dueData[r] = Ring(o)!NULL
    BY DEF Ring!Init, Ring!Released
  <2>2. ASSUME NEW b \in Ring(o)!Buffer
        PROVE  /\ ~ Ring(o)!WriterHolds(r, b) /\ ~ Ring(o)!ReaderHolds(r, b)
               /\ b \in ring[o].readReady[r] <=>
                     Ring(o)!Age(ring[o].writeBuffer, b) <= LagOf(o)[r]
               /\ b \in ring[o].writeReady[r] <=>
                     Ring(o)!Age(ring[o].writeBuffer, b) > LagOf(o)[r]
    <3> DEFINE w == ring[o].writeBuffer
               c == ring[o].readBuffer[r]
               l == LagOf(o)[r]
               n == SizeOf(o)
               a == Ring(o)!Age(w, b)
    <3>1. /\ n \in Nat /\ n >= 2 /\ w \in 0 .. n - 1 /\ b \in 0 .. n - 1
          /\ l \in 0 .. n - 1 /\ a \in 1 .. n
      BY <1>3, LagRange, AgeRange
    <3>2. /\ c = IF w + l < 0 THEN w + l + n ELSE IF w + l >= n THEN w + l - n ELSE w + l
          /\ a = IF b > w THEN b - w ELSE b - w + n
          /\ Ring(o)!SamplesTill(w, b, n) = IF w - b < 0 THEN w - b + n ELSE w - b
          /\ Ring(o)!SamplesTill(c, b, n) = IF c - b < 0 THEN c - b + n ELSE c - b
      BY <1>5, <1>6 DEF Ring!PositionInv, Ring!At, Ring!Age, Ring!SamplesTill
    <3>3. Ring(o)!StartsWriteReady(c, w, b, n)
             <=> Ring(o)!SamplesTill(c, b, n) >= Ring(o)!SamplesTill(w, b, n)
      BY DEF Ring!StartsWriteReady
    <3>4. /\ ring[o].readReady[r] =
                {x \in Ring(o)!Buffer : ~ Ring(o)!StartsWriteReady(c, w, x, n)}
          /\ ring[o].writeReady[r] =
                {x \in Ring(o)!Buffer : Ring(o)!StartsWriteReady(c, w, x, n)}
      BY DEF Ring!Init
    <3>5. ~ Ring(o)!WriterHolds(r, b) /\ ~ Ring(o)!ReaderHolds(r, b)
      BY DEF Ring!Init, Ring!WriterHolds, Ring!ReaderHolds
    <3> HIDE DEF w, c, l, n, a
    <3>6. Ring(o)!StartsWriteReady(c, w, b, n) <=> a > l
      BY SMTT(30), <3>1, <3>2, <3>3
    <3>7. a <= l <=> ~ (a > l)
      BY <3>1
    <3> QED
      BY <3>4, <3>5, <3>6, <3>7 DEF w, c, l, n, a
  <2> QED
    BY SMTT(30), <1>5, <2>1, <2>2, LagRange DEF Ring!AgeFor, Ring!LeadInv, Ring!AlternatorInv
<1>p. Ring(o)!PhaseInv
  BY DEF Ring!Init, Ring!PhaseInv
<1>8. Ring(o)!TurnInv
  BY DEF Ring!Init, Ring!TurnInv, Ring!WriterBegun, Ring!Begun
<1>9. Ring(o)!ContentsInv
  BY <1>3 DEF Ring!Init, Ring!ContentsInv
<1> QED
  BY <1>4, <1>6, <1>7, <1>8, <1>9, <1>p DEF Ring!RingInv
-----------------------------------------------------------------------------
\* Taking the alternators of the current buffer, and having taken them all.
LEMMA WriteLockInv ==
    ASSUME NEW o \in Port, Config(o), Ring(o)!RingInv, NEW r \in Ring(o)!Reader,
           Ring(o)!WriteLock(r)
    PROVE  Ring(o)!RingInv'
<1> USE DEF Config, Ring!RingInv
<1>1. Ring(o)!TypeOK'
  <2>1. ring'[o].writeReady \in [Ring(o)!Reader -> SUBSET Ring(o)!Buffer]
    <3>1. /\ ring[o].writeReady \in [Ring(o)!Reader -> SUBSET Ring(o)!Buffer]
          /\ ring[o].writeBuffer \in Ring(o)!Buffer
      BY DEF Ring!TypeOK
    <3>2. \/ ring'[o].writeReady = ring[o].writeReady
          \/ ring'[o].writeReady = [ring[o].writeReady EXCEPT ![r] = @ \ {ring[o].writeBuffer}]
      BY DEF Ring!WriteLock
    <3> HIDE DEF Ring!Reader, Ring!Buffer
    <3>3. [ring[o].writeReady EXCEPT ![r] = @ \ {ring[o].writeBuffer}]
             \in [Ring(o)!Reader -> SUBSET Ring(o)!Buffer]
      BY <3>1, SetChange
    <3> QED
      BY <3>1, <3>2, <3>3
  <2>2. ring'[o].windex \in 0 .. ReadersOf(o)
    BY DEF Ring!WriteLock
  <2> QED
    BY <2>1, <2>2 DEF Ring!TypeOK, Ring!WriteLock
<1>2. Ring(o)!PositionInv'
  BY DEF Ring!PositionInv, Ring!WriteLock, Ring!At, Ring!Lead
<1>3. Ring(o)!SignalInv'
  <2> SUFFICES ASSUME NEW s \in Ring(o)!Reader \ RedundantOf(o)
               PROVE  Ring(o)!LeadInv(s)'
                         /\ \A b \in Ring(o)!Buffer : Ring(o)!AlternatorInv(s, b)'
    BY DEF Ring!SignalInv
  <2>1. ~ Ring(o)!Released(s) /\ ~ Ring(o)!Released(s)' /\ Ring(o)!Lead(s)' = Ring(o)!Lead(s)
    BY DEF Ring!WriteLock, Ring!Released, Ring!Lead
  <2>2. Ring(o)!LeadInv(s)'
    BY <2>1 DEF Ring!SignalInv, Ring!LeadInv, Ring!WriteLock
  <2>3. ASSUME NEW b \in Ring(o)!Buffer
        PROVE  Ring(o)!AlternatorInv(s, b)'
    <3>1. Ring(o)!AlternatorInv(s, b) /\ Ring(o)!Lead(s) \in Int
      BY <2>1 DEF Ring!SignalInv, Ring!LeadInv
    <3>2. Ring(o)!AgeFor(s, b)' = Ring(o)!AgeFor(s, b)
             /\ Ring(o)!ReaderHolds(s, b)' = Ring(o)!ReaderHolds(s, b)
      BY <2>1 DEF Ring!AgeFor, Ring!WriteLock, Ring!ReaderHolds
    <3>3. CASE s = r /\ b = ring[o].writeBuffer
      <4>1. b \in ring[o].writeReady[s] /\ b \notin ring'[o].writeReady[s]
               /\ ring'[o].readReady = ring[o].readReady
        BY <3>3 DEF Ring!WriteLock, Ring!TypeOK
      <4>2. Ring(o)!AgeFor(s, b) = SizeOf(o)
        BY <2>1, <3>3 DEF Ring!AgeFor, Ring!Age, Ring!TypeOK
      <4>3. Ring(o)!WriterHolds(s, b)'
        BY <3>3 DEF Ring!WriterHolds, Ring!WriteLock
      <4> QED
        BY <2>1, <3>1, <3>2, <4>1, <4>2, <4>3 DEF Ring!AlternatorInv
    <3>4. CASE s # r \/ b # ring[o].writeBuffer
      <4>1. /\ b \in ring'[o].writeReady[s] <=> b \in ring[o].writeReady[s]
            /\ ring'[o].readReady = ring[o].readReady
        <5>1. /\ ring[o].writeReady \in [Ring(o)!Reader -> SUBSET Ring(o)!Buffer]
              /\ ring[o].writeBuffer \in Ring(o)!Buffer
          BY DEF Ring!TypeOK
        <5>2. /\ \/ ring'[o].writeReady = ring[o].writeReady
                 \/ ring'[o].writeReady = [ring[o].writeReady EXCEPT ![r] =
                       @ \ {ring[o].writeBuffer}]
              /\ ring'[o].readReady = ring[o].readReady
          BY DEF Ring!WriteLock
        <5> HIDE DEF Ring!Reader, Ring!Buffer
        <5> QED
          BY <3>4, <5>1, <5>2, SetChange
      <4>2. Ring(o)!WriterHolds(s, b)' = Ring(o)!WriterHolds(s, b)
        BY <3>4 DEF Ring!WriterHolds, Ring!WriteLock
      <4> QED
        BY <2>1, <3>1, <3>2, <4>1, <4>2 DEF Ring!AlternatorInv
    <3> QED
      BY <3>3, <3>4
  <2> QED
    BY <2>2, <2>3
<1>4. Ring(o)!TurnInv'
  BY DEF Ring!TurnInv, Ring!TypeOK, Ring!WriteLock, Ring!WriterBegun, Ring!Begun,
     Ring!InTurnToWrite
<1>5. Ring(o)!ContentsInv'
  BY DEF Ring!ContentsInv, Ring!WriteLock
<1>6. Ring(o)!PhaseInv'
  BY DEF Ring!PhaseInv, Ring!WriteLock
<1> QED
  BY <1>1, <1>2, <1>3, <1>4, <1>5, <1>6

\* All alternators of the current buffer are taken.
LEMMA WriteLockedInv ==
    ASSUME NEW o \in Port, Config(o), Ring(o)!RingInv, Ring(o)!WriteLocked
    PROVE  Ring(o)!RingInv'
<1> USE DEF Config, Ring!RingInv
<1>1. Ring(o)!TypeOK'
  <2>1. 0 \in 0 .. ReadersOf(o)
    OBVIOUS
  <2> QED
    BY <2>1 DEF Ring!TypeOK, Ring!WriteLocked
<1>2. Ring(o)!PositionInv'
  BY DEF Ring!PositionInv, Ring!WriteLocked, Ring!At, Ring!Lead
<1>3. Ring(o)!SignalInv'
  <2> SUFFICES ASSUME NEW s \in Ring(o)!Reader \ RedundantOf(o)
               PROVE  Ring(o)!LeadInv(s)'
                         /\ \A b \in Ring(o)!Buffer : Ring(o)!AlternatorInv(s, b)'
    BY DEF Ring!SignalInv
  <2>1. ~ Ring(o)!Released(s) /\ (~ Ring(o)!Released(s))' /\ Ring(o)!Lead(s)' = Ring(o)!Lead(s)
    BY DEF Ring!WriteLocked, Ring!Released, Ring!Lead
  <2>2. \A b \in Ring(o)!Buffer : Ring(o)!WriterHolds(s, b)' = Ring(o)!WriterHolds(s, b)
    BY DEF Ring!WriteLocked, Ring!WriterHolds
  <2>3. /\ ring'[o].dueData = ring[o].dueData /\ ring'[o].readReady = ring[o].readReady
        /\ ring'[o].writeReady = ring[o].writeReady
              /\ ring'[o].writeBuffer = ring[o].writeBuffer
    BY DEF Ring!WriteLocked
  <2> QED
    BY <2>1, <2>2, <2>3 DEF Ring!SignalInv, Ring!LeadInv, Ring!AlternatorInv, Ring!AgeFor,
       Ring!ReaderHolds
<1>4. Ring(o)!TurnInv'
  <2>1. ASSUME NEW r \in RedundantOf(o) PROVE Ring(o)!WriterBegun
    <3>1. ReadersOf(o) # 0
      BY <2>1
    <3> QED
      BY <3>1 DEF Ring!WriterBegun, Ring!WriteLocked
  <2>2. UNCHANGED <<ring[o].consumed, ring[o].dueData, ring[o].written>>
           /\ ring'[o].wpc = "fill"
    BY DEF Ring!WriteLocked
  <2> QED
    BY <2>1, <2>2 DEF Ring!TurnInv, Ring!Begun
<1>5. Ring(o)!ContentsInv'
  BY DEF Ring!ContentsInv, Ring!WriteLocked
<1>6. Ring(o)!PhaseInv'
  BY DEF Ring!PhaseInv, Ring!WriteLocked
<1> QED
  BY <1>1, <1>2, <1>3, <1>4, <1>5, <1>6

-----------------------------------------------------------------------------
\* Filling the buffer, which no reader holds.
LEMMA FillInv ==
    ASSUME NEW o \in Port, Config(o), Ring(o)!RingInv, Ring(o)!Fill
    PROVE  Ring(o)!RingInv'
<1> USE DEF Config, Ring!RingInv
<1>1. Ring(o)!TypeOK'
  <2>1. ring'[o].contents \in [Ring(o)!Buffer -> Int]
    BY DEF Ring!TypeOK, Ring!Fill
  <2> QED
    BY <2>1 DEF Ring!TypeOK, Ring!Fill
<1>2. Ring(o)!PositionInv'
  BY DEF Ring!PositionInv, Ring!Fill, Ring!At, Ring!Lead
<1>3. Ring(o)!SignalInv'
  <2> SUFFICES ASSUME NEW s \in Ring(o)!Reader \ RedundantOf(o)
               PROVE  Ring(o)!LeadInv(s)'
                         /\ \A b \in Ring(o)!Buffer : Ring(o)!AlternatorInv(s, b)'
    BY DEF Ring!SignalInv
  <2>1. ring[o].windex = 0
    BY DEF Ring!PhaseInv, Ring!Fill
  <2>2. ~ Ring(o)!Released(s) /\ (~ Ring(o)!Released(s))' /\ Ring(o)!Lead(s)' = Ring(o)!Lead(s)
    BY <2>1 DEF Ring!Fill, Ring!Released, Ring!Lead
  <2> QED
    BY <2>1, <2>2 DEF Ring!SignalInv, Ring!LeadInv, Ring!AlternatorInv, Ring!Fill,
       Ring!AgeFor, Ring!WriterHolds, Ring!ReaderHolds
<1>4. Ring(o)!TurnInv'
  <2>1. UNCHANGED <<ring[o].consumed, ring[o].dueData, ring[o].written>>
           /\ ring'[o].windex = 0 /\ Ring(o)!WriterBegun
    BY DEF Ring!Fill, Ring!PhaseInv, Ring!WriterBegun
  <2> QED
    BY <2>1 DEF Ring!TurnInv, Ring!Begun
<1>5. Ring(o)!ContentsInv'
  <2>1. Ring(o)!Content(ring[o].written) = ring[o].written
           /\ ring'[o].contents = [ring[o].contents EXCEPT ![ring[o].writeBuffer] =
                 ring[o].written]
    BY DEF Ring!TypeOK, Ring!Content, Ring!Fill
  <2> QED
    BY <2>1 DEF Ring!ContentsInv, Ring!TypeOK, Ring!Fill
<1>6. Ring(o)!PhaseInv'
  BY DEF Ring!PhaseInv, Ring!Fill
<1> QED
  BY <1>1, <1>2, <1>3, <1>4, <1>5, <1>6

-----------------------------------------------------------------------------
\* Geometry of the ring: buffers above the write buffer, by age.
LEMMA AtAge ==
    ASSUME NEW o \in Port, Config(o), ring[o].writeBuffer \in Ring(o)!Buffer
    PROVE  /\ \A x \in -1 .. SizeOf(o) : Ring(o)!At(x) \in Ring(o)!Buffer
           /\ \A x \in 1 .. SizeOf(o) : Ring(o)!Age(ring[o].writeBuffer, Ring(o)!At(x)) = x
           /\ \A b \in Ring(o)!Buffer : Ring(o)!At(Ring(o)!Age(ring[o].writeBuffer, b)) = b
           /\ \A x \in 0 .. SizeOf(o) : Ring(o)!Down(Ring(o)!At(x), SizeOf(o)) =
                 Ring(o)!At(x - 1)
           /\ Ring(o)!At(0) = ring[o].writeBuffer
           /\ \A x \in 1 .. SizeOf(o) - 1 : Ring(o)!At(x) # ring[o].writeBuffer
<1> DEFINE w == ring[o].writeBuffer
           n == SizeOf(o)
<1>1. /\ n \in Nat /\ n >= 2 /\ w \in 0 .. n - 1
      /\ \A x : Ring(o)!At(x) = IF w + x < 0 THEN w + x + n
                               ELSE IF w + x >= n THEN w + x - n ELSE w + x
      /\ \A b : Ring(o)!Age(w, b) = IF b > w THEN b - w ELSE b - w + n
      /\ \A b : Ring(o)!Down(b, n) = IF b > 0 THEN b - 1 ELSE n - 1
  BY DEF Ring!At, Ring!Age, Ring!Down
<1> HIDE DEF w, n
<1>2. ASSUME NEW x \in -1 .. n
      PROVE  /\ Ring(o)!At(x) \in 0 .. n - 1
             /\ x >= 1 => Ring(o)!Age(w, Ring(o)!At(x)) = x
             /\ x >= 0 => Ring(o)!Down(Ring(o)!At(x), n) = Ring(o)!At(x - 1)
             /\ x = 0 => Ring(o)!At(x) = w
             /\ x \in 1 .. n - 1 => Ring(o)!At(x) # w
  <2> DEFINE a == Ring(o)!At(x)
  <2>1. a = IF w + x < 0 THEN w + x + n ELSE IF w + x >= n THEN w + x - n ELSE w + x
    BY <1>1
  <2>2. Ring(o)!At(x - 1) = IF w + (x - 1) < 0 THEN w + (x - 1) + n
                            ELSE IF w + (x - 1) >= n THEN w + (x - 1) - n ELSE w + (x - 1)
    BY <1>1
  <2>3. /\ Ring(o)!Age(w, a) = IF a > w THEN a - w ELSE a - w + n
        /\ Ring(o)!Down(a, n) = IF a > 0 THEN a - 1 ELSE n - 1
    BY <1>1
  <2>4. n \in Nat /\ n >= 2 /\ w \in 0 .. n - 1
    BY <1>1
  <2> HIDE DEF a
  <2>5. /\ a \in 0 .. n - 1
        /\ x = 0 => a = w
        /\ x \in 1 .. n - 1 => a # w
    BY <2>1, <2>4
  <2>6. x >= 1 => Ring(o)!Age(w, a) = x
    BY <2>1, <2>3, <2>4
  <2>7. x >= 0 => Ring(o)!Down(a, n) = Ring(o)!At(x - 1)
    BY <2>1, <2>2, <2>3, <2>4
  <2> QED
    BY <2>5, <2>6, <2>7 DEF a
<1>3. ASSUME NEW b \in 0 .. n - 1
      PROVE  Ring(o)!At(Ring(o)!Age(w, b)) = b
  <2> DEFINE a == Ring(o)!Age(w, b)
  <2>1. /\ a = IF b > w THEN b - w ELSE b - w + n
        /\ Ring(o)!At(a) = IF w + a < 0 THEN w + a + n
                           ELSE IF w + a >= n THEN w + a - n ELSE w + a
        /\ n \in Nat /\ n >= 2 /\ w \in 0 .. n - 1
    BY <1>1
  <2> HIDE DEF a
  <2>2. Ring(o)!At(a) = b
    BY <2>1
  <2> QED
    BY <2>2 DEF a
<1>4. /\ \A x \in -1 .. n : Ring(o)!At(x) \in 0 .. n - 1
      /\ \A x \in 1 .. n : Ring(o)!Age(w, Ring(o)!At(x)) = x
      /\ \A b \in 0 .. n - 1 : Ring(o)!At(Ring(o)!Age(w, b)) = b
      /\ \A x \in 0 .. n : Ring(o)!Down(Ring(o)!At(x), n) = Ring(o)!At(x - 1)
      /\ Ring(o)!At(0) = w
      /\ \A x \in 1 .. n - 1 : Ring(o)!At(x) # w
  <2>1. \A x \in -1 .. n : Ring(o)!At(x) \in 0 .. n - 1
    BY <1>2
  <2>2. \A x \in 1 .. n : x \in -1 .. n /\ x >= 1
    BY <1>1
  <2>3. \A x \in 0 .. n : x \in -1 .. n /\ x >= 0
    BY <1>1
  <2>4. \A x \in 1 .. n - 1 : x \in -1 .. n
    BY <1>1
  <2>5. 0 \in -1 .. n
    BY <1>1
  <2>6. \A x \in 1 .. n : Ring(o)!Age(w, Ring(o)!At(x)) = x
    BY <1>2, <2>2
  <2>7. \A x \in 0 .. n : Ring(o)!Down(Ring(o)!At(x), n) = Ring(o)!At(x - 1)
    BY <1>2, <2>3
  <2>8. \A x \in 1 .. n - 1 : Ring(o)!At(x) # w
    BY <1>2, <2>4
  <2>9. Ring(o)!At(0) = w
    BY <1>2, <2>5
  <2> QED
    BY <1>3, <2>1, <2>6, <2>7, <2>8, <2>9
<1> QED
  BY <1>4 DEF w, n

\* A reader is at most one sample ahead of the writer and a ring behind it.
LEMMA LeadRange ==
    ASSUME NEW o \in Port, Config(o), Ring(o)!RingInv, NEW r \in Ring(o)!Reader
    PROVE  /\ Ring(o)!Lead(r) \in -1 .. SizeOf(o)
           /\ ring[o].dueData[r] # Ring(o)!NULL => Ring(o)!Lead(r) \in 0 .. SizeOf(o)
           /\ r \in RedundantOf(o)
                 /\ Ring(o)!WriterBegun => Ring(o)!Lead(r) \in -1 .. SizeOf(o) - 1
<1> USE LagRange DEF Ring!RingInv
<1>0. LagOf(o)[r] \in 0 .. SizeOf(o) - 1 /\ ring[o].written \in Nat
         /\ ring[o].consumed[r] \in Nat
  BY DEF Ring!TypeOK
<1> DEFINE w == ring[o].written
           c == ring[o].consumed[r]
           l == LagOf(o)[r]
           n == SizeOf(o)
           d == Ring(o)!Lead(r)
<1>1. /\ d = w + l - c /\ l \in 0 .. n - 1 /\ w \in Nat /\ c \in Nat
      /\ n \in Nat /\ n >= 2
  BY <1>0 DEF Ring!Lead
<1>2. CASE r \in Ring(o)!Reader \ RedundantOf(o)
  BY <1>0, <1>2 DEF Ring!SignalInv, Ring!LeadInv
<1>3. CASE r \in ReadsFirstOf(o)
  <2>1. /\ c \in {w, w + 1} /\ l > 0
        /\ ring[o].dueData[r] # Ring(o)!NULL => c = w
        /\ Ring(o)!WriterBegun =>
              c + (IF ring[o].dueData[r] = Ring(o)!NULL THEN 0 ELSE 1) = w + 1
    BY <1>3 DEF Ring!TurnInv, Ring!Begun
  <2> DEFINE held == ring[o].dueData[r] # Ring(o)!NULL
             begun == Ring(o)!WriterBegun
  <2>3. /\ held => c = w
        /\ begun => c + (IF ~ held THEN 0 ELSE 1) = w + 1
    BY <2>1
  <2> HIDE DEF w, c, l, n, d, held, begun
  <2>4. /\ d \in -1 .. n
        /\ held => d \in 0 .. n
        /\ begun => d \in -1 .. n - 1
    BY <1>1, <2>1, <2>3
  <2> QED
    BY <2>4 DEF d, n, held, begun
<1>4. CASE r \in RedundantOf(o) \ ReadsFirstOf(o)
  <2>1. /\ c \in {w - 1, w}
        /\ ring[o].dueData[r] # Ring(o)!NULL => c = w - 1
        /\ Ring(o)!WriterBegun => c = w
    BY <1>4 DEF Ring!TurnInv
  <2> HIDE DEF w, c, l, n, d
  <2>2. /\ d \in -1 .. n
        /\ ring[o].dueData[r] # Ring(o)!NULL => d \in 0 .. n
        /\ Ring(o)!WriterBegun => d \in -1 .. n - 1
    BY <1>1, <2>1
  <2> QED
    BY <2>2 DEF d, n
<1> QED
  BY <1>2, <1>3, <1>4

-----------------------------------------------------------------------------
\* Releasing one alternator hands the buffer to one reader.
LEMMA WriteReleaseInv ==
    ASSUME NEW o \in Port, Config(o), Ring(o)!RingInv, NEW r \in Ring(o)!Reader,
           Ring(o)!WriteRelease(r)
    PROVE  Ring(o)!RingInv'
<1> USE DEF Config, Ring!RingInv
<1>1. Ring(o)!TypeOK'
  <2>1. ring'[o].readReady \in [Ring(o)!Reader -> SUBSET Ring(o)!Buffer]
    <3>1. /\ ring[o].readReady \in [Ring(o)!Reader -> SUBSET Ring(o)!Buffer]
          /\ ring[o].writeBuffer \in Ring(o)!Buffer
      BY DEF Ring!TypeOK
    <3>2. \/ ring'[o].readReady = ring[o].readReady
          \/ ring'[o].readReady = [ring[o].readReady EXCEPT ![r] = @ \cup {ring[o].writeBuffer}]
      BY DEF Ring!WriteRelease
    <3> HIDE DEF Ring!Reader, Ring!Buffer
    <3>3. [ring[o].readReady EXCEPT ![r] = @ \cup {ring[o].writeBuffer}]
             \in [Ring(o)!Reader -> SUBSET Ring(o)!Buffer]
      BY <3>1, SetChange
    <3> QED
      BY <3>1, <3>2, <3>3
  <2>2. ring'[o].windex \in 0 .. ReadersOf(o)
    BY DEF Ring!WriteRelease
  <2> QED
    BY <2>1, <2>2 DEF Ring!TypeOK, Ring!WriteRelease
<1>2. Ring(o)!PositionInv'
  BY DEF Ring!PositionInv, Ring!WriteRelease, Ring!At, Ring!Lead
<1>3. Ring(o)!SignalInv'
  <2> SUFFICES ASSUME NEW s \in Ring(o)!Reader \ RedundantOf(o)
               PROVE  Ring(o)!LeadInv(s)'
                         /\ \A b \in Ring(o)!Buffer : Ring(o)!AlternatorInv(s, b)'
    BY DEF Ring!SignalInv
  <2>0. Ring(o)!LeadInv(s) /\ \A b \in Ring(o)!Buffer : Ring(o)!AlternatorInv(s, b)
    BY DEF Ring!SignalInv
  <2>1. Ring(o)!Lead(s)' = Ring(o)!Lead(s) /\ ring'[o].dueData = ring[o].dueData
           /\ ring'[o].writeBuffer = ring[o].writeBuffer
    BY DEF Ring!WriteRelease, Ring!Lead
  <2>2. CASE s = r
    <3>1. ~ Ring(o)!Released(s) /\ Ring(o)!Released(s)'
             /\ Ring(o)!WriterHolds(s, ring[o].writeBuffer)
      BY <2>2 DEF Ring!WriteRelease, Ring!Released, Ring!WriterHolds
    <3>2. Ring(o)!Lead(s) \in 0 .. SizeOf(o) - 1
             /\ (ring[o].dueData[s] # Ring(o)!NULL => Ring(o)!Lead(s) >= 1)
      <4>1. ring[o].writeBuffer \in Ring(o)!Buffer
        BY DEF Ring!TypeOK
      <4>2. Ring(o)!Lead(s) < SizeOf(o)
        BY <2>0, <3>1, <4>1 DEF Ring!AlternatorInv
      <4>3. /\ Ring(o)!Lead(s) \in 0 .. SizeOf(o)
            /\ ring[o].dueData[s] # Ring(o)!NULL => Ring(o)!Lead(s) >= 1
        BY <2>0, <3>1 DEF Ring!LeadInv
      <4> QED
        BY <4>2, <4>3
    <3>3. ring[o].dueData[s] # ring[o].writeBuffer
      <4>1. ring[o].dueData[s] # Ring(o)!NULL =>
               ring[o].dueData[s] = Ring(o)!At(Ring(o)!Lead(s))
                    /\ Ring(o)!Lead(s) \in 1 .. SizeOf(o) - 1
        <5>1. ring[o].dueData[s] # Ring(o)!NULL =>
                 ring[o].dueData[s] = Ring(o)!At(Ring(o)!Lead(s))
          BY DEF Ring!PositionInv
        <5>2. ring[o].dueData[s] # Ring(o)!NULL => Ring(o)!Lead(s) \in 1 .. SizeOf(o) - 1
          BY <3>2
        <5> QED
          BY <5>1, <5>2
      <4>2. ring[o].writeBuffer \in Ring(o)!Buffer
        BY DEF Ring!TypeOK
      <4>3. \A x \in 1 .. SizeOf(o) - 1 : Ring(o)!At(x) # ring[o].writeBuffer
        BY <4>2, AtAge
      <4>4. Ring(o)!NULL # ring[o].writeBuffer
        BY <4>2
      <4> HIDE DEF Ring!NULL
      <4> QED
        BY <4>1, <4>3, <4>4
    <3>4. Ring(o)!LeadInv(s)'
      BY <2>1, <3>1, <3>2 DEF Ring!LeadInv
    <3>5. ASSUME NEW b \in Ring(o)!Buffer PROVE Ring(o)!AlternatorInv(s, b)'
      <4>1. (~ Ring(o)!WriterHolds(s, b))'
        BY <2>2 DEF Ring!WriterHolds, Ring!WriteRelease
      <4>2. ring'[o].writeReady = ring[o].writeReady
               /\ Ring(o)!ReaderHolds(s, b)' = Ring(o)!ReaderHolds(s, b)
        BY <2>1 DEF Ring!WriteRelease, Ring!ReaderHolds
      <4>3. CASE b = ring[o].writeBuffer
        <5>1. Ring(o)!AgeFor(s, b)' = 0 /\ b \in ring'[o].readReady[s]
          BY <2>1, <2>2, <3>1, <4>3 DEF Ring!AgeFor, Ring!WriteRelease, Ring!TypeOK
        <5>2. b \notin ring[o].writeReady[s]
          BY <2>0, <3>1, <4>3 DEF Ring!AlternatorInv
        <5> QED
          BY <2>1, <3>2, <3>3, <4>1, <4>2, <4>3, <5>1, <5>2
             DEF Ring!AlternatorInv, Ring!ReaderHolds
      <4>4. CASE b # ring[o].writeBuffer
        <5>1. /\ Ring(o)!AgeFor(s, b)' = Ring(o)!AgeFor(s, b)
              /\ b \in ring'[o].readReady[s] <=> b \in ring[o].readReady[s]
              /\ ~ Ring(o)!WriterHolds(s, b)
          <6>1. ~ Ring(o)!WriterHolds(s, b) /\ Ring(o)!AgeFor(s, b)' = Ring(o)!AgeFor(s, b)
            BY <2>1, <4>4 DEF Ring!AgeFor, Ring!WriteRelease, Ring!WriterHolds
          <6>2. /\ ring[o].readReady \in [Ring(o)!Reader -> SUBSET Ring(o)!Buffer]
                /\ ring[o].writeBuffer \in Ring(o)!Buffer
            BY DEF Ring!TypeOK
          <6>3. \/ ring'[o].readReady = ring[o].readReady
                \/ ring'[o].readReady = [ring[o].readReady EXCEPT ![r] =
                      @ \cup {ring[o].writeBuffer}]
            BY DEF Ring!WriteRelease
          <6> HIDE DEF Ring!Reader, Ring!Buffer
          <6> QED
            BY <2>2, <4>4, <6>1, <6>2, <6>3, SetChange
        <5> QED
          BY <2>0, <2>1, <4>1, <4>2, <5>1 DEF Ring!AlternatorInv
      <4> QED
        BY <4>3, <4>4
    <3> QED
      BY <3>4, <3>5
  <2>3. CASE s # r
    <3>1. Ring(o)!Released(s)' = Ring(o)!Released(s)
      BY <2>3 DEF Ring!WriteRelease, Ring!Released
    <3>2. \A b \in Ring(o)!Buffer : /\ Ring(o)!WriterHolds(s, b)' = Ring(o)!WriterHolds(s, b)
                            /\ Ring(o)!AgeFor(s, b)' = Ring(o)!AgeFor(s, b)
                            /\ Ring(o)!ReaderHolds(s, b)' = Ring(o)!ReaderHolds(s, b)
      BY <2>1, <2>3, <3>1 DEF Ring!WriteRelease, Ring!WriterHolds, Ring!AgeFor, Ring!ReaderHolds
    <3>3. ring'[o].readReady[s] = ring[o].readReady[s]
             /\ ring'[o].writeReady[s] = ring[o].writeReady[s]
      BY <2>3 DEF Ring!WriteRelease, Ring!TypeOK
    <3> QED
      BY <2>0, <2>1, <3>1, <3>2, <3>3 DEF Ring!LeadInv, Ring!AlternatorInv
  <2> QED
    BY <2>2, <2>3
<1>4. Ring(o)!TurnInv'
  <2>1. /\ UNCHANGED <<ring[o].consumed, ring[o].dueData, ring[o].written, ring[o].wpc>>
        /\ ring[o].wpc = "release"
        /\ Ring(o)!WriterBegun /\ Ring(o)!InTurnToPublish
    BY DEF Ring!WriteRelease, Ring!WriterBegun
  <2> QED
    BY <2>1 DEF Ring!TurnInv, Ring!Begun, Ring!InTurnToPublish
<1>5. Ring(o)!ContentsInv'
  BY DEF Ring!ContentsInv, Ring!WriteRelease
<1>6. Ring(o)!PhaseInv'
  BY DEF Ring!PhaseInv, Ring!WriteRelease
<1> QED
  BY <1>1, <1>2, <1>3, <1>4, <1>5, <1>6

\* Every reader has been released: the writer moves down and all ages grow.
LEMMA WriteReleasedInv ==
    ASSUME NEW o \in Port, Config(o), Ring(o)!RingInv, Ring(o)!WriteReleased
    PROVE  Ring(o)!RingInv'
<1> USE DEF Config, Ring!RingInv
<1>0. ring[o].writeBuffer \in Ring(o)!Buffer /\ ring[o].written \in Nat
  BY DEF Ring!TypeOK
<1>1. Ring(o)!TypeOK'
  <2>1. ring'[o].writeBuffer \in Ring(o)!Buffer
    BY <1>0 DEF Ring!WriteReleased, Ring!Down
  <2> QED
    BY SMTT(60), <2>1 DEF Ring!TypeOK, Ring!WriteReleased
<1>2. \A r \in Ring(o)!Reader : /\ Ring(o)!Lead(r)' = Ring(o)!Lead(r) + 1
                        /\ Ring(o)!Lead(r) \in -1 .. SizeOf(o) - 1
  <2> SUFFICES ASSUME NEW r \in Ring(o)!Reader
               PROVE  Ring(o)!Lead(r)' = Ring(o)!Lead(r) + 1
                         /\ Ring(o)!Lead(r) \in -1 .. SizeOf(o) - 1
    OBVIOUS
  <2>1. Ring(o)!Lead(r)' = Ring(o)!Lead(r) + 1
    <3>1. LagOf(o)[r] \in Nat /\ ring[o].consumed[r] \in Nat
      BY ReaderTypes
    <3>2. ring'[o].consumed[r] = ring[o].consumed[r] /\ ring'[o].written = ring[o].written + 1
      BY DEF Ring!WriteReleased
    <3>3. Ring(o)!Lead(r)' = ring'[o].written + LagOf(o)[r] - ring'[o].consumed[r]
      BY DEF Ring!Lead
    <3>4. Ring(o)!Lead(r) = ring[o].written + LagOf(o)[r] - ring[o].consumed[r]
      BY DEF Ring!Lead
    <3> DEFINE w == ring[o].written
               c == ring[o].consumed[r]
               l == LagOf(o)[r]
    <3>5. w \in Int /\ c \in Int /\ l \in Int
      BY <1>0, <3>1
    <3> HIDE DEF w, c, l
    <3>6. (w + 1) + l - c = (w + l - c) + 1
      BY <3>5
    <3> QED
      BY <3>2, <3>3, <3>4, <3>6 DEF w, c, l
  <2>2. CASE r \in RedundantOf(o)
    BY <2>1, <2>2, LeadRange DEF Ring!WriterBegun, Ring!WriteReleased
  <2>3. CASE r \notin RedundantOf(o)
    BY <2>1, <2>3 DEF Ring!SignalInv, Ring!LeadInv, Ring!Released, Ring!WriteReleased
  <2> QED
    BY <2>1, <2>2, <2>3
<1>3. \A x \in -1 .. SizeOf(o) - 1 : Ring(o)!At(x + 1)' = Ring(o)!At(x)
  <2> DEFINE w == ring[o].writeBuffer
             v == ring'[o].writeBuffer
             n == SizeOf(o)
  <2>1. /\ w \in 0 .. n - 1 /\ n \in Nat /\ v = IF w > 0 THEN w - 1 ELSE n - 1
        /\ \A x : Ring(o)!At(x) = IF w + x < 0 THEN w + x + n
                                 ELSE IF w + x >= n THEN w + x - n ELSE w + x
        /\ \A x : Ring(o)!At(x)' = IF v + x < 0 THEN v + x + n
                                  ELSE IF v + x >= n THEN v + x - n ELSE v + x
    BY <1>0 DEF Ring!At, Ring!WriteReleased, Ring!Down
  <2> HIDE DEF w, v, n
  <2>2. \A x \in -1 .. n - 1 : Ring(o)!At(x + 1)' = Ring(o)!At(x)
    BY SMTT(30), <2>1
  <2> QED
    BY <2>2 DEF n
<1>4. Ring(o)!PositionInv'
  BY <1>2, <1>3 DEF Ring!PositionInv, Ring!WriteReleased
<1>5. \A b \in Ring(o)!Buffer : Ring(o)!Age(ring'[o].writeBuffer, b) =
                          (IF b = ring[o].writeBuffer
                               THEN 0 ELSE Ring(o)!Age(ring[o].writeBuffer, b)) + 1
  <2> DEFINE w == ring[o].writeBuffer
             v == ring'[o].writeBuffer
             n == SizeOf(o)
  <2>1. /\ w \in 0 .. n - 1 /\ n \in Nat /\ v = IF w > 0 THEN w - 1 ELSE n - 1
        /\ \A x, b : Ring(o)!Age(x, b) = IF b > x THEN b - x ELSE b - x + n
    BY <1>0 DEF Ring!Age, Ring!WriteReleased, Ring!Down
  <2> HIDE DEF w, v, n
  <2>2. ASSUME NEW b \in 0 .. n - 1
        PROVE  Ring(o)!Age(v, b) = (IF b = w THEN 0 ELSE Ring(o)!Age(w, b)) + 1
    <3> DEFINE y == Ring(o)!Age(v, b)
               x == Ring(o)!Age(w, b)
    <3>1. /\ y = IF b > v THEN b - v ELSE b - v + n
          /\ x = IF b > w THEN b - w ELSE b - w + n
      BY <2>1
    <3>2. w \in 0 .. n - 1 /\ n \in Nat /\ v = IF w > 0 THEN w - 1 ELSE n - 1
      BY <2>1
    <3> HIDE DEF x, y
    <3>3. y = (IF b = w THEN 0 ELSE x) + 1
      BY <3>1, <3>2
    <3> QED
      BY <3>3 DEF x, y
  <2> QED
    BY <2>2 DEF w, v, n
<1>6. Ring(o)!SignalInv'
  <2> SUFFICES ASSUME NEW s \in Ring(o)!Reader \ RedundantOf(o)
               PROVE  Ring(o)!LeadInv(s)'
                         /\ \A b \in Ring(o)!Buffer : Ring(o)!AlternatorInv(s, b)'
    BY DEF Ring!SignalInv
  <2>0. Ring(o)!LeadInv(s) /\ \A b \in Ring(o)!Buffer : Ring(o)!AlternatorInv(s, b)
    BY DEF Ring!SignalInv
  <2>1. Ring(o)!Released(s) /\ (~ Ring(o)!Released(s))' /\ (~ Ring(o)!WriterBegun)'
    BY DEF Ring!Released, Ring!WriteReleased, Ring!WriterBegun
  <2>2. Ring(o)!Lead(s)' = Ring(o)!Lead(s) + 1 /\ Ring(o)!Lead(s) \in -1 .. SizeOf(o) - 1
    BY <1>2
  <2>3. Ring(o)!LeadInv(s)'
    BY <2>0, <2>1, <2>2 DEF Ring!LeadInv, Ring!WriteReleased
  <2>4. ASSUME NEW b \in Ring(o)!Buffer PROVE Ring(o)!AlternatorInv(s, b)'
    <3>1. ~ Ring(o)!WriterHolds(s, b) /\ (~ Ring(o)!WriterHolds(s, b))'
      BY DEF Ring!WriterHolds, Ring!WriteReleased
    <3>2. Ring(o)!AgeFor(s, b)' = Ring(o)!AgeFor(s, b) + 1 /\ Ring(o)!AgeFor(s, b) \in Int
      BY SMTT(30), <1>0, <1>5, <2>1, AgeRange DEF Ring!AgeFor
    <3>3. UNCHANGED <<ring[o].readReady, ring[o].writeReady, ring[o].dueData>>
      BY DEF Ring!WriteReleased
    <3> QED
      BY <2>0, <2>2, <3>1, <3>2, <3>3 DEF Ring!AlternatorInv, Ring!ReaderHolds
  <2> QED
    BY <2>3, <2>4
<1>7. Ring(o)!TurnInv'
  <2>1. /\ UNCHANGED <<ring[o].consumed, ring[o].dueData>>
              /\ ring'[o].written = ring[o].written + 1
        /\ Ring(o)!WriterBegun /\ (~ Ring(o)!WriterBegun)' /\ Ring(o)!InTurnToPublish
    BY DEF Ring!WriteReleased, Ring!WriterBegun
  <2>2. ring'[o].wpc = "lock"
    BY DEF Ring!WriteReleased
  <2>3. ASSUME NEW r \in ReadsFirstOf(o)
        PROVE  ring[o].dueData[r] = Ring(o)!NULL /\ ring[o].consumed[r] = ring[o].written + 1
    <3>1. r \in RedundantOf(o) /\ ring[o].consumed[r] = ring[o].written + 1
      BY <2>1 DEF Ring!InTurnToPublish
    <3>2. ring[o].dueData[r] # Ring(o)!NULL => ring[o].consumed[r] = ring[o].written
      BY <3>1 DEF Ring!TurnInv
    <3>3. ring[o].written + 1 # ring[o].written
      BY <1>0
    <3> QED
      BY <3>1, <3>2, <3>3
  <2>4. ASSUME NEW r \in RedundantOf(o) \ ReadsFirstOf(o)
        PROVE  ring[o].dueData[r] = Ring(o)!NULL /\ ring[o].consumed[r] = ring[o].written
    <3>1. /\ ring[o].consumed[r] = ring[o].written
          /\ ring[o].dueData[r] # Ring(o)!NULL => ring[o].consumed[r] = ring[o].written - 1
      BY <2>1 DEF Ring!TurnInv
    <3>2. ring[o].written - 1 # ring[o].written
      BY <1>0
    <3> QED
      BY <3>1, <3>2
  <2>5. \A r \in RedundantOf(o) : ring'[o].consumed[r] = ring[o].consumed[r]
                                /\ ring'[o].dueData[r] = ring[o].dueData[r]
    BY <2>1
  <2>6. (ring[o].written + 1) - 1 = ring[o].written
    BY <1>0
  <2> QED
    BY <2>1, <2>2, <2>3, <2>4, <2>5, <2>6 DEF Ring!TurnInv
<1>8. Ring(o)!ContentsInv'
  <2>0. ring'[o].contents = ring[o].contents /\ ring'[o].wpc # "release"
           /\ ring'[o].written = ring[o].written + 1
    BY DEF Ring!WriteReleased
  <2> SUFFICES ASSUME NEW b \in Ring(o)!Buffer
               PROVE  ring'[o].contents[b] =
                         Ring(o)!Content(ring'[o].written - Ring(o)!Age(ring'[o].writeBuffer, b))
    BY <2>0 DEF Ring!ContentsInv
  <2>1. Ring(o)!Age(ring[o].writeBuffer, b) \in 1 .. SizeOf(o)
    BY <1>0, AgeRange
  <2>2. CASE b = ring[o].writeBuffer
    <3>1. ring'[o].written - Ring(o)!Age(ring'[o].writeBuffer, b) = ring[o].written
      BY <1>0, <1>5, <2>0, <2>2
    <3> QED
      BY <2>0, <2>2, <3>1 DEF Ring!ContentsInv, Ring!WriteReleased
  <2>3. CASE b # ring[o].writeBuffer
    <3>1. ring'[o].written - Ring(o)!Age(ring'[o].writeBuffer, b) =
             ring[o].written - Ring(o)!Age(ring[o].writeBuffer, b)
      <4> DEFINE a == Ring(o)!Age(ring[o].writeBuffer, b)
                 k == ring[o].written
      <4>1. Ring(o)!Age(ring'[o].writeBuffer, b) = a + 1 /\ ring'[o].written = k + 1
        BY <1>5, <2>0, <2>3
      <4>2. a \in Int /\ k \in Int
        BY <1>0, <2>1
      <4> HIDE DEF a, k
      <4>3. (k + 1) - (a + 1) = k - a
        BY <4>2
      <4> QED
        BY <4>1, <4>3 DEF a, k
    <3> QED
      BY <2>0, <2>3, <3>1 DEF Ring!ContentsInv
  <2> QED
    BY <2>2, <2>3
<1>9. Ring(o)!PhaseInv'
  BY DEF Ring!PhaseInv, Ring!WriteReleased
<1> QED
  BY <1>1, <1>4, <1>6, <1>7, <1>8, <1>9

-----------------------------------------------------------------------------
\* Locking a buffer for reading: it is the one whose age is the reader's lead.
LEMMA ReadLockInv ==
    ASSUME NEW o \in Port, Config(o), Ring(o)!RingInv, NEW r \in Ring(o)!Reader,
           Ring(o)!ReadLock(r)
    PROVE  Ring(o)!RingInv'
<1> USE DEF Config, Ring!RingInv
<1>0. ring'[o].dueData = [ring[o].dueData EXCEPT ![r] = ring[o].readBuffer[r]]
  BY DEF Ring!ReadLock
<1>1. Ring(o)!TypeOK'
  <2>1. ring'[o].readReady \in [Ring(o)!Reader -> SUBSET Ring(o)!Buffer]
    <3>1. /\ ring[o].readReady \in [Ring(o)!Reader -> SUBSET Ring(o)!Buffer]
          /\ ring[o].readBuffer[r] \in Ring(o)!Buffer
      BY DEF Ring!TypeOK
    <3>2. \/ ring'[o].readReady = ring[o].readReady
          \/ ring'[o].readReady = [ring[o].readReady EXCEPT ![r] = @ \ {ring[o].readBuffer[r]}]
      BY DEF Ring!ReadLock
    <3> HIDE DEF Ring!Reader, Ring!Buffer
    <3>3. [ring[o].readReady EXCEPT ![r] = @ \ {ring[o].readBuffer[r]}]
             \in [Ring(o)!Reader -> SUBSET Ring(o)!Buffer]
      BY <3>1, SetChange
    <3> QED
      BY <3>1, <3>2, <3>3
  <2>2. ring'[o].dueData \in [Ring(o)!Reader -> Ring(o)!Buffer \cup {Ring(o)!NULL}]
    <3>1. /\ ring[o].dueData \in [Ring(o)!Reader -> Ring(o)!Buffer \cup {Ring(o)!NULL}]
          /\ ring[o].readBuffer[r] \in Ring(o)!Buffer
      BY DEF Ring!TypeOK
    <3> HIDE DEF Ring!Reader, Ring!Buffer
    <3> QED
      BY <1>0, <3>1
  <2> QED
    BY <2>1, <2>2 DEF Ring!TypeOK, Ring!ReadLock
<1>2. Ring(o)!PositionInv'
  <2> SUFFICES ASSUME NEW s \in Ring(o)!Reader
               PROVE  /\ ring'[o].readBuffer[s] = Ring(o)!At(Ring(o)!Lead(s))'
                      /\ ring'[o].dueData[s] # Ring(o)!NULL =>
                            ring'[o].dueData[s] = ring'[o].readBuffer[s]
    BY DEF Ring!PositionInv
  <2>1. /\ ring[o].readBuffer[s] = Ring(o)!At(Ring(o)!Lead(s))
        /\ ring[o].dueData[s] # Ring(o)!NULL => ring[o].dueData[s] = ring[o].readBuffer[s]
    BY DEF Ring!PositionInv
  <2>2. /\ ring'[o].readBuffer = ring[o].readBuffer
        /\ Ring(o)!At(Ring(o)!Lead(s))' = Ring(o)!At(Ring(o)!Lead(s))
    BY DEF Ring!ReadLock, Ring!At, Ring!Lead
  <2>3. ring'[o].dueData[s] = IF s = r THEN ring[o].readBuffer[s] ELSE ring[o].dueData[s]
    BY <1>0 DEF Ring!TypeOK
  <2> QED
    BY <2>1, <2>2, <2>3
<1>3. Ring(o)!SignalInv'
  <2> SUFFICES ASSUME NEW s \in Ring(o)!Reader \ RedundantOf(o)
               PROVE  Ring(o)!LeadInv(s)'
                         /\ \A b \in Ring(o)!Buffer : Ring(o)!AlternatorInv(s, b)'
    BY DEF Ring!SignalInv
  <2>0. Ring(o)!LeadInv(s) /\ \A b \in Ring(o)!Buffer : Ring(o)!AlternatorInv(s, b)
    BY DEF Ring!SignalInv
  <2>1. /\ Ring(o)!Lead(s)' = Ring(o)!Lead(s) /\ Ring(o)!Released(s)' = Ring(o)!Released(s)
        /\ UNCHANGED <<ring[o].writeBuffer, ring[o].writeReady>>
        /\ \A b \in Ring(o)!Buffer : /\ Ring(o)!AgeFor(s, b)' = Ring(o)!AgeFor(s, b)
                             /\ Ring(o)!WriterHolds(s, b)' = Ring(o)!WriterHolds(s, b)
    BY DEF Ring!ReadLock, Ring!Lead, Ring!Released, Ring!AgeFor, Ring!WriterHolds
  <2>2. CASE s # r
    <3>1. ring'[o].dueData[s] = ring[o].dueData[s]
             /\ ring'[o].readReady[s] = ring[o].readReady[s]
      BY <2>2 DEF Ring!ReadLock, Ring!TypeOK
    <3> QED
      BY <2>0, <2>1, <3>1 DEF Ring!LeadInv, Ring!AlternatorInv, Ring!ReaderHolds
  <2>3. CASE s = r
    <3> DEFINE c == ring[o].readBuffer[s]
    <3>1. /\ c \in Ring(o)!Buffer /\ c \in ring[o].readReady[s]
                /\ ring[o].dueData[s] = Ring(o)!NULL /\ ring'[o].dueData[s] = c
          /\ ring'[o].readReady[s] = ring[o].readReady[s] \ {c}
      BY <2>3 DEF Ring!ReadLock, Ring!TypeOK
    <3>2. Ring(o)!AgeFor(s, c) <= Ring(o)!Lead(s)
      BY <2>0, <3>1 DEF Ring!AlternatorInv
    <3>3. c = Ring(o)!At(Ring(o)!Lead(s))
      BY DEF Ring!PositionInv
    <3>4. Ring(o)!LeadInv(s)'
      <4>1. ring[o].writeBuffer \in Ring(o)!Buffer /\ Ring(o)!Lead(s) \in Int
        BY <2>0 DEF Ring!LeadInv, Ring!TypeOK
      <4>2. Ring(o)!Age(ring[o].writeBuffer, c) \in 1 .. SizeOf(o)
        BY <3>1, <4>1, AgeRange
      <4>3. Ring(o)!Released(s) => Ring(o)!Lead(s) >= 0
        BY <3>2, <4>1, <4>2 DEF Ring!AgeFor
      <4>4. ~ Ring(o)!Released(s) => Ring(o)!Lead(s) >= 1
        BY <3>2, <4>1, <4>2 DEF Ring!AgeFor
      <4> QED
        BY <2>0, <2>1, <4>3, <4>4 DEF Ring!LeadInv
    <3>5. ASSUME NEW b \in Ring(o)!Buffer PROVE Ring(o)!AlternatorInv(s, b)'
      <4>1. CASE b = c
        BY <2>0, <2>1, <3>1, <4>1 DEF Ring!AlternatorInv, Ring!ReaderHolds
      <4>2. CASE b # c
        <5>1. ~ Ring(o)!ReaderHolds(s, b) /\ (~ Ring(o)!ReaderHolds(s, b))'
          BY <3>1, <4>2 DEF Ring!ReaderHolds
        <5> QED
          BY <2>0, <2>1, <3>1, <4>2, <5>1 DEF Ring!AlternatorInv
      <4> QED
        BY <4>1, <4>2
    <3> QED
      BY <3>4, <3>5
  <2> QED
    BY <2>2, <2>3
<1>4. Ring(o)!TurnInv'
  <2> SUFFICES ASSUME NEW s \in RedundantOf(o) PROVE Ring(o)!TurnInv!(s)'
    BY DEF Ring!TurnInv
  <2>1. /\ UNCHANGED <<ring[o].consumed, ring[o].written, ring[o].wpc, ring[o].windex>>
        /\ Ring(o)!WriterBegun' = Ring(o)!WriterBegun
    BY DEF Ring!ReadLock, Ring!WriterBegun
  <2>2. CASE s = r
    <3>1. (~ Ring(o)!WriterBegun)' /\ Ring(o)!InTurnToRead(s) /\ ring[o].wpc = "lock"
      BY <2>2 DEF Ring!ReadLock, Ring!InTurnToRead, Ring!WriterBegun
    <3> QED
      BY <2>1, <2>2, <3>1 DEF Ring!TurnInv, Ring!InTurnToRead
  <2>3. CASE s # r
    <3>1. ring'[o].dueData[s] = ring[o].dueData[s]
      BY <2>3 DEF Ring!ReadLock, Ring!TypeOK
    <3> QED
      BY <2>1, <3>1 DEF Ring!TurnInv, Ring!Begun
  <2> QED
    BY <2>2, <2>3
<1>5. Ring(o)!ContentsInv'
  BY DEF Ring!ContentsInv, Ring!ReadLock
<1>6. Ring(o)!PhaseInv'
  BY DEF Ring!PhaseInv, Ring!ReadLock
<1> QED
  BY <1>1, <1>2, <1>3, <1>4, <1>5, <1>6

\* Handing a buffer back: the reader's lead drops by one, and with it the ages
\* of the buffers that are still to be read.
LEMMA ReadReleaseInv ==
    ASSUME NEW o \in Port, Config(o), Ring(o)!RingInv, NEW r \in Ring(o)!Reader,
           Ring(o)!ReadRelease(r)
    PROVE  Ring(o)!RingInv'
<1> USE DEF Config, Ring!RingInv
<1>0. ring[o].writeBuffer \in Ring(o)!Buffer /\ ring[o].consumed[r] \in Nat
         /\ ring[o].written \in Nat
  BY DEF Ring!TypeOK
<1>l. Ring(o)!Lead(r) \in 0 .. SizeOf(o)
  BY LeadRange DEF Ring!ReadRelease
<1>m. ring[o].readBuffer[r] = Ring(o)!At(Ring(o)!Lead(r))
         /\ ring[o].readBuffer[r] \in Ring(o)!Buffer
  BY DEF Ring!PositionInv, Ring!TypeOK
<1>n. ring'[o].consumed[r] = ring[o].consumed[r] + 1 /\ Ring(o)!Lead(r)' = Ring(o)!Lead(r) - 1
  <2>1. ring'[o].consumed[r] = ring[o].consumed[r] + 1 /\ ring'[o].written = ring[o].written
    BY DEF Ring!ReadRelease, Ring!TypeOK
  <2>2. Ring(o)!Lead(r)' = ring'[o].written + LagOf(o)[r] - ring'[o].consumed[r]
           /\ LagOf(o)[r] \in Int
    BY LagRange DEF Ring!Lead
  <2>3. Ring(o)!Lead(r) = ring[o].written + LagOf(o)[r] - ring[o].consumed[r]
    BY DEF Ring!Lead
  <2> DEFINE w == ring[o].written
             c == ring[o].consumed[r]
             l == LagOf(o)[r]
  <2>4. w \in Int /\ c \in Int /\ l \in Int
    BY <1>0, <2>2
  <2> HIDE DEF w, c, l
  <2>5. w + l - (c + 1) = (w + l - c) - 1
    BY <2>4
  <2> QED
    BY <2>1, <2>2, <2>3, <2>5 DEF w, c, l
<1>o. \A s \in Ring(o)!Reader : s # r => /\ Ring(o)!Lead(s)' = Ring(o)!Lead(s)
         /\ ring'[o].dueData[s] = ring[o].dueData[s]
                                 /\ ring'[o].readBuffer[s] = ring[o].readBuffer[s]
                                 /\ ring'[o].consumed[s] = ring[o].consumed[s]
  BY DEF Ring!ReadRelease, Ring!TypeOK, Ring!Lead
<1>1. Ring(o)!TypeOK'
  <2>1. ring'[o].writeReady \in [Ring(o)!Reader -> SUBSET Ring(o)!Buffer]
    <3>1. ring[o].writeReady \in [Ring(o)!Reader -> SUBSET Ring(o)!Buffer]
      BY DEF Ring!TypeOK
    <3>2. \/ ring'[o].writeReady = ring[o].writeReady
          \/ ring'[o].writeReady = [ring[o].writeReady EXCEPT ![r] =
                @ \cup {ring[o].readBuffer[r]}]
      BY DEF Ring!ReadRelease
    <3> HIDE DEF Ring!Reader, Ring!Buffer
    <3>3. [ring[o].writeReady EXCEPT ![r] = @ \cup {ring[o].readBuffer[r]}]
             \in [Ring(o)!Reader -> SUBSET Ring(o)!Buffer]
      BY <1>m, <3>1, SetChange
    <3> QED
      BY <3>1, <3>2, <3>3
  <2>2. ring'[o].dueData \in [Ring(o)!Reader -> Ring(o)!Buffer \cup {Ring(o)!NULL}]
    BY SMTT(30) DEF Ring!TypeOK, Ring!ReadRelease
  <2>3. ring'[o].readBuffer \in [Ring(o)!Reader -> Ring(o)!Buffer]
    <3>1. Ring(o)!Down(ring[o].readBuffer[r], SizeOf(o)) \in Ring(o)!Buffer
      BY <1>m DEF Ring!Down
    <3>2. ring'[o].readBuffer = [ring[o].readBuffer EXCEPT ![r] =
             Ring(o)!Down(ring[o].readBuffer[r], SizeOf(o))]
      BY DEF Ring!ReadRelease
    <3> QED
      BY <3>1, <3>2 DEF Ring!TypeOK
  <2>4. ring'[o].consumed \in [Ring(o)!Reader -> Nat]
    <3>1. ring'[o].consumed = [ring[o].consumed EXCEPT ![r] = ring[o].consumed[r] + 1]
      BY DEF Ring!ReadRelease
    <3>2. ring[o].consumed \in [Ring(o)!Reader -> Nat]
      BY DEF Ring!TypeOK
    <3> DEFINE c == ring[o].consumed[r]
    <3>3. c \in Nat
      BY <1>0
    <3> HIDE DEF c
    <3>4. c + 1 \in Nat
      BY <3>3
    <3>5. ring'[o].consumed = [ring[o].consumed EXCEPT ![r] = c + 1]
      BY <3>1 DEF c
    <3> QED
      BY <3>2, <3>4, <3>5
  <2> QED
    BY <2>1, <2>2, <2>3, <2>4 DEF Ring!TypeOK, Ring!ReadRelease
<1>2. Ring(o)!PositionInv'
  <2> SUFFICES ASSUME NEW s \in Ring(o)!Reader
               PROVE  ring'[o].readBuffer[s] = Ring(o)!At(Ring(o)!Lead(s))' /\
                      (ring'[o].dueData[s] # Ring(o)!NULL =>
                           ring'[o].dueData[s] = ring'[o].readBuffer[s])
    BY DEF Ring!PositionInv
  <2>1. \A x : Ring(o)!At(x)' = Ring(o)!At(x)
    BY DEF Ring!At, Ring!ReadRelease
  <2>2. CASE s = r
    <3>1. ring'[o].readBuffer[s] = Ring(o)!Down(ring[o].readBuffer[r], SizeOf(o))
             /\ ring'[o].dueData[s] = Ring(o)!NULL
      BY <2>2 DEF Ring!ReadRelease, Ring!TypeOK
    <3>2. Ring(o)!Down(Ring(o)!At(Ring(o)!Lead(r)), SizeOf(o)) = Ring(o)!At(Ring(o)!Lead(r) - 1)
      BY <1>0, <1>l, AtAge
    <3>3. Ring(o)!At(Ring(o)!Lead(s))' = Ring(o)!At(Ring(o)!Lead(r) - 1)
      BY <1>n, <2>2 DEF Ring!At, Ring!ReadRelease
    <3> QED
      BY <1>m, <3>1, <3>2, <3>3
  <2>3. CASE s # r
    <3>1. Ring(o)!At(Ring(o)!Lead(s))' = Ring(o)!At(Ring(o)!Lead(s))
      BY <1>o, <2>3 DEF Ring!At, Ring!ReadRelease
    <3> QED
      BY <1>o, <2>3, <3>1 DEF Ring!PositionInv
  <2> QED
    BY <2>2, <2>3
<1>3. Ring(o)!SignalInv'
  <2> SUFFICES ASSUME NEW s \in Ring(o)!Reader \ RedundantOf(o)
               PROVE  Ring(o)!LeadInv(s)'
                         /\ \A b \in Ring(o)!Buffer : Ring(o)!AlternatorInv(s, b)'
    BY DEF Ring!SignalInv
  <2>0. Ring(o)!LeadInv(s) /\ \A b \in Ring(o)!Buffer : Ring(o)!AlternatorInv(s, b)
    BY DEF Ring!SignalInv
  <2>1. /\ Ring(o)!Released(s)' = Ring(o)!Released(s)
        /\ UNCHANGED <<ring[o].writeBuffer, ring[o].readReady>>
        /\ \A b \in Ring(o)!Buffer : /\ Ring(o)!AgeFor(s, b)' = Ring(o)!AgeFor(s, b)
                             /\ Ring(o)!WriterHolds(s, b)' = Ring(o)!WriterHolds(s, b)
    BY DEF Ring!ReadRelease, Ring!Released, Ring!AgeFor, Ring!WriterHolds
  <2>2. CASE s # r
    <3>1. /\ ring'[o].dueData[s] = ring[o].dueData[s]
                /\ ring'[o].writeReady[s] = ring[o].writeReady[s]
          /\ Ring(o)!Lead(s)' = Ring(o)!Lead(s)
      BY <1>o, <2>2 DEF Ring!ReadRelease, Ring!TypeOK
    <3> QED
      BY <2>0, <2>1, <3>1 DEF Ring!LeadInv, Ring!AlternatorInv, Ring!ReaderHolds
  <2>3. CASE s = r
    <3> DEFINE c == ring[o].readBuffer[s]
    <3>1. /\ c \in Ring(o)!Buffer /\ ring[o].dueData[s] = c
                /\ ring'[o].dueData[s] = Ring(o)!NULL
          /\ ring'[o].writeReady[s] = ring[o].writeReady[s] \cup {c}
      BY <2>3 DEF Ring!ReadRelease, Ring!TypeOK, Ring!PositionInv
    <3>2. Ring(o)!LeadInv(s)'
      BY <1>l, <1>n, <2>0, <2>1, <2>3, <3>1 DEF Ring!LeadInv, Ring!ReadRelease
    <3>3. Ring(o)!Lead(s) = 0 => Ring(o)!Released(s)
      BY <2>0, <2>3 DEF Ring!LeadInv, Ring!ReadRelease
    <3>4. \A b \in Ring(o)!Buffer : Ring(o)!AgeFor(s, b) = Ring(o)!Lead(s) <=> b = c
      <4>1. \A b \in Ring(o)!Buffer : Ring(o)!Age(ring[o].writeBuffer, b) \in 1 .. SizeOf(o)
        BY <1>0, AgeRange
      <4>2. CASE Ring(o)!Lead(s) = 0
        <5>1. Ring(o)!Released(s) /\ c = ring[o].writeBuffer
          BY <1>0, <1>m, <2>3, <3>3, <4>2, AtAge
        <5>2. \A b \in Ring(o)!Buffer : Ring(o)!AgeFor(s, b) =
                  IF b = ring[o].writeBuffer THEN 0 ELSE Ring(o)!Age(ring[o].writeBuffer, b)
          BY <5>1 DEF Ring!AgeFor
        <5>3. \A b \in Ring(o)!Buffer : Ring(o)!Age(ring[o].writeBuffer, b) # 0
          BY <4>1
        <5> QED
          BY <4>2, <5>1, <5>2, <5>3
      <4>3. CASE Ring(o)!Lead(s) \in 1 .. SizeOf(o)
        <5>1. Ring(o)!Age(ring[o].writeBuffer, c) = Ring(o)!Lead(s)
          BY <1>0, <1>m, <2>3, <4>3, AtAge
        <5>2. \A b \in Ring(o)!Buffer : Ring(o)!Age(ring[o].writeBuffer, b) =
                 Ring(o)!Lead(s) => b = c
          BY <1>0, <1>m, <2>3, AtAge
        <5>3. Ring(o)!Released(s) => c # ring[o].writeBuffer
          <6>1. Ring(o)!Released(s) => Ring(o)!Lead(s) \in 1 .. SizeOf(o) - 1
            BY <2>0, <4>3 DEF Ring!LeadInv
          <6> QED
            BY <1>0, <1>m, <2>3, <6>1, AtAge
        <5> QED
          BY <4>1, <4>3, <5>1, <5>2, <5>3 DEF Ring!AgeFor
      <4> QED
        BY <1>l, <2>3, <4>2, <4>3
    <3>5. ~ Ring(o)!WriterHolds(s, c)
      <4>1. ASSUME Ring(o)!WriterHolds(s, c) PROVE FALSE
        <5>1. c = ring[o].writeBuffer /\ ~ Ring(o)!Released(s) /\ Ring(o)!Lead(s) < SizeOf(o)
          BY SMTT(30), <2>0, <3>1, <4>1 DEF Ring!WriterHolds, Ring!Released,
             Ring!AlternatorInv, Ring!TypeOK
        <5>2. Ring(o)!Lead(s) \in 1 .. SizeOf(o) - 1
          BY <1>l, <2>3, <3>3, <5>1
        <5> QED
          BY <1>0, <1>m, <2>3, <5>1, <5>2, AtAge
      <4> QED
        BY <4>1
    <3>6. ASSUME NEW b \in Ring(o)!Buffer PROVE Ring(o)!AlternatorInv(s, b)'
      <4>0. (~ Ring(o)!ReaderHolds(s, b))' /\ Ring(o)!AgeFor(s, b) \in Int
        <5>1. Ring(o)!Age(ring[o].writeBuffer, b) \in Int
          <6>1. Ring(o)!Age(ring[o].writeBuffer, b) \in 1 .. SizeOf(o)
            BY <1>0, AgeRange
          <6> QED
            BY <6>1
        <5>2. (~ Ring(o)!ReaderHolds(s, b))'
          BY <3>1 DEF Ring!ReaderHolds
        <5> QED
          BY <5>1, <5>2 DEF Ring!AgeFor
      <4>1. CASE b = c
        <5>1. Ring(o)!AgeFor(s, b) = Ring(o)!Lead(s)
                 /\ b \in ring'[o].writeReady[s] /\ b \notin ring[o].readReady[s]
          BY <2>0, <3>1, <3>4, <4>1 DEF Ring!AlternatorInv, Ring!ReaderHolds
        <5> QED
          BY <1>l, <1>n, <2>1, <2>3, <3>5, <4>0, <4>1, <5>1 DEF Ring!AlternatorInv
      <4>2. CASE b # c
        <5>1. Ring(o)!AgeFor(s, b) # Ring(o)!Lead(s) /\ ~ Ring(o)!ReaderHolds(s, b)
          BY <3>1, <3>4, <4>2 DEF Ring!ReaderHolds
        <5>2. b \in ring'[o].writeReady[s] <=> b \in ring[o].writeReady[s]
          BY <3>1, <4>2
        <5>3. Ring(o)!WriterHolds(s, b) => Ring(o)!Lead(s) - 1 < SizeOf(o)
          BY <1>l, <2>3
        <5> QED
          BY <1>l, <1>n, <2>0, <2>1, <2>3, <4>0, <5>1, <5>2, <5>3 DEF Ring!AlternatorInv
      <4> QED
        BY <4>1, <4>2
    <3> QED
      BY <3>2, <3>6
  <2> QED
    BY <2>2, <2>3
<1>4. Ring(o)!TurnInv'
  <2> SUFFICES ASSUME NEW s \in RedundantOf(o) PROVE Ring(o)!TurnInv!(s)'
    BY DEF Ring!TurnInv
  <2>1. UNCHANGED <<ring[o].written, ring[o].wpc, ring[o].windex>>
           /\ Ring(o)!WriterBegun' = Ring(o)!WriterBegun
    BY DEF Ring!ReadRelease, Ring!WriterBegun
  <2>2. CASE s = r
    <3>1. ring[o].dueData[s] # Ring(o)!NULL /\ ring'[o].dueData[s] = Ring(o)!NULL
      BY <2>2 DEF Ring!ReadRelease, Ring!TypeOK
    <3> QED
      BY SMTT(60), <1>0, <1>n, <2>1, <2>2, <3>1 DEF Ring!TurnInv, Ring!Begun
  <2>3. CASE s # r
    BY <1>o, <2>1, <2>3 DEF Ring!TurnInv, Ring!Begun
  <2> QED
    BY <2>2, <2>3
<1>5. Ring(o)!ContentsInv'
  BY DEF Ring!ContentsInv, Ring!ReadRelease
<1>6. Ring(o)!PhaseInv'
  BY DEF Ring!PhaseInv, Ring!ReadRelease
<1> QED
  BY <1>1, <1>2, <1>3, <1>4, <1>5, <1>6

-----------------------------------------------------------------------------
\* The invariant is inductive: whatever the number of readers, the lags, the
\* ring size and the resume point, every step of a ring preserves it.
LEMMA RingStep ==
    ASSUME NEW o \in Port, Config(o), Ring(o)!RingInv, [Ring(o)!Next]_(Ring(o)!vars)
    PROVE  Ring(o)!RingInv'
<1>1. ASSUME NEW r \in Ring(o)!Reader, Ring(o)!WriteLock(r) PROVE Ring(o)!RingInv'
  BY <1>1, WriteLockInv
<1>2. CASE Ring(o)!WriteLocked
  BY <1>2, WriteLockedInv
<1>3. CASE Ring(o)!Fill
  BY <1>3, FillInv
<1>4. ASSUME NEW r \in Ring(o)!Reader, Ring(o)!WriteRelease(r) PROVE Ring(o)!RingInv'
  BY <1>4, WriteReleaseInv
<1>5. CASE Ring(o)!WriteReleased
  BY <1>5, WriteReleasedInv
<1>6. ASSUME NEW r \in Ring(o)!Reader, Ring(o)!ReadLock(r) PROVE Ring(o)!RingInv'
  BY <1>6, ReadLockInv
<1>7. ASSUME NEW r \in Ring(o)!Reader, Ring(o)!ReadRelease(r) PROVE Ring(o)!RingInv'
  BY <1>7, ReadReleaseInv
<1>8. CASE UNCHANGED (Ring(o)!vars)
  <2>1. UNCHANGED <<ring[o].writeBuffer, ring[o].readBuffer, ring[o].readReady,
                    ring[o].writeReady, ring[o].contents, ring[o].wpc, ring[o].windex,
                    ring[o].dueData, ring[o].written, ring[o].consumed>>
    BY <1>8 DEF Ring!vars
  <2>2. Ring(o)!TypeOK' /\ Ring(o)!PhaseInv'
    BY <2>1 DEF Ring!RingInv, Ring!TypeOK, Ring!PhaseInv
  <2>3. Ring(o)!PositionInv'
    BY <2>1 DEF Ring!RingInv, Ring!PositionInv, Ring!At, Ring!Lead
  <2>4. Ring(o)!SignalInv'
    BY <2>1 DEF Ring!RingInv, Ring!SignalInv, Ring!LeadInv, Ring!AlternatorInv,
                Ring!Lead, Ring!Released, Ring!AgeFor, Ring!WriterHolds, Ring!ReaderHolds
  <2>5. Ring(o)!TurnInv'
    BY <2>1 DEF Ring!RingInv, Ring!TurnInv, Ring!WriterBegun, Ring!Begun
  <2>6. Ring(o)!ContentsInv'
    BY <2>1 DEF Ring!RingInv, Ring!ContentsInv
  <2> QED
    BY <2>2, <2>3, <2>4, <2>5, <2>6 DEF Ring!RingInv
<1> QED
  BY <1>1, <1>2, <1>3, <1>4, <1>5, <1>6, <1>7, <1>8 DEF Ring!Next, Ring!Writer

\* No reader works on the buffer the writer is filling.
LEMMA RingInvExclusion ==
    ASSUME NEW o \in Port, Config(o), Ring(o)!RingInv PROVE Ring(o)!BufferExclusion
<1> SUFFICES ASSUME ring[o].wpc = "fill", NEW r \in Ring(o)!Reader
             PROVE  ring[o].dueData[r] # ring[o].writeBuffer
  BY DEF Ring!BufferExclusion
<1> USE DEF Ring!RingInv
<1>n. ring[o].dueData[r] = Ring(o)!NULL => ring[o].dueData[r] # ring[o].writeBuffer
  BY DEF Ring!TypeOK
<1> SUFFICES ASSUME ring[o].dueData[r] # Ring(o)!NULL
             PROVE  ring[o].dueData[r] # ring[o].writeBuffer
  BY <1>n
<1> DEFINE w == ring[o].written
           c == ring[o].consumed[r]
           l == LagOf(o)[r]
           n == SizeOf(o)
           d == Ring(o)!Lead(r)
<1>a. w \in Nat /\ c \in Nat /\ d = w + l - c
  BY ReaderTypes
<1>b. l \in 0 .. n - 1 /\ n \in Nat
  BY LagRange
<1>c. r \in ReadsFirstOf(o) => c = w /\ l > 0
  BY DEF Ring!TurnInv
<1>d. r \in RedundantOf(o) \ ReadsFirstOf(o) => c = w - 1 /\ (Ring(o)!WriterBegun => c = w)
  BY DEF Ring!TurnInv
<1>0. ring[o].writeBuffer \in Ring(o)!Buffer /\ Ring(o)!WriterBegun /\ ~ Ring(o)!Released(r)
  BY DEF Ring!TypeOK, Ring!WriterBegun, Ring!Released
<1>1. Ring(o)!Lead(r) \in 1 .. SizeOf(o) - 1
  <2>1. CASE r \notin RedundantOf(o)
    <3>1. Ring(o)!WriterHolds(r, ring[o].writeBuffer)
      BY DEF Ring!WriterHolds
    <3> QED
      BY <1>0, <2>1, <3>1 DEF Ring!SignalInv, Ring!LeadInv, Ring!AlternatorInv
  <2>2. CASE r \in ReadsFirstOf(o)
    <3>1. c = w /\ l > 0
      BY <1>c, <2>2
    <3> HIDE DEF w, c, l, n, d
    <3>2. d \in 1 .. n - 1
      BY <1>a, <1>b, <3>1
    <3> QED
      BY <3>2 DEF d, n
  <2>3. CASE r \in RedundantOf(o) \ ReadsFirstOf(o)
    <3>1. c = w - 1 /\ c = w
      BY <1>0, <1>d, <2>3
    <3> HIDE DEF w, c, l, n, d
    <3> QED
      BY <1>a, <3>1
  <2> QED
    BY <2>1, <2>2, <2>3
<1>2. ring[o].dueData[r] = Ring(o)!At(Ring(o)!Lead(r))
  BY DEF Ring!PositionInv
<1> QED
  BY <1>0, <1>1, <1>2, AtAge

\* Every reader works on the sample its lag calls for.
LEMMA RingInvFresh ==
    ASSUME NEW o \in Port, Config(o), Ring(o)!RingInv PROVE Ring(o)!FreshSample
<1> SUFFICES ASSUME NEW r \in Ring(o)!Reader, ring[o].dueData[r] # Ring(o)!NULL
             PROVE  ring[o].contents[ring[o].dueData[r]] =
                       Ring(o)!Content(ring[o].consumed[r] - LagOf(o)[r])
  BY DEF Ring!FreshSample
<1> USE DEF Ring!RingInv
<1> DEFINE w == ring[o].written
           c == ring[o].consumed[r]
           l == LagOf(o)[r]
           d == Ring(o)!Lead(r)
<1>a. w \in Nat /\ c \in Nat /\ l \in Nat /\ d = w + l - c
  BY ReaderTypes
<1>0. /\ ring[o].writeBuffer \in Ring(o)!Buffer /\ w \in Nat /\ c \in Nat /\ l \in Int
      /\ ring[o].dueData[r] = Ring(o)!At(Ring(o)!Lead(r))
            /\ ring[o].dueData[r] \in Ring(o)!Buffer
  <2>1. ring[o].writeBuffer \in Ring(o)!Buffer /\ ring[o].dueData[r] \in Ring(o)!Buffer
    BY DEF Ring!TypeOK
  <2>2. ring[o].dueData[r] = Ring(o)!At(Ring(o)!Lead(r))
    BY DEF Ring!PositionInv
  <2>3. l \in Int
    BY <1>a
  <2> QED
    BY <1>a, <2>1, <2>2, <2>3
<1>1. Ring(o)!Lead(r) \in 0 .. SizeOf(o)
  BY LeadRange
<1>2. w - d = c - l
  <2> HIDE DEF w, c, l, d
  <2> QED
    BY <1>a
<1>3. CASE Ring(o)!Lead(r) \in 1 .. SizeOf(o) - 1
  <2>1. Ring(o)!Age(ring[o].writeBuffer, ring[o].dueData[r]) = Ring(o)!Lead(r)
           /\ ring[o].dueData[r] # ring[o].writeBuffer
    BY SMTT(90), <1>0, <1>3, AtAge
  <2> QED
    BY <1>0, <1>2, <2>1 DEF Ring!ContentsInv
<1>4. CASE Ring(o)!Lead(r) = 0
  <2>1. ring[o].dueData[r] = ring[o].writeBuffer
    BY <1>0, <1>4, AtAge
  <2>2. ring[o].wpc = "release"
    <3>1. CASE r \notin RedundantOf(o)
      BY <1>4, <3>1 DEF Ring!SignalInv, Ring!LeadInv, Ring!Released
    <3>2. CASE r \in ReadsFirstOf(o)
      <4>1. c = w /\ l > 0 /\ d = 0
        BY <1>4, <3>2 DEF Ring!TurnInv
      <4> HIDE DEF w, c, l, d
      <4> QED
        BY <1>a, <4>1
    <3>3. CASE r \in RedundantOf(o) \ ReadsFirstOf(o)
      <4>1. c = w - 1 /\ d = 0
        BY <1>4, <3>3 DEF Ring!TurnInv
      <4> HIDE DEF w, c, l, d
      <4> QED
        BY <1>a, <4>1
    <3> QED
      BY <3>1, <3>2, <3>3
  <2>3. w = c - l
    <3>1. d = 0
      BY <1>4
    <3> HIDE DEF w, c, l, d
    <3> QED
      BY <1>a, <3>1
  <2> QED
    BY <1>0, <2>1, <2>2, <2>3 DEF Ring!ContentsInv
<1>5. CASE Ring(o)!Lead(r) = SizeOf(o)
  <2>1. ring[o].dueData[r] = ring[o].writeBuffer
           /\ Ring(o)!Age(ring[o].writeBuffer, ring[o].writeBuffer) = SizeOf(o)
    BY SMTT(30), <1>0, <1>5, AtAge DEF Ring!Age, Ring!At
  <2>2. ring[o].wpc # "release"
    <3>1. CASE r \notin RedundantOf(o)
      <4>1. ~ Ring(o)!Released(r) /\ ~ Ring(o)!WriterHolds(r, ring[o].writeBuffer)
        BY SMTT(30), <1>0, <1>5, <3>1 DEF Ring!SignalInv, Ring!LeadInv, Ring!AlternatorInv
      <4> QED
        BY SMTT(30), <4>1 DEF Ring!Released, Ring!WriterHolds, Ring!TypeOK
    <3>2. CASE r \in RedundantOf(o)
      <4>1. ~ Ring(o)!WriterBegun
        BY <1>1, <1>5, <3>2, LeadRange
      <4> QED
        BY <4>1 DEF Ring!WriterBegun
    <3> QED
      BY <3>1, <3>2
  <2> QED
    BY <1>0, <1>2, <1>5, <2>1, <2>2 DEF Ring!ContentsInv
<1> QED
  BY <1>1, <1>3, <1>4, <1>5

=============================================================================
