------------------------- MODULE WorkerServiceProofs -------------------------
(***************************************************************************)
(* Proofs about WorkerService: ServiceInv is inductive for every number of *)
(* workers, processes and ports, every period and lag, and every start and *)
(* stop of the execution.  From it follow the properties of the loop, and  *)
(* that the loop gives every ring the order module PortRing takes for      *)
(* granted, so that what PortRingFamily proves of a ring holds of each.    *)
(***************************************************************************)
EXTENDS WorkerService, TLAPS, WellFoundedInduction

-----------------------------------------------------------------------------
\* Division by a period.
LEMMA Divide ==
    ASSUME NEW n \in Nat \ {0}, NEW t \in Nat
    PROVE  /\ t \div n \in Nat /\ t % n \in 0 .. n - 1
           /\ t = n * (t \div n) + (t % n)
OBVIOUS

\* The multiples of a period lie a period apart.
LEMMA NextMultiple ==
    ASSUME NEW n \in Nat \ {0}, NEW a \in Nat
    PROVE  /\ n * a \in Nat /\ n * (a + 1) = n * a + n
           /\ \A b \in Nat : a < b => n * a + n <= n * b
BY SMT

\* The rounded-up quotient reaches the dividend and overshoots by less than one
\* period ...
LEMMA CeilingRange ==
    ASSUME NEW n \in Nat \ {0}, NEW t \in Nat, NEW k, k = (t + n - 1) \div n
    PROVE  k \in Nat /\ n * k >= t /\ n * k < t + n
<1> DEFINE u == t + n - 1
<1>1. u \in Nat
  OBVIOUS
<1> HIDE DEF u
<1>2. /\ u \div n \in Nat /\ u % n \in 0 .. n - 1
      /\ u = n * (u \div n) + (u % n)
  BY <1>1, Divide
<1>3. k = u \div n
  BY DEF u
<1> DEFINE m == u % n
           q == n * k
<1>4. m \in 0 .. n - 1 /\ u = q + m /\ q \in Nat /\ k \in Nat
  BY <1>2, <1>3, NextMultiple
<1> HIDE DEF m, q
<1>5. u = t + n - 1
  BY DEF u
<1>6. q >= t /\ q < t + n
  BY <1>4, <1>5
<1> QED
  BY <1>4, <1>6 DEF q

\* ... and is the only number that does.
LEMMA CeilingUnique ==
    ASSUME NEW n \in Nat \ {0}, NEW t \in Nat, NEW k \in Nat, n * k >= t, n * k < t + n
    PROVE  (t + n - 1) \div n = k
<1> DEFINE j == (t + n - 1) \div n
<1>1. j \in Nat /\ n * j >= t /\ n * j < t + n
  BY CeilingRange
<1> HIDE DEF j
<1>2. ASSUME NEW x \in Nat, NEW y \in Nat, x < y, n * x >= t, n * y < t + n PROVE FALSE
  <2> DEFINE a == n * x
             b == n * y
  <2>1. a \in Nat /\ b \in Nat /\ a + n <= b /\ a >= t /\ b < t + n
    BY <1>2, NextMultiple
  <2> HIDE DEF a, b
  <2> QED
    BY <2>1
<1>3. j = k
  BY <1>1, <1>2
<1> QED
  BY <1>3 DEF j

-----------------------------------------------------------------------------
\* The number of samples of a port before a time.
LEMMA SamplesNat ==
    ASSUME NEW o \in Port, NEW t \in Nat
    PROVE  SamplesBefore(o, t) \in Nat
BY ServiceAssumption, CeilingRange DEF SamplesBefore

\* A later time has seen no fewer samples.
LEMMA SamplesMonotone ==
    ASSUME NEW o \in Port, NEW t \in Nat, NEW u \in Nat, t <= u
    PROVE  SamplesBefore(o, t) <= SamplesBefore(o, u)
<1> DEFINE n == Period[o]
           x == SamplesBefore(o, t)
           y == SamplesBefore(o, u)
<1>1. /\ n \in Nat \ {0} /\ x = (t + n - 1) \div n /\ y = (u + n - 1) \div n
  BY ServiceAssumption DEF SamplesBefore
<1> HIDE DEF n, x, y
<1>2. x \in Nat /\ y \in Nat /\ n * x < t + n /\ n * y >= u
  BY <1>1, CeilingRange
<1>3. ASSUME y < x PROVE FALSE
  <2> DEFINE a == n * x
             b == n * y
  <2>1. a \in Nat /\ b \in Nat /\ b + n <= a /\ a < t + n /\ b >= u
    BY <1>1, <1>2, <1>3, NextMultiple
  <2> HIDE DEF a, b
  <2> QED
    BY <1>1, <2>1
<1>4. x <= y
  BY <1>2, <1>3
<1> QED
  BY <1>4 DEF x, y

\* Between a time and the port's next boundary after it one more sample, if the
\* port is due at that time, has been due.
LEMMA SamplesToBoundary ==
    ASSUME NEW o \in Port, NEW t \in Nat
    PROVE  /\ NextBoundary(o, t) \in Nat /\ t < NextBoundary(o, t)
           /\ \A u \in Nat : t < u /\ u <= NextBoundary(o, t) =>
                  SamplesBefore(o, u) = t \div Period[o] + 1
<1> DEFINE n == Period[o]
           k == t \div n
           m == t % n
<1>1. n \in Nat \ {0}
  BY ServiceAssumption
<1>2. NextBoundary(o, t) = t - m + n
  BY DEF NextBoundary
<1>3. \A u : SamplesBefore(o, u) = (u + n - 1) \div n
  BY DEF SamplesBefore
<1> HIDE DEF n
<1>4. k \in Nat /\ m \in 0 .. n - 1 /\ t = n * k + m
  BY <1>1, Divide
<1> HIDE DEF k, m
<1> DEFINE b == n * (k + 1)
<1>5. b \in Nat /\ k + 1 \in Nat /\ b = t - m + n
  <2> DEFINE a == n * k
  <2>1. a \in Nat /\ b = a + n /\ t = a + m
    BY <1>1, <1>4, NextMultiple
  <2> HIDE DEF a, b
  <2> QED
    BY <1>1, <1>4, <2>1
<1>6. ASSUME NEW u \in Nat, t < u, u <= b PROVE SamplesBefore(o, u) = k + 1
  <2>1. b >= u /\ b < u + n
    <3> HIDE DEF b
    <3> QED
      BY <1>1, <1>4, <1>5, <1>6
  <2>2. (u + n - 1) \div n = k + 1
    BY <1>1, <1>5, <2>1, CeilingUnique
  <2> QED
    BY <1>3, <2>2
<1> HIDE DEF b
<1>7. b = NextBoundary(o, t) /\ t < b
  BY <1>1, <1>2, <1>4, <1>5
<1> QED
  BY <1>5, <1>6, <1>7 DEF k, n

\* At a boundary the next base sample begins another sample of the port, ...
LEMMA SamplesWhenDue ==
    ASSUME NEW o \in Port, NEW t \in Nat, IsDue(o, t)
    PROVE  /\ SamplesBefore(o, t) = t \div Period[o]
           /\ SamplesBefore(o, t + 1) = SamplesBefore(o, t) + 1
<1> DEFINE n == Period[o]
           k == t \div n
<1>1. n \in Nat \ {0} /\ t % n = 0
  BY ServiceAssumption DEF IsDue
<1>2. \A u : SamplesBefore(o, u) = (u + n - 1) \div n
  BY DEF SamplesBefore
<1>3. t + 1 <= NextBoundary(o, t)
  BY SamplesToBoundary
<1>4. SamplesBefore(o, t + 1) = k + 1
  BY <1>3, SamplesToBoundary
<1> HIDE DEF n
<1>5. k \in Nat /\ t = n * k
  <2>1. k \in Nat /\ t = n * k + (t % n)
    BY <1>1, Divide
  <2> DEFINE a == n * k
  <2>2. a \in Nat /\ t = a + 0
    BY <1>1, <2>1, NextMultiple
  <2> HIDE DEF a
  <2>3. t = a
    BY <2>2
  <2> QED
    BY <2>1, <2>3 DEF a
<1> HIDE DEF k
<1>6. (t + n - 1) \div n = k
  <2>1. n * k >= t /\ n * k < t + n
    BY <1>1, <1>5
  <2> QED
    BY <1>1, <1>5, <2>1, CeilingUnique
<1> QED
  BY <1>2, <1>4, <1>6 DEF k, n

\* ... and elsewhere it does not.
LEMMA SamplesWhenNotDue ==
    ASSUME NEW o \in Port, NEW t \in Nat, ~ IsDue(o, t)
    PROVE  SamplesBefore(o, t + 1) = SamplesBefore(o, t)
<1> DEFINE n == Period[o]
           k == SamplesBefore(o, t)
           q == t \div n
           m == t % n
<1>1. n \in Nat \ {0} /\ m # 0
  BY ServiceAssumption DEF IsDue
<1>2. k = (t + n - 1) \div n /\ SamplesBefore(o, t + 1) = ((t + 1) + n - 1) \div n
  BY DEF SamplesBefore
<1> HIDE DEF n, k
<1>3. k \in Nat /\ n * k >= t /\ n * k < t + n
  BY <1>1, <1>2, CeilingRange
<1>4. q \in Nat /\ m \in 0 .. n - 1 /\ t = n * q + m
  BY <1>1, Divide
<1> HIDE DEF q, m
<1>5. n * k # t
  <2> SUFFICES ASSUME n * k = t PROVE FALSE
    OBVIOUS
  <2> DEFINE a == n * k
             b == n * q
  <2>1. a \in Nat /\ b \in Nat /\ a = b + m /\ (q < k => b + n <= a) /\ (k < q => a + n <= b)
    BY <1>1, <1>3, <1>4, NextMultiple
  <2>2. q = k => a = b
    OBVIOUS
  <2> HIDE DEF a, b
  <2> QED
    BY <1>1, <1>3, <1>4, <2>1, <2>2
<1>6. n * k >= t + 1 /\ n * k < (t + 1) + n
  <2> DEFINE a == n * k
  <2>1. a \in Nat /\ a >= t /\ a < t + n /\ a # t
    BY <1>1, <1>3, <1>5, NextMultiple
  <2> HIDE DEF a
  <2>2. a >= t + 1 /\ a < (t + 1) + n
    BY <1>1, <2>1
  <2> QED
    BY <2>2 DEF a
<1>7. ((t + 1) + n - 1) \div n = k
  BY <1>1, <1>3, <1>6, CeilingUnique
<1> QED
  BY <1>2, <1>7 DEF k

\* One sample more when the port is due, and otherwise none.
LEMMA SamplesNext ==
    ASSUME NEW o \in Port, NEW t \in Nat
    PROVE  SamplesBefore(o, t + 1) = SamplesBefore(o, t) + (IF IsDue(o, t) THEN 1 ELSE 0)
<1>1. SamplesBefore(o, t) \in Nat
  BY SamplesNat
<1> QED
  BY <1>1, SamplesWhenDue, SamplesWhenNotDue

\* No boundary is passed on the way to a time no later than the next one.
LEMMA SamplesUpTo ==
    ASSUME NEW o \in Port, NEW t \in Nat, NEW u \in Nat, t < u, u <= NextBoundary(o, t)
    PROVE  SamplesBefore(o, u) = SamplesBefore(o, t + 1)
<1>1. t + 1 <= NextBoundary(o, t) /\ t + 1 \in Nat /\ t < t + 1
  BY SamplesToBoundary
<1> QED
  BY <1>1, SamplesToBoundary

-----------------------------------------------------------------------------
\* What the assumption says of processes, ports and workers, one by one.
LEMMA ProcessPorts ==
    ASSUME NEW p \in Process
    PROVE  /\ p \in Nat
           /\ \A i \in DOMAIN Inputs[p] :
                  /\ i \in Nat /\ Inputs[p][i][1] \in Port
                  /\ Inputs[p][i][2] \in Reader(Inputs[p][i][1])
                  /\ Inputs[p][i] = <<Inputs[p][i][1], Inputs[p][i][2]>>
           /\ \A i \in DOMAIN Outputs[p] : i \in Nat /\ Outputs[p][i] \in Port
           /\ PortsOf(p) = {Inputs[p][i][1] : i \in DOMAIN Inputs[p]}
                               \cup {Outputs[p][i] : i \in DOMAIN Outputs[p]}
           /\ PortsOf(p) \subseteq Port
<1>1. Inputs \in Seq(Seq(Port \X Nat)) /\ Outputs[p] \in Seq(Port)
  BY ServiceAssumption
<1>2. p \in 1 .. Len(Inputs) /\ Inputs[p] \in Seq(Port \X Nat)
  BY <1>1 DEF Process
<1>3. /\ \A i \in DOMAIN Inputs[p] : i \in Nat /\ Inputs[p][i] \in Port \X Nat
      /\ \A i \in DOMAIN Outputs[p] : i \in Nat /\ Outputs[p][i] \in Port
  BY <1>1, <1>2
<1>4. \A i \in DOMAIN Inputs[p] : Inputs[p][i][2] \in Reader(Inputs[p][i][1])
  BY ServiceAssumption DEF ToSet
<1>5. PortsOf(p) = {Inputs[p][i][1] : i \in DOMAIN Inputs[p]}
                       \cup {Outputs[p][i] : i \in DOMAIN Outputs[p]}
  BY DEF PortsOf, ToSet
<1> QED
  BY <1>2, <1>3, <1>4, <1>5

\* Engine::open gave every process to a worker, which has it in its list ...
LEMMA WorkerOfProcess ==
    ASSUME NEW p \in Process
    PROVE  /\ WorkerOf(p) \in Worker
           /\ \E j \in DOMAIN Processes[WorkerOf(p)] : Processes[WorkerOf(p)][j] = p
<1>1. \E w \in Worker : p \in ToSet(Processes[w])
  BY ServiceAssumption DEF OneOwner
<1>2. WorkerOf(p) \in Worker /\ p \in ToSet(Processes[WorkerOf(p)])
  BY <1>1 DEF WorkerOf
<1> QED
  BY <1>2 DEF ToSet

\* ... and no other worker has.
LEMMA ProcessOfWorker ==
    ASSUME NEW w \in Worker, NEW j \in DOMAIN Processes[w]
    PROVE  /\ Processes[w][j] \in Process /\ WorkerOf(Processes[w][j]) = w
           /\ DOMAIN Processes[w] = 1 .. Len(Processes[w]) /\ Len(Processes[w]) \in Nat
<1>1. Processes[w] \in Seq(Process)
  BY ServiceAssumption
<1>2. Processes[w][j] \in Process
  BY <1>1
<1> DEFINE p == Processes[w][j]
           v == WorkerOf(p)
<1>3. p \in ToSet(Processes[w]) /\ v \in Worker /\ p \in ToSet(Processes[v])
  BY <1>2, WorkerOfProcess DEF ToSet
<1> HIDE DEF p, v
<1>4. v = w
  BY <1>3, ServiceAssumption DEF OneOwner
<1> QED
  BY <1>1, <1>2, <1>4 DEF p, v

\* The order of a worker's list is the order of the system.
LEMMA ProcessOrder ==
    ASSUME NEW w \in Worker, NEW j \in DOMAIN Processes[w], NEW k \in DOMAIN Processes[w]
    PROVE  /\ Processes[w][j] <= Processes[w][k] <=> j <= k
           /\ Processes[w][j] = Processes[w][k] <=> j = k
<1>1. /\ j < k => Processes[w][j] < Processes[w][k]
      /\ k < j => Processes[w][k] < Processes[w][j]
  BY ServiceAssumption
<1>2. j \in Nat /\ k \in Nat
  BY ProcessOfWorker
<1>3. Processes[w][j] \in Nat /\ Processes[w][k] \in Nat
  BY ProcessOfWorker, ProcessPorts
<1> QED
  BY <1>1, <1>2, <1>3

\* The process that owns an output, and the one an input belongs to, are known from
\* the port.
LEMMA WriterOfOutput ==
    ASSUME NEW p \in Process, NEW i \in DOMAIN Outputs[p]
    PROVE  WriterOf(Outputs[p][i]) = p
<1> DEFINE o == Outputs[p][i]
           q == WriterOf(o)
<1>1. q \in Process /\ o \in ToSet(Outputs[q])
  BY DEF WriterOf, ToSet
<1>2. PICK k \in DOMAIN Outputs[q] : Outputs[q][k] = Outputs[p][i]
  BY <1>1 DEF ToSet
<1> HIDE DEF q
<1> QED
  BY <1>1, <1>2, ServiceAssumption DEF OneOwner, q

\* The same of an input: one process holds it.
LEMMA ReaderOfInput ==
    ASSUME NEW p \in Process, NEW i \in DOMAIN Inputs[p]
    PROVE  ReaderOf(Inputs[p][i][1], Inputs[p][i][2]) = p
<1> DEFINE o == Inputs[p][i][1]
           r == Inputs[p][i][2]
           q == ReaderOf(o, r)
<1>0. <<o, r>> = Inputs[p][i]
  BY ProcessPorts
<1>1. q \in Process /\ <<o, r>> \in ToSet(Inputs[q])
  BY <1>0 DEF ReaderOf, ToSet
<1>2. PICK k \in DOMAIN Inputs[q] : Inputs[q][k] = Inputs[p][i]
  BY <1>0, <1>1 DEF ToSet
<1> HIDE DEF q
<1> QED
  BY <1>1, <1>2, ServiceAssumption DEF OneOwner, q

\* Every port is an output of a process, ...
LEMMA WriterExists ==
    ASSUME NEW o \in Port
    PROVE  WriterOf(o) \in Process /\ \E i \in DOMAIN Outputs[WriterOf(o)] :
               Outputs[WriterOf(o)][i] = o
<1>1. \E p \in Process : o \in ToSet(Outputs[p])
  BY ServiceAssumption DEF OneOwner
<1>2. WriterOf(o) \in Process /\ o \in ToSet(Outputs[WriterOf(o)])
  BY <1>1 DEF WriterOf
<1> QED
  BY <1>2 DEF ToSet

\* ... and every reader of it an input of one.
LEMMA ReaderExists ==
    ASSUME NEW o \in Port, NEW r \in Reader(o)
    PROVE  ReaderOf(o, r) \in Process /\ \E i \in DOMAIN Inputs[ReaderOf(o, r)] :
               Inputs[ReaderOf(o, r)][i] = <<o, r>>
<1>1. \E p \in Process : <<o, r>> \in ToSet(Inputs[p])
  BY ServiceAssumption DEF OneOwner
<1>2. ReaderOf(o, r) \in Process /\ <<o, r>> \in ToSet(Inputs[ReaderOf(o, r)])
  BY <1>1 DEF ReaderOf
<1> QED
  BY <1>2 DEF ToSet

\* Two outputs are one only if they are the same, and so are two inputs.
LEMMA OnePlace ==
    ASSUME NEW p \in Process, NEW q \in Process
    PROVE  /\ \A i \in DOMAIN Outputs[p], j \in DOMAIN Outputs[q] :
                  Outputs[p][i] = Outputs[q][j] => p = q /\ i = j
           /\ \A i \in DOMAIN Inputs[p], j \in DOMAIN Inputs[q] :
                  Inputs[p][i] = Inputs[q][j] => p = q /\ i = j
BY ServiceAssumption DEF OneOwner

-----------------------------------------------------------------------------
\* The largest of finitely many lags exists, as Max in RingSize needs it to.
LEMMA Bounded ==
    ASSUME NEW n \in Nat, NEW f \in [0 .. n - 1 -> Nat]
    PROVE  \E b \in Nat : \A i \in 0 .. n - 1 : f[i] <= b
<1> DEFINE Bound(k) == \E b \in Nat : \A i \in 0 .. k - 1 : f[i] <= b
           Unbounded == {k \in 0 .. n : ~ Bound(k)}
<1>1. ASSUME Unbounded # {} PROVE FALSE
  <2>1. PICK k \in Unbounded : \A j \in Unbounded : ~ (<<j, k>> \in OpToRel(<, Nat))
    <3>1. Unbounded \subseteq Nat
      OBVIOUS
    <3> HIDE DEF Unbounded
    <3> QED
      BY <1>1, <3>1, NatLessThanWellFounded, WFMin
  <2>2. k # 0
    <3>1. Bound(0)
      <4>1. \A i \in 0 .. 0 - 1 : f[i] <= 0
        OBVIOUS
      <4> QED
        BY <4>1
    <3> QED
      BY <3>1
  <2>3. k \in 1 .. n
    BY <2>2
  <2>4. k - 1 \in 0 .. n /\ k - 1 < k
    BY <2>3
  <2>5. k - 1 \notin Unbounded
    <3>1. <<k - 1, k>> \in OpToRel(<, Nat)
      BY <2>4 DEF OpToRel
    <3> QED
      BY <2>1, <3>1
  <2>6. PICK b \in Nat : \A i \in 0 .. (k - 1) - 1 : f[i] <= b
    BY <2>4, <2>5
  <2>7. k - 1 \in 0 .. n - 1 /\ f[k - 1] \in Nat
    BY <2>3
  <2> DEFINE c == IF f[k - 1] <= b THEN b ELSE f[k - 1]
  <2>8. c \in Nat /\ b <= c /\ f[k - 1] <= c
    BY <2>7
  <2>9. ASSUME NEW i \in 0 .. k - 1 PROVE f[i] <= c
    <3>1. i = k - 1 \/ i \in 0 .. (k - 1) - 1
      BY <2>3
    <3>2. CASE i \in 0 .. (k - 1) - 1
      <4>1. f[i] <= b /\ f[i] \in Nat
        BY <2>3, <2>6, <3>2
      <4> HIDE DEF c
      <4> QED
        BY <2>8, <4>1
    <3> QED
      BY <2>8, <3>1, <3>2
  <2> HIDE DEF c
  <2> QED
    BY <2>8, <2>9
<1>2. n \in 0 .. n
  OBVIOUS
<1> QED
  BY <1>1, <1>2

\* A bounded set of numbers has a greatest one, which Max finds ...
LEMMA MaxExists ==
    ASSUME NEW S \in SUBSET Nat, S # {}, NEW b \in Nat, \A x \in S : x <= b
    PROVE  Max(S) \in S /\ \A x \in S : x <= Max(S)
<1> DEFINE Above == {y \in Nat : \A x \in S : x <= y}
<1>1. PICK m \in Above : \A y \in Above : ~ (<<y, m>> \in OpToRel(<, Nat))
  <2>1. Above \subseteq Nat /\ Above # {}
    OBVIOUS
  <2> HIDE DEF Above
  <2> QED
    BY <2>1, NatLessThanWellFounded, WFMin
<1>2. m \in S
  <2>1. ASSUME m \notin S PROVE FALSE
    <3>1. \A x \in S : x <= m /\ x # m /\ x \in Nat
      BY <2>1
    <3>2. m # 0
      <4>1. PICK x \in S : TRUE
        OBVIOUS
      <4>2. x <= m /\ x # m /\ x \in Nat /\ m \in Nat
        BY <3>1
      <4> QED
        BY <4>2
    <3>3. m - 1 \in Nat /\ m - 1 < m /\ \A x \in S : x <= m - 1
      BY <3>1, <3>2
    <3>4. m - 1 \in Above
      BY <3>3
    <3> QED
      <4>1. <<m - 1, m>> \in OpToRel(<, Nat)
        BY <3>3 DEF OpToRel
      <4> QED
        BY <1>1, <3>4, <4>1
  <2> QED
    BY <2>1
<1>3. \E x \in S : \A y \in S : y <= x
  BY <1>2
<1> QED
  BY <1>3 DEF Max

\* ... and any set of numbers has a least one.
LEMMA MinExists ==
    ASSUME NEW S \in SUBSET Nat, S # {}
    PROVE  Min(S) \in S /\ \A x \in S : Min(S) <= x
<1>1. PICK m \in S : \A y \in S : ~ (<<y, m>> \in OpToRel(<, Nat))
  BY NatLessThanWellFounded, WFMin
<1>2. ASSUME NEW y \in S PROVE m <= y
  <2>1. m \in Nat /\ y \in Nat
    OBVIOUS
  <2>2. ~ (y < m)
    <3>1. ASSUME y < m PROVE <<y, m>> \in OpToRel(<, Nat)
      BY <2>1, <3>1 DEF OpToRel
    <3> QED
      BY <1>1, <3>1
  <2> QED
    BY <2>1, <2>2
<1>3. \E x \in S : \A y \in S : x <= y
  BY <1>2
<1> QED
  BY <1>3 DEF Min

-----------------------------------------------------------------------------
\* The rings of the voice are a family as PortRingFamily takes one.
Rings ==
    INSTANCE PortRingFamily WITH
        Port <- Port, ReadersOf <- LAMBDA o : Readers[o], LagOf <- LAMBDA o : Lag[o],
        SizeOf <- RingSize, RedundantOf <- SameThread, ReadsFirstOf <- SameThreadFirst,
        StartOf <- LAMBDA o : SamplesBefore(o, ExecutionStart),
        StopOf <- LAMBDA o : SamplesBefore(o, ExecutionStop), ring <- ring

\* RingBuffer::expand leaves at least two buffers, and more than any lag.
LEMMA SizeOfRing ==
    ASSUME NEW o \in Port
    PROVE  /\ RingSize(o) \in Nat /\ RingSize(o) >= 2
           /\ \A r \in Reader(o) : Lag[o][r] < RingSize(o)
<1> DEFINE S == {2} \cup {Lag[o][r] + 1 : r \in Reader(o)}
<1>1. Readers[o] \in Nat /\ Lag[o] \in [0 .. Readers[o] - 1 -> Nat]
  BY ServiceAssumption DEF Reader
<1>2. PICK b \in Nat : \A r \in Reader(o) : Lag[o][r] <= b
  BY <1>1, Bounded DEF Reader
<1>3. \A r \in Reader(o) : Lag[o][r] \in Nat
  BY <1>1 DEF Reader
<1>4. \A x \in S : x \in Nat /\ x <= b + 2
  BY <1>2, <1>3
<1>5. RingSize(o) = Max(S)
  BY DEF RingSize
<1>6. 2 \in S /\ \A r \in Reader(o) : Lag[o][r] + 1 \in S
  OBVIOUS
<1> HIDE DEF S
<1>7. b + 2 \in Nat /\ S \in SUBSET Nat /\ S # {}
  BY <1>4, <1>6
<1>8. Max(S) \in S /\ \A x \in S : x <= Max(S)
  BY <1>4, <1>7, MaxExists
<1>9. Max(S) \in Nat /\ 2 <= Max(S) /\ \A r \in Reader(o) : Lag[o][r] + 1 <= Max(S)
  BY <1>6, <1>7, <1>8
<1> QED
  BY <1>3, <1>5, <1>9

\* Each is as module PortRing assumes: large enough for its lags, and its reader
\* that comes no later than its writer has a lag.
LEMMA RingsConfig == ASSUME NEW o \in Port PROVE Rings!Config(o)
<1>1. /\ Readers[o] \in Nat /\ Lag[o] \in [0 .. Readers[o] - 1 -> Nat]
  BY ServiceAssumption DEF Reader
<1>2. SameThread(o) \subseteq 0 .. Readers[o] - 1 /\ SameThreadFirst(o) \subseteq SameThread(o)
  BY DEF SameThread, SameThreadFirst, Reader
<1>3. \A r \in SameThreadFirst(o) : Lag[o][r] > 0
  <2> SUFFICES ASSUME NEW r \in SameThreadFirst(o) PROVE Lag[o][r] > 0
    OBVIOUS
  <2>1. r \in Reader(o) /\ ReaderOf(o, r) <= WriterOf(o)
    BY DEF SameThreadFirst, SameThread
  <2>2. ReaderOf(o, r) \in Nat /\ WriterOf(o) \in Nat
    BY <2>1, ReaderExists, WriterExists, ProcessPorts
  <2>3. Lag[o][r] # 0
    <3>1. Lag[o][r] = 0 => WriterOf(o) < ReaderOf(o, r)
      BY <2>1, ServiceAssumption
    <3> QED
      BY <2>1, <2>2, <3>1
  <2>4. Lag[o][r] \in Nat
    BY <1>1, <2>1 DEF Reader
  <2> QED
    BY <2>3, <2>4
<1>4. SamplesBefore(o, ExecutionStart) \in Nat /\ SamplesBefore(o, ExecutionStop) \in Nat
  BY SamplesNat, ServiceAssumption
<1>5. RingSize(o) \in Nat /\ RingSize(o) >= 2
  BY SizeOfRing
<1>6. \A r \in 0 .. Readers[o] - 1 : Lag[o][r] < RingSize(o)
  BY SizeOfRing DEF Reader
<1> QED
  BY <1>1, <1>2, <1>3, <1>4, <1>5, <1>6 DEF Rings!Config

USE DEF Ring!Reader, Ring!Buffer, Ring!NULL, NULL
USE DEF Rings!Ring!Reader, Rings!Ring!Buffer, Rings!Ring!NULL

\* What is proved of a member of the family holds of the ring of WorkerService.
LEMMA SameInv ==
    ASSUME NEW o \in Port
    PROVE  /\ Rings!Ring(o)!RingInv <=> Ring(o)!RingInv
           /\ (Rings!Ring(o)!RingInv)' <=> (Ring(o)!RingInv)'
<1>1. /\ Rings!Ring(o)!TypeOK <=> Ring(o)!TypeOK
      /\ (Rings!Ring(o)!TypeOK)' <=> (Ring(o)!TypeOK)'
  BY DEF Ring!TypeOK, Rings!Ring!TypeOK
<1>2. /\ Rings!Ring(o)!PhaseInv <=> Ring(o)!PhaseInv
      /\ (Rings!Ring(o)!PhaseInv)' <=> (Ring(o)!PhaseInv)'
  BY DEF Ring!PhaseInv, Rings!Ring!PhaseInv
<1>3. /\ Rings!Ring(o)!PositionInv <=> Ring(o)!PositionInv
      /\ (Rings!Ring(o)!PositionInv)' <=> (Ring(o)!PositionInv)'
  BY DEF Ring!PositionInv, Rings!Ring!PositionInv, Ring!At, Rings!Ring!At,
         Ring!Lead, Rings!Ring!Lead
<1>4. /\ Rings!Ring(o)!SignalInv <=> Ring(o)!SignalInv
      /\ (Rings!Ring(o)!SignalInv)' <=> (Ring(o)!SignalInv)'
  BY DEF Ring!SignalInv, Rings!Ring!SignalInv, Ring!LeadInv, Rings!Ring!LeadInv,
         Ring!AlternatorInv, Rings!Ring!AlternatorInv, Ring!Lead, Rings!Ring!Lead,
         Ring!Released, Rings!Ring!Released, Ring!AgeFor, Rings!Ring!AgeFor,
         Ring!Age, Rings!Ring!Age, Ring!WriterHolds, Rings!Ring!WriterHolds,
         Ring!ReaderHolds, Rings!Ring!ReaderHolds
<1>5. /\ Rings!Ring(o)!TurnInv <=> Ring(o)!TurnInv
      /\ (Rings!Ring(o)!TurnInv)' <=> (Ring(o)!TurnInv)'
  BY DEF Ring!TurnInv, Rings!Ring!TurnInv, Ring!WriterBegun, Rings!Ring!WriterBegun,
         Ring!Begun, Rings!Ring!Begun
<1>6. /\ Rings!Ring(o)!ContentsInv <=> Ring(o)!ContentsInv
      /\ (Rings!Ring(o)!ContentsInv)' <=> (Ring(o)!ContentsInv)'
  BY DEF Ring!ContentsInv, Rings!Ring!ContentsInv, Ring!Content, Rings!Ring!Content,
         Ring!Initial, Rings!Ring!Initial, Ring!Age, Rings!Ring!Age
<1> QED
  BY <1>1, <1>2, <1>3, <1>4, <1>5, <1>6 DEF Ring!RingInv, Rings!Ring!RingInv

\* A step of a ring here is a step of it there.
LEMMA SameNext ==
    ASSUME NEW o \in Port, [Ring(o)!Next]_(Ring(o)!vars)
    PROVE  [Rings!Ring(o)!Next]_(Rings!Ring(o)!vars)
<1>1. ASSUME NEW r \in Ring(o)!Reader, Ring(o)!WriteLock(r) PROVE Rings!Ring(o)!WriteLock(r)
  BY <1>1 DEF Ring!WriteLock, Rings!Ring!WriteLock, Ring!InTurnToWrite,
              Rings!Ring!InTurnToWrite, Ring!Begun, Rings!Ring!Begun
<1>2. ASSUME NEW r \in Ring(o)!Reader, Ring(o)!WriteRelease(r)
      PROVE  Rings!Ring(o)!WriteRelease(r)
  BY <1>2 DEF Ring!WriteRelease, Rings!Ring!WriteRelease, Ring!InTurnToPublish,
              Rings!Ring!InTurnToPublish
<1>3. ASSUME NEW r \in Ring(o)!Reader, Ring(o)!ReadLock(r) PROVE Rings!Ring(o)!ReadLock(r)
  BY <1>3 DEF Ring!ReadLock, Rings!Ring!ReadLock, Ring!InTurnToRead,
              Rings!Ring!InTurnToRead
<1>4. ASSUME NEW r \in Ring(o)!Reader, Ring(o)!ReadRelease(r)
      PROVE  Rings!Ring(o)!ReadRelease(r)
  BY <1>4 DEF Ring!ReadRelease, Rings!Ring!ReadRelease, Ring!Down, Rings!Ring!Down
<1>5. Ring(o)!WriteLocked => Rings!Ring(o)!WriteLocked
  BY DEF Ring!WriteLocked, Rings!Ring!WriteLocked
<1>6. Ring(o)!Fill => Rings!Ring(o)!Fill
  BY DEF Ring!Fill, Rings!Ring!Fill
<1>7. Ring(o)!WriteReleased => Rings!Ring(o)!WriteReleased
  BY DEF Ring!WriteReleased, Rings!Ring!WriteReleased, Ring!InTurnToPublish,
         Rings!Ring!InTurnToPublish, Ring!Down, Rings!Ring!Down
<1>8. UNCHANGED (Ring(o)!vars) => UNCHANGED (Rings!Ring(o)!vars)
  BY DEF Ring!vars, Rings!Ring!vars
<1> QED
  BY <1>1, <1>2, <1>3, <1>4, <1>5, <1>6, <1>7, <1>8
     DEF Ring!Next, Ring!Writer, Rings!Ring!Next, Rings!Ring!Writer

\* Every step of a ring keeps the ring's invariant, ...
LEMMA RingStep ==
    ASSUME NEW o \in Port, Ring(o)!RingInv, [Ring(o)!Next]_(Ring(o)!vars)
    PROVE  (Ring(o)!RingInv)'
BY RingsConfig, SameInv, SameNext, Rings!RingStep

\* ... which says that a reader holds the sample its lag calls for.
LEMMA RingFresh ==
    ASSUME NEW o \in Port, Ring(o)!RingInv PROVE Ring(o)!FreshSample
<1>1. Rings!Ring(o)!FreshSample => Ring(o)!FreshSample
  BY DEF Ring!FreshSample, Rings!Ring!FreshSample, Ring!Content, Rings!Ring!Content,
         Ring!Initial, Rings!Ring!Initial
<1> QED
  BY <1>1, RingsConfig, SameInv, Rings!RingInvFresh

\* A ring that starts here starts there.
LEMMA SameInit ==
    ASSUME NEW o \in Port, Ring(o)!Init PROVE Rings!Ring(o)!Init
<1> DEFINE n == RingSize(o)
           s == SamplesBefore(o, ExecutionStart)
<1>1. /\ Ring(o)!WriteBufferAfter(s, n) = Rings!Ring(o)!WriteBufferAfter(s, n)
      /\ \A l : Ring(o)!ReadBufferAfter(s, l, n) = Rings!Ring(o)!ReadBufferAfter(s, l, n)
  BY DEF Ring!WriteBufferAfter, Rings!Ring!WriteBufferAfter, Ring!ReadBufferAfter,
         Rings!Ring!ReadBufferAfter
<1>2. \A c, w, b : Ring(o)!StartsWriteReady(c, w, b, n)
                     <=> Rings!Ring(o)!StartsWriteReady(c, w, b, n)
  BY DEF Ring!StartsWriteReady, Rings!Ring!StartsWriteReady, Ring!SamplesTill,
         Rings!Ring!SamplesTill
<1>3. \A w, b : Ring(o)!Content(s - Ring(o)!Age(w, b))
                  = Rings!Ring(o)!Content(s - Rings!Ring(o)!Age(w, b))
  BY DEF Ring!Content, Rings!Ring!Content, Ring!Initial, Rings!Ring!Initial, Ring!Age,
         Rings!Ring!Age
<1> QED
  BY <1>1, <1>2, <1>3 DEF Ring!Init, Rings!Ring!Init

\* A ring is set up as module PortRing starts it, for a fresh or resumed start.
LEMMA FreshRingInit ==
    ASSUME NEW o \in Port, ring[o] = FreshRing(o) PROVE Ring(o)!Init
<1> DEFINE n == RingSize(o)
           s == SamplesBefore(o, ExecutionStart)
           w == WriteBufferAfter(s, n)
<1>1. /\ s \in Nat /\ n \in Nat /\ n >= 2
  BY SizeOfRing, SamplesNat, ServiceAssumption
<1>2. w \in 0 .. n - 1
  <2> DEFINE q == s % n
  <2>1. q \in 0 .. n - 1
    BY <1>1, Divide
  <2>2. w = IF -q < 0 THEN -q + n ELSE -q
    BY DEF WriteBufferAfter
  <2> HIDE DEF q, w, n, s
  <2> QED
    BY <1>1, <2>1, <2>2
<1>3. /\ w = Ring(o)!WriteBufferAfter(s, n)
      /\ \A l : ReadBufferAfter(s, l, n) = Ring(o)!ReadBufferAfter(s, l, n)
      /\ \A c, b : StartsWriteReady(c, w, b, n) <=> Ring(o)!StartsWriteReady(c, w, b, n)
  BY DEF WriteBufferAfter, Ring!WriteBufferAfter, ReadBufferAfter, Ring!ReadBufferAfter,
         StartsWriteReady, Ring!StartsWriteReady, SamplesTill, Ring!SamplesTill
<1>4. \A b \in 0 .. n - 1 : SamplesTill(b, w, n) + (IF b = w THEN n ELSE 0) = Ring(o)!Age(w, b)
  <2> SUFFICES ASSUME NEW b \in 0 .. n - 1
               PROVE  SamplesTill(b, w, n) + (IF b = w THEN n ELSE 0) = Ring(o)!Age(w, b)
    OBVIOUS
  <2>1. /\ SamplesTill(b, w, n) = IF b - w < 0 THEN b - w + n ELSE b - w
        /\ Ring(o)!Age(w, b) = IF b > w THEN b - w ELSE b - w + n
    BY DEF SamplesTill, Ring!Age
  <2> HIDE DEF w, n, s
  <2> QED
    BY <1>1, <1>2, <2>1
<1>5. \A b \in 0 .. n - 1 :
         Content(s - SamplesTill(b, w, n) - (IF b = w THEN n ELSE 0))
             = Ring(o)!Content(s - Ring(o)!Age(w, b))
  <2> SUFFICES ASSUME NEW b \in 0 .. n - 1
               PROVE  Content(s - SamplesTill(b, w, n) - (IF b = w THEN n ELSE 0))
                          = Ring(o)!Content(s - Ring(o)!Age(w, b))
    OBVIOUS
  <2> DEFINE x == SamplesTill(b, w, n)
             y == IF b = w THEN n ELSE 0
             a == Ring(o)!Age(w, b)
  <2>1. x + y = a
    BY <1>4
  <2>2. x \in Int /\ y \in Int
    BY <1>1, <1>2 DEF SamplesTill
  <2> HIDE DEF x, y, a, s
  <2>3. s - x - y = s - a
    BY <1>1, <2>1, <2>2
  <2> QED
    BY <2>3 DEF Content, Ring!Content, Ring!Initial, x, y, a
<1> QED
  BY <1>3, <1>5 DEF FreshRing, Ring!Init, Reader

\* The rings Process::progress sets up satisfy the invariant, resumed or not.
LEMMA FreshRingInv ==
    ASSUME NEW o \in Port, ring[o] = FreshRing(o) PROVE Ring(o)!Init /\ Ring(o)!RingInv
BY RingsConfig, FreshRingInit, SameInit, SameInv, Rings!InitRingInv

-----------------------------------------------------------------------------
\* The invariant of a port as it reads in the next state.
LEMMA InputInvNext ==
    ASSUME NEW p \in Process, NEW i \in DOMAIN Inputs[p]
    PROVE  LET o == Inputs[p][i][1]
               r == Inputs[p][i][2]
               w == WorkerOf(p)
               dueNow == IsDue(o, timeNow'[w])
           IN InputInv(p, i)' <=>
                /\ ring'[o].dueData[r] # NULL <=> dueNow /\ Held(Stage(p)', due'[w], i)
                /\ ring'[o].consumed[r] = SamplesBefore(o, now'[p])
                      + (IF dueNow /\ Read(Stage(p)', due'[w], i) THEN 1 ELSE 0)
BY DEF InputInv

\* The same of an output.
LEMMA OutputInvNext ==
    ASSUME NEW p \in Process, NEW i \in DOMAIN Outputs[p]
    PROVE  LET o == Outputs[p][i]
               w == WorkerOf(p)
               dueNow == IsDue(o, timeNow'[w])
           IN OutputInv(p, i)' <=>
                /\ ring'[o].wpc = IF dueNow THEN PhaseAt(Stage(p)', due'[w], i) ELSE "lock"
                /\ ring'[o].windex # 0 => /\ pc'[w] \in {"writeLock", "writeRelease"}
                                          /\ Current(w)' = p
                                          /\ i \in FirstOf(DueOutputs(w)')
                /\ ring'[o].written = SamplesBefore(o, now'[p])
                      + (IF dueNow /\ Wrote(Stage(p)', due'[w], i) THEN 1 ELSE 0)
BY DEF OutputInv, FirstOf

\* What a step leaves alone.
InputSame(o, r) == /\ ring'[o].dueData[r] = ring[o].dueData[r]
                   /\ ring'[o].consumed[r] = ring[o].consumed[r]

OutputSame(o) == /\ ring'[o].wpc = ring[o].wpc
                 /\ ring'[o].windex = ring[o].windex
                 /\ ring'[o].written = ring[o].written

InputsSame(p) ==
    \A i \in DOMAIN Inputs[p] : InputSame(Inputs[p][i][1], Inputs[p][i][2])

OutputsSame(p) == \A i \in DOMAIN Outputs[p] : OutputSame(Outputs[p][i])

PlaceSame(w) == /\ pc'[w] = pc[w] /\ turn'[w] = turn[w]
                /\ due'[w] = due[w] /\ timeNow'[w] = timeNow[w]

\* Only worker v and its processes are touched.
OnlyOf(v) ==
    /\ \A w \in Worker : w # v => PlaceSame(w)
    /\ \A p \in Process : WorkerOf(p) # v =>
           now'[p] = now[p] /\ InputsSame(p) /\ OutputsSame(p)
    /\ endRunPhase => endRunPhase'

RingSteps == \A o \in Port : [Ring(o)!Next]_(Ring(o)!vars)

\* The process a worker is servicing, and the others of the worker.
LEMMA AtService ==
    ASSUME TypeOK, NEW w \in Worker, WorkerInv(w), pc[w] \in Serving
    PROVE  /\ InLoop(w) /\ TimeInv(w) /\ timeNow[w] < ExecutionStop
           /\ turn[w] \in DOMAIN Processes[w]
           /\ Current(w) \in Process /\ WorkerOf(Current(w)) = w
           /\ Stage(Current(w)) = pc[w] /\ now[Current(w)] = timeNow[w]
           /\ \A q \in Process : WorkerOf(q) = w /\ q # Current(w) => Stage(q) = "idle"
<1>1. InLoop(w)
  BY DEF InLoop, Serving
<1>2. turn[w] \in DOMAIN Processes[w]
  BY DEF WorkerInv
<1>3. Current(w) \in Process /\ WorkerOf(Current(w)) = w
  BY <1>2, ProcessOfWorker DEF Current
<1> QED
  BY <1>1, <1>2, <1>3 DEF WorkerInv, Stage

\* A worker that services nothing leaves all its processes idle.
LEMMA StageNotServing ==
    /\ \A p \in Process : pc[WorkerOf(p)] \notin Serving => Stage(p) = "idle"
    /\ \A p \in Process : pc'[WorkerOf(p)] \notin Serving => Stage(p)' = "idle"
BY DEF Stage

\* The stage of a process after a step that leaves its worker where it was.
LEMMA StageNext ==
    ASSUME NEW p \in Process, turn'[WorkerOf(p)] = turn[WorkerOf(p)]
    PROVE  /\ Current(WorkerOf(p))' = Current(WorkerOf(p))
           /\ Stage(p)' = IF /\ pc'[WorkerOf(p)] \in Serving
                             /\ Current(WorkerOf(p)) = p
                          THEN pc'[WorkerOf(p)] ELSE "idle"
BY DEF Stage, Current

\* A process that is not being serviced: nothing of it depends on its worker.
LEMMA IdleStays ==
    ASSUME NEW p \in Process, ProcessInv(p), InLoop(WorkerOf(p)),
           Stage(p) = "idle", Stage(p)' = "idle",
           now'[p] = now[p], InputsSame(p), OutputsSame(p)
    PROVE  ProcessInv(p)'
<1>1. ASSUME NEW i \in DOMAIN Inputs[p] PROVE InputInv(p, i)'
  <2>1. InputInv(p, i) /\ InputSame(Inputs[p][i][1], Inputs[p][i][2])
    BY DEF ProcessInv, InputsSame
  <2> QED
    BY <2>1, InputInvNext DEF InputInv, InputSame, Held, Read
<1>2. ASSUME NEW i \in DOMAIN Outputs[p] PROVE OutputInv(p, i)'
  <2>1. OutputInv(p, i) /\ OutputSame(Outputs[p][i])
    BY DEF ProcessInv, OutputsSame
  <2>2. ring[Outputs[p][i]].windex = 0
    BY <2>1 DEF OutputInv, Stage, Serving
  <2> QED
    BY <2>1, <2>2, OutputInvNext DEF OutputInv, OutputSame, PhaseAt, Wrote
<1> QED
  BY <1>1, <1>2 DEF ProcessInv

\* A process whose worker and ports a step leaves alone.
LEMMA OtherProcess ==
    ASSUME NEW p \in Process, ProcessInv(p), PlaceSame(WorkerOf(p)),
           now'[p] = now[p], InputsSame(p), OutputsSame(p)
    PROVE  ProcessInv(p)'
<1> DEFINE w == WorkerOf(p)
<1>1. Stage(p)' = Stage(p) /\ Current(w)' = Current(w)
  BY DEF Stage, Current, PlaceSame
<1>2. InLoop(w)' <=> InLoop(w)
  BY DEF InLoop, PlaceSame
<1>3. ASSUME InLoop(w), NEW i \in DOMAIN Inputs[p] PROVE InputInv(p, i)'
  <2>1. InputInv(p, i) /\ InputSame(Inputs[p][i][1], Inputs[p][i][2])
    BY <1>3 DEF ProcessInv, InputsSame
  <2> QED
    BY <1>1, <2>1, InputInvNext DEF InputInv, InputSame, PlaceSame
<1>4. ASSUME InLoop(w), NEW i \in DOMAIN Outputs[p] PROVE OutputInv(p, i)'
  <2>1. OutputInv(p, i) /\ OutputSame(Outputs[p][i])
    BY <1>4 DEF ProcessInv, OutputsSame
  <2>2. DueOutputs(w)' = DueOutputs(w)
    BY <1>1 DEF DueOutputs, Output, PlaceSame
  <2> QED
    BY <1>1, <2>1, <2>2, OutputInvNext DEF OutputInv, OutputSame, PlaceSame
<1> QED
  BY <1>2, <1>3, <1>4 DEF ProcessInv

\* A process that is done stays so while nothing touches it.
LEMMA DoneStays ==
    ASSUME NEW p \in Process, Done(p), now'[p] = now[p], InputsSame(p), OutputsSame(p)
    PROVE  Done(p)'
<1>1. \A i \in ToSet(Inputs[p]) : InputSame(i[1], i[2])
  BY DEF InputsSame, ToSet
<1>2. \A o \in ToSet(Outputs[p]) : OutputSame(o)
  BY DEF OutputsSame, ToSet
<1> QED
  BY <1>1, <1>2 DEF Done, InputSame, OutputSame

\* A worker that a step leaves alone, and its processes with it.
LEMMA OtherWorker ==
    ASSUME NEW w \in Worker, WorkerInv(w), PlaceSame(w), endRunPhase => endRunPhase',
           \A p \in Process : WorkerOf(p) = w =>
               now'[p] = now[p] /\ InputsSame(p) /\ OutputsSame(p)
    PROVE  WorkerInv(w)'
<1>0. \A j \in DOMAIN Processes[w] : /\ Processes[w][j] \in Process
                                     /\ WorkerOf(Processes[w][j]) = w
  BY ProcessOfWorker
<1>1. ASSUME InLoop(w) PROVE TimeInv(w)'
  <2>1. \A j \in DOMAIN Processes[w] : TimeAt(w, j)' = TimeAt(w, j)
    BY DEF TimeAt, PlaceSame
  <2> QED
    BY <1>0, <1>1, <2>1 DEF WorkerInv, TimeInv, PlaceSame
<1>2. ASSUME pc[w] \in Serving PROVE now'[Current(w)'] = now[Current(w)]
  BY <1>0, <1>2 DEF WorkerInv, Current, PlaceSame
<1>3. ASSUME NEW p \in ToSet(Processes[w]), Done(p) PROVE Done(p)'
  <2>1. p \in Process /\ WorkerOf(p) = w
    BY <1>0 DEF ToSet
  <2> QED
    BY <1>3, <2>1, DoneStays
<1>4. InLoop(w)' <=> InLoop(w)
  BY DEF InLoop, PlaceSame
<1> QED
  BY <1>1, <1>2, <1>3, <1>4 DEF WorkerInv, PlaceSame

\* What a step of worker v does not disturb: all other workers and their processes.
LEMMA Others ==
    ASSUME ServiceInv, NEW v \in Worker, OnlyOf(v)
    PROVE  /\ \A w \in Worker : w # v => WorkerInv(w)'
           /\ \A p \in Process : WorkerOf(p) # v => ProcessInv(p)'
<1>1. ASSUME NEW w \in Worker, w # v PROVE WorkerInv(w)'
  <2>1. WorkerInv(w) /\ PlaceSame(w) /\ (endRunPhase => endRunPhase')
    BY <1>1 DEF ServiceInv, OnlyOf
  <2>2. \A p \in Process : WorkerOf(p) = w =>
            now'[p] = now[p] /\ InputsSame(p) /\ OutputsSame(p)
    BY <1>1 DEF OnlyOf
  <2> QED
    BY <2>1, <2>2, OtherWorker
<1>2. ASSUME NEW p \in Process, WorkerOf(p) # v PROVE ProcessInv(p)'
  <2>1. ProcessInv(p) /\ now'[p] = now[p] /\ InputsSame(p) /\ OutputsSame(p)
    BY <1>2 DEF ServiceInv, OnlyOf
  <2>2. PlaceSame(WorkerOf(p))
    BY <1>2, WorkerOfProcess DEF OnlyOf
  <2> QED
    BY <2>1, <2>2, OtherProcess
<1> QED
  BY <1>1, <1>2

\* The parts of TypeOK that are not the ring's own.
LoopTypes ==
    /\ pc \in [Worker -> Label]
    /\ turn \in [Worker -> Nat] /\ due \in [Worker -> Nat \ {0}]
    /\ timeNow \in [Worker -> Nat]
    /\ now \in [Process -> Nat]
    /\ endRunPhase \in BOOLEAN
    /\ \A w \in Worker : turn[w] \in 1 .. Len(Processes[w]) + 1

RingShape == DOMAIN ring = Port /\ \A o \in Port : DOMAIN ring[o] = RingFields

\* What is left to show of a step of worker v.
LEMMA StepOf ==
    ASSUME ServiceInv, NEW v \in Worker, OnlyOf(v), LoopTypes', RingShape', RingSteps,
           WorkerInv(v)', \A p \in Process : WorkerOf(p) = v => ProcessInv(p)'
    PROVE  ServiceInv'
<1>1. \A o \in Port : (Ring(o)!RingInv)'
  BY RingStep DEF ServiceInv, RingSteps
<1>2. \A o \in Port : (Ring(o)!TypeOK)'
  BY <1>1 DEF Ring!RingInv
<1>3. TypeOK'
  BY <1>2 DEF TypeOK, LoopTypes, RingShape
<1> QED
  BY <1>1, <1>3, Others DEF ServiceInv

\* TypeOK in the parts that proofs use.
LEMMA Types == ASSUME TypeOK PROVE LoopTypes /\ RingShape
BY DEF TypeOK, LoopTypes, RingShape

\* A step that changes no ring is a stutter of each.
LEMMA RingsSame ==
    ASSUME UNCHANGED ring
    PROVE  /\ RingSteps /\ (RingShape => RingShape')
           /\ \A p \in Process : InputsSame(p) /\ OutputsSame(p)
<1>1. RingSteps
  BY DEF RingSteps, Ring!vars
<1> QED
  BY <1>1 DEF RingShape, InputsSame, InputSame, OutputsSame, OutputSame

-----------------------------------------------------------------------------
\* Steps of the loop that touch no ring.
LEMMA Leaves ==
    ASSUME ServiceInv, NEW v \in Worker, OnlyOf(v), LoopTypes', RingShape', RingSteps,
           pc'[v] = "catch" \/ (pc'[v] = "exit" /\ endRunPhase')
    PROVE  ServiceInv'
<1>1. WorkerInv(v)'
  BY DEF WorkerInv, InLoop, Serving
<1>2. \A p \in Process : WorkerOf(p) = v => ProcessInv(p)'
  BY DEF ProcessInv, InLoop
<1> QED
  BY <1>1, <1>2, StepOf

\* Entering the loop: only processes without ports get another time.
LEMMA EnterStep ==
    ASSUME ServiceInv, NEW v \in Worker, Enter(v) PROVE ServiceInv' /\ RingSteps
<1>0. TypeOK /\ WorkerInv(v) /\ LoopTypes /\ RingShape
  BY Types DEF ServiceInv
<1>1. /\ RingSteps /\ RingShape' /\ \A p \in Process : InputsSame(p) /\ OutputsSame(p)
  BY <1>0, RingsSame DEF Enter
<1>2. ASSUME NEW p \in Process, WorkerOf(p) # v \/ HasPorts(p) PROVE now'[p] = now[p]
  <2>1. p \in ToSet(Processes[v]) => WorkerOf(p) = v
    BY ProcessOfWorker DEF ToSet
  <2> QED
    BY <1>2, <2>1 DEF Enter, HasPorts
<1>3. ASSUME NEW j \in DOMAIN Processes[v], ~ HasPorts(Processes[v][j])
      PROVE  now'[Processes[v][j]] = ExecutionStop
  <2>1. Processes[v][j] \in Process /\ Processes[v][j] \in ToSet(Processes[v])
    BY ProcessOfWorker DEF ToSet
  <2> QED
    BY <1>3, <2>1 DEF Enter, HasPorts
<1>4. pc' = [pc EXCEPT ![v] = "top"] /\ pc'[v] = "top" /\ pc[v] = "enter"
  BY <1>0 DEF Enter, Goto, LoopTypes
<1>5. OnlyOf(v)
  BY <1>0, <1>1, <1>2, <1>4 DEF OnlyOf, PlaceSame, Enter, LoopTypes
<1>6. now' \in [Process -> Nat]
  BY <1>0, ServiceAssumption DEF Enter, LoopTypes
<1>7. LoopTypes'
  BY <1>0, <1>4, <1>6 DEF Enter, LoopTypes, Label
<1>8. WorkerInv(v)'
  <2>1. TimeInv(v)'
    <3>1. TimeInv(v)
      BY <1>0, <1>4 DEF WorkerInv, InLoop
    <3>2. \A j : TimeAt(v, j)' = TimeAt(v, j)
      BY DEF TimeAt, Enter
    <3>3. \A j \in DOMAIN Processes[v] :
              HasPorts(Processes[v][j]) => now'[Processes[v][j]] = now[Processes[v][j]]
      BY <1>2, ProcessOfWorker
    <3> QED
      BY <1>3, <3>1, <3>2, <3>3 DEF TimeInv
  <2> QED
    BY <1>0, <1>4, <2>1 DEF WorkerInv, InLoop, Serving, Enter
<1>9. ASSUME NEW p \in Process, WorkerOf(p) = v PROVE ProcessInv(p)'
  <2>1. InLoop(v) /\ Stage(p) = "idle" /\ Stage(p)' = "idle"
    BY <1>4, <1>9, StageNotServing DEF InLoop, Serving
  <2>2. CASE HasPorts(p)
    BY <1>1, <1>2, <1>9, <2>1, <2>2, IdleStays DEF ServiceInv
  <2>3. CASE ~ HasPorts(p)
    BY <2>3 DEF ProcessInv, HasPorts
  <2> QED
    BY <2>2, <2>3
<1> QED
  BY <1>1, <1>5, <1>7, <1>8, <1>9, StepOf

\* Going round: the worker's time becomes the earliest of its processes', so none is
\* passed over, and at the execution stop all of them are done.
LEMMA TopStep ==
    ASSUME ServiceInv, NEW v \in Worker, Top(v) PROVE ServiceInv' /\ RingSteps
<1> DEFINE S == {ExecutionStop} \cup {now[p] : p \in ToSet(Processes[v])}
           t == Min(S)
<1>0. TypeOK /\ WorkerInv(v) /\ LoopTypes /\ RingShape
  BY Types DEF ServiceInv
<1>1. /\ RingSteps /\ RingShape' /\ \A p \in Process : InputsSame(p) /\ OutputsSame(p)
  BY <1>0, RingsSame DEF Top
<1>2. \A j \in DOMAIN Processes[v] : Processes[v][j] \in ToSet(Processes[v])
  BY DEF ToSet
<1>3. \A p \in ToSet(Processes[v]) : p \in Process /\ WorkerOf(p) = v
  BY ProcessOfWorker DEF ToSet
<1>4. t \in S /\ t \in Nat /\ t <= ExecutionStop /\ \A p \in ToSet(Processes[v]) : t <= now[p]
  <2>1. S \in SUBSET Nat /\ S # {}
    BY <1>0, <1>3, ServiceAssumption DEF LoopTypes
  <2>2. ExecutionStop \in S /\ \A p \in ToSet(Processes[v]) : now[p] \in S
    OBVIOUS
  <2> HIDE DEF S
  <2>3. t \in S /\ \A x \in S : t <= x
    BY <2>1, MinExists
  <2> QED
    BY <2>1, <2>2, <2>3
<1>5. /\ pc[v] = "top" /\ now' = now /\ endRunPhase' = endRunPhase
      /\ timeNow' = [timeNow EXCEPT ![v] = t] /\ turn' = [turn EXCEPT ![v] = 1]
      /\ due' = due
      /\ pc' = [pc EXCEPT ![v] = IF t >= ExecutionStop THEN "exit" ELSE "each"]
  BY DEF Top, Goto
<1> HIDE DEF t
<1>6. OnlyOf(v)
  BY <1>0, <1>1, <1>5 DEF OnlyOf, PlaceSame, LoopTypes
<1>7. LoopTypes'
  <2>1. turn'[v] \in 1 .. Len(Processes[v]) + 1
    <3>1. Len(Processes[v]) \in Nat
      BY ServiceAssumption
    <3> QED
      BY <1>0, <1>5, <3>1 DEF LoopTypes
  <2> QED
    BY <1>0, <1>4, <1>5, <2>1 DEF LoopTypes, Label
<1>8. TimeInv(v) /\ ExecutionStart <= timeNow[v] /\ InLoop(v) /\ timeNow[v] \in Nat
  BY <1>0, <1>5 DEF WorkerInv, InLoop, LoopTypes
<1> DEFINE u == IF turn[v] = 1 THEN timeNow[v] ELSE timeNow[v] + 1
<1>u. u \in Nat /\ timeNow[v] <= u
  BY <1>8
<1>v. \A j \in DOMAIN Processes[v] : TimeAt(v, j) = u
  <2> SUFFICES ASSUME NEW j \in DOMAIN Processes[v] PROVE TimeAt(v, j) = u
    OBVIOUS
  <2>1. j \in 1 .. Len(Processes[v]) /\ Len(Processes[v]) \in Nat
    BY ProcessOfWorker
  <2>2. turn[v] = 1 \/ turn[v] = Len(Processes[v]) + 1
    BY <1>0, <1>5 DEF WorkerInv
  <2>3. j < turn[v] <=> turn[v] # 1
    BY <2>1, <2>2
  <2> QED
    BY <2>3 DEF TimeAt
<1> HIDE DEF u
<1>9. ASSUME NEW p \in ToSet(Processes[v]), HasPorts(p)
      PROVE  /\ now[p] \in Nat /\ u <= now[p] /\ now[p] <= ExecutionEnd
             /\ \A o \in PortsOf(p) : SamplesBefore(o, now[p]) = SamplesBefore(o, u)
  <2>1. PICK j \in DOMAIN Processes[v] : Processes[v][j] = p
    BY DEF ToSet
  <2>2. /\ TimeAt(v, j) <= now[p] /\ now[p] <= ExecutionEnd
        /\ \A o \in PortsOf(p) : SamplesBefore(o, now[p]) = SamplesBefore(o, TimeAt(v, j))
    BY <1>8, <1>9, <2>1 DEF TimeInv
  <2>3. now[p] \in Nat
    BY <1>0, <1>3 DEF LoopTypes
  <2> QED
    BY <1>v, <2>2, <2>3
<1> QED
  <2>1. CASE t >= ExecutionStop
    <3>1. pc'[v] = "exit"
      BY <1>0, <1>5, <2>1 DEF LoopTypes
    <3>2. ASSUME NEW p \in ToSet(Processes[v]) PROVE Done(p)'
      <4>1. ASSUME HasPorts(p) PROVE now[p] = ExecutionEnd
        <5>1. /\ now[p] \in Nat /\ u <= now[p] /\ now[p] <= ExecutionEnd
              /\ t <= now[p]
          BY <1>4, <1>9, <4>1
        <5>2. ExecutionStart \in Nat /\ ExecutionStop \in Nat
          BY ServiceAssumption
        <5> QED
          BY <1>4, <1>8, <1>u, <2>1, <5>1, <5>2 DEF ExecutionEnd
      <4>2. Stage(p) = "idle" /\ ProcessInv(p) /\ WorkerOf(p) = v
        BY <1>3, <1>5, StageNotServing DEF ServiceInv, Serving
      <4>3. \A i \in DOMAIN Inputs[p] :
                ring[Inputs[p][i][1]].consumed[Inputs[p][i][2]]
                    = SamplesBefore(Inputs[p][i][1], now[p])
        <5> SUFFICES ASSUME NEW i \in DOMAIN Inputs[p]
                     PROVE  ring[Inputs[p][i][1]].consumed[Inputs[p][i][2]]
                                = SamplesBefore(Inputs[p][i][1], now[p])
          OBVIOUS
        <5>1. InputInv(p, i)
          BY <1>8, <4>2 DEF ProcessInv
        <5>2. SamplesBefore(Inputs[p][i][1], now[p]) \in Nat
          BY <1>0, <1>3, ProcessPorts, SamplesNat DEF LoopTypes
        <5> QED
          BY <4>2, <5>1, <5>2 DEF InputInv, Read
      <4>4. \A i \in DOMAIN Outputs[p] :
                ring[Outputs[p][i]].written = SamplesBefore(Outputs[p][i], now[p])
        <5> SUFFICES ASSUME NEW i \in DOMAIN Outputs[p]
                     PROVE  ring[Outputs[p][i]].written = SamplesBefore(Outputs[p][i], now[p])
          OBVIOUS
        <5>1. OutputInv(p, i)
          BY <1>8, <4>2 DEF ProcessInv
        <5>2. SamplesBefore(Outputs[p][i], now[p]) \in Nat
          BY <1>0, <1>3, ProcessPorts, SamplesNat DEF LoopTypes
        <5> QED
          BY <4>2, <5>1, <5>2 DEF OutputInv, Wrote
      <4>5. /\ \A i \in DOMAIN Inputs[p] : HasPorts(p)
            /\ \A i \in DOMAIN Outputs[p] : HasPorts(p)
        BY DEF HasPorts
      <4>6. Done(p)
        BY <4>1, <4>3, <4>4, <4>5 DEF Done, ToSet
      <4> QED
        BY <1>1, <1>3, <1>5, <4>6, DoneStays
    <3>3. WorkerInv(v)'
      BY <3>1, <3>2 DEF WorkerInv, InLoop, Serving
    <3>4. \A p \in Process : WorkerOf(p) = v => ProcessInv(p)'
      BY <3>1 DEF ProcessInv, InLoop
    <3> QED
      BY <1>1, <1>6, <1>7, <3>3, <3>4, StepOf
  <2>2. CASE t < ExecutionStop
    <3>1. pc'[v] = "each" /\ timeNow'[v] = t /\ turn'[v] = 1
      <4>1. ExecutionStop \in Nat
        BY ServiceAssumption
      <4> QED
        BY <1>0, <1>4, <1>5, <2>2, <4>1 DEF LoopTypes
    <3>2. \A j \in DOMAIN Processes[v] : TimeAt(v, j)' = t
      <4>1. \A j \in DOMAIN Processes[v] : j \in Nat /\ j >= 1
        BY ProcessOfWorker
      <4>2. \A j \in DOMAIN Processes[v] : ~ (j < 1)
        BY <4>1
      <4> QED
        BY <3>1, <4>2 DEF TimeAt
    <3>3. u <= t
      <4>1. PICK p \in ToSet(Processes[v]) : t = now[p]
        BY <1>4, <2>2
      <4>2. HasPorts(p)
        <5>1. PICK j \in DOMAIN Processes[v] : Processes[v][j] = p
          BY DEF ToSet
        <5>2. ~ HasPorts(p) => now[p] = ExecutionStop
          BY <1>5, <1>8, <5>1 DEF TimeInv
        <5>3. now[p] < ExecutionStop /\ ExecutionStop \in Nat /\ now[p] \in Nat
          BY <1>4, <2>2, <4>1, ServiceAssumption
        <5> QED
          BY <5>2, <5>3
      <4> QED
        BY <1>9, <4>1, <4>2
    <3>4. ASSUME NEW j \in DOMAIN Processes[v], HasPorts(Processes[v][j]),
                 NEW o \in PortsOf(Processes[v][j])
          PROVE  SamplesBefore(o, now[Processes[v][j]]) = SamplesBefore(o, t)
      <4> DEFINE p == Processes[v][j]
                 n == now[p]
      <4>1. p \in ToSet(Processes[v]) /\ p \in Process /\ HasPorts(p) /\ o \in PortsOf(p)
        BY <1>2, <1>3, <3>4
      <4>2. n \in Nat /\ t <= n /\ o \in Port /\ SamplesBefore(o, n) = SamplesBefore(o, u)
        BY <1>4, <1>9, <4>1, ProcessPorts
      <4> HIDE DEF p
      <4>3. SamplesBefore(o, u) <= SamplesBefore(o, t)
               /\ SamplesBefore(o, t) <= SamplesBefore(o, n)
        BY <1>4, <1>u, <3>3, <4>2, SamplesMonotone
      <4>4. SamplesBefore(o, t) \in Nat /\ SamplesBefore(o, u) \in Nat
        BY <1>4, <1>u, <4>2, SamplesNat
      <4> QED
        BY <4>2, <4>3, <4>4 DEF p
    <3>5. TimeInv(v)'
      <4>1. ASSUME NEW j \in DOMAIN Processes[v], HasPorts(Processes[v][j])
            PROVE  t <= now[Processes[v][j]] /\ now[Processes[v][j]] <= ExecutionEnd
        BY <1>2, <1>4, <1>9, <4>1
      <4>2. ASSUME NEW j \in DOMAIN Processes[v], ~ HasPorts(Processes[v][j])
            PROVE  now[Processes[v][j]] = ExecutionStop
        BY <1>5, <1>8, <4>2 DEF TimeInv
      <4> QED
        BY <1>5, <3>2, <3>4, <4>1, <4>2 DEF TimeInv
    <3>6. WorkerInv(v)'
      <4>1. ExecutionStart <= t
        BY <1>4, <1>8, <1>u, <3>3, ServiceAssumption
      <4> QED
        BY <2>2, <3>1, <3>5, <4>1 DEF WorkerInv, InLoop, Serving
    <3>7. ASSUME NEW p \in Process, WorkerOf(p) = v PROVE ProcessInv(p)'
      <4>1. Stage(p) = "idle" /\ Stage(p)' = "idle"
        BY <1>5, <3>1, <3>7, StageNotServing DEF Serving
      <4> QED
        BY <1>1, <1>5, <1>8, <3>7, <4>1, IdleStays DEF ServiceInv
    <3> QED
      BY <1>1, <1>6, <1>7, <3>6, <3>7, StepOf
  <2> QED
    BY <1>4, <2>1, <2>2, ServiceAssumption

-----------------------------------------------------------------------------
\* A step that changes the place of worker v and nothing else.
LEMMA QuietStep ==
    ASSUME ServiceInv, NEW v \in Worker, NEW l \in Label, pc' = [pc EXCEPT ![v] = l],
           \/ turn' = turn
           \/ turn' = [turn EXCEPT ![v] = @ + 1] /\ turn[v] <= Len(Processes[v]),
           due' = due \/ due' = [due EXCEPT ![v] = 1],
           UNCHANGED <<timeNow, now, ring>>,
           endRunPhase' \in BOOLEAN, endRunPhase => endRunPhase'
    PROVE  /\ OnlyOf(v) /\ LoopTypes' /\ RingShape' /\ RingSteps /\ pc'[v] = l
           /\ \A p \in Process : now'[p] = now[p] /\ InputsSame(p) /\ OutputsSame(p)
<1>1. LoopTypes /\ RingShape
  BY Types DEF ServiceInv
<1>2. /\ RingSteps /\ RingShape' /\ \A p \in Process : InputsSame(p) /\ OutputsSame(p)
  BY <1>1, RingsSame
<1>3. OnlyOf(v)
  BY <1>1, <1>2 DEF OnlyOf, PlaceSame, LoopTypes
<1>4. turn' \in [Worker -> Nat] /\ \A w \in Worker : turn'[w] \in 1 .. Len(Processes[w]) + 1
  <2>1. \A w \in Worker : Len(Processes[w]) \in Nat
    BY ServiceAssumption
  <2>2. turn'[v] \in 1 .. Len(Processes[v]) + 1
    BY <1>1, <2>1 DEF LoopTypes
  <2>3. turn' \in [Worker -> Nat] /\ \A w \in Worker : w # v => turn'[w] = turn[w]
    <3>1. turn \in [Worker -> Nat]
      BY <1>1 DEF LoopTypes
    <3>2. turn[v] + 1 \in Nat
      BY <3>1
    <3> DEFINE n == turn[v] + 1
    <3>3. turn' = turn \/ turn' = [turn EXCEPT ![v] = n]
      OBVIOUS
    <3> HIDE DEF n
    <3> QED
      BY <3>1, <3>2, <3>3 DEF n
  <2>4. \A w \in Worker : turn[w] \in 1 .. Len(Processes[w]) + 1
    BY <1>1 DEF LoopTypes
  <2> QED
    BY <2>2, <2>3, <2>4
<1>5. LoopTypes'
  BY <1>1, <1>4 DEF LoopTypes
<1> QED
  BY <1>1, <1>2, <1>3, <1>5 DEF LoopTypes

\* A worker that leaves the loop because of COND_END_RUN_PHASE.
LEMMA LeavesQuietly ==
    ASSUME ServiceInv, NEW v \in Worker, NEW l \in {"exit", "catch"},
           pc' = [pc EXCEPT ![v] = l], due' = due \/ due' = [due EXCEPT ![v] = 1],
           UNCHANGED <<turn, timeNow, now, ring>>,
           endRunPhase' \in BOOLEAN, endRunPhase => endRunPhase',
           l = "exit" => endRunPhase'
    PROVE  ServiceInv' /\ RingSteps
<1>1. l \in Label
  BY DEF Label
<1>2. OnlyOf(v) /\ LoopTypes' /\ RingShape' /\ RingSteps /\ pc'[v] = l
  BY <1>1, QuietStep
<1> QED
  BY <1>2, Leaves

\* The time and the turn of a worker that goes on with a service.
LEMMA WorkerStays ==
    ASSUME ServiceInv, NEW v \in Worker, pc[v] \in Serving, pc'[v] \in Serving,
           turn'[v] = turn[v], timeNow'[v] = timeNow[v],
           \A p \in Process : WorkerOf(p) = v => now'[p] = now[p]
    PROVE  WorkerInv(v)'
<1>0. TypeOK /\ WorkerInv(v)
  BY DEF ServiceInv
<1>1. TimeInv(v) /\ ExecutionStart <= timeNow[v] /\ timeNow[v] < ExecutionStop
  BY <1>0 DEF WorkerInv, InLoop, Serving
<1>2. turn[v] \in DOMAIN Processes[v] /\ now[Current(v)] = timeNow[v]
  BY <1>0 DEF WorkerInv
<1>3. \A j \in DOMAIN Processes[v] : now'[Processes[v][j]] = now[Processes[v][j]]
  BY ProcessOfWorker
<1>4. \A j \in DOMAIN Processes[v] : TimeAt(v, j)' = TimeAt(v, j)
  BY DEF TimeAt
<1>5. TimeInv(v)'
  <2>1. pc[v] # "enter"
    BY DEF Serving
  <2> QED
    BY <1>1, <1>3, <1>4, <2>1 DEF TimeInv
<1>6. Current(v)' = Current(v) /\ now'[Current(v)] = now[Current(v)]
  BY <1>2, <1>3 DEF Current
<1> QED
  BY <1>1, <1>2, <1>5, <1>6 DEF WorkerInv, Serving

\* All processes looked at: each has been serviced at this time if it was due.
LEMMA EndRoundStep ==
    ASSUME ServiceInv, NEW v \in Worker, EndRound(v) PROVE ServiceInv' /\ RingSteps
<1>0. TypeOK /\ WorkerInv(v) /\ LoopTypes
  BY Types DEF ServiceInv
<1>1. CASE endRunPhase
  BY <1>0, <1>1, LeavesQuietly DEF EndRound, Goto, LoopTypes
<1>2. CASE ~ endRunPhase
  <2>1. pc' = [pc EXCEPT ![v] = "top"] /\ "top" \in Label /\ pc[v] = "each"
    BY <1>2 DEF EndRound, Goto, Label
  <2>2. /\ OnlyOf(v) /\ LoopTypes' /\ RingShape' /\ RingSteps /\ pc'[v] = "top"
        /\ \A p \in Process : now'[p] = now[p] /\ InputsSame(p) /\ OutputsSame(p)
    BY <1>0, <2>1, QuietStep DEF EndRound, LoopTypes
  <2>3. WorkerInv(v)'
    <3>1. turn[v] = Len(Processes[v]) + 1
      <4>1. turn[v] > Len(Processes[v]) /\ turn[v] \in 1 .. Len(Processes[v]) + 1
        BY <1>0 DEF EndRound, LoopTypes
      <4>2. Len(Processes[v]) \in Nat
        BY ServiceAssumption
      <4> QED
        BY <4>1, <4>2
    <3>2. TimeInv(v)'
      BY <1>0, <2>1, <2>2 DEF EndRound, WorkerInv, InLoop, TimeInv, TimeAt
    <3> QED
      BY <1>0, <2>1, <2>2, <3>1, <3>2 DEF EndRound, WorkerInv, InLoop, Serving
  <2>4. ASSUME NEW p \in Process, WorkerOf(p) = v PROVE ProcessInv(p)'
    <3>1. Stage(p) = "idle" /\ Stage(p)' = "idle" /\ InLoop(v)
      BY <2>1, <2>2, <2>4, StageNotServing DEF Serving, InLoop
    <3> QED
      BY <2>2, <2>4, <3>1, IdleStays DEF ServiceInv
  <2> QED
    BY <2>2, <2>3, <2>4, StepOf
<1> QED
  BY <1>1, <1>2

\* A process that is not due at this time has nothing due before its own.
LEMMA SkipStep ==
    ASSUME ServiceInv, NEW v \in Worker, Skip(v) PROVE ServiceInv' /\ RingSteps
<1>0. TypeOK /\ WorkerInv(v) /\ LoopTypes
  BY Types DEF ServiceInv
<1>1. /\ pc' = pc /\ pc[v] = "each" /\ turn[v] <= Len(Processes[v])
      /\ turn' = [turn EXCEPT ![v] = @ + 1] /\ now[Current(v)] # timeNow[v]
      /\ UNCHANGED <<due, timeNow, now, ring, endRunPhase>>
  BY DEF Skip, NextTurn
<1>2. pc' = [pc EXCEPT ![v] = "each"] /\ "each" \in Label
  BY <1>0, <1>1 DEF LoopTypes, Label
<1>3. /\ OnlyOf(v) /\ LoopTypes' /\ RingShape' /\ RingSteps
      /\ \A p \in Process : now'[p] = now[p] /\ InputsSame(p) /\ OutputsSame(p)
  BY <1>0, <1>1, <1>2, QuietStep DEF LoopTypes
<1>4. TimeInv(v) /\ ExecutionStart <= timeNow[v] /\ timeNow[v] < ExecutionStop
  BY <1>0, <1>1 DEF WorkerInv, InLoop
<1>5. TimeInv(v)'
  <2> SUFFICES ASSUME NEW j \in DOMAIN Processes[v]
               PROVE  LET p == Processes[v][j]
                      IN IF HasPorts(p)
                         THEN /\ TimeAt(v, j)' <= now[p] /\ now[p] <= ExecutionEnd
                              /\ \A o \in PortsOf(p) :
                                     SamplesBefore(o, now[p]) = SamplesBefore(o, TimeAt(v, j)')
                         ELSE now[p] = ExecutionStop
    BY <1>1 DEF TimeInv
  <2> DEFINE p == Processes[v][j]
             t == timeNow[v]
  <2>1. IF HasPorts(p)
        THEN /\ TimeAt(v, j) <= now[p] /\ now[p] <= ExecutionEnd
             /\ \A o \in PortsOf(p) : SamplesBefore(o, now[p]) = SamplesBefore(o, TimeAt(v, j))
        ELSE now[p] = ExecutionStop
    BY <1>1, <1>4 DEF TimeInv
  <2>2. p \in Process /\ now[p] \in Nat /\ t \in Nat
    BY <1>0, ProcessOfWorker DEF LoopTypes
  <2>3. j \in Nat /\ turn[v] \in Nat /\ turn'[v] = turn[v] + 1
    BY <1>0, <1>1, ProcessOfWorker DEF LoopTypes
  <2>4. CASE j # turn[v]
    <3>1. TimeAt(v, j)' = TimeAt(v, j)
      BY <1>1, <2>3, <2>4 DEF TimeAt
    <3> QED
      BY <2>1, <3>1
  <2>5. CASE j = turn[v]
    <3>1. p = Current(v) /\ TimeAt(v, j) = t /\ TimeAt(v, j)' = t + 1
      BY <1>1, <2>3, <2>5 DEF TimeAt, Current
    <3>2. now[p] # t
      BY <1>1, <3>1
    <3> HIDE DEF t, p
    <3>3. ASSUME HasPorts(p) PROVE t + 1 <= now[p]
      BY <2>1, <2>2, <3>1, <3>2, <3>3
    <3>4. ASSUME HasPorts(p), NEW o \in PortsOf(p)
          PROVE  SamplesBefore(o, now[p]) = SamplesBefore(o, t + 1)
      <4>1. o \in Port /\ t + 1 \in Nat
        BY <2>2, <3>4, ProcessPorts
      <4>2. /\ SamplesBefore(o, t) <= SamplesBefore(o, t + 1)
            /\ SamplesBefore(o, t + 1) <= SamplesBefore(o, now[p])
        BY <2>2, <3>3, <3>4, <4>1, SamplesMonotone
      <4>3. SamplesBefore(o, t) \in Nat /\ SamplesBefore(o, t + 1) \in Nat
        BY <2>2, <4>1, SamplesNat
      <4>4. SamplesBefore(o, now[p]) = SamplesBefore(o, t)
        BY <2>1, <3>1, <3>4
      <4> QED
        BY <4>2, <4>3, <4>4
    <3> QED
      BY <2>1, <3>1, <3>3, <3>4 DEF p
  <2> QED
    BY <2>4, <2>5
<1>6. WorkerInv(v)'
  BY <1>1, <1>4, <1>5 DEF WorkerInv, Serving
<1>7. ASSUME NEW p \in Process, WorkerOf(p) = v PROVE ProcessInv(p)'
  <2>1. Stage(p) = "idle" /\ Stage(p)' = "idle" /\ InLoop(v)
    BY <1>1, <1>7, StageNotServing DEF Serving, InLoop
  <2> QED
    BY <1>3, <1>7, <2>1, IdleStays DEF ServiceInv
<1> QED
  BY <1>3, <1>6, <1>7, StepOf

\* A process that is due: none of its ports has been touched yet.
LEMMA BeginServiceStep ==
    ASSUME ServiceInv, NEW v \in Worker, BeginService(v) PROVE ServiceInv' /\ RingSteps
<1>0. TypeOK /\ WorkerInv(v) /\ LoopTypes
  BY Types DEF ServiceInv
<1>1. CASE endRunPhase
  BY <1>0, <1>1, LeavesQuietly DEF BeginService, Goto, FirstDue, LoopTypes
<1>2. CASE ~ endRunPhase
  <2>1. /\ pc' = [pc EXCEPT ![v] = "readLock"] /\ "readLock" \in Label
        /\ pc[v] = "each" /\ due' = [due EXCEPT ![v] = 1]
        /\ turn[v] <= Len(Processes[v]) /\ now[Current(v)] = timeNow[v]
        /\ UNCHANGED <<turn, timeNow, now, ring, endRunPhase>>
    BY <1>2 DEF BeginService, Goto, FirstDue, Label
  <2>2. /\ OnlyOf(v) /\ LoopTypes' /\ RingShape' /\ RingSteps /\ pc'[v] = "readLock"
        /\ \A p \in Process : now'[p] = now[p] /\ InputsSame(p) /\ OutputsSame(p)
    BY <1>0, <2>1, QuietStep DEF LoopTypes
  <2>3. turn[v] \in DOMAIN Processes[v]
    <3>1. Processes[v] \in Seq(Process)
      BY ServiceAssumption
    <3> QED
      BY <1>0, <2>1, <3>1 DEF LoopTypes
  <2>4. WorkerInv(v)'
    <3>1. TimeInv(v)'
      BY <1>0, <2>1, <2>2 DEF WorkerInv, InLoop, TimeInv, TimeAt
    <3> QED
      BY <1>0, <2>1, <2>2, <2>3, <3>1 DEF WorkerInv, InLoop, Serving, Current
  <2>5. ASSUME NEW p \in Process, WorkerOf(p) = v PROVE ProcessInv(p)'
    <3>1. Stage(p) = "idle" /\ InLoop(v)
      BY <2>1, <2>5, StageNotServing DEF Serving, InLoop
    <3>2. CASE Current(v) # p
      <4>1. Stage(p)' = "idle"
        BY <2>1, <2>2, <2>5, <3>2, StageNext
      <4> QED
        BY <2>2, <2>5, <3>1, <4>1, IdleStays DEF ServiceInv
    <3>3. CASE Current(v) = p
      <4>1. Stage(p)' = "readLock" /\ due'[v] = 1
        BY <1>0, <2>1, <2>2, <2>5, <3>3, StageNext DEF Serving, LoopTypes
      <4>2. ASSUME NEW i \in DOMAIN Inputs[p] PROVE InputInv(p, i)'
        <5>1. InputInv(p, i) /\ ~ (i < 1)
          <6>1. Inputs[p] \in Seq(Port \X Nat)
            BY ServiceAssumption DEF Process
          <6>2. i \in Nat /\ i >= 1
            BY <6>1
          <6> QED
            BY <2>5, <3>1, <6>2 DEF ServiceInv, ProcessInv
        <5>2. InputSame(Inputs[p][i][1], Inputs[p][i][2])
          BY <2>2 DEF InputsSame
        <5> QED
          BY <2>1, <2>5, <3>1, <4>1, <5>1, <5>2, InputInvNext
             DEF InputInv, InputSame, Held, Read
      <4>3. ASSUME NEW i \in DOMAIN Outputs[p] PROVE OutputInv(p, i)'
        <5>1. OutputInv(p, i)
          BY <2>5, <3>1 DEF ServiceInv, ProcessInv
        <5>2. OutputSame(Outputs[p][i])
          BY <2>2 DEF OutputsSame
        <5>3. ring[Outputs[p][i]].windex = 0
          BY <2>1, <2>5, <5>1 DEF OutputInv
        <5> QED
          BY <2>1, <2>5, <3>1, <4>1, <5>1, <5>2, <5>3, OutputInvNext
             DEF OutputInv, OutputSame, PhaseAt, Wrote
      <4> QED
        BY <4>2, <4>3 DEF ProcessInv
    <3> QED
      BY <3>2, <3>3
  <2> QED
    BY <2>2, <2>4, <2>5, StepOf
<1> QED
  BY <1>1, <1>2

\* The walk over the ports: the first due position from the one the worker is
\* at, and none.
LEMMA WalkInputs ==
    ASSUME LoopTypes, NEW w \in Worker, Current(w) \in Process
    PROVE  LET Due(i) == IsDue(Inputs[Current(w)][i][1], timeNow[w])
               D == DOMAIN Inputs[Current(w)]
           IN /\ \A i \in D : i \in Nat /\ i >= 1
              /\ DueInputs(w) = {} => \A i \in D : Due(i) => i < due[w] /\ ~ (i >= due[w])
              /\ \A i \in FirstOf(DueInputs(w)) :
                     /\ i \in D /\ Due(i) /\ i >= due[w] /\ ~ (i < due[w])
                     /\ \A k \in D : Due(k) =>
                            /\ k < i + 1 <=> k < due[w] \/ k = i
                            /\ k >= i + 1 <=> k >= due[w] /\ k # i
<1> DEFINE p == Current(w)
           D == DOMAIN Inputs[p]
           Due(i) == IsDue(Inputs[p][i][1], timeNow[w])
           d == due[w]
<1>1. Inputs[p] \in Seq(Port \X Nat) /\ d \in Nat
  BY ServiceAssumption DEF Process, LoopTypes
<1>2. \A i \in D : i \in Nat /\ i >= 1
  BY <1>1
<1>3. DueInputs(w) = {i \in D : i >= d /\ Due(i)}
  BY DEF DueInputs, Input
<1>4. FirstOf(DueInputs(w)) =
          {i \in D : i >= d /\ Due(i) /\ \A j \in D : j >= d /\ Due(j) => i <= j}
  BY <1>3 DEF FirstOf
<1> HIDE DEF D, Due, d
<1>5. ASSUME DueInputs(w) = {}, NEW i \in D, Due(i) PROVE i < d /\ ~ (i >= d)
  BY <1>1, <1>2, <1>3, <1>5
<1>6. ASSUME NEW i \in FirstOf(DueInputs(w))
      PROVE  /\ i \in D /\ Due(i) /\ i >= d /\ ~ (i < d)
             /\ \A k \in D : Due(k) => /\ k < i + 1 <=> k < d \/ k = i
                                       /\ k >= i + 1 <=> k >= d /\ k # i
  <2>1. i \in D /\ Due(i) /\ i >= d /\ \A j \in D : j >= d /\ Due(j) => i <= j
    BY <1>4, <1>6
  <2>2. i \in Nat /\ ~ (i < d)
    BY <1>1, <1>2, <2>1
  <2>3. ASSUME NEW k \in D, Due(k)
        PROVE  /\ k < i + 1 <=> k < d \/ k = i
               /\ k >= i + 1 <=> k >= d /\ k # i
    <3>1. k \in Nat /\ (k >= d => i <= k)
      BY <1>2, <2>1, <2>3
    <3> QED
      BY <1>1, <2>1, <2>2, <3>1
  <2> QED
    BY <2>1, <2>2, <2>3
<1> QED
  BY <1>2, <1>5, <1>6 DEF D, Due, d

\* The same walk over the outputs.
LEMMA WalkOutputs ==
    ASSUME LoopTypes, NEW w \in Worker, Current(w) \in Process
    PROVE  LET Due(i) == IsDue(Outputs[Current(w)][i], timeNow[w])
               D == DOMAIN Outputs[Current(w)]
           IN /\ \A i \in D : i \in Nat /\ i >= 1
              /\ DueOutputs(w) = {} => \A i \in D : Due(i) => i < due[w] /\ ~ (i >= due[w])
              /\ \A i \in FirstOf(DueOutputs(w)) :
                     /\ i \in D /\ Due(i) /\ i >= due[w] /\ ~ (i < due[w])
                     /\ \A k \in D : Due(k) =>
                            /\ k < i + 1 <=> k < due[w] \/ k = i
                            /\ k >= i + 1 <=> k >= due[w] /\ k # i
<1> DEFINE p == Current(w)
           D == DOMAIN Outputs[p]
           Due(i) == IsDue(Outputs[p][i], timeNow[w])
           d == due[w]
<1>1. Outputs[p] \in Seq(Port) /\ d \in Nat
  BY ServiceAssumption DEF LoopTypes
<1>2. \A i \in D : i \in Nat /\ i >= 1
  BY <1>1
<1>3. DueOutputs(w) = {i \in D : i >= d /\ Due(i)}
  BY DEF DueOutputs, Output
<1>4. FirstOf(DueOutputs(w)) =
          {i \in D : i >= d /\ Due(i) /\ \A j \in D : j >= d /\ Due(j) => i <= j}
  BY <1>3 DEF FirstOf
<1> HIDE DEF D, Due, d
<1>5. ASSUME DueOutputs(w) = {}, NEW i \in D, Due(i) PROVE i < d /\ ~ (i >= d)
  BY <1>1, <1>2, <1>3, <1>5
<1>6. ASSUME NEW i \in FirstOf(DueOutputs(w))
      PROVE  /\ i \in D /\ Due(i) /\ i >= d /\ ~ (i < d)
             /\ \A k \in D : Due(k) => /\ k < i + 1 <=> k < d \/ k = i
                                       /\ k >= i + 1 <=> k >= d /\ k # i
  <2>1. i \in D /\ Due(i) /\ i >= d /\ \A j \in D : j >= d /\ Due(j) => i <= j
    BY <1>4, <1>6
  <2>2. i \in Nat /\ ~ (i < d)
    BY <1>1, <1>2, <2>1
  <2>3. ASSUME NEW k \in D, Due(k)
        PROVE  /\ k < i + 1 <=> k < d \/ k = i
               /\ k >= i + 1 <=> k >= d /\ k # i
    <3>1. k \in Nat /\ (k >= d => i <= k)
      BY <1>2, <2>1, <2>3
    <3> QED
      BY <1>1, <2>1, <2>2, <3>1
  <2> QED
    BY <2>1, <2>2, <2>3
<1> QED
  BY <1>2, <1>5, <1>6 DEF D, Due, d

\* From one stage of a service to another that treats every port alike.
LEMMA NextStage ==
    ASSUME ServiceInv, NEW v \in Worker, pc[v] \in Serving,
           NEW l \in Serving, pc' = [pc EXCEPT ![v] = l],
           due' = due \/ due' = [due EXCEPT ![v] = 1],
           UNCHANGED <<turn, timeNow, now, ring, endRunPhase>>,
           \A i \in DOMAIN Inputs[Current(v)] :
               IsDue(Inputs[Current(v)][i][1], timeNow[v]) =>
                   /\ Held(pc[v], due[v], i) <=> Held(l, due'[v], i)
                   /\ Read(pc[v], due[v], i) <=> Read(l, due'[v], i),
           \A i \in DOMAIN Outputs[Current(v)] :
               /\ IsDue(Outputs[Current(v)][i], timeNow[v]) =>
                   /\ PhaseAt(pc[v], due[v], i) = PhaseAt(l, due'[v], i)
                   /\ Wrote(pc[v], due[v], i) <=> Wrote(l, due'[v], i)
               /\ ring[Outputs[Current(v)][i]].windex = 0
    PROVE  ServiceInv' /\ RingSteps
<1>0. TypeOK /\ WorkerInv(v) /\ LoopTypes
  BY Types DEF ServiceInv
<1>1. l \in Label
  BY DEF Label, Serving
<1>2. /\ OnlyOf(v) /\ LoopTypes' /\ RingShape' /\ RingSteps /\ pc'[v] = l
      /\ \A p \in Process : now'[p] = now[p] /\ InputsSame(p) /\ OutputsSame(p)
  BY <1>0, <1>1, QuietStep DEF LoopTypes
<1>3. WorkerInv(v)'
  BY <1>2, WorkerStays
<1>s. /\ InLoop(v) /\ Stage(Current(v)) = pc[v]
      /\ \A q \in Process : WorkerOf(q) = v /\ q # Current(v) => Stage(q) = "idle"
  BY <1>0, AtService
<1>4. ASSUME NEW p \in Process, WorkerOf(p) = v PROVE ProcessInv(p)'
  <2>1. CASE Current(v) # p
    <3>1. Stage(p)' = "idle" /\ Stage(p) = "idle"
      BY <1>2, <1>4, <1>s, <2>1, StageNext
    <3> QED
      BY <1>2, <1>4, <1>s, <3>1, IdleStays DEF ServiceInv
  <2>2. CASE Current(v) = p
    <3>1. Stage(p) = pc[v] /\ Stage(p)' = l
      BY <1>2, <1>4, <1>s, <2>2, StageNext
    <3>2. ASSUME NEW i \in DOMAIN Inputs[p] PROVE InputInv(p, i)'
      <4>1. InputInv(p, i)
        BY <1>4, <1>s DEF ServiceInv, ProcessInv
      <4> QED
        BY <1>4, <2>2, <3>1, <4>1, InputInvNext DEF InputInv
    <3>3. ASSUME NEW i \in DOMAIN Outputs[p] PROVE OutputInv(p, i)'
      <4>1. OutputInv(p, i)
        BY <1>4, <1>s DEF ServiceInv, ProcessInv
      <4> QED
        BY <1>4, <2>2, <3>1, <4>1, OutputInvNext DEF OutputInv
    <3> QED
      BY <3>2, <3>3 DEF ProcessInv
  <2> QED
    BY <2>1, <2>2
<1> QED
  BY <1>2, <1>3, <1>4, StepOf

\* Between the walks over the outputs no write is under way.
LEMMA NotWriting ==
    ASSUME ServiceInv, NEW v \in Worker, pc[v] \in Serving,
           pc[v] \in {"writeLock", "writeRelease"} => DueOutputs(v) = {}
    PROVE  \A i \in DOMAIN Outputs[Current(v)] : ring[Outputs[Current(v)][i]].windex = 0
<1>1. InLoop(v) /\ Current(v) \in Process /\ WorkerOf(Current(v)) = v
  BY AtService DEF ServiceInv
<1>2. \A i \in DOMAIN Outputs[Current(v)] : OutputInv(Current(v), i)
  BY <1>1 DEF ServiceInv, ProcessInv
<1>3. DueOutputs(v) = {} => FirstOf(DueOutputs(v)) = {}
  BY DEF FirstOf
<1> QED
  BY <1>1, <1>2, <1>3 DEF OutputInv

\* All due inputs are locked: on to the outputs.
LEMMA InputsLockedStep ==
    ASSUME ServiceInv, NEW v \in Worker, InputsLocked(v) PROVE ServiceInv' /\ RingSteps
<1>0. TypeOK /\ WorkerInv(v) /\ LoopTypes
  BY Types DEF ServiceInv
<1>1. /\ pc[v] = "readLock" /\ DueInputs(v) = {} /\ pc' = [pc EXCEPT ![v] = "writeLock"]
      /\ due' = [due EXCEPT ![v] = 1] /\ due'[v] = 1
      /\ UNCHANGED <<turn, timeNow, now, ring, endRunPhase>>
  BY <1>0 DEF InputsLocked, Goto, FirstDue, LoopTypes
<1>2. pc[v] \in Serving /\ "writeLock" \in Serving
  BY <1>1 DEF Serving
<1>3. Current(v) \in Process
  BY <1>0, <1>2, AtService
<1>4. \A i \in DOMAIN Inputs[Current(v)] :
          IsDue(Inputs[Current(v)][i][1], timeNow[v]) =>
              /\ Held(pc[v], due[v], i) <=> Held("writeLock", due'[v], i)
              /\ Read(pc[v], due[v], i) <=> Read("writeLock", due'[v], i)
  BY <1>0, <1>1, <1>3, WalkInputs DEF Held, Read
<1>5. \A i \in DOMAIN Outputs[Current(v)] :
          /\ PhaseAt(pc[v], due[v], i) = PhaseAt("writeLock", due'[v], i)
          /\ Wrote(pc[v], due[v], i) <=> Wrote("writeLock", due'[v], i)
  <2>1. \A i \in DOMAIN Outputs[Current(v)] : ~ (i < 1)
    BY <1>0, <1>3, WalkOutputs
  <2> QED
    BY <1>1, <2>1 DEF PhaseAt, Wrote
<1>6. \A i \in DOMAIN Outputs[Current(v)] : ring[Outputs[Current(v)][i]].windex = 0
  BY <1>1, <1>2, NotWriting
<1> QED
  BY <1>1, <1>2, <1>4, <1>5, <1>6, NextStage

\* All due outputs are locked: the process may be fired.
LEMMA OutputsLockedStep ==
    ASSUME ServiceInv, NEW v \in Worker, OutputsLocked(v) PROVE ServiceInv' /\ RingSteps
<1>0. TypeOK /\ WorkerInv(v) /\ LoopTypes
  BY Types DEF ServiceInv
<1>a. CASE endRunPhase
  BY <1>0, <1>a, LeavesQuietly DEF OutputsLocked, Goto, LoopTypes
<1>b. CASE ~ endRunPhase
  <2>1. /\ pc[v] = "writeLock" /\ DueOutputs(v) = {} /\ pc' = [pc EXCEPT ![v] = "fire"]
        /\ UNCHANGED <<turn, due, timeNow, now, ring, endRunPhase>>
    BY <1>b DEF OutputsLocked, Goto
  <2>2. pc[v] \in Serving /\ "fire" \in Serving
    BY <2>1 DEF Serving
  <2>3. Current(v) \in Process
    BY <1>0, <2>2, AtService
  <2>4. \A i \in DOMAIN Inputs[Current(v)] :
            /\ Held(pc[v], due[v], i) <=> Held("fire", due'[v], i)
            /\ Read(pc[v], due[v], i) <=> Read("fire", due'[v], i)
    BY <2>1 DEF Held, Read
  <2>5. \A i \in DOMAIN Outputs[Current(v)] :
            IsDue(Outputs[Current(v)][i], timeNow[v]) =>
                /\ PhaseAt(pc[v], due[v], i) = PhaseAt("fire", due'[v], i)
                /\ Wrote(pc[v], due[v], i) <=> Wrote("fire", due'[v], i)
    BY <1>0, <2>1, <2>3, WalkOutputs DEF PhaseAt, Wrote
  <2>6. \A i \in DOMAIN Outputs[Current(v)] : ring[Outputs[Current(v)][i]].windex = 0
    BY <2>1, <2>2, NotWriting
  <2> QED
    BY <2>1, <2>2, <2>4, <2>5, <2>6, NextStage
<1> QED
  BY <1>a, <1>b

\* All due inputs are released: on to the outputs.
LEMMA InputsReleasedStep ==
    ASSUME ServiceInv, NEW v \in Worker, InputsReleased(v) PROVE ServiceInv' /\ RingSteps
<1>0. TypeOK /\ WorkerInv(v) /\ LoopTypes
  BY Types DEF ServiceInv
<1>a. CASE endRunPhase
  BY <1>0, <1>a, LeavesQuietly DEF InputsReleased, Goto, FirstDue, LoopTypes
<1>b. CASE ~ endRunPhase
  <2>1. /\ pc[v] = "readRelease" /\ DueInputs(v) = {}
        /\ pc' = [pc EXCEPT ![v] = "writeRelease"]
        /\ due' = [due EXCEPT ![v] = 1] /\ due'[v] = 1
        /\ UNCHANGED <<turn, timeNow, now, ring, endRunPhase>>
    BY <1>0, <1>b DEF InputsReleased, Goto, FirstDue, LoopTypes
  <2>2. pc[v] \in Serving /\ "writeRelease" \in Serving
    BY <2>1 DEF Serving
  <2>3. Current(v) \in Process
    BY <1>0, <2>2, AtService
  <2>4. \A i \in DOMAIN Inputs[Current(v)] :
            IsDue(Inputs[Current(v)][i][1], timeNow[v]) =>
                /\ Held(pc[v], due[v], i) <=> Held("writeRelease", due'[v], i)
                /\ Read(pc[v], due[v], i) <=> Read("writeRelease", due'[v], i)
    BY <1>0, <2>1, <2>3, WalkInputs DEF Held, Read
  <2>5. \A i \in DOMAIN Outputs[Current(v)] :
            /\ PhaseAt(pc[v], due[v], i) = PhaseAt("writeRelease", due'[v], i)
            /\ Wrote(pc[v], due[v], i) <=> Wrote("writeRelease", due'[v], i)
    <3>1. \A i \in DOMAIN Outputs[Current(v)] : ~ (i < 1) /\ i >= 1
      BY <1>0, <2>3, WalkOutputs
    <3> QED
      BY <2>1, <3>1 DEF PhaseAt, Wrote
  <2>6. \A i \in DOMAIN Outputs[Current(v)] : ring[Outputs[Current(v)][i]].windex = 0
    BY <2>1, <2>2, NotWriting
  <2> QED
    BY <2>1, <2>2, <2>4, <2>5, <2>6, NextStage
<1> QED
  BY <1>a, <1>b

\* A cancelled wait, an error and its catch leave the loop.
LEMMA EndingSteps ==
    ASSUME ServiceInv, NEW v \in Worker,
           CancelWait(v) \/ FireError(v) \/ Catch(v)
    PROVE  ServiceInv' /\ RingSteps
<1>0. LoopTypes
  BY Types DEF ServiceInv
<1>1. CASE CancelWait(v)
  BY <1>0, <1>1, LeavesQuietly DEF CancelWait, Goto, LoopTypes
<1>2. CASE FireError(v)
  BY <1>0, <1>2, LeavesQuietly DEF FireError, Goto, LoopTypes
<1>3. CASE Catch(v)
  BY <1>0, <1>3, LeavesQuietly DEF Catch, Goto, LoopTypes
<1> QED
  BY <1>1, <1>2, <1>3

\* The service ends: every port of the process has had the samples due up to its
\* time, and the process is next due when one of them is.
LEMMA NextServiceTime ==
    ASSUME NEW p \in Process, NEW t \in Nat, t < ExecutionStop
    PROVE  LET n == NextService(p, t)
           IN /\ n \in Nat /\ t < n /\ n <= ExecutionStop
              /\ \A o \in PortsOf(p) : SamplesBefore(o, n) = SamplesBefore(o, t + 1)
<1> DEFINE S == {ExecutionStop} \cup {NextBoundary(o, t) : o \in PortsOf(p)}
           n == Min(S)
<1>1. \A o \in PortsOf(p) : NextBoundary(o, t) \in Nat /\ t < NextBoundary(o, t)
  BY ProcessPorts, SamplesToBoundary
<1>2. ExecutionStop \in Nat
  BY ServiceAssumption
<1>3. S \in SUBSET Nat /\ S # {} /\ \A x \in S : t < x
  BY <1>1, <1>2
<1>4. ExecutionStop \in S /\ \A o \in PortsOf(p) : NextBoundary(o, t) \in S
  OBVIOUS
<1>5. NextService(p, t) = n
  BY DEF NextService
<1> HIDE DEF S
<1>6. n \in S /\ \A x \in S : n <= x
  BY <1>3, MinExists
<1>7. n \in Nat /\ t < n /\ n <= ExecutionStop
  BY <1>3, <1>4, <1>6
<1> HIDE DEF n
<1>8. ASSUME NEW o \in PortsOf(p) PROVE SamplesBefore(o, n) = SamplesBefore(o, t + 1)
  BY <1>4, <1>6, <1>7, ProcessPorts, SamplesUpTo DEF n
<1> QED
  BY <1>5, <1>7, <1>8

\* The service ends: the process moves on to the next time at which one of its ports
\* is due, and every port of it stands where that time puts it.
LEMMA OutputsReleasedStep ==
    ASSUME ServiceInv, NEW v \in Worker, OutputsReleased(v) PROVE ServiceInv' /\ RingSteps
<1> DEFINE c == Current(v)
           t == timeNow[v]
           n == NextService(c, t)
<1>0. TypeOK /\ WorkerInv(v) /\ LoopTypes /\ RingShape
  BY Types DEF ServiceInv
<1>1. /\ pc[v] = "writeRelease" /\ DueOutputs(v) = {} /\ now' = [now EXCEPT ![c] = n]
      /\ turn' = [turn EXCEPT ![v] = @ + 1]
      /\ pc' = [pc EXCEPT ![v] = IF endRunPhase THEN "exit" ELSE "each"]
      /\ UNCHANGED <<due, timeNow, ring, endRunPhase>>
  BY DEF OutputsReleased, Goto, NextTurn
<1>2. pc[v] \in Serving
  BY <1>1 DEF Serving
<1>3. /\ InLoop(v) /\ TimeInv(v) /\ t < ExecutionStop /\ turn[v] \in DOMAIN Processes[v]
      /\ c \in Process /\ WorkerOf(c) = v /\ Stage(c) = pc[v] /\ now[c] = t
      /\ \A q \in Process : WorkerOf(q) = v /\ q # c => Stage(q) = "idle"
  BY <1>0, <1>2, AtService
<1>4. t \in Nat
  BY <1>0 DEF LoopTypes
<1>5. /\ n \in Nat /\ t < n /\ n <= ExecutionStop
      /\ \A o \in PortsOf(c) : SamplesBefore(o, n) = SamplesBefore(o, t + 1)
  BY <1>3, <1>4, NextServiceTime
<1>6. /\ RingSteps /\ RingShape' /\ \A p \in Process : InputsSame(p) /\ OutputsSame(p)
  BY <1>0, <1>1, RingsSame
<1>7. turn'[v] = turn[v] + 1 /\ turn[v] \in 1 .. Len(Processes[v])
      /\ (\A w \in Worker : w # v => turn'[w] = turn[w]) /\ turn' \in [Worker -> Nat]
  <2>1. turn \in [Worker -> Nat]
    BY <1>0 DEF LoopTypes
  <2>2. turn[v] \in 1 .. Len(Processes[v])
    BY <1>3, ProcessOfWorker
  <2> DEFINE m == turn[v] + 1
  <2>3. m \in Nat /\ turn' = [turn EXCEPT ![v] = m]
    BY <1>1, <2>1
  <2> HIDE DEF m
  <2>4. turn'[v] = m /\ (\A w \in Worker : w # v => turn'[w] = turn[w])
           /\ turn' \in [Worker -> Nat]
    BY <2>1, <2>3
  <2> QED
    BY <2>2, <2>4 DEF m
<1> HIDE DEF n
<1>8. /\ now'[c] = n /\ (\A p \in Process : p # c => now'[p] = now[p])
      /\ now' \in [Process -> Nat]
  BY <1>0, <1>1, <1>3, <1>5 DEF LoopTypes
<1>9. OnlyOf(v)
  BY <1>0, <1>1, <1>3, <1>6, <1>7, <1>8 DEF OnlyOf, PlaceSame, LoopTypes
<1>10. LoopTypes'
  <2>1. turn'[v] \in 1 .. Len(Processes[v]) + 1
    <3>1. Len(Processes[v]) \in Nat
      BY ServiceAssumption
    <3> QED
      BY <1>7, <3>1
  <2> QED
    BY <1>0, <1>1, <1>7, <1>8, <2>1 DEF LoopTypes, Label
<1>11. CASE endRunPhase
  <2>1. pc'[v] = "exit" /\ endRunPhase'
    BY <1>0, <1>1, <1>11 DEF LoopTypes
  <2> QED
    BY <1>6, <1>9, <1>10, <2>1, Leaves
<1>12. CASE ~ endRunPhase
  <2>1. pc'[v] = "each"
    BY <1>0, <1>1, <1>12 DEF LoopTypes
  <2>2. TimeInv(v)'
    <3> SUFFICES ASSUME NEW j \in DOMAIN Processes[v]
                 PROVE  LET p == Processes[v][j]
                        IN IF HasPorts(p)
                           THEN /\ TimeAt(v, j)' <= now'[p] /\ now'[p] <= ExecutionEnd
                                /\ \A o \in PortsOf(p) :
                                       SamplesBefore(o, now'[p]) =
                                            SamplesBefore(o, TimeAt(v, j)')
                           ELSE now'[p] = ExecutionStop
      BY DEF TimeInv
    <3> DEFINE p == Processes[v][j]
    <3>1. IF HasPorts(p)
          THEN /\ TimeAt(v, j) <= now[p] /\ now[p] <= ExecutionEnd
               /\ \A o \in PortsOf(p) : SamplesBefore(o, now[p]) =
                     SamplesBefore(o, TimeAt(v, j))
          ELSE now[p] = ExecutionStop
      BY <1>1, <1>3 DEF TimeInv
    <3>2. p \in Process /\ j \in Nat /\ (j = turn[v] <=> p = c)
      BY <1>3, ProcessOfWorker, ProcessOrder DEF Current
    <3>3. CASE j # turn[v]
      <4>1. TimeAt(v, j)' = TimeAt(v, j)
        BY <1>1, <1>7, <3>2, <3>3 DEF TimeAt
      <4> QED
        BY <1>8, <3>1, <3>2, <3>3, <4>1
    <3>4. CASE j = turn[v]
      <4>1. p = c /\ TimeAt(v, j)' = t + 1
        BY <1>1, <1>7, <3>2, <3>4 DEF TimeAt
      <4>2. HasPorts(p)
        <5>1. ~ HasPorts(p) => t = ExecutionStop
          BY <1>3, <3>1, <4>1
        <5>2. t # ExecutionStop
          BY <1>3, <1>4, ServiceAssumption
        <5> QED
          BY <5>1, <5>2
      <4>3. t + 1 <= n /\ n <= ExecutionEnd
        <5>1. ExecutionStop \in Nat /\ ExecutionStart \in Nat
          BY ServiceAssumption
        <5> QED
          BY <1>4, <1>5, <5>1 DEF ExecutionEnd
      <4> QED
        BY <1>5, <1>8, <4>1, <4>2, <4>3
    <3> QED
      BY <3>3, <3>4
  <2>3. WorkerInv(v)'
    BY <1>0, <1>1, <1>3, <2>1, <2>2 DEF WorkerInv, Serving
  <2>4. ASSUME NEW p \in Process, WorkerOf(p) = v PROVE ProcessInv(p)'
    <3>1. Stage(p)' = "idle"
      BY <2>1, <2>4, StageNotServing DEF Serving
    <3>2. CASE p # c
      BY <1>3, <1>6, <1>8, <2>4, <3>1, <3>2, IdleStays DEF ServiceInv
    <3>3. CASE p = c
      <4>1. ASSUME NEW i \in DOMAIN Inputs[p] PROVE InputInv(p, i)'
        <5> DEFINE o == Inputs[p][i][1]
                   r == Inputs[p][i][2]
        <5>1. InputInv(p, i) /\ InputSame(o, r)
          BY <1>3, <1>6, <2>4 DEF ServiceInv, ProcessInv, InputsSame
        <5>2. o \in Port /\ o \in PortsOf(p)
          BY ProcessPorts
        <5>3. SamplesBefore(o, t + 1) = SamplesBefore(o, t) + (IF IsDue(o, t) THEN 1 ELSE 0)
          BY <1>4, <5>2, SamplesNext
        <5>4. SamplesBefore(o, n) = SamplesBefore(o, t + 1) /\ SamplesBefore(o, n) \in Nat
          BY <1>5, <3>3, <5>2, SamplesNat
        <5>5. /\ ring[o].dueData[r] = -1
              /\ ring[o].consumed[r] = SamplesBefore(o, t) + (IF IsDue(o, t) THEN 1 ELSE 0)
          BY <1>1, <1>3, <3>3, <5>1 DEF InputInv, Held, Read
        <5>6. ring'[o].dueData[r] = -1 /\ ring'[o].consumed[r] = SamplesBefore(o, now'[p])
          BY <1>8, <3>3, <5>1, <5>3, <5>4, <5>5 DEF InputSame
        <5>7. SamplesBefore(o, now'[p]) + 0 = SamplesBefore(o, now'[p])
          BY <1>8, <3>3, <5>4
        <5> HIDE DEF o, r
        <5> QED
          BY <2>4, <3>1, <5>6, <5>7, InputInvNext DEF Held, Read, o, r
      <4>2. ASSUME NEW i \in DOMAIN Outputs[p] PROVE OutputInv(p, i)'
        <5> DEFINE o == Outputs[p][i]
        <5>1. OutputInv(p, i) /\ OutputSame(o)
          BY <1>3, <1>6, <2>4 DEF ServiceInv, ProcessInv, OutputsSame
        <5>2. o \in Port /\ o \in PortsOf(p)
          BY ProcessPorts
        <5>3. SamplesBefore(o, t + 1) = SamplesBefore(o, t) + (IF IsDue(o, t) THEN 1 ELSE 0)
          BY <1>4, <5>2, SamplesNext
        <5>4. SamplesBefore(o, n) = SamplesBefore(o, t + 1) /\ SamplesBefore(o, n) \in Nat
          BY <1>5, <3>3, <5>2, SamplesNat
        <5>5. IsDue(o, t) => i < due[v] /\ ~ (i >= due[v])
          BY <1>0, <1>1, <1>3, <3>3, WalkOutputs
        <5>6. ring[o].wpc = "lock" /\ ring[o].windex = 0
          <6>1. ring[o].windex = 0
            BY <1>1, <1>2, <3>3, NotWriting
          <6> QED
            BY <1>1, <1>3, <3>3, <5>1, <5>5, <6>1 DEF OutputInv, PhaseAt
        <5>7. ring[o].written = SamplesBefore(o, t) + (IF IsDue(o, t) THEN 1 ELSE 0)
          BY <1>1, <1>3, <3>3, <5>1, <5>5 DEF OutputInv, Wrote
        <5>8. /\ ring'[o].wpc = "lock" /\ ring'[o].windex = 0
              /\ ring'[o].written = SamplesBefore(o, now'[p])
          BY <1>8, <3>3, <5>1, <5>3, <5>4, <5>6, <5>7 DEF OutputSame
        <5>9. SamplesBefore(o, now'[p]) + 0 = SamplesBefore(o, now'[p])
          BY <1>8, <3>3, <5>4
        <5> HIDE DEF o
        <5> QED
          BY <2>4, <3>1, <5>8, <5>9, OutputInvNext DEF PhaseAt, Wrote, o
      <4> QED
        BY <4>1, <4>2 DEF ProcessInv
    <3> QED
      BY <3>2, <3>3
  <2> QED
    BY <1>6, <1>9, <1>10, <2>3, <2>4, StepOf
<1> QED
  BY <1>11, <1>12

\* The main thread ends the run phase.
LEMMA CancelStep == ASSUME ServiceInv, Cancel PROVE ServiceInv' /\ RingSteps
<1>0. TypeOK /\ LoopTypes /\ RingShape
  BY Types DEF ServiceInv
<1>1. /\ RingSteps /\ RingShape' /\ \A p \in Process : InputsSame(p) /\ OutputsSame(p)
  BY <1>0, RingsSame DEF Cancel
<1>2. /\ \A w \in Worker : PlaceSame(w)
      /\ \A p \in Process : now'[p] = now[p] /\ InputsSame(p) /\ OutputsSame(p)
      /\ endRunPhase'
  BY <1>1 DEF Cancel, PlaceSame
<1>3. \A w \in Worker : WorkerInv(w)'
  <2> SUFFICES ASSUME NEW w \in Worker PROVE WorkerInv(w)'
    OBVIOUS
  <2> QED
    BY <1>2, OtherWorker DEF ServiceInv
<1>4. \A p \in Process : ProcessInv(p)'
  <2> SUFFICES ASSUME NEW p \in Process PROVE ProcessInv(p)'
    OBVIOUS
  <2> QED
    BY <1>2, OtherProcess, WorkerOfProcess DEF ServiceInv
<1>5. \A o \in Port : (Ring(o)!RingInv)'
  BY <1>1, RingStep DEF ServiceInv, RingSteps
<1>6. TypeOK'
  <2>1. \A o \in Port : (Ring(o)!TypeOK)'
    BY <1>5 DEF Ring!RingInv
  <2>2. LoopTypes'
    BY <1>0 DEF LoopTypes, Cancel
  <2> QED
    BY <1>1, <2>1, <2>2 DEF TypeOK, LoopTypes, RingShape
<1> QED
  BY <1>1, <1>3, <1>4, <1>5, <1>6 DEF ServiceInv

-----------------------------------------------------------------------------
\* Steps of the loop that touch rings.  While worker v services a process, the
\* processes of its list before that one stand one sample on in every port that
\* is due, and those after it do not.
LEMMA OtherTime ==
    ASSUME ServiceInv, NEW v \in Worker, pc[v] \in Serving,
           NEW q \in Process, WorkerOf(q) = v, q # Current(v), NEW o \in PortsOf(q)
    PROVE  /\ Stage(q) = "idle" /\ q \in Nat /\ Current(v) \in Nat /\ o \in Port
           /\ q < Current(v) => SamplesBefore(o, now[q]) = SamplesBefore(o, timeNow[v] + 1)
           /\ q > Current(v) => SamplesBefore(o, now[q]) = SamplesBefore(o, timeNow[v])
<1>1. /\ TimeInv(v) /\ turn[v] \in DOMAIN Processes[v] /\ Current(v) \in Process
      /\ Stage(q) = "idle"
  BY AtService DEF ServiceInv
<1>2. PICK j \in DOMAIN Processes[v] : Processes[v][j] = q
  BY WorkerOfProcess
<1>3. /\ q <= Current(v) <=> j <= turn[v]
      /\ q = Current(v) <=> j = turn[v]
      /\ j \in Nat /\ turn[v] \in Nat
  BY <1>1, <1>2, ProcessOrder, ProcessOfWorker DEF Current
<1>4. q \in Nat /\ Current(v) \in Nat /\ o \in Port
  BY <1>1, ProcessPorts
<1>5. HasPorts(q)
  <2>1. Inputs[q] = <<>> /\ Outputs[q] = <<>> => PortsOf(q) = {}
    BY ProcessPorts
  <2> QED
    BY <2>1 DEF HasPorts
<1>6. SamplesBefore(o, now[q]) = SamplesBefore(o, TimeAt(v, j))
  BY <1>1, <1>2, <1>5 DEF TimeInv
<1>7. CASE q < Current(v)
  <2>1. j < turn[v]
    BY <1>3, <1>4, <1>7
  <2> QED
    BY <1>1, <1>4, <1>6, <1>7, <2>1 DEF TimeAt
<1>8. CASE q > Current(v)
  <2>1. ~ (j < turn[v])
    BY <1>3, <1>4, <1>8
  <2> QED
    BY <1>1, <1>4, <1>6, <1>8, <2>1 DEF TimeAt
<1> QED
  BY <1>1, <1>4, <1>7, <1>8

\* Where a reader of a port in the worker's own thread stands, ...
LEMMA ReaderPlace ==
    ASSUME ServiceInv, NEW v \in Worker, pc[v] \in Serving, NEW o \in Port,
           IsDue(o, timeNow[v]), NEW s \in Reader(o), WorkerOf(ReaderOf(o, s)) = v
    PROVE  LET q == ReaderOf(o, s)
               n == SamplesBefore(o, timeNow[v])
           IN /\ q \in Nat /\ Current(v) \in Nat /\ n \in Nat
              /\ q < Current(v) => /\ ring[o].dueData[s] = NULL
                                   /\ ring[o].consumed[s] = n + 1
              /\ q > Current(v) => /\ ring[o].dueData[s] = NULL
                                   /\ ring[o].consumed[s] = n
              /\ q = Current(v) => \E i \in DOMAIN Inputs[q] :
                     /\ Inputs[q][i] = <<o, s>>
                     /\ ring[o].dueData[s] # NULL <=> Held(pc[v], due[v], i)
                     /\ ring[o].consumed[s] =
                            n + (IF Read(pc[v], due[v], i) THEN 1 ELSE 0)
<1> DEFINE q == ReaderOf(o, s)
           t == timeNow[v]
           n == SamplesBefore(o, t)
<1>1. q \in Process /\ \E i \in DOMAIN Inputs[q] : Inputs[q][i] = <<o, s>>
  BY ReaderExists
<1>2. PICK i \in DOMAIN Inputs[q] : Inputs[q][i] = <<o, s>>
  BY <1>1
<1>3. /\ TypeOK /\ InLoop(v) /\ Current(v) \in Process
      /\ Stage(Current(v)) = pc[v] /\ now[Current(v)] = t
  BY AtService DEF ServiceInv
<1>4. t \in Nat /\ n \in Nat /\ SamplesBefore(o, t + 1) = n + 1
  BY <1>3, SamplesNat, SamplesWhenDue DEF TypeOK
<1>5. q \in Nat /\ Current(v) \in Nat
  BY <1>1, <1>3, ProcessPorts
<1>6. InputInv(q, i)
  BY <1>1, <1>3 DEF ServiceInv, ProcessInv
<1>7. /\ ring[o].dueData[s] # NULL <=> Held(Stage(q), due[v], i)
      /\ ring[o].consumed[s] = SamplesBefore(o, now[q])
             + (IF Read(Stage(q), due[v], i) THEN 1 ELSE 0)
  BY <1>2, <1>6 DEF InputInv
<1>8. o \in PortsOf(q)
  BY <1>1, <1>2, ProcessPorts
<1>9. CASE q = Current(v)
  BY <1>2, <1>3, <1>4, <1>5, <1>7, <1>9
<1>10. CASE q # Current(v)
  <2>1. /\ Stage(q) = "idle"
        /\ q < Current(v) => SamplesBefore(o, now[q]) = SamplesBefore(o, t + 1)
        /\ q > Current(v) => SamplesBefore(o, now[q]) = SamplesBefore(o, t)
    BY <1>1, <1>8, <1>10, OtherTime
  <2>2. ring[o].dueData[s] = NULL /\ ring[o].consumed[s] = SamplesBefore(o, now[q]) + 0
    BY <1>7, <2>1 DEF Held, Read
  <2> HIDE DEF q, n
  <2>3. /\ q < Current(v) => ring[o].consumed[s] = n + 1
        /\ q > Current(v) => ring[o].consumed[s] = n
    BY <1>4, <2>1, <2>2 DEF n
  <2> QED
    BY <1>4, <1>5, <1>10, <2>2, <2>3 DEF q, n
<1> QED
  BY <1>9, <1>10

\* ... and where the writer of a port does.
LEMMA WriterPlace ==
    ASSUME ServiceInv, NEW v \in Worker, pc[v] \in Serving, NEW o \in Port,
           IsDue(o, timeNow[v]), WorkerOf(WriterOf(o)) = v
    PROVE  LET q == WriterOf(o)
               n == SamplesBefore(o, timeNow[v])
           IN /\ q \in Nat /\ Current(v) \in Nat /\ n \in Nat
              /\ q # Current(v) => ring[o].wpc = "lock" /\ ring[o].windex = 0
              /\ q < Current(v) => ring[o].written = n + 1
              /\ q > Current(v) => ring[o].written = n
              /\ q = Current(v) => \E i \in DOMAIN Outputs[q] :
                     /\ Outputs[q][i] = o
                     /\ ring[o].wpc = PhaseAt(pc[v], due[v], i)
                     /\ ring[o].windex # 0 => /\ pc[v] \in {"writeLock", "writeRelease"}
                                              /\ i \in FirstOf(DueOutputs(v))
                     /\ ring[o].written = n + (IF Wrote(pc[v], due[v], i) THEN 1 ELSE 0)
<1> DEFINE q == WriterOf(o)
           t == timeNow[v]
           n == SamplesBefore(o, t)
<1>1. q \in Process /\ \E i \in DOMAIN Outputs[q] : Outputs[q][i] = o
  BY WriterExists
<1>2. PICK i \in DOMAIN Outputs[q] : Outputs[q][i] = o
  BY <1>1
<1>3. /\ TypeOK /\ InLoop(v) /\ Current(v) \in Process
      /\ Stage(Current(v)) = pc[v] /\ now[Current(v)] = t
  BY AtService DEF ServiceInv
<1>4. t \in Nat /\ n \in Nat /\ SamplesBefore(o, t + 1) = n + 1
  BY <1>3, SamplesNat, SamplesWhenDue DEF TypeOK
<1>5. q \in Nat /\ Current(v) \in Nat
  BY <1>1, <1>3, ProcessPorts
<1>6. OutputInv(q, i)
  BY <1>1, <1>3 DEF ServiceInv, ProcessInv
<1>7. /\ ring[o].wpc = PhaseAt(Stage(q), due[v], i)
      /\ ring[o].windex # 0 => /\ pc[v] \in {"writeLock", "writeRelease"}
                               /\ Current(v) = q /\ i \in FirstOf(DueOutputs(v))
      /\ ring[o].written = SamplesBefore(o, now[q])
             + (IF Wrote(Stage(q), due[v], i) THEN 1 ELSE 0)
  BY <1>2, <1>6 DEF OutputInv
<1>8. o \in PortsOf(q)
  BY <1>1, <1>2, ProcessPorts
<1>9. CASE q = Current(v)
  BY <1>2, <1>3, <1>4, <1>5, <1>7, <1>9
<1>10. CASE q # Current(v)
  <2>1. /\ Stage(q) = "idle"
        /\ q < Current(v) => SamplesBefore(o, now[q]) = SamplesBefore(o, t + 1)
        /\ q > Current(v) => SamplesBefore(o, now[q]) = SamplesBefore(o, t)
    BY <1>1, <1>8, <1>10, OtherTime
  <2>2. /\ ring[o].wpc = "lock" /\ ring[o].windex = 0
        /\ ring[o].written = SamplesBefore(o, now[q]) + 0
    BY <1>7, <1>10, <2>1 DEF PhaseAt, Wrote
  <2> HIDE DEF q, n
  <2>3. /\ q < Current(v) => ring[o].written = n + 1
        /\ q > Current(v) => ring[o].written = n
    BY <1>4, <2>1, <2>2 DEF n
  <2> QED
    BY <1>4, <1>5, <1>10, <2>2, <2>3 DEF q, n
<1> QED
  BY <1>9, <1>10

\* A port that is due before the execution stop has a sample left to service.
LEMMA NotStopped ==
    ASSUME NEW o \in Port, NEW t \in Nat, IsDue(o, t), t < ExecutionStop
    PROVE  SamplesBefore(o, t) < SamplesBefore(o, ExecutionStop)
<1>1. t + 1 \in Nat /\ t + 1 <= ExecutionStop /\ ExecutionStop \in Nat
  BY ServiceAssumption
<1>2. SamplesBefore(o, t + 1) <= SamplesBefore(o, ExecutionStop)
  BY <1>1, SamplesMonotone
<1>3. SamplesBefore(o, t + 1) = SamplesBefore(o, t) + 1
  BY SamplesWhenDue
<1>4. SamplesBefore(o, t) \in Nat /\ SamplesBefore(o, ExecutionStop) \in Nat
  BY <1>1, SamplesNat
<1> QED
  BY <1>2, <1>3, <1>4

\* The order of the thread is the turn PortRing waits for: to write ...
LEMMA TurnToWrite ==
    ASSUME ServiceInv, NEW v \in Worker, pc[v] = "writeLock",
           NEW i \in FirstOf(DueOutputs(v)), NEW o \in Port, Output(v, i) = o
    PROVE  /\ ring[o].wpc = "lock" /\ ring[o].written < SamplesBefore(o, ExecutionStop)
           /\ Ring(o)!InTurnToWrite
<1> DEFINE p == Current(v)
           t == timeNow[v]
           n == SamplesBefore(o, t)
<1>1. pc[v] \in Serving /\ LoopTypes
  BY Types DEF Serving, ServiceInv
<1>2. /\ InLoop(v) /\ p \in Process /\ WorkerOf(p) = v /\ Stage(p) = pc[v]
      /\ now[p] = t /\ t < ExecutionStop
  BY <1>1, AtService DEF ServiceInv
<1>o. Outputs[p][i] = o
  BY DEF Output
<1>3. i \in DOMAIN Outputs[p] /\ IsDue(o, t) /\ ~ (i < due[v])
  BY <1>1, <1>2, <1>o, WalkOutputs
<1>4. WriterOf(o) = p /\ t \in Nat
  BY <1>1, <1>2, <1>3, <1>o, WriterOfOutput DEF LoopTypes
<1>5. n \in Nat
  BY <1>4, SamplesNat
<1>6. OutputInv(p, i)
  BY <1>2, <1>3 DEF ServiceInv, ProcessInv
<1>7. ring[o].wpc = "lock" /\ ring[o].written = n
  <2>1. ring[o].wpc = "lock" /\ ring[o].written = n + 0
    BY <1>2, <1>3, <1>o, <1>6 DEF OutputInv, PhaseAt, Wrote
  <2> QED
    BY <1>5, <2>1
<1>8. Ring(o)!InTurnToWrite
  <2> SUFFICES ASSUME NEW s \in SameThread(o)
               PROVE  IF s \in SameThreadFirst(o) THEN Ring(o)!Begun(s) = n + 1
                                                  ELSE ring[o].consumed[s] = n
    BY <1>7 DEF Ring!InTurnToWrite
  <2>1. s \in Reader(o) /\ WorkerOf(ReaderOf(o, s)) = v
    BY <1>2, <1>4 DEF SameThread
  <2>2. s \in SameThreadFirst(o) <=> ReaderOf(o, s) <= p
    BY <1>4 DEF SameThreadFirst
  <2> DEFINE q == ReaderOf(o, s)
  <2>3. /\ q \in Nat /\ p \in Nat
        /\ q < p => ring[o].dueData[s] = NULL /\ ring[o].consumed[s] = n + 1
        /\ q > p => ring[o].dueData[s] = NULL /\ ring[o].consumed[s] = n
        /\ q = p => ring[o].dueData[s] # NULL /\ ring[o].consumed[s] = n + 0
    BY <1>1, <1>3, <1>4, <2>1, ReaderPlace DEF Held, Read
  <2>4. Ring(o)!Begun(s) = ring[o].consumed[s] + (IF ring[o].dueData[s] = NULL THEN 0 ELSE 1)
    BY DEF Ring!Begun
  <2> HIDE DEF q, n
  <2>5. CASE q < p
    BY <1>5, <2>2, <2>3, <2>4, <2>5 DEF q
  <2>6. CASE q > p
    <3>1. ~ (q <= p)
      BY <2>3, <2>6
    <3> QED
      BY <2>2, <2>3, <2>6, <3>1 DEF q
  <2>7. CASE q = p
    BY <1>5, <2>2, <2>3, <2>4, <2>7 DEF q
  <2> QED
    BY <2>3, <2>5, <2>6, <2>7
<1>9. n < SamplesBefore(o, ExecutionStop)
  BY <1>2, <1>3, <1>4, NotStopped
<1> QED
  BY <1>7, <1>8, <1>9

\* ... to publish what it wrote ...
LEMMA TurnToPublish ==
    ASSUME ServiceInv, NEW v \in Worker, pc[v] = "writeRelease",
           NEW i \in FirstOf(DueOutputs(v)), NEW o \in Port, Output(v, i) = o
    PROVE  ring[o].wpc = "release" /\ Ring(o)!InTurnToPublish
<1> DEFINE p == Current(v)
           t == timeNow[v]
           n == SamplesBefore(o, t)
<1>1. pc[v] \in Serving /\ LoopTypes
  BY Types DEF Serving, ServiceInv
<1>2. /\ InLoop(v) /\ p \in Process /\ WorkerOf(p) = v /\ Stage(p) = pc[v]
      /\ now[p] = t
  BY <1>1, AtService DEF ServiceInv
<1>o. Outputs[p][i] = o
  BY DEF Output
<1>3. i \in DOMAIN Outputs[p] /\ IsDue(o, t) /\ ~ (i < due[v]) /\ i >= due[v]
  BY <1>1, <1>2, <1>o, WalkOutputs
<1>4. WriterOf(o) = p /\ t \in Nat
  BY <1>1, <1>2, <1>3, <1>o, WriterOfOutput DEF LoopTypes
<1>5. n \in Nat
  BY <1>4, SamplesNat
<1>6. OutputInv(p, i)
  BY <1>2, <1>3 DEF ServiceInv, ProcessInv
<1>7. ring[o].wpc = "release" /\ ring[o].written = n
  <2>1. ring[o].wpc = "release" /\ ring[o].written = n + 0
    BY <1>2, <1>3, <1>o, <1>6 DEF OutputInv, PhaseAt, Wrote
  <2> QED
    BY <1>5, <2>1
<1>8. Ring(o)!InTurnToPublish
  <2> SUFFICES ASSUME NEW s \in SameThreadFirst(o) PROVE ring[o].consumed[s] = n + 1
    BY <1>7 DEF Ring!InTurnToPublish
  <2>1. s \in Reader(o) /\ WorkerOf(ReaderOf(o, s)) = v /\ ReaderOf(o, s) <= p
    BY <1>2, <1>4 DEF SameThreadFirst, SameThread
  <2> DEFINE q == ReaderOf(o, s)
  <2>2. /\ q \in Nat /\ p \in Nat
        /\ q < p => ring[o].consumed[s] = n + 1
        /\ q = p => ring[o].consumed[s] = n + 1
    BY <1>1, <1>3, <1>4, <2>1, ReaderPlace DEF Read
  <2> HIDE DEF q, n
  <2> QED
    BY <2>1, <2>2 DEF q
<1> QED
  BY <1>7, <1>8

\* ... and to read.
LEMMA TurnToRead ==
    ASSUME ServiceInv, NEW v \in Worker, pc[v] = "readLock",
           NEW i \in FirstOf(DueInputs(v)), NEW o \in Port, NEW r \in Reader(o),
           Input(v, i) = <<o, r>>
    PROVE  /\ ring[o].dueData[r] = NULL
           /\ ring[o].consumed[r] < SamplesBefore(o, ExecutionStop)
           /\ r \in SameThread(o) => Ring(o)!InTurnToRead(r)
<1> DEFINE p == Current(v)
           t == timeNow[v]
           n == SamplesBefore(o, t)
<1>1. pc[v] \in Serving /\ LoopTypes
  BY Types DEF Serving, ServiceInv
<1>2. /\ InLoop(v) /\ p \in Process /\ WorkerOf(p) = v /\ Stage(p) = pc[v]
      /\ now[p] = t /\ t < ExecutionStop
  BY <1>1, AtService DEF ServiceInv
<1>o. Inputs[p][i] = <<o, r>> /\ Inputs[p][i][1] = o /\ Inputs[p][i][2] = r
  BY DEF Input
<1>3. i \in DOMAIN Inputs[p] /\ IsDue(o, t) /\ ~ (i < due[v])
  BY <1>1, <1>2, <1>o, WalkInputs
<1>4. ReaderOf(o, r) = p /\ t \in Nat
  BY <1>1, <1>2, <1>3, <1>o, ReaderOfInput DEF LoopTypes
<1>5. n \in Nat
  BY <1>4, SamplesNat
<1>6. InputInv(p, i)
  BY <1>2, <1>3 DEF ServiceInv, ProcessInv
<1>7. ring[o].dueData[r] = NULL /\ ring[o].consumed[r] = n
  <2>1. ring[o].dueData[r] = NULL /\ ring[o].consumed[r] = n + 0
    BY <1>2, <1>3, <1>o, <1>6 DEF InputInv, Held, Read
  <2> QED
    BY <1>5, <2>1
<1>8. ASSUME r \in SameThread(o) PROVE Ring(o)!InTurnToRead(r)
  <2> DEFINE q == WriterOf(o)
  <2>1. WorkerOf(q) = v
    BY <1>2, <1>4, <1>8 DEF SameThread
  <2>2. r \in SameThreadFirst(o) <=> p <= q
    BY <1>4, <1>8 DEF SameThreadFirst
  <2>3. /\ q \in Nat /\ p \in Nat /\ ring[o].wpc = "lock" /\ ring[o].windex = 0
        /\ q < p => ring[o].written = n + 1
        /\ q > p => ring[o].written = n
        /\ q = p => ring[o].written = n + 0
    BY <1>1, <1>3, <1>4, <2>1, WriterPlace DEF PhaseAt, Wrote
  <2> HIDE DEF q, n
  <2>4. IF r \in SameThreadFirst(o) THEN ring[o].consumed[r] = ring[o].written
                                   ELSE ring[o].consumed[r] = ring[o].written - 1
    <3>1. CASE q < p
      <4>1. ~ (p <= q) /\ ring[o].written = n + 1
        BY <2>3, <3>1
      <4> QED
        BY <1>5, <1>7, <2>2, <4>1
    <3>2. CASE q >= p
      <4>1. p <= q /\ ring[o].written = n
        BY <1>5, <2>3, <3>2
      <4> QED
        BY <1>7, <2>2, <4>1
    <3> QED
      BY <2>3, <3>1, <3>2
  <2> QED
    BY <2>3, <2>4 DEF Ring!InTurnToRead
<1>9. n < SamplesBefore(o, ExecutionStop)
  BY <1>2, <1>3, <1>4, NotStopped
<1> QED
  BY <1>7, <1>8, <1>9

\* A step that services the first due input, or output, of a process.
LEMMA InputTouched ==
    ASSUME ServiceInv, NEW v \in Worker, pc[v] \in {"readLock", "readRelease"},
           UNCHANGED <<pc, turn, timeNow, now, endRunPhase>>,
           NEW c \in Process, c = Current(v),
           NEW i \in FirstOf(DueInputs(v)), due' = [due EXCEPT ![v] = i + 1],
           RingShape', RingSteps, \A q \in Port : OutputSame(q),
           \A q \in Port : \A s \in Reader(q) :
               <<q, s>> # Inputs[c][i] => InputSame(q, s),
           InputInv(c, i)'
    PROVE  ServiceInv'
<1>0. TypeOK /\ WorkerInv(v) /\ LoopTypes /\ pc[v] \in Serving
  BY Types DEF ServiceInv, Serving
<1>1. /\ InLoop(v) /\ c \in Process /\ WorkerOf(c) = v /\ Stage(c) = pc[v]
      /\ \A q \in Process : WorkerOf(q) = v /\ q # c => Stage(q) = "idle"
  BY <1>0, AtService
<1>2. i \in DOMAIN Inputs[c] /\ i \in Nat
  BY <1>0, <1>1, WalkInputs
<1>3. due' \in [Worker -> Nat \ {0}] /\ due'[v] = i + 1
  BY <1>0, <1>2 DEF LoopTypes
<1>4. LoopTypes'
  BY <1>0, <1>3 DEF LoopTypes
<1>5. ASSUME NEW p \in Process, NEW k \in DOMAIN Inputs[p], p # c \/ k # i
      PROVE  InputSame(Inputs[p][k][1], Inputs[p][k][2])
  <2>1. Inputs[p][k] # Inputs[c][i]
    BY <1>1, <1>2, <1>5, OnePlace
  <2> QED
    BY <2>1, ProcessPorts
<1>6. \A p \in Process : OutputsSame(p) /\ (p # c => InputsSame(p))
  BY <1>5, ProcessPorts DEF OutputsSame, InputsSame
<1>7. OnlyOf(v)
  BY <1>0, <1>1, <1>6 DEF OnlyOf, PlaceSame, LoopTypes
<1>8. WorkerInv(v)'
  BY <1>0, WorkerStays
<1>9. ASSUME NEW p \in Process, WorkerOf(p) = v PROVE ProcessInv(p)'
  <2>1. CASE c # p
    <3>1. Stage(p)' = "idle" /\ Stage(p) = "idle"
      BY <1>1, <1>9, <2>1, StageNext
    <3> QED
      BY <1>1, <1>6, <1>9, <2>1, <3>1, IdleStays DEF ServiceInv
  <2>2. CASE c = p
    <3>1. Stage(p) = pc[v] /\ Stage(p)' = pc[v]
      BY <1>0, <1>1, <1>9, <2>2, StageNext
    <3>2. ASSUME NEW k \in DOMAIN Inputs[p] PROVE InputInv(p, k)'
      <4>1. CASE k = i
        BY <2>2, <4>1
      <4>2. CASE k # i
        <5>1. InputInv(p, k) /\ InputSame(Inputs[p][k][1], Inputs[p][k][2])
          BY <1>1, <1>5, <1>9, <4>2 DEF ServiceInv, ProcessInv
        <5>2. IsDue(Inputs[p][k][1], timeNow[v]) =>
                  /\ k < i + 1 <=> k < due[v]
                  /\ k >= i + 1 <=> k >= due[v]
          <6>1. IsDue(Inputs[c][k][1], timeNow[v]) =>
                    /\ k < i + 1 <=> k < due[v] \/ k = i
                    /\ k >= i + 1 <=> k >= due[v] /\ k # i
            BY <1>0, <1>1, <2>2, WalkInputs
          <6> QED
            BY <2>2, <4>2, <6>1
        <5> QED
          BY <1>3, <1>9, <3>1, <5>1, <5>2, InputInvNext DEF InputInv, InputSame, Held, Read
      <4> QED
        BY <4>1, <4>2
    <3>3. ASSUME NEW k \in DOMAIN Outputs[p] PROVE OutputInv(p, k)'
      <4>1. OutputInv(p, k) /\ OutputSame(Outputs[p][k])
        BY <1>1, <1>6, <1>9 DEF ServiceInv, ProcessInv, OutputsSame
      <4>2. ring[Outputs[p][k]].windex = 0
        BY <1>9, <4>1 DEF OutputInv
      <4> QED
        BY <1>9, <3>1, <4>1, <4>2, OutputInvNext DEF OutputInv, OutputSame, PhaseAt, Wrote
    <3> QED
      BY <3>2, <3>3 DEF ProcessInv
  <2> QED
    BY <2>1, <2>2
<1> QED
  BY <1>4, <1>7, <1>8, <1>9, StepOf

\* The same for an output, which is locked and released reader by reader.
LEMMA OutputTouched ==
    ASSUME ServiceInv, NEW v \in Worker, pc[v] \in {"writeLock", "writeRelease"},
           UNCHANGED <<pc, turn, timeNow, now, endRunPhase>>,
           NEW c \in Process, c = Current(v), NEW i \in FirstOf(DueOutputs(v)),
           due' = due \/ due' = [due EXCEPT ![v] = i + 1],
           RingShape', RingSteps,
           \A q \in Port : \A s \in Reader(q) : InputSame(q, s),
           \A q \in Port : q # Outputs[c][i] => OutputSame(q),
           OutputInv(c, i)'
    PROVE  ServiceInv'
<1>0. TypeOK /\ WorkerInv(v) /\ LoopTypes /\ pc[v] \in Serving
  BY Types DEF ServiceInv, Serving
<1>1. /\ InLoop(v) /\ c \in Process /\ WorkerOf(c) = v /\ Stage(c) = pc[v]
      /\ \A q \in Process : WorkerOf(q) = v /\ q # c => Stage(q) = "idle"
  BY <1>0, AtService
<1>2. i \in DOMAIN Outputs[c] /\ i \in Nat
  BY <1>0, <1>1, WalkOutputs
<1>3. due' \in [Worker -> Nat \ {0}] /\ (due'[v] = due[v] \/ due'[v] = i + 1)
  <2>1. due \in [Worker -> Nat \ {0}] /\ i + 1 \in Nat \ {0}
    BY <1>0, <1>2 DEF LoopTypes
  <2> QED
    BY <2>1
<1>4. LoopTypes'
  BY <1>0, <1>3 DEF LoopTypes
<1>5. ASSUME NEW p \in Process, NEW k \in DOMAIN Outputs[p], p # c \/ k # i
      PROVE  OutputSame(Outputs[p][k])
  <2>1. Outputs[p][k] # Outputs[c][i]
    BY <1>1, <1>2, <1>5, OnePlace
  <2> QED
    BY <2>1, ProcessPorts
<1>6. \A p \in Process : InputsSame(p) /\ (p # c => OutputsSame(p))
  BY <1>5, ProcessPorts DEF OutputsSame, InputsSame
<1>7. OnlyOf(v)
  BY <1>0, <1>1, <1>6 DEF OnlyOf, PlaceSame, LoopTypes
<1>8. WorkerInv(v)'
  BY <1>0, WorkerStays
<1>9. ASSUME NEW p \in Process, WorkerOf(p) = v PROVE ProcessInv(p)'
  <2>1. CASE c # p
    <3>1. Stage(p)' = "idle" /\ Stage(p) = "idle"
      BY <1>1, <1>9, <2>1, StageNext
    <3> QED
      BY <1>1, <1>6, <1>9, <2>1, <3>1, IdleStays DEF ServiceInv
  <2>2. CASE c = p
    <3>1. Stage(p) = pc[v] /\ Stage(p)' = pc[v]
      BY <1>0, <1>1, <1>9, <2>2, StageNext
    <3>2. ASSUME NEW k \in DOMAIN Inputs[p] PROVE InputInv(p, k)'
      <4>1. InputInv(p, k) /\ InputSame(Inputs[p][k][1], Inputs[p][k][2])
        BY <1>1, <1>6, <1>9 DEF ServiceInv, ProcessInv, InputsSame
      <4> QED
        BY <1>9, <3>1, <4>1, InputInvNext DEF InputInv, InputSame, Held, Read
    <3>3. ASSUME NEW k \in DOMAIN Outputs[p] PROVE OutputInv(p, k)'
      <4>1. CASE k = i
        BY <2>2, <4>1
      <4>2. CASE k # i
        <5>1. OutputInv(p, k) /\ OutputSame(Outputs[p][k])
          BY <1>1, <1>5, <1>9, <4>2 DEF ServiceInv, ProcessInv
        <5>2. IsDue(Outputs[p][k], timeNow[v]) =>
                  /\ k < due'[v] <=> k < due[v]
                  /\ k >= due'[v] <=> k >= due[v]
          <6>1. CASE due'[v] = due[v]
            BY <6>1
          <6>2. CASE due'[v] = i + 1
            <7>1. IsDue(Outputs[c][k], timeNow[v]) =>
                      /\ k < i + 1 <=> k < due[v] \/ k = i
                      /\ k >= i + 1 <=> k >= due[v] /\ k # i
              BY <1>0, <1>1, <2>2, WalkOutputs
            <7> QED
              BY <2>2, <4>2, <6>2, <7>1
          <6> QED
            BY <1>3, <6>1, <6>2
        <5>3. ring[Outputs[p][k]].windex = 0
          <6>1. ring[Outputs[p][k]].windex # 0 => k \in FirstOf(DueOutputs(v))
            BY <1>9, <5>1 DEF OutputInv
          <6>2. k \in FirstOf(DueOutputs(v)) => k <= i /\ i <= k
            BY DEF FirstOf
          <6>3. k \in Nat
            BY ProcessPorts
          <6> QED
            BY <1>2, <4>2, <6>1, <6>2, <6>3
        <5> QED
          BY <1>9, <3>1, <5>1, <5>2, <5>3, OutputInvNext
             DEF OutputInv, OutputSame, PhaseAt, Wrote
      <4> QED
        BY <4>1, <4>2
    <3> QED
      BY <3>2, <3>3 DEF ProcessInv
  <2> QED
    BY <2>1, <2>2
<1> QED
  BY <1>4, <1>7, <1>8, <1>9, StepOf

\* One ring takes a step, the others none.
LEMMA OneRing ==
    ASSUME NEW o \in Port, Ring(o)!Next, \A q \in Port : q # o => ring'[q] = ring[q]
    PROVE  RingSteps
<1>1. ASSUME NEW q \in Port, q # o PROVE UNCHANGED (Ring(q)!vars)
  BY <1>1 DEF Ring!vars
<1> QED
  BY <1>1 DEF RingSteps

\* Replacing a value by itself.
LEMMA SameAt ==
    ASSUME NEW S, NEW T, NEW f \in [S -> T], NEW r \in S PROVE [f EXCEPT ![r] = f[r]] = f
OBVIOUS

\* The types of one ring, in the loop's terms.
LEMMA RingTypes ==
    ASSUME ServiceInv, NEW o \in Port
    PROVE  /\ RingShape /\ Ring(o)!TypeOK /\ Readers[o] \in Nat
           /\ Reader(o) = Ring(o)!Reader
           /\ \A r \in Reader(o) : /\ ring[o].consumed[r] \in Nat
                                   /\ ring[o].readBuffer[r] # NULL
                                   /\ ring[o].dueData[r] # NULL =>
                                          ring[o].dueData[r] = ring[o].readBuffer[r]
<1>1. RingShape /\ Ring(o)!TypeOK /\ Ring(o)!PositionInv
  BY Types DEF ServiceInv, Ring!RingInv
<1>2. Reader(o) = 0 .. Readers[o] - 1 /\ Readers[o] \in Nat
  BY ServiceAssumption DEF Reader
<1>3. ASSUME NEW r \in Reader(o)
      PROVE  /\ ring[o].consumed[r] \in Nat /\ ring[o].readBuffer[r] # NULL
             /\ ring[o].dueData[r] # NULL => ring[o].dueData[r] = ring[o].readBuffer[r]
  <2>1. r \in Ring(o)!Reader
    BY <1>2
  <2>2. ring[o].readBuffer[r] \in 0 .. RingSize(o) - 1 /\ RingSize(o) \in Nat
    BY <1>1, <2>1, SizeOfRing DEF Ring!TypeOK
  <2>3. ring[o].readBuffer[r] # NULL
    BY <2>2
  <2> QED
    BY <1>1, <2>1, <2>3 DEF Ring!TypeOK, Ring!PositionInv
<1> QED
  BY <1>1, <1>2, <1>3

\* The due input a worker is at, with its port and reader.
LEMMA InputOf ==
    ASSUME LoopTypes, NEW w \in Worker, Current(w) \in Process,
           NEW i \in FirstOf(DueInputs(w))
    PROVE  /\ i \in DOMAIN Inputs[Current(w)] /\ i \in Nat
           /\ \E o \in Port : \E r \in Reader(o) :
                  /\ Inputs[Current(w)][i] = <<o, r>> /\ Input(w, i) = <<o, r>>
                  /\ Input(w, i)[1] = o /\ Input(w, i)[2] = r /\ IsDue(o, timeNow[w])
<1>1. i \in DOMAIN Inputs[Current(w)] /\ IsDue(Inputs[Current(w)][i][1], timeNow[w])
  BY WalkInputs
<1> QED
  BY <1>1, ProcessPorts DEF Input

\* ReadLock changes two fields of one ring.
LEMMA ReadLockFields ==
    ASSUME RingShape, NEW o \in Port, NEW r, NEW b,
           ring' = [ring EXCEPT
                     ![o].readReady[r] = IF r \in SameThread(o) THEN @ ELSE @ \ {b},
                     ![o].dueData[r] = b]
    PROVE  /\ RingShape' /\ \A q \in Port : q # o => ring'[q] = ring[q]
           /\ ring'[o].readReady = [ring[o].readReady EXCEPT
                  ![r] = IF r \in SameThread(o) THEN @ ELSE @ \ {b}]
           /\ ring'[o].dueData = [ring[o].dueData EXCEPT ![r] = b]
           /\ UNCHANGED <<ring[o].writeBuffer, ring[o].readBuffer, ring[o].writeReady,
                          ring[o].contents, ring[o].wpc, ring[o].windex,
                          ring[o].written, ring[o].consumed>>
BY DEF RingShape, RingFields

\* OutputPort::readLock: the input now holds its buffer; on a shared thread it was
\* its turn.
LEMMA ReadLockStep ==
    ASSUME ServiceInv, NEW v \in Worker, ReadLock(v) PROVE ServiceInv' /\ RingSteps
<1>0. TypeOK /\ WorkerInv(v) /\ LoopTypes /\ pc[v] = "readLock" /\ pc[v] \in Serving
  BY Types DEF ServiceInv, ReadLock, Serving
<1>1. PICK c \in Process : /\ c = Current(v) /\ WorkerOf(c) = v /\ Stage(c) = pc[v]
                           /\ now[c] = timeNow[v] /\ InLoop(v)
  BY <1>0, AtService
<1>2. PICK i \in FirstOf(DueInputs(v)) :
          LET o == Input(v, i)[1]
              r == Input(v, i)[2]
              b == ring[o].readBuffer[r]
          IN /\ MayRead(o, r)
             /\ ring' = [ring EXCEPT
                    ![o].readReady[r] = IF r \in SameThread(o) THEN @ ELSE @ \ {b},
                    ![o].dueData[r] = b]
             /\ NextDue(v, i)
  BY DEF ReadLock
<1> PICK o \in Port : \E r \in Reader(o) :
          /\ Inputs[c][i] = <<o, r>> /\ Input(v, i) = <<o, r>>
                /\ Input(v, i)[1] = o /\ Input(v, i)[2] = r
          /\ IsDue(o, timeNow[v])
  BY <1>0, <1>1, InputOf
<1>3. PICK r \in Reader(o) :
          /\ Inputs[c][i] = <<o, r>> /\ Input(v, i) = <<o, r>>
                /\ Input(v, i)[1] = o /\ Input(v, i)[2] = r
          /\ IsDue(o, timeNow[v])
  OBVIOUS
<1>4. PICK b : b = ring[o].readBuffer[r]
  OBVIOUS
<1>5. i \in DOMAIN Inputs[c] /\ i < i + 1
  BY <1>0, <1>1, InputOf
<1>6. /\ ring[o].dueData[r] = NULL
      /\ ring[o].consumed[r] < SamplesBefore(o, ExecutionStop)
      /\ r \in SameThread(o) => Ring(o)!InTurnToRead(r)
  BY <1>0, <1>3, TurnToRead
<1>7. InputInv(c, i)
  BY <1>1, <1>5 DEF ServiceInv, ProcessInv
<1>8. /\ RingShape /\ Ring(o)!TypeOK /\ Reader(o) = Ring(o)!Reader /\ b # NULL
  BY <1>4, RingTypes
<1>9. /\ MayRead(o, r) /\ due' = [due EXCEPT ![v] = i + 1] /\ due'[v] = i + 1
      /\ ring' = [ring EXCEPT
             ![o].readReady[r] = IF r \in SameThread(o) THEN @ ELSE @ \ {b},
             ![o].dueData[r] = b]
      /\ UNCHANGED <<pc, turn, timeNow, now, endRunPhase>>
  BY <1>0, <1>2, <1>3, <1>4 DEF ReadLock, NextDue, LoopTypes
<1>10. /\ RingShape' /\ \A q \in Port : q # o => ring'[q] = ring[q]
       /\ ring'[o].readReady = [ring[o].readReady EXCEPT
              ![r] = IF r \in SameThread(o) THEN @ ELSE @ \ {b}]
       /\ ring'[o].dueData = [ring[o].dueData EXCEPT ![r] = b]
       /\ UNCHANGED <<ring[o].writeBuffer, ring[o].readBuffer, ring[o].writeReady,
                      ring[o].contents, ring[o].wpc, ring[o].windex,
                      ring[o].written, ring[o].consumed>>
  BY <1>8, <1>9, ReadLockFields
<1>11. Ring(o)!ReadLock(r)
  <2>1. ring'[o].readReady = IF r \in SameThread(o) THEN ring[o].readReady
                             ELSE [ring[o].readReady EXCEPT ![r] = @ \ {b}]
    <3>1. ring[o].readReady \in [Ring(o)!Reader -> SUBSET Ring(o)!Buffer]
             /\ r \in Ring(o)!Reader
      BY <1>8 DEF Ring!TypeOK
    <3>2. CASE r \in SameThread(o)
      <4>1. ring'[o].readReady = [ring[o].readReady EXCEPT ![r] = ring[o].readReady[r]]
        BY <1>10, <3>2
      <4> QED
        BY <3>1, <3>2, <4>1, SameAt
    <3>3. CASE r \notin SameThread(o)
      BY <1>10, <3>3
    <3> QED
      BY <3>2, <3>3
  <2>2. r \notin SameThread(o) => b \in ring[o].readReady[r]
    BY <1>4, <1>9 DEF MayRead
  <2> QED
    BY <1>4, <1>6, <1>10, <2>1, <2>2 DEF Ring!ReadLock
<1>12. RingSteps
  <2>1. Ring(o)!Next
    BY <1>8, <1>11 DEF Ring!Next
  <2> QED
    BY <1>10, <2>1, OneRing
<1>13. /\ ring'[o].dueData[r] = b
       /\ \A s \in Reader(o) : s # r => ring'[o].dueData[s] = ring[o].dueData[s]
  BY <1>8, <1>10 DEF Ring!TypeOK
<1>14. \A q \in Port : OutputSame(q)
  BY <1>10 DEF OutputSame
<1>15. ASSUME NEW q \in Port, NEW s \in Reader(q), <<q, s>> # Inputs[c][i]
       PROVE  InputSame(q, s)
  <2>1. q # o \/ (q = o /\ s # r)
    BY <1>3, <1>15
  <2>2. ring'[o].consumed = ring[o].consumed
    BY <1>10
  <2>3. CASE q # o
    BY <1>10, <2>3 DEF InputSame
  <2>4. CASE q = o /\ s # r
    BY <1>13, <2>2, <2>4 DEF InputSame
  <2> QED
    BY <2>1, <2>3, <2>4
<1>16. InputInv(c, i)'
  <2>1. Stage(c)' = pc[v]
    BY <1>0, <1>1, <1>9, StageNext
  <2>2. ring'[o].dueData[r] # NULL /\ ring'[o].consumed[r] = ring[o].consumed[r]
    BY <1>8, <1>10, <1>13
  <2> QED
    BY <1>0, <1>1, <1>3, <1>5, <1>7, <1>9, <2>1, <2>2, InputInvNext
       DEF InputInv, Held, Read
<1> QED
  BY <1>0, <1>1, <1>9, <1>10, <1>12, <1>14, <1>15, <1>16, InputTouched


\* S is the record R of a ring with four of its fields replaced.
FourChanged(R, S, W, D, B, C) ==
    /\ DOMAIN S = RingFields
    /\ S.writeReady = W /\ S.dueData = D /\ S.readBuffer = B /\ S.consumed = C
    /\ S.writeBuffer = R.writeBuffer /\ S.readReady = R.readReady
    /\ S.contents = R.contents /\ S.wpc = R.wpc
    /\ S.windex = R.windex /\ S.written = R.written

\* What EXCEPT does to the record of a ring, four fields at a time.
LEMMA FourFields ==
    ASSUME NEW R, DOMAIN R = RingFields, NEW S, NEW W, NEW D, NEW B, NEW C,
           S = [R EXCEPT !.writeReady = W, !.dueData = D, !.readBuffer = B, !.consumed = C]
    PROVE  FourChanged(R, S, W, D, B, C)
BY DEF FourChanged, RingFields

\* ReadRelease changes four fields of one ring.
LEMMA ReadReleaseFields ==
    ASSUME RingShape, NEW o \in Port, NEW r, NEW b, NEW n,
           ring' = [ring EXCEPT
                     ![o].writeReady[r] = IF r \in SameThread(o) THEN @ ELSE @ \cup {b},
                     ![o].dueData[r] = NULL,
                     ![o].readBuffer[r] = n,
                     ![o].consumed[r] = @ + 1]
    PROVE  /\ RingShape' /\ \A q \in Port : q # o => ring'[q] = ring[q]
           /\ ring'[o].writeReady = [ring[o].writeReady EXCEPT
                  ![r] = IF r \in SameThread(o) THEN @ ELSE @ \cup {b}]
           /\ ring'[o].dueData = [ring[o].dueData EXCEPT ![r] = NULL]
           /\ ring'[o].readBuffer = [ring[o].readBuffer EXCEPT ![r] = n]
           /\ ring'[o].consumed = [ring[o].consumed EXCEPT ![r] = @ + 1]
           /\ UNCHANGED <<ring[o].writeBuffer, ring[o].readReady, ring[o].contents,
                          ring[o].wpc, ring[o].windex, ring[o].written>>
<1> DEFINE W == [ring[o].writeReady EXCEPT
                   ![r] = IF r \in SameThread(o) THEN @ ELSE @ \cup {b}]
           D == [ring[o].dueData EXCEPT ![r] = NULL]
           B == [ring[o].readBuffer EXCEPT ![r] = n]
           C == [ring[o].consumed EXCEPT ![r] = @ + 1]
<1>1. ring'[o] = [ring[o] EXCEPT !.writeReady = W, !.dueData = D,
                                 !.readBuffer = B, !.consumed = C]
  BY DEF RingShape, RingFields
<1>2. DOMAIN ring' = Port /\ \A q \in Port : q # o => ring'[q] = ring[q]
  BY DEF RingShape
<1>3. DOMAIN ring[o] = RingFields
  BY DEF RingShape
<1> HIDE DEF W, D, B, C
<1>4. FourChanged(ring[o], ring'[o], W, D, B, C)
  BY <1>1, <1>3, FourFields
<1>5. RingShape'
  BY <1>2, <1>3, <1>4, Zenon DEF RingShape, FourChanged
<1> QED
  BY <1>2, <1>4, <1>5, Zenon DEF FourChanged, W, D, B, C

\* OutputPort::readRelease: the input has had one more sample.
LEMMA ReadReleaseStep ==
    ASSUME ServiceInv, NEW v \in Worker, ReadRelease(v) PROVE ServiceInv' /\ RingSteps
<1>0. TypeOK /\ WorkerInv(v) /\ LoopTypes /\ pc[v] = "readRelease" /\ pc[v] \in Serving
  BY Types DEF ServiceInv, ReadRelease, Serving
<1>1. PICK c \in Process : /\ c = Current(v) /\ WorkerOf(c) = v /\ Stage(c) = pc[v]
                           /\ now[c] = timeNow[v] /\ InLoop(v)
  BY <1>0, AtService
<1>2. PICK i \in FirstOf(DueInputs(v)) :
          LET o == Input(v, i)[1]
              r == Input(v, i)[2]
              b == ring[o].readBuffer[r]
          IN /\ ring' = [ring EXCEPT
                    ![o].writeReady[r] = IF r \in SameThread(o) THEN @ ELSE @ \cup {b},
                    ![o].dueData[r] = NULL,
                    ![o].readBuffer[r] = Down(b, RingSize(o)),
                    ![o].consumed[r] = @ + 1]
             /\ NextDue(v, i)
  BY DEF ReadRelease
<1> PICK o \in Port : \E r \in Reader(o) :
        /\ Inputs[c][i] = <<o, r>> /\ Input(v, i) = <<o, r>> /\ Input(v, i)[1] = o
              /\ Input(v, i)[2] = r
        /\ IsDue(o, timeNow[v])
  BY <1>0, <1>1, InputOf
<1>3. PICK r \in Reader(o) :
          /\ Inputs[c][i] = <<o, r>> /\ Input(v, i) = <<o, r>>
                /\ Input(v, i)[1] = o /\ Input(v, i)[2] = r
          /\ IsDue(o, timeNow[v])
  OBVIOUS
<1>4. PICK b : b = ring[o].readBuffer[r]
  OBVIOUS
<1>5. /\ i \in DOMAIN Inputs[c] /\ i < i + 1 /\ ~ (i >= i + 1)
      /\ i >= due[v] /\ ~ (i < due[v])
  <2>1. i \in DOMAIN Inputs[c] /\ i \in Nat /\ i >= due[v] /\ ~ (i < due[v])
    BY <1>0, <1>1, InputOf, WalkInputs
  <2> QED
    BY <2>1
<1>7. InputInv(c, i)
  BY <1>1, <1>5 DEF ServiceInv, ProcessInv
<1>8. /\ RingShape /\ Ring(o)!TypeOK /\ Reader(o) = Ring(o)!Reader
      /\ ring[o].consumed[r] \in Nat
  BY <1>4, RingTypes
<1>9. /\ due' = [due EXCEPT ![v] = i + 1] /\ due'[v] = i + 1
      /\ ring' = [ring EXCEPT
             ![o].writeReady[r] = IF r \in SameThread(o) THEN @ ELSE @ \cup {b},
             ![o].dueData[r] = NULL,
             ![o].readBuffer[r] = Down(b, RingSize(o)),
             ![o].consumed[r] = @ + 1]
      /\ UNCHANGED <<pc, turn, timeNow, now, endRunPhase>>
  BY <1>0, <1>2, <1>3, <1>4 DEF ReadRelease, NextDue, LoopTypes
<1>10. /\ RingShape' /\ \A q \in Port : q # o => ring'[q] = ring[q]
       /\ ring'[o].writeReady = [ring[o].writeReady EXCEPT
              ![r] = IF r \in SameThread(o) THEN @ ELSE @ \cup {b}]
       /\ ring'[o].dueData = [ring[o].dueData EXCEPT ![r] = NULL]
       /\ ring'[o].readBuffer = [ring[o].readBuffer EXCEPT ![r] = Down(b, RingSize(o))]
       /\ ring'[o].consumed = [ring[o].consumed EXCEPT ![r] = @ + 1]
       /\ UNCHANGED <<ring[o].writeBuffer, ring[o].readReady, ring[o].contents,
                      ring[o].wpc, ring[o].windex, ring[o].written>>
  BY <1>8, <1>9, ReadReleaseFields
<1>6. ring[o].dueData[r] # NULL /\ ring[o].consumed[r] = SamplesBefore(o, now[c])
  <2>1. /\ ring[o].dueData[r] # NULL
        /\ ring[o].consumed[r] = SamplesBefore(o, now[c]) + 0
    BY <1>0, <1>1, <1>3, <1>5, <1>7 DEF InputInv, Held, Read
  <2>2. SamplesBefore(o, now[c]) \in Nat
    BY <1>0, SamplesNat DEF LoopTypes
  <2> QED
    BY <2>1, <2>2
<1>11. Ring(o)!ReadRelease(r)
  <2>1. ring'[o].writeReady = IF r \in SameThread(o) THEN ring[o].writeReady
                              ELSE [ring[o].writeReady EXCEPT ![r] = @ \cup {b}]
    <3>1. ring[o].writeReady \in [Ring(o)!Reader -> SUBSET Ring(o)!Buffer]
             /\ r \in Ring(o)!Reader
      BY <1>8 DEF Ring!TypeOK
    <3>2. CASE r \in SameThread(o)
      <4>1. ring'[o].writeReady = [ring[o].writeReady EXCEPT ![r] = ring[o].writeReady[r]]
        BY <1>10, <3>2
      <4> QED
        BY <3>1, <3>2, <4>1, SameAt
    <3>3. CASE r \notin SameThread(o)
      BY <1>10, <3>3
    <3> QED
      BY <3>2, <3>3
  <2>2. Down(b, RingSize(o)) = Ring(o)!Down(b, RingSize(o))
    BY DEF Down, Ring!Down
  <2>3. ring'[o].readBuffer = [ring[o].readBuffer EXCEPT ![r] = Ring(o)!Down(@, RingSize(o))]
    BY <1>4, <1>10, <2>2
  <2> QED
    BY <1>4, <1>6, <1>10, <2>1, <2>3 DEF Ring!ReadRelease
<1>12. RingSteps
  <2>1. Ring(o)!Next
    BY <1>8, <1>11 DEF Ring!Next
  <2> QED
    BY <1>10, <2>1, OneRing
<1>13. /\ ring'[o].dueData[r] = NULL /\ ring'[o].consumed[r] = ring[o].consumed[r] + 1
       /\ \A s \in Reader(o) : s # r =>
              /\ ring'[o].dueData[s] = ring[o].dueData[s]
              /\ ring'[o].consumed[s] = ring[o].consumed[s]
  BY <1>8, <1>10 DEF Ring!TypeOK
<1>14. \A q \in Port : OutputSame(q)
  BY <1>10 DEF OutputSame
<1>15. ASSUME NEW q \in Port, NEW s \in Reader(q), <<q, s>> # Inputs[c][i]
       PROVE  InputSame(q, s)
  <2>1. q # o \/ (q = o /\ s # r)
    BY <1>3, <1>15
  <2>2. CASE q # o
    BY <1>10, <2>2 DEF InputSame
  <2>3. CASE q = o /\ s # r
    BY <1>13, <2>3 DEF InputSame
  <2> QED
    BY <2>1, <2>2, <2>3
<1>16. InputInv(c, i)'
  <2>1. Stage(c)' = pc[v] /\ now'[c] = now[c]
    BY <1>0, <1>1, <1>9, StageNext
  <2>2. /\ ring'[o].dueData[r] = NULL
        /\ ring'[o].consumed[r] = SamplesBefore(o, now'[c]) + 1
    BY <1>6, <1>13, <2>1
  <2>3. /\ ~ Held(Stage(c)', due'[v], i)
        /\ Read(Stage(c)', due'[v], i)
    BY <1>0, <1>5, <1>9, <2>1 DEF Held, Read
  <2>4. IsDue(o, timeNow'[v])
    BY <1>3, <1>9
  <2> QED
    BY <1>1, <1>3, <1>5, <2>2, <2>3, <2>4, InputInvNext
<1> QED
  BY <1>0, <1>1, <1>9, <1>10, <1>12, <1>14, <1>15, <1>16, InputTouched

-----------------------------------------------------------------------------
\* The due output a worker is at.
LEMMA OutputOf ==
    ASSUME LoopTypes, NEW w \in Worker, Current(w) \in Process,
           NEW i \in FirstOf(DueOutputs(w))
    PROVE  /\ i \in DOMAIN Outputs[Current(w)] /\ i \in Nat
           /\ i >= due[w] /\ ~ (i < due[w]) /\ i < i + 1 /\ ~ (i >= i + 1)
           /\ \E o \in Port :
                  /\ Outputs[Current(w)][i] = o /\ Output(w, i) = o
                  /\ IsDue(o, timeNow[w]) /\ WriterOf(o) = Current(w)
<1>1. /\ i \in DOMAIN Outputs[Current(w)] /\ IsDue(Outputs[Current(w)][i], timeNow[w])
      /\ i >= due[w] /\ ~ (i < due[w]) /\ i \in Nat
  BY WalkOutputs
<1> QED
  BY <1>1, ProcessPorts, WriterOfOutput DEF Output

\* The number of the next reader, in the port's own terms.
LEMMA NextReader ==
    ASSUME ServiceInv, NEW o \in Port
    PROVE  /\ RingShape /\ Ring(o)!TypeOK /\ Readers[o] \in Nat
           /\ ring[o].windex \in 0 .. Readers[o]
           /\ ring[o].windex < Readers[o] => ring[o].windex \in Ring(o)!Reader
<1>1. RingShape /\ Ring(o)!TypeOK /\ Readers[o] \in Nat
  BY RingTypes
<1>2. ring[o].windex \in 0 .. Readers[o]
  BY <1>1 DEF Ring!TypeOK
<1> QED
  BY <1>1, <1>2

\* WriteLock changes two fields of one ring.
LEMMA WriteLockFields ==
    ASSUME RingShape, NEW o \in Port, NEW r, NEW b,
           ring' = [ring EXCEPT
                     ![o].writeReady[r] = IF r \in SameThread(o) THEN @ ELSE @ \ {b},
                     ![o].windex = r + 1]
    PROVE  /\ RingShape' /\ \A q \in Port : q # o => ring'[q] = ring[q]
           /\ ring'[o].writeReady = [ring[o].writeReady EXCEPT
                  ![r] = IF r \in SameThread(o) THEN @ ELSE @ \ {b}]
           /\ ring'[o].windex = r + 1
           /\ UNCHANGED <<ring[o].writeBuffer, ring[o].readBuffer, ring[o].readReady,
                          ring[o].contents, ring[o].wpc, ring[o].dueData,
                          ring[o].written, ring[o].consumed>>
BY DEF RingShape, RingFields

\* OutputPort::writeLock takes one reader's alternator; the port stays the one the
\* worker is at.
LEMMA WriteLockStep ==
    ASSUME ServiceInv, NEW v \in Worker, WriteLock(v) PROVE ServiceInv' /\ RingSteps
<1>0. TypeOK /\ WorkerInv(v) /\ LoopTypes /\ pc[v] = "writeLock" /\ pc[v] \in Serving
  BY Types DEF ServiceInv, WriteLock, Serving
<1>1. PICK c \in Process : /\ c = Current(v) /\ WorkerOf(c) = v /\ Stage(c) = pc[v]
                           /\ now[c] = timeNow[v] /\ InLoop(v)
  BY <1>0, AtService
<1>2. PICK i \in FirstOf(DueOutputs(v)) :
          LET o == Output(v, i)
              r == ring[o].windex
              b == ring[o].writeBuffer
          IN /\ r < Readers[o]
             /\ MayWrite(o, r)
             /\ ring' = [ring EXCEPT
                    ![o].writeReady[r] = IF r \in SameThread(o) THEN @ ELSE @ \ {b},
                    ![o].windex = r + 1]
  BY DEF WriteLock
<1>3. PICK o \in Port : /\ Outputs[c][i] = o /\ Output(v, i) = o
                        /\ IsDue(o, timeNow[v])
  BY <1>0, <1>1, OutputOf
<1>4. PICK r, b : r = ring[o].windex /\ b = ring[o].writeBuffer
  OBVIOUS
<1>5. /\ i \in DOMAIN Outputs[c] /\ ~ (i < due[v])
  BY <1>0, <1>1, OutputOf
<1>6. /\ ring[o].wpc = "lock" /\ ring[o].written < SamplesBefore(o, ExecutionStop)
      /\ Ring(o)!InTurnToWrite
  BY <1>0, <1>3, TurnToWrite
<1>7. OutputInv(c, i)
  BY <1>1, <1>5 DEF ServiceInv, ProcessInv
<1>8. RingShape /\ Ring(o)!TypeOK
  BY NextReader
<1>9. /\ r < Readers[o] /\ MayWrite(o, r)
      /\ ring' = [ring EXCEPT
             ![o].writeReady[r] = IF r \in SameThread(o) THEN @ ELSE @ \ {b},
             ![o].windex = r + 1]
      /\ UNCHANGED <<pc, turn, due, timeNow, now, endRunPhase>>
  BY <1>2, <1>3, <1>4 DEF WriteLock
<1>a. r \in Ring(o)!Reader
  BY <1>4, <1>9, NextReader
<1>10. /\ RingShape' /\ \A q \in Port : q # o => ring'[q] = ring[q]
       /\ ring'[o].writeReady = [ring[o].writeReady EXCEPT
              ![r] = IF r \in SameThread(o) THEN @ ELSE @ \ {b}]
       /\ ring'[o].windex = r + 1
       /\ UNCHANGED <<ring[o].writeBuffer, ring[o].readBuffer, ring[o].readReady,
                      ring[o].contents, ring[o].wpc, ring[o].dueData,
                      ring[o].written, ring[o].consumed>>
  BY <1>8, <1>9, WriteLockFields
<1>11. Ring(o)!WriteLock(r)
  <2>1. ring'[o].writeReady = IF r \in SameThread(o) THEN ring[o].writeReady
                              ELSE [ring[o].writeReady EXCEPT ![r] = @ \ {b}]
    <3>1. ring[o].writeReady \in [Ring(o)!Reader -> SUBSET Ring(o)!Buffer]
             /\ r \in Ring(o)!Reader
      BY <1>8, <1>a DEF Ring!TypeOK
    <3>2. CASE r \in SameThread(o)
      <4>1. ring'[o].writeReady = [ring[o].writeReady EXCEPT ![r] = ring[o].writeReady[r]]
        BY <1>10, <3>2
      <4> QED
        BY <3>1, <3>2, <4>1, SameAt
    <3>3. CASE r \notin SameThread(o)
      BY <1>10, <3>3
    <3> QED
      BY <3>2, <3>3
  <2>2. r \notin SameThread(o) => b \in ring[o].writeReady[r]
    BY <1>4, <1>9 DEF MayWrite
  <2> QED
    BY <1>4, <1>6, <1>10, <2>1, <2>2 DEF Ring!WriteLock
<1>12. RingSteps
  <2>1. Ring(o)!Next
    BY <1>11, <1>a DEF Ring!Next, Ring!Writer
  <2> QED
    BY <1>10, <2>1, OneRing
<1>13. \A q \in Port : \A s \in Reader(q) : InputSame(q, s)
  BY <1>10 DEF InputSame
<1>14. \A q \in Port : q # Outputs[c][i] => OutputSame(q)
  BY <1>3, <1>10 DEF OutputSame
<1>15. OutputInv(c, i)'
  <2>1. Stage(c)' = pc[v] /\ Current(v)' = c
    BY <1>0, <1>1, <1>9, StageNext
  <2>2. i \in FirstOf(DueOutputs(v)')
    BY <1>1, <1>9, <2>1 DEF DueOutputs, Output, FirstOf
  <2>3. ring'[o].wpc = ring[o].wpc /\ ring'[o].written = ring[o].written
    BY <1>10
  <2> QED
    BY <1>0, <1>1, <1>3, <1>5, <1>7, <1>9, <2>1, <2>2, <2>3, OutputInvNext
       DEF OutputInv
<1> QED
  BY <1>0, <1>1, <1>9, <1>10, <1>12, <1>13, <1>14, <1>15, OutputTouched

\* WriteLocked changes two fields of one ring.
LEMMA WriteLockedFields ==
    ASSUME RingShape, NEW o \in Port,
           ring' = [ring EXCEPT ![o].wpc = "fill", ![o].windex = 0]
    PROVE  /\ RingShape' /\ \A q \in Port : q # o => ring'[q] = ring[q]
           /\ ring'[o].wpc = "fill" /\ ring'[o].windex = 0
           /\ UNCHANGED <<ring[o].writeBuffer, ring[o].readBuffer, ring[o].readReady,
                          ring[o].writeReady, ring[o].contents, ring[o].dueData,
                          ring[o].written, ring[o].consumed>>
BY DEF RingShape, RingFields

\* All alternators of the output are taken: its buffer is due data.
LEMMA WriteLockedStep ==
    ASSUME ServiceInv, NEW v \in Worker, WriteLocked(v) PROVE ServiceInv' /\ RingSteps
<1>0. TypeOK /\ WorkerInv(v) /\ LoopTypes /\ pc[v] = "writeLock" /\ pc[v] \in Serving
  BY Types DEF ServiceInv, WriteLocked, Serving
<1>1. PICK c \in Process : /\ c = Current(v) /\ WorkerOf(c) = v /\ Stage(c) = pc[v]
                           /\ now[c] = timeNow[v] /\ InLoop(v)
  BY <1>0, AtService
<1>2. PICK i \in FirstOf(DueOutputs(v)) :
          LET o == Output(v, i)
          IN /\ ring[o].windex = Readers[o]
             /\ ring' = [ring EXCEPT ![o].wpc = "fill", ![o].windex = 0]
             /\ NextDue(v, i)
  BY DEF WriteLocked
<1>3. PICK o \in Port : /\ Outputs[c][i] = o /\ Output(v, i) = o
                        /\ IsDue(o, timeNow[v])
  BY <1>0, <1>1, OutputOf
<1>5. i \in DOMAIN Outputs[c] /\ ~ (i < due[v]) /\ i < i + 1
  BY <1>0, <1>1, OutputOf
<1>6. /\ ring[o].wpc = "lock" /\ ring[o].written < SamplesBefore(o, ExecutionStop)
  BY <1>0, <1>3, TurnToWrite
<1>7. OutputInv(c, i)
  BY <1>1, <1>5 DEF ServiceInv, ProcessInv
<1>8. RingShape
  BY NextReader
<1>9. /\ ring[o].windex = Readers[o]
      /\ ring' = [ring EXCEPT ![o].wpc = "fill", ![o].windex = 0]
      /\ due' = [due EXCEPT ![v] = i + 1] /\ due'[v] = i + 1
      /\ UNCHANGED <<pc, turn, timeNow, now, endRunPhase>>
  BY <1>0, <1>2, <1>3 DEF WriteLocked, NextDue, LoopTypes
<1>10. /\ RingShape' /\ \A q \in Port : q # o => ring'[q] = ring[q]
       /\ ring'[o].wpc = "fill" /\ ring'[o].windex = 0
       /\ UNCHANGED <<ring[o].writeBuffer, ring[o].readBuffer, ring[o].readReady,
                      ring[o].writeReady, ring[o].contents, ring[o].dueData,
                      ring[o].written, ring[o].consumed>>
  BY <1>8, <1>9, WriteLockedFields
<1>11. Ring(o)!WriteLocked
  BY <1>6, <1>9, <1>10 DEF Ring!WriteLocked
<1>12. RingSteps
  <2>1. Ring(o)!Next
    BY <1>11 DEF Ring!Next, Ring!Writer
  <2> QED
    BY <1>10, <2>1, OneRing
<1>13. \A q \in Port : \A s \in Reader(q) : InputSame(q, s)
  BY <1>10 DEF InputSame
<1>14. \A q \in Port : q # Outputs[c][i] => OutputSame(q)
  BY <1>3, <1>10 DEF OutputSame
<1>15. OutputInv(c, i)'
  <2>1. Stage(c)' = pc[v] /\ now'[c] = now[c]
    BY <1>0, <1>1, <1>9, StageNext
  <2>2. ring'[o].written = ring[o].written
    BY <1>10
  <2>3. ring[o].written = SamplesBefore(o, now[c]) + 0
    BY <1>0, <1>1, <1>3, <1>7 DEF OutputInv, Wrote
  <2>4. PhaseAt(Stage(c)', due'[v], i) = "fill" /\ ~ Wrote(Stage(c)', due'[v], i)
    BY <1>0, <1>5, <1>9, <2>1 DEF PhaseAt, Wrote
  <2>5. IsDue(o, timeNow'[v])
    BY <1>3, <1>9
  <2> QED
    BY <1>1, <1>3, <1>5, <1>10, <2>1, <2>2, <2>3, <2>4, <2>5, OutputInvNext
<1> QED
  BY <1>0, <1>1, <1>9, <1>10, <1>12, <1>13, <1>14, <1>15, OutputTouched

\* WriteRelease changes two fields of one ring.
LEMMA WriteReleaseFields ==
    ASSUME RingShape, NEW o \in Port, NEW r, NEW b,
           ring' = [ring EXCEPT
                     ![o].readReady[r] = IF r \in SameThread(o) THEN @ ELSE @ \cup {b},
                     ![o].windex = r + 1]
    PROVE  /\ RingShape' /\ \A q \in Port : q # o => ring'[q] = ring[q]
           /\ ring'[o].readReady = [ring[o].readReady EXCEPT
                  ![r] = IF r \in SameThread(o) THEN @ ELSE @ \cup {b}]
           /\ ring'[o].windex = r + 1
           /\ UNCHANGED <<ring[o].writeBuffer, ring[o].readBuffer, ring[o].writeReady,
                          ring[o].contents, ring[o].wpc, ring[o].dueData,
                          ring[o].written, ring[o].consumed>>
BY DEF RingShape, RingFields

\* OutputPort::writeRelease hands the buffer to one reader.
LEMMA WriteReleaseStep ==
    ASSUME ServiceInv, NEW v \in Worker, WriteRelease(v) PROVE ServiceInv' /\ RingSteps
<1>0. TypeOK /\ WorkerInv(v) /\ LoopTypes /\ pc[v] = "writeRelease" /\ pc[v] \in Serving
  BY Types DEF ServiceInv, WriteRelease, Serving
<1>1. PICK c \in Process : /\ c = Current(v) /\ WorkerOf(c) = v /\ Stage(c) = pc[v]
                           /\ now[c] = timeNow[v] /\ InLoop(v)
  BY <1>0, AtService
<1>2. PICK i \in FirstOf(DueOutputs(v)) :
          LET o == Output(v, i)
              r == ring[o].windex
              b == ring[o].writeBuffer
          IN /\ r < Readers[o]
             /\ ring' = [ring EXCEPT
                    ![o].readReady[r] = IF r \in SameThread(o) THEN @ ELSE @ \cup {b},
                    ![o].windex = r + 1]
  BY DEF WriteRelease
<1>3. PICK o \in Port : /\ Outputs[c][i] = o /\ Output(v, i) = o
                        /\ IsDue(o, timeNow[v])
  BY <1>0, <1>1, OutputOf
<1>4. PICK r, b : r = ring[o].windex /\ b = ring[o].writeBuffer
  OBVIOUS
<1>5. i \in DOMAIN Outputs[c]
  BY <1>0, <1>1, OutputOf
<1>6. ring[o].wpc = "release" /\ Ring(o)!InTurnToPublish
  BY <1>0, <1>3, TurnToPublish
<1>7. OutputInv(c, i)
  BY <1>1, <1>5 DEF ServiceInv, ProcessInv
<1>8. RingShape /\ Ring(o)!TypeOK
  BY NextReader
<1>9. /\ r < Readers[o]
      /\ ring' = [ring EXCEPT
             ![o].readReady[r] = IF r \in SameThread(o) THEN @ ELSE @ \cup {b},
             ![o].windex = r + 1]
      /\ UNCHANGED <<pc, turn, due, timeNow, now, endRunPhase>>
  BY <1>2, <1>3, <1>4 DEF WriteRelease
<1>a. r \in Ring(o)!Reader
  BY <1>4, <1>9, NextReader
<1>10. /\ RingShape' /\ \A q \in Port : q # o => ring'[q] = ring[q]
       /\ ring'[o].readReady = [ring[o].readReady EXCEPT
              ![r] = IF r \in SameThread(o) THEN @ ELSE @ \cup {b}]
       /\ ring'[o].windex = r + 1
       /\ UNCHANGED <<ring[o].writeBuffer, ring[o].readBuffer, ring[o].writeReady,
                      ring[o].contents, ring[o].wpc, ring[o].dueData,
                      ring[o].written, ring[o].consumed>>
  BY <1>8, <1>9, WriteReleaseFields
<1>11. Ring(o)!WriteRelease(r)
  <2>1. ring'[o].readReady = IF r \in SameThread(o) THEN ring[o].readReady
                             ELSE [ring[o].readReady EXCEPT ![r] = @ \cup {b}]
    <3>1. ring[o].readReady \in [Ring(o)!Reader -> SUBSET Ring(o)!Buffer]
             /\ r \in Ring(o)!Reader
      BY <1>8, <1>a DEF Ring!TypeOK
    <3>2. CASE r \in SameThread(o)
      <4>1. ring'[o].readReady = [ring[o].readReady EXCEPT ![r] = ring[o].readReady[r]]
        BY <1>10, <3>2
      <4> QED
        BY <3>1, <3>2, <4>1, SameAt
    <3>3. CASE r \notin SameThread(o)
      BY <1>10, <3>3
    <3> QED
      BY <3>2, <3>3
  <2> QED
    BY <1>4, <1>6, <1>10, <2>1 DEF Ring!WriteRelease
<1>12. RingSteps
  <2>1. Ring(o)!Next
    BY <1>11, <1>a DEF Ring!Next, Ring!Writer
  <2> QED
    BY <1>10, <2>1, OneRing
<1>13. \A q \in Port : \A s \in Reader(q) : InputSame(q, s)
  BY <1>10 DEF InputSame
<1>14. \A q \in Port : q # Outputs[c][i] => OutputSame(q)
  BY <1>3, <1>10 DEF OutputSame
<1>15. OutputInv(c, i)'
  <2>1. Stage(c)' = pc[v] /\ Current(v)' = c
    BY <1>0, <1>1, <1>9, StageNext
  <2>2. i \in FirstOf(DueOutputs(v)')
    BY <1>1, <1>9, <2>1 DEF DueOutputs, Output, FirstOf
  <2>3. ring'[o].wpc = ring[o].wpc /\ ring'[o].written = ring[o].written
    BY <1>10
  <2> QED
    BY <1>0, <1>1, <1>3, <1>5, <1>7, <1>9, <2>1, <2>2, <2>3, OutputInvNext
       DEF OutputInv
<1> QED
  BY <1>0, <1>1, <1>9, <1>10, <1>12, <1>13, <1>14, <1>15, OutputTouched

\* WriteReleased changes four fields of one ring.
LEMMA WriteReleasedFields ==
    ASSUME RingShape, NEW o \in Port, NEW n,
           ring' = [ring EXCEPT ![o].writeBuffer = n, ![o].wpc = "lock",
                                ![o].windex = 0, ![o].written = @ + 1]
    PROVE  /\ RingShape' /\ \A q \in Port : q # o => ring'[q] = ring[q]
           /\ ring'[o].writeBuffer = n /\ ring'[o].wpc = "lock" /\ ring'[o].windex = 0
           /\ ring'[o].written = ring[o].written + 1
           /\ UNCHANGED <<ring[o].readBuffer, ring[o].readReady, ring[o].writeReady,
                          ring[o].contents, ring[o].dueData, ring[o].consumed>>
BY DEF RingShape, RingFields

\* All readers have been told: the output has had one more sample.
LEMMA WriteReleasedStep ==
    ASSUME ServiceInv, NEW v \in Worker, WriteReleased(v) PROVE ServiceInv' /\ RingSteps
<1>0. TypeOK /\ WorkerInv(v) /\ LoopTypes /\ pc[v] = "writeRelease" /\ pc[v] \in Serving
  BY Types DEF ServiceInv, WriteReleased, Serving
<1>1. PICK c \in Process : /\ c = Current(v) /\ WorkerOf(c) = v /\ Stage(c) = pc[v]
                           /\ now[c] = timeNow[v] /\ InLoop(v)
  BY <1>0, AtService
<1>2. PICK i \in FirstOf(DueOutputs(v)) :
          LET o == Output(v, i)
          IN /\ ring[o].windex = Readers[o]
             /\ ring' = [ring EXCEPT ![o].writeBuffer = Down(@, RingSize(o)),
                             ![o].wpc = "lock", ![o].windex = 0, ![o].written = @ + 1]
             /\ NextDue(v, i)
  BY DEF WriteReleased
<1>3. PICK o \in Port : /\ Outputs[c][i] = o /\ Output(v, i) = o
                        /\ IsDue(o, timeNow[v])
  BY <1>0, <1>1, OutputOf
<1>4. PICK n : n = Down(ring[o].writeBuffer, RingSize(o))
  OBVIOUS
<1>5. i \in DOMAIN Outputs[c] /\ ~ (i < due[v]) /\ i < i + 1 /\ ~ (i >= i + 1)
  BY <1>0, <1>1, OutputOf
<1>6. ring[o].wpc = "release" /\ Ring(o)!InTurnToPublish
  BY <1>0, <1>3, TurnToPublish
<1>7. OutputInv(c, i)
  BY <1>1, <1>5 DEF ServiceInv, ProcessInv
<1>8. RingShape
  BY NextReader
<1>9. /\ ring[o].windex = Readers[o]
      /\ ring' = [ring EXCEPT ![o].writeBuffer = n, ![o].wpc = "lock",
                              ![o].windex = 0, ![o].written = @ + 1]
      /\ due' = [due EXCEPT ![v] = i + 1] /\ due'[v] = i + 1
      /\ UNCHANGED <<pc, turn, timeNow, now, endRunPhase>>
  BY <1>0, <1>2, <1>3, <1>4, <1>8 DEF WriteReleased, NextDue, LoopTypes, RingShape
<1>10. /\ RingShape' /\ \A q \in Port : q # o => ring'[q] = ring[q]
       /\ ring'[o].writeBuffer = n /\ ring'[o].wpc = "lock" /\ ring'[o].windex = 0
       /\ ring'[o].written = ring[o].written + 1
       /\ UNCHANGED <<ring[o].readBuffer, ring[o].readReady, ring[o].writeReady,
                      ring[o].contents, ring[o].dueData, ring[o].consumed>>
  BY <1>8, <1>9, WriteReleasedFields
<1>11. Ring(o)!WriteReleased
  <2>1. n = Ring(o)!Down(ring[o].writeBuffer, RingSize(o))
    BY <1>4 DEF Down, Ring!Down
  <2> QED
    BY <1>6, <1>9, <1>10, <2>1 DEF Ring!WriteReleased
<1>12. RingSteps
  <2>1. Ring(o)!Next
    BY <1>11 DEF Ring!Next, Ring!Writer
  <2> QED
    BY <1>10, <2>1, OneRing
<1>13. \A q \in Port : \A s \in Reader(q) : InputSame(q, s)
  BY <1>10 DEF InputSame
<1>14. \A q \in Port : q # Outputs[c][i] => OutputSame(q)
  BY <1>3, <1>10 DEF OutputSame
<1>15. OutputInv(c, i)'
  <2>1. Stage(c)' = pc[v] /\ now'[c] = now[c]
    BY <1>0, <1>1, <1>9, StageNext
  <2>2. ring'[o].written = SamplesBefore(o, now[c]) + 1
    <3>1. SamplesBefore(o, now[c]) \in Nat
      BY <1>0, SamplesNat DEF LoopTypes
    <3>2. ring[o].written = SamplesBefore(o, now[c]) + 0
      BY <1>0, <1>1, <1>3, <1>5, <1>7 DEF OutputInv, Wrote
    <3> QED
      BY <1>10, <3>1, <3>2
  <2>3. PhaseAt(Stage(c)', due'[v], i) = "lock" /\ Wrote(Stage(c)', due'[v], i)
    BY <1>0, <1>5, <1>9, <2>1 DEF PhaseAt, Wrote
  <2>4. IsDue(o, timeNow'[v])
    BY <1>3, <1>9
  <2> QED
    BY <1>1, <1>3, <1>5, <1>10, <2>1, <2>2, <2>3, <2>4, OutputInvNext
<1> QED
  BY <1>0, <1>1, <1>9, <1>10, <1>12, <1>13, <1>14, <1>15, OutputTouched

\* EVENT_RUN_SERVICE fills the due outputs of the process and touches nothing else.
LEMMA FireFields ==
    ASSUME RingShape, NEW c \in Process, NEW t,
           ring' = [o \in Port |->
               IF o \in ToSet(Outputs[c]) /\ IsDue(o, t)
               THEN [ring[o] EXCEPT !.wpc = "release",
                         !.contents[ring[o].writeBuffer] = t \div Period[o]]
               ELSE ring[o]]
    PROVE  /\ RingShape'
           /\ \A o \in Port :
                  IF o \in ToSet(Outputs[c]) /\ IsDue(o, t)
                  THEN /\ ring'[o].wpc = "release"
                       /\ ring'[o].contents = [ring[o].contents EXCEPT
                              ![ring[o].writeBuffer] = t \div Period[o]]
                       /\ UNCHANGED <<ring[o].writeBuffer, ring[o].readBuffer,
                              ring[o].readReady, ring[o].writeReady, ring[o].windex,
                              ring[o].dueData, ring[o].written, ring[o].consumed>>
                  ELSE ring'[o] = ring[o]
<1>1. \A o \in Port : ring'[o] = IF o \in ToSet(Outputs[c]) /\ IsDue(o, t)
               THEN [ring[o] EXCEPT !.wpc = "release",
                         !.contents[ring[o].writeBuffer] = t \div Period[o]]
               ELSE ring[o]
  OBVIOUS
<1>2. \A o \in Port : DOMAIN ring[o] = RingFields
  BY DEF RingShape
<1>3. DOMAIN ring' = Port /\ \A o \in Port : DOMAIN ring'[o] = RingFields
  BY <1>1, <1>2
<1>4. ASSUME NEW o \in Port, o \in ToSet(Outputs[c]) /\ IsDue(o, t)
      PROVE  /\ ring'[o].wpc = "release"
             /\ ring'[o].contents = [ring[o].contents EXCEPT
                    ![ring[o].writeBuffer] = t \div Period[o]]
             /\ UNCHANGED <<ring[o].writeBuffer, ring[o].readBuffer,
                    ring[o].readReady, ring[o].writeReady, ring[o].windex,
                    ring[o].dueData, ring[o].written, ring[o].consumed>>
  <2>1. ring'[o] = [ring[o] EXCEPT !.wpc = "release",
                       !.contents[ring[o].writeBuffer] = t \div Period[o]]
    BY <1>1, <1>4
  <2> QED
    BY <1>2, <2>1 DEF RingFields
<1> QED
  BY <1>1, <1>3, <1>4 DEF RingShape

\* A service, whether it is answered C_OK or C_STOP_.., fills every due output with the
\* sample of this time.
LEMMA ServicedStep ==
    ASSUME ServiceInv, NEW v \in Worker, FireOK(v) \/ FireStop(v)
    PROVE  ServiceInv' /\ RingSteps
<1>0. TypeOK /\ WorkerInv(v) /\ LoopTypes /\ RingShape /\ pc[v] = "fire" /\ pc[v] \in Serving
  BY Types DEF ServiceInv, FireOK, FireStop, Serviced, Serving
<1>1. PICK c \in Process : /\ c = Current(v) /\ WorkerOf(c) = v /\ Stage(c) = pc[v]
                           /\ now[c] = timeNow[v] /\ InLoop(v)
                           /\ \A q \in Process : WorkerOf(q) = v /\ q # c => Stage(q) = "idle"
  BY <1>0, AtService
<1>2. PICK t : t = timeNow[v]
  OBVIOUS
<1>3. /\ ring' = [o \in Port |->
              IF o \in ToSet(Outputs[c]) /\ IsDue(o, t)
              THEN [ring[o] EXCEPT !.wpc = "release",
                        !.contents[ring[o].writeBuffer] = t \div Period[o]]
              ELSE ring[o]]
      /\ pc' = [pc EXCEPT ![v] = "readRelease"] /\ due' = [due EXCEPT ![v] = 1]
      /\ pc'[v] = "readRelease" /\ due'[v] = 1
      /\ UNCHANGED <<turn, timeNow, now>>
      /\ endRunPhase' \in BOOLEAN /\ (endRunPhase => endRunPhase')
  BY <1>0, <1>1, <1>2 DEF FireOK, FireStop, Serviced, FirstDue, Goto, LoopTypes
<1>4. /\ RingShape'
      /\ \A o \in Port :
             IF o \in ToSet(Outputs[c]) /\ IsDue(o, t)
             THEN /\ ring'[o].wpc = "release"
                  /\ ring'[o].contents = [ring[o].contents EXCEPT
                         ![ring[o].writeBuffer] = t \div Period[o]]
                  /\ UNCHANGED <<ring[o].writeBuffer, ring[o].readBuffer,
                         ring[o].readReady, ring[o].writeReady, ring[o].windex,
                         ring[o].dueData, ring[o].written, ring[o].consumed>>
             ELSE ring'[o] = ring[o]
  BY <1>0, <1>3, FireFields
<1>5. "readRelease" \in Label /\ "readRelease" \in Serving
  BY DEF Label, Serving
<1>6. \A i \in DOMAIN Outputs[c] : OutputInv(c, i)
  BY <1>1 DEF ServiceInv, ProcessInv
<1>7. RingSteps
  <2>1. ASSUME NEW o \in Port, o \in ToSet(Outputs[c]) /\ IsDue(o, t) PROVE Ring(o)!Next
    <3>1. PICK i \in DOMAIN Outputs[c] : Outputs[c][i] = o
      BY <2>1 DEF ToSet
    <3>2. ring[o].wpc = "fill" /\ ring[o].written = SamplesBefore(o, now[c]) + 0
      BY <1>0, <1>1, <1>2, <1>6, <2>1, <3>1 DEF OutputInv, PhaseAt, Wrote
    <3>3. ring[o].written = t \div Period[o]
      <4>1. t \in Nat /\ SamplesBefore(o, t) \in Nat
        BY <1>0, <1>2, SamplesNat DEF LoopTypes
      <4> QED
        BY <1>1, <1>2, <2>1, <3>2, <4>1, SamplesWhenDue
    <3>4. Ring(o)!Fill
      BY <1>4, <2>1, <3>2, <3>3 DEF Ring!Fill
    <3> QED
      BY <3>4 DEF Ring!Next, Ring!Writer
  <2>2. ASSUME NEW o \in Port, ~ (o \in ToSet(Outputs[c]) /\ IsDue(o, t))
        PROVE  UNCHANGED (Ring(o)!vars)
    BY <1>4, <2>2 DEF Ring!vars
  <2> QED
    BY <2>1, <2>2 DEF RingSteps
<1>8. \A q \in Port : \A s \in Reader(q) : InputSame(q, s)
  BY <1>4 DEF InputSame
<1>9. \A p \in Process : InputsSame(p) /\ (p # c => OutputsSame(p))
  <2>1. ASSUME NEW p \in Process, p # c, NEW k \in DOMAIN Outputs[p]
        PROVE  OutputSame(Outputs[p][k])
    <3>1. Outputs[p][k] \in Port /\ Outputs[p][k] \notin ToSet(Outputs[c])
      BY <2>1, OnePlace, ProcessPorts DEF ToSet
    <3> QED
      BY <1>4, <3>1 DEF OutputSame
  <2> QED
    BY <1>8, <2>1, ProcessPorts DEF InputsSame, OutputsSame
<1>10. OnlyOf(v)
  BY <1>0, <1>1, <1>3, <1>9 DEF OnlyOf, PlaceSame, LoopTypes
<1>11. LoopTypes'
  <2>1. due' \in [Worker -> Nat \ {0}]
    <3>1. due \in [Worker -> Nat \ {0}] /\ 1 \in Nat \ {0}
      BY <1>0 DEF LoopTypes
    <3> QED
      BY <1>3, <3>1
  <2> QED
    BY <1>0, <1>3, <1>5, <2>1 DEF LoopTypes
<1>12. WorkerInv(v)'
  BY <1>0, <1>3, <1>5, WorkerStays
<1>13. ASSUME NEW p \in Process, WorkerOf(p) = v PROVE ProcessInv(p)'
  <2>1. CASE c # p
    <3>1. Stage(p)' = "idle" /\ Stage(p) = "idle"
      BY <1>1, <1>3, <1>13, <2>1, StageNext
    <3> QED
      BY <1>1, <1>3, <1>9, <1>13, <2>1, <3>1, IdleStays DEF ServiceInv
  <2>2. CASE c = p
    <3>1. Stage(p) = "fire" /\ Stage(p)' = "readRelease"
      BY <1>0, <1>1, <1>3, <1>5, <1>13, <2>2, StageNext
    <3>2. ASSUME NEW i \in DOMAIN Inputs[p] PROVE InputInv(p, i)'
      <4>1. InputInv(p, i) /\ InputSame(Inputs[p][i][1], Inputs[p][i][2])
        BY <1>1, <1>9, <1>13 DEF ServiceInv, ProcessInv, InputsSame
      <4>2. i >= 1 /\ ~ (i < 1)
        <5>1. i >= 1 /\ i \in Nat
          BY <1>0, <1>1, <2>2, WalkInputs
        <5> QED
          BY <5>1
      <4> QED
        BY <1>3, <1>13, <3>1, <4>1, <4>2, InputInvNext DEF InputInv, InputSame, Held, Read
    <3>3. ASSUME NEW i \in DOMAIN Outputs[p] PROVE OutputInv(p, i)'
      <4>1. OutputInv(p, i) /\ Outputs[p][i] \in Port /\ Outputs[p][i] \in ToSet(Outputs[c])
        BY <1>6, <2>2, ProcessPorts DEF ToSet
      <4>2. ring[Outputs[p][i]].windex = 0
        BY <1>0, <1>13, <4>1 DEF OutputInv
      <4>3. CASE IsDue(Outputs[p][i], t)
        <5>1. /\ ring'[Outputs[p][i]].wpc = "release"
              /\ ring'[Outputs[p][i]].windex = 0
              /\ ring'[Outputs[p][i]].written = ring[Outputs[p][i]].written
          BY <1>4, <4>1, <4>2, <4>3
        <5> QED
          BY <1>2, <1>3, <1>13, <3>1, <4>1, <4>3, <5>1, OutputInvNext
             DEF OutputInv, PhaseAt, Wrote
      <4>4. CASE ~ IsDue(Outputs[p][i], t)
        <5>1. ring'[Outputs[p][i]] = ring[Outputs[p][i]]
          BY <1>4, <4>1, <4>4
        <5> QED
          BY <1>2, <1>3, <1>13, <3>1, <4>1, <4>2, <4>4, <5>1, OutputInvNext
             DEF OutputInv, PhaseAt, Wrote
      <4> QED
        BY <4>3, <4>4
    <3> QED
      BY <3>2, <3>3 DEF ProcessInv
  <2> QED
    BY <2>1, <2>2
<1> QED
  BY <1>4, <1>7, <1>10, <1>11, <1>12, <1>13, StepOf

-----------------------------------------------------------------------------
\* The execution starts in the invariant.
LEMMA ServiceInit == ASSUME Init PROVE ServiceInv
<1>1. /\ pc = [w \in Worker |-> "enter"] /\ turn = [w \in Worker |-> 1]
      /\ due = [w \in Worker |-> 1] /\ timeNow = [w \in Worker |-> ExecutionStart]
      /\ now = [p \in Process |-> ExecutionStart]
      /\ ring = [o \in Port |-> FreshRing(o)] /\ endRunPhase = FALSE
  BY DEF Init
<1>2. ExecutionStart \in Nat /\ ExecutionStop \in Nat /\ ExecutionEnd \in Nat
  BY ServiceAssumption DEF ExecutionEnd
<1>3. \A o \in Port : Ring(o)!RingInv /\ Ring(o)!TypeOK
  <2>1. \A o \in Port : ring[o] = FreshRing(o)
    BY <1>1
  <2> QED
    BY <2>1, FreshRingInv DEF Ring!RingInv
<1>4. RingShape
  BY <1>1 DEF RingShape, RingFields, FreshRing
<1>5. LoopTypes
  <2>1. \A w \in Worker : 1 \in 1 .. Len(Processes[w]) + 1
    <3>1. \A w \in Worker : Len(Processes[w]) \in Nat
      BY ServiceAssumption
    <3> QED
      BY <3>1
  <2>2. turn \in [Worker -> Nat] /\ due \in [Worker -> Nat \ {0}]
    BY <1>1
  <2>3. \A w \in Worker : turn[w] \in 1 .. Len(Processes[w]) + 1
    BY <1>1, <2>1
  <2> QED
    BY <1>1, <1>2, <2>2, <2>3 DEF LoopTypes, Label
<1>6. ASSUME NEW w \in Worker PROVE WorkerInv(w)
  <2>1. TimeInv(w)
    <3>1. ASSUME NEW j \in DOMAIN Processes[w]
          PROVE  /\ now[Processes[w][j]] = ExecutionStart /\ TimeAt(w, j) = ExecutionStart
      <4>1. Processes[w][j] \in Process /\ j \in Nat /\ ~ (j < 1)
        BY ProcessOfWorker
      <4> QED
        BY <1>1, <4>1 DEF TimeAt
    <3>2. ExecutionStart <= ExecutionStart /\ ExecutionStart <= ExecutionEnd
      BY <1>2 DEF ExecutionEnd
    <3> QED
      BY <1>1, <3>1, <3>2 DEF TimeInv
  <2> QED
    BY <1>1, <1>2, <2>1 DEF WorkerInv, Serving
<1>7. ASSUME NEW p \in Process PROVE ProcessInv(p)
  <2>1. WorkerOf(p) \in Worker
    BY WorkerOfProcess
  <2>2. Stage(p) = "idle" /\ now[p] = ExecutionStart
    BY <1>1, <2>1 DEF Stage, Serving
  <2>3. ASSUME NEW i \in DOMAIN Inputs[p] PROVE InputInv(p, i)
    <3>1. Inputs[p][i][1] \in Port /\ Inputs[p][i][2] \in Reader(Inputs[p][i][1])
      BY ProcessPorts
    <3>2. /\ ring[Inputs[p][i][1]].dueData[Inputs[p][i][2]] = NULL
          /\ ring[Inputs[p][i][1]].consumed[Inputs[p][i][2]]
                 = SamplesBefore(Inputs[p][i][1], ExecutionStart)
      BY <1>1, <3>1 DEF FreshRing
    <3>3. SamplesBefore(Inputs[p][i][1], ExecutionStart) \in Nat
      BY <1>2, <3>1, SamplesNat
    <3> QED
      BY <2>2, <3>2, <3>3 DEF InputInv, Held, Read
  <2>4. ASSUME NEW i \in DOMAIN Outputs[p] PROVE OutputInv(p, i)
    <3>1. Outputs[p][i] \in Port
      BY ProcessPorts
    <3>2. /\ ring[Outputs[p][i]].wpc = "lock" /\ ring[Outputs[p][i]].windex = 0
          /\ ring[Outputs[p][i]].written = SamplesBefore(Outputs[p][i], ExecutionStart)
      BY <1>1, <3>1 DEF FreshRing
    <3>3. SamplesBefore(Outputs[p][i], ExecutionStart) \in Nat
      BY <1>2, <3>1, SamplesNat
    <3> QED
      BY <2>2, <3>2, <3>3 DEF OutputInv, PhaseAt, Wrote
  <2> QED
    BY <2>3, <2>4 DEF ProcessInv
<1>8. TypeOK
  BY <1>3, <1>4, <1>5 DEF TypeOK, LoopTypes, RingShape
<1> QED
  BY <1>3, <1>6, <1>7, <1>8 DEF ServiceInv

\* Nothing in the invariant depends on anything but the variables.
LEMMA ServiceStutter ==
    ASSUME ServiceInv, UNCHANGED vars PROVE ServiceInv' /\ RingSteps
<1>1. UNCHANGED <<pc, turn, due, timeNow, now, ring, endRunPhase>>
  BY DEF vars
<1>2. /\ RingSteps /\ (RingShape => RingShape')
      /\ \A p \in Process : InputsSame(p) /\ OutputsSame(p)
  BY <1>1, RingsSame
<1>3. LoopTypes' /\ RingShape'
  BY <1>1, <1>2, Types DEF ServiceInv, LoopTypes
<1>4. \A o \in Port : (Ring(o)!RingInv)' /\ (Ring(o)!TypeOK)'
  BY <1>2, RingStep DEF ServiceInv, RingSteps, Ring!RingInv
<1>5. TypeOK'
  BY <1>3, <1>4 DEF TypeOK, LoopTypes, RingShape
<1>6. \A w \in Worker : PlaceSame(w)
  BY <1>1 DEF PlaceSame
<1>7. ASSUME NEW w \in Worker PROVE WorkerInv(w)'
  BY <1>1, <1>2, <1>6, OtherWorker DEF ServiceInv
<1>8. ASSUME NEW p \in Process PROVE ProcessInv(p)'
  BY <1>1, <1>2, <1>6, OtherProcess, WorkerOfProcess DEF ServiceInv
<1> QED
  BY <1>2, <1>4, <1>5, <1>7, <1>8 DEF ServiceInv

\* Every step keeps the invariant and is, for each ring, a step or a stutter.
LEMMA ServiceNext ==
    ASSUME ServiceInv, [Next]_vars PROVE ServiceInv' /\ RingSteps
<1>1. CASE Cancel
  BY <1>1, CancelStep
<1>2. ASSUME NEW w \in Worker, Work(w) PROVE ServiceInv' /\ RingSteps
  <2>1. CASE Enter(w) \/ Top(w)
    BY <2>1, EnterStep, TopStep
  <2>2. CASE EndRound(w) \/ Skip(w) \/ BeginService(w)
    BY <2>2, EndRoundStep, SkipStep, BeginServiceStep
  <2>3. CASE ReadLock(w) \/ InputsLocked(w)
    BY <2>3, ReadLockStep, InputsLockedStep
  <2>4. CASE WriteLock(w) \/ WriteLocked(w) \/ OutputsLocked(w)
    BY <2>4, WriteLockStep, WriteLockedStep, OutputsLockedStep
  <2>5. CASE CancelWait(w) \/ Fire(w) \/ Catch(w)
    BY <2>5, EndingSteps, ServicedStep DEF Fire
  <2>6. CASE ReadRelease(w) \/ InputsReleased(w)
    BY <2>6, ReadReleaseStep, InputsReleasedStep
  <2>7. CASE WriteRelease(w) \/ WriteReleased(w) \/ OutputsReleased(w)
    BY <2>7, WriteReleaseStep, WriteReleasedStep, OutputsReleasedStep
  <2> QED
    BY <1>2, <2>1, <2>2, <2>3, <2>4, <2>5, <2>6, <2>7 DEF Work
<1>3. CASE UNCHANGED vars
  BY <1>3, ServiceStutter
<1> QED
  BY <1>1, <1>2, <1>3 DEF Next

\* ServiceInv holds in every state of the run phase (thread-service.c), whatever the
\* workers, processes, ports, periods, lags, start, stop and answers.
THEOREM ServiceInvariant == Spec => []ServiceInv
<1>1. Init => ServiceInv
  BY ServiceInit
<1>2. ServiceInv /\ [Next]_vars => ServiceInv'
  BY ServiceNext
<1> QED
  BY <1>1, <1>2, PTL DEF Spec

\* Every variable of the run phase keeps its type, the fields of every ring
\* (OutputPort) included.
THEOREM ServiceTypes == Spec => []TypeOK
<1>1. ServiceInv => TypeOK
  BY DEF ServiceInv
<1> QED
  BY <1>1, ServiceInvariant, PTL

\* What the invariant says of a process that is about to be fired.
LEMMA ServedNow ==
    ASSUME ServiceInv, NEW w \in Worker, pc[w] = "fire"
    PROVE  LET t == timeNow[w]
               p == Current(w)
           IN /\ \A i \in ToSet(Inputs[p]) :
                    LET o == i[1]
                        d == ring[o].dueData[i[2]]
                    IN IF IsDue(o, t)
                       THEN d # NULL /\ ring[o].contents[d] =
                                Content(t \div Period[o] - Lag[o][i[2]])
                       ELSE d = NULL
              /\ \A o \in ToSet(Outputs[p]) : ring[o].wpc = "fill" <=> IsDue(o, t)
<1>0. TypeOK /\ WorkerInv(w) /\ LoopTypes /\ pc[w] \in Serving
  BY Types DEF ServiceInv, Serving
<1>1. PICK c \in Process : /\ c = Current(w) /\ WorkerOf(c) = w /\ Stage(c) = pc[w]
                           /\ now[c] = timeNow[w] /\ InLoop(w)
  BY <1>0, AtService
<1>2. PICK t \in Nat : t = timeNow[w]
  BY <1>0 DEF LoopTypes
<1>3. ASSUME NEW k \in DOMAIN Inputs[c], NEW o \in Port, NEW r \in Reader(o),
             Inputs[c][k][1] = o, Inputs[c][k][2] = r
      PROVE  IF IsDue(o, t)
             THEN /\ ring[o].dueData[r] # NULL
                  /\ ring[o].contents[ring[o].dueData[r]] =
                         Content(t \div Period[o] - Lag[o][r])
             ELSE ring[o].dueData[r] = NULL
  <2>1. InputInv(c, k)
    BY <1>1 DEF ServiceInv, ProcessInv
  <2>2. /\ ring[o].dueData[r] # NULL <=> IsDue(o, t)
        /\ ring[o].consumed[r] = SamplesBefore(o, t) + 0
    BY <1>1, <1>2, <1>3, <2>1 DEF InputInv, Held, Read
  <2>3. CASE IsDue(o, t)
    <3>1. ring[o].consumed[r] = t \div Period[o]
      <4>1. SamplesBefore(o, t) \in Nat
        BY SamplesNat
      <4> QED
        BY <2>2, <2>3, <4>1, SamplesWhenDue
    <3>2. ring[o].contents[ring[o].dueData[r]] =
              Ring(o)!Content(ring[o].consumed[r] - Lag[o][r])
      <4>1. r \in Ring(o)!Reader
        BY RingTypes
      <4>2. Ring(o)!FreshSample
        BY RingFresh DEF ServiceInv
      <4> QED
        BY <2>2, <2>3, <4>1, <4>2 DEF Ring!FreshSample
    <3>3. Ring(o)!Content(ring[o].consumed[r] - Lag[o][r]) =
              Content(ring[o].consumed[r] - Lag[o][r])
      BY DEF Ring!Content, Ring!Initial, Content
    <3> QED
      BY <2>2, <2>3, <3>1, <3>2, <3>3
  <2> QED
    BY <2>2, <2>3
<1>4. ASSUME NEW i \in ToSet(Inputs[c])
      PROVE  IF IsDue(i[1], t)
             THEN /\ ring[i[1]].dueData[i[2]] # NULL
                  /\ ring[i[1]].contents[ring[i[1]].dueData[i[2]]] =
                         Content(t \div Period[i[1]] - Lag[i[1]][i[2]])
             ELSE ring[i[1]].dueData[i[2]] = NULL
  <2>1. PICK k \in DOMAIN Inputs[c] : Inputs[c][k] = i
    BY <1>4 DEF ToSet
  <2>2. i[1] \in Port /\ i[2] \in Reader(i[1])
    BY <2>1, ProcessPorts
  <2> QED
    BY <1>3, <2>1, <2>2
<1>5. ASSUME NEW o \in ToSet(Outputs[c]) PROVE ring[o].wpc = "fill" <=> IsDue(o, t)
  <2>1. PICK k \in DOMAIN Outputs[c] : Outputs[c][k] = o
    BY <1>5 DEF ToSet
  <2>2. OutputInv(c, k)
    BY <1>1 DEF ServiceInv, ProcessInv
  <2> QED
    BY <1>1, <1>2, <2>1, <2>2 DEF OutputInv, PhaseAt
<1> QED
  BY <1>1, <1>2, <1>4, <1>5

\* Whenever a process is fired exactly its due ports carry data, and each input the
\* sample its source wrote lag samples ago (thread-service.c, EVENT_RUN_SERVICE).
THEOREM ServiceServedOnTime == Spec => []ServedOnTime
<1>1. ServiceInv => ServedOnTime
  BY ServedNow DEF ServedOnTime
<1> QED
  BY <1>1, ServiceInvariant, PTL

\* A worker that leaves the loop of thread-service.c unasked has brought each of its
\* processes and ports exactly to the execution stop.
THEOREM ServiceExit == Spec => []ExitOnlyWhenDone
<1>1. ServiceInv => ExitOnlyWhenDone
  BY DEF ServiceInv, WorkerInv, ExitOnlyWhenDone
<1> QED
  BY <1>1, ServiceInvariant, PTL

\* The loop runs every ring as PortRing specifies it: the order of one thread is the
\* turn that OutputPort::connectInput relies on where it leaves an alternator out.
THEOREM ServiceImplementsRings == Spec => RingsImplemented
<1>1. Init => \A o \in Port : Ring(o)!Init
  <2> SUFFICES ASSUME Init, NEW o \in Port PROVE Ring(o)!Init
    OBVIOUS
  <2>1. ring[o] = FreshRing(o)
    BY DEF Init
  <2> QED
    BY <2>1, FreshRingInv
<1>2. ServiceInv /\ [Next]_vars => \A o \in Port : [Ring(o)!Next]_(Ring(o)!vars)
  BY ServiceNext DEF RingSteps
<1> QED
  BY <1>1, <1>2, ServiceInvariant, PTL DEF Spec, RingsImplemented
=====
