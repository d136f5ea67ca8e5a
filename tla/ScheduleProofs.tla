---------------------------- MODULE ScheduleProofs ----------------------------
(***************************************************************************)
(* Proofs about Schedule, for every number of processes and voices, every  *)
(* system, every grouping and every executable class: the order of         *)
(* processes and the assignment of threads can never make the workers wait *)
(* for one another in a circle, keep together what must not run            *)
(* concurrently, and share the processes evenly among the voices.          *)
(***************************************************************************)
EXTENDS Schedule, TLAPS, FiniteSetTheorems, WellFoundedInduction

\* What the loop that orders the processes keeps: each process is either ordered, once, or
\* still disordered, and comes after those it reads without lag.
OrderInv ==
    /\ order \in Seq(Process)
    /\ disordered \subseteq Process
    /\ \A i, j \in 1 .. Len(order) : order[i] = order[j] => i = j
    /\ \A i \in 1 .. Len(order) : order[i] \notin disordered
    /\ \A p \in Process \ disordered : \E i \in 1 .. Len(order) : order[i] = p
    /\ \A i \in 1 .. Len(order) : \A src \in ZeroLagSources(order[i]) :
           \E j \in 1 .. i - 1 : order[j] = src

\* How the loop ends.
StageInv ==
    /\ stage \in {"order", "E_CIRCULAR_REFERENCE", "count", "groups", "processes",
                  "reassign", "ready"}
    /\ stage = "E_CIRCULAR_REFERENCE" =>
           /\ disordered # {}
           /\ \A p \in disordered : ZeroLagSources(p) \cap disordered # {}
    /\ stage \in {"count", "groups", "processes", "reassign", "ready"} => disordered = {}

\* Two processes of a class that is not thread-safe, in one voice but in two threads.
Split(p, q) ==
    /\ Executable[p] = Executable[q] /\ Executable[p] \in NotThreadSafe
    /\ place[p] = place[q] /\ thread[p] # thread[q]

\* What the loop that moves processes keeps: those it has been at are not split.
ThreadInv ==
    /\ next \in Nat
    /\ DOMAIN thread = Process
    /\ stage = "reassign" =>
           \A p, q \in Process : Position(p) < next /\ Position(q) < next => ~ Split(p, q)
    /\ stage = "ready" => \A p, q \in Process : ~ Split(p, q)

ScheduleInv == links \subseteq Process \X Process /\ OrderInv /\ StageInv /\ ThreadInv

-----------------------------------------------------------------------------
\* When all processes are ordered, Position is the inverse of order.
LEMMA PositionOfAll ==
    ASSUME OrderInv, disordered = {}, NEW p \in Process
    PROVE  Position(p) \in 1 .. Len(order) /\ order[Position(p)] = p
<1>1. DOMAIN order = 1 .. Len(order)
  BY DEF OrderInv
<1>2. \E i \in DOMAIN order : order[i] = p
  BY <1>1 DEF OrderInv
<1> QED
  BY <1>1, <1>2 DEF Position

LEMMA PositionAt ==
    ASSUME OrderInv, disordered = {}, NEW i \in 1 .. Len(order)
    PROVE  order[i] \in Process /\ Position(order[i]) = i
<1>1. order[i] \in Process
  BY DEF OrderInv
<1> QED
  BY <1>1, PositionOfAll DEF OrderInv

LEMMA InitScheduleInv == Init => ScheduleInv
<1> SUFFICES ASSUME Init PROVE ScheduleInv
  OBVIOUS
<1>1. links \subseteq Process \X Process
  BY ScheduleAssumption DEF Init
<1>2. order = << >> /\ Len(order) = 0
  BY DEF Init
<1>3. OrderInv
  BY <1>2 DEF Init, OrderInv
<1> QED
  BY <1>1, <1>3 DEF Init, ScheduleInv, StageInv, ThreadInv

\* The process that is used next has not been used, and its sources have.
LEMMA UseProcessInv == ASSUME ScheduleInv, UseProcess PROVE ScheduleInv'
<1> USE DEF ScheduleInv
<1>1. PICK p \in disordered : /\ Acceptable(p)
                              /\ order' = Append(order, p)
                              /\ disordered' = disordered \ {p}
  BY DEF UseProcess
<1>2. /\ stage = "order" /\ UNCHANGED <<links, stage, next, thread>>
  BY DEF UseProcess, given
<1>3. p \in Process /\ order \in Seq(Process)
  BY <1>1 DEF OrderInv
<1>4. /\ order' \in Seq(Process) /\ Len(order') = Len(order) + 1
      /\ Len(order) \in Nat
      /\ \A i \in 1 .. Len(order) : order'[i] = order[i]
      /\ order'[Len(order) + 1] = p
  BY <1>1, <1>3
<1>5. \A i \in 1 .. Len(order') : i \in 1 .. Len(order) \/ i = Len(order) + 1
  BY <1>4
<1>6. \A x : ZeroLagSources(x)' = ZeroLagSources(x)
  BY <1>2 DEF ZeroLagSources
<1>7. OrderInv'
  <2>1. \A i, j \in 1 .. Len(order') : order'[i] = order'[j] => i = j
    BY <1>1, <1>4, <1>5 DEF OrderInv
  <2>2. \A i \in 1 .. Len(order') : order'[i] \notin disordered'
    BY <1>1, <1>4, <1>5 DEF OrderInv
  <2>3. ASSUME NEW x \in Process \ disordered'
        PROVE  \E i \in 1 .. Len(order') : order'[i] = x
    <3>1. CASE x = p
      BY <3>1, <1>4
    <3>2. CASE x # p
      <4>1. PICK i \in 1 .. Len(order) : order[i] = x
        BY <3>2, <1>1, <2>3 DEF OrderInv
      <4> QED
        BY <4>1, <1>4
    <3> QED
      BY <3>1, <3>2
  <2>4. ASSUME NEW i \in 1 .. Len(order'), NEW src \in ZeroLagSources(order'[i])
        PROVE  \E j \in 1 .. i - 1 : order'[j] = src
    <3>1. CASE i \in 1 .. Len(order)
      <4>1. PICK j \in 1 .. i - 1 : order[j] = src
        BY <3>1, <2>4, <1>4 DEF OrderInv
      <4> QED
        BY <4>1, <3>1, <1>4
    <3>2. CASE i = Len(order) + 1
      <4>1. src \in Process \ disordered
        BY <3>2, <2>4, <1>1, <1>4 DEF Acceptable, ZeroLagSources
      <4>2. PICK j \in 1 .. Len(order) : order[j] = src
        BY <4>1 DEF OrderInv
      <4> QED
        BY <4>2, <3>2, <1>4
    <3> QED
      BY <3>1, <3>2, <1>5
  <2>5. disordered' \subseteq Process
    BY <1>1 DEF OrderInv
  <2> QED
    BY <1>4, <1>6, <2>1, <2>2, <2>3, <2>4, <2>5 DEF OrderInv
<1>8. StageInv'
  BY <1>2 DEF StageInv
<1>9. ThreadInv'
  BY <1>2 DEF ThreadInv
<1> QED
  BY <1>2, <1>7, <1>8, <1>9

\* The steps that leave the order alone.
LEMMA SameOrder ==
    ASSUME OrderInv, UNCHANGED <<links, order, disordered>>
    PROVE  /\ OrderInv'
           /\ \A p : ZeroLagSources(p)' = ZeroLagSources(p)
           /\ \A p : Position(p)' = Position(p)
<1>1. \A p : ZeroLagSources(p)' = ZeroLagSources(p)
  BY DEF ZeroLagSources
<1>2. \A p : Position(p)' = Position(p)
  BY DEF Position
<1>3. OrderInv'
  BY DEF OrderInv, ZeroLagSources
<1> QED
  BY <1>1, <1>2, <1>3

LEMMA FinishOrderInv == ASSUME ScheduleInv, FinishOrder PROVE ScheduleInv'
<1> USE DEF ScheduleInv
<1>1. /\ UNCHANGED <<links, order, disordered, next, thread>>
      /\ stage' = IF disordered = {} THEN "count" ELSE "E_CIRCULAR_REFERENCE"
      /\ \A p \in disordered : ~ Acceptable(p)
  BY DEF FinishOrder, given
<1>2. OrderInv' /\ \A p : ZeroLagSources(p)' = ZeroLagSources(p)
  BY <1>1, SameOrder
<1>3. \A p \in disordered : ZeroLagSources(p) \cap disordered # {}
  BY <1>1 DEF Acceptable
<1>4. StageInv'
  BY <1>1, <1>2, <1>3 DEF StageInv
<1>5. ThreadInv'
  BY <1>1 DEF ThreadInv
<1> QED
  BY <1>1, <1>2, <1>4, <1>5

\* The loops that choose voices.
LEMMA VoicesInv ==
    ASSUME ScheduleInv, CountGiven \/ ScheduleGroup \/ FinishGroups \/ ScheduleProcess
    PROVE  ScheduleInv'
<1> USE DEF ScheduleInv
<1>1. /\ UNCHANGED <<links, order, disordered, thread>>
      /\ stage \in {"count", "groups", "processes"}
      /\ stage' \in {"groups", "processes"}
      /\ next' \in Nat
  BY DEF CountGiven, ScheduleGroup, FinishGroups, ScheduleProcess, given, ThreadInv
<1>2. OrderInv'
  BY <1>1, SameOrder
<1>3. StageInv' /\ ThreadInv'
  BY <1>1 DEF StageInv, ThreadInv
<1> QED
  BY <1>1, <1>2, <1>3

LEMMA AssignThreadsInv == ASSUME ScheduleInv, AssignThreads PROVE ScheduleInv'
<1> USE DEF ScheduleInv
<1>1. /\ UNCHANGED <<links, order, disordered>>
      /\ stage = "processes" /\ stage' = "reassign" /\ next' = 1
      /\ DOMAIN thread' = Process
  BY DEF AssignThreads, given
<1>2. OrderInv' /\ \A p : Position(p)' = Position(p)
  BY <1>1, SameOrder
<1>3. StageInv'
  BY <1>1 DEF StageInv
<1>4. \A p \in Process : Position(p) \in Nat \ {0}
  BY <1>1, PositionOfAll DEF StageInv, OrderInv
<1>5. ThreadInv'
  BY <1>1, <1>2, <1>4 DEF ThreadInv
<1> QED
  BY <1>1, <1>2, <1>3, <1>5

\* A process joins the thread of the first of its class from which it was split: then it is
\* split from none of those before it, since they are not split from one another.
LEMMA ReassignInv == ASSUME ScheduleInv, Reassign PROVE ScheduleInv'
<1> USE DEF ScheduleInv
<1>p. PICK p : p = order[next]
  OBVIOUS
<1>1. /\ UNCHANGED <<links, order, disordered, place, stage>>
      /\ stage = "reassign" /\ next' = next + 1 /\ next <= Len(order)
      /\ disordered = {}
  BY DEF Reassign, given, StageInv
<1>2. OrderInv' /\ \A x : Position(x)' = Position(x)
  BY <1>1, SameOrder
<1>3. StageInv'
  BY <1>1 DEF StageInv
<1>4. \A x \in Process : /\ Position(x) \in Nat /\ Position(x) >= 1
                         /\ order[Position(x)] = x
  BY <1>1, PositionOfAll
<1>5. \A x, y \in Process :
          Position(x) < next /\ Position(y) < next => ~ Split(x, y)
  BY <1>1 DEF ThreadInv
<1>6. CASE next = 0
  <2>1. \A x \in Process : ~ (Position(x) < next')
    BY <1>1, <1>4, <1>6
  <2>2. DOMAIN thread' = Process
    BY DEF Reassign, ThreadInv
  <2> QED
    BY <1>1, <1>2, <1>3, <2>1, <2>2 DEF ThreadInv
<1>7. CASE next # 0
  <2>1. p \in Process /\ Position(p) = next
    BY <1>p, <1>1, <1>7, PositionAt DEF ThreadInv
  <2>2. \A x \in Process : Position(x) < next' /\ x # p => Position(x) < next
    BY <1>1, <1>4, <2>1 DEF ThreadInv
  <2>3. \A x \in Process : Position(x) < next /\ Split(x, p) => x \in SplitFrom(p)
    BY <2>1 DEF Split, SplitFrom, ListedBefore
  <2>4. CASE Executable[p] \in NotThreadSafe /\ SplitFrom(p) # {}
    <3>1. PICK q \in SplitFrom(p) : thread' = [thread EXCEPT ![p] = thread[q]]
      BY <1>p, <2>4 DEF Reassign
    <3>2. /\ q \in Process /\ Position(q) < next
          /\ Executable[q] = Executable[p] /\ place[q] = place[p]
      BY <2>1, <3>1 DEF SplitFrom, ListedBefore
    <3>3. /\ DOMAIN thread' = Process /\ thread'[p] = thread[q]
          /\ \A x \in Process : x # p => thread'[x] = thread[x]
      BY <2>1, <3>1 DEF ThreadInv
    <3>4. ASSUME NEW x \in Process, Position(x) < next, x # p, Split(x, p)'
          PROVE  FALSE
      <4>1. Executable[x] = Executable[p] /\ place[x] = place[p] /\ thread[x] # thread[q]
        BY <1>1, <3>3, <3>4 DEF Split
      <4> QED
        BY <1>5, <2>4, <3>2, <3>4, <4>1 DEF Split
    <3>5. ASSUME NEW x \in Process, NEW y \in Process,
                 Position(x) < next', Position(y) < next', Split(x, y)'
          PROVE  FALSE
      <4>1. x # y /\ Split(y, x)'
        BY <3>5 DEF Split
      <4>2. CASE x = p
        BY <2>2, <3>4, <3>5, <4>1, <4>2
      <4>3. CASE y = p
        BY <2>2, <3>4, <3>5, <4>1, <4>3
      <4>4. CASE x # p /\ y # p
        BY <1>1, <1>5, <2>2, <3>3, <3>5, <4>4 DEF Split
      <4> QED
        BY <4>2, <4>3, <4>4
    <3> QED
      BY <1>1, <1>2, <1>3, <3>3, <3>5 DEF ThreadInv
  <2>5. CASE ~ (Executable[p] \in NotThreadSafe /\ SplitFrom(p) # {})
    <3>1. thread' = thread
      BY <1>p, <2>5 DEF Reassign
    <3>2. \A x \in Process : Position(x) < next => ~ Split(x, p)
      BY <2>3, <2>5 DEF Split
    <3>3. ASSUME NEW x \in Process, NEW y \in Process,
                 Position(x) < next', Position(y) < next', Split(x, y)
          PROVE  FALSE
      <4>1. x # y /\ Split(y, x)
        BY <3>3 DEF Split
      <4> QED
        BY <1>5, <2>2, <3>2, <3>3, <4>1
    <3>4. \A x, y : Split(x, y)' <=> Split(x, y)
      BY <1>1, <3>1 DEF Split
    <3> QED
      BY <1>1, <1>2, <1>3, <3>1, <3>3, <3>4 DEF ThreadInv
  <2> QED
    BY <2>4, <2>5
<1> QED
  BY <1>6, <1>7

LEMMA CreateThreadsInv == ASSUME ScheduleInv, CreateThreads PROVE ScheduleInv'
<1> USE DEF ScheduleInv
<1>1. /\ UNCHANGED <<links, order, disordered, place, thread, next>>
      /\ stage = "reassign" /\ stage' = "ready" /\ next > Len(order)
      /\ disordered = {}
  BY DEF CreateThreads, given, StageInv
<1>2. OrderInv'
  BY <1>1, SameOrder
<1>3. StageInv'
  BY <1>1 DEF StageInv
<1>4. \A x \in Process : Position(x) < next
  <2>1. Len(order) \in Nat
    BY DEF OrderInv
  <2> QED
    BY <1>1, <2>1, PositionOfAll DEF ThreadInv
<1>5. \A x, y \in Process : ~ Split(x, y)
  BY <1>1, <1>4 DEF ThreadInv
<1>6. \A x, y \in Process : ~ Split(x, y)'
  BY <1>1, <1>5 DEF Split
<1>7. ThreadInv'
  BY <1>1, <1>6 DEF ThreadInv
<1> QED
  BY <1>1, <1>2, <1>3, <1>7

\* The loops keep what they have achieved: the invariant of the whole of load and open.
THEOREM ScheduleInvariant == Spec => []ScheduleInv
<1>1. ASSUME ScheduleInv, [Next]_vars PROVE ScheduleInv'
  <2>1. CASE UNCHANGED vars
    <3>1. UNCHANGED <<links, order, disordered, stage, place, thread, next>>
      BY <2>1 DEF vars
    <3>2. OrderInv' /\ \A q : Position(q)' = Position(q)
               /\ \A p : ZeroLagSources(p)' = ZeroLagSources(p)
      BY <1>1, <3>1, SameOrder DEF ScheduleInv
    <3>3. \A x, y : Split(x, y)' <=> Split(x, y)
      BY <3>1 DEF Split
    <3>4. StageInv'
      BY <1>1, <3>1, <3>2 DEF ScheduleInv, StageInv
    <3>5. ThreadInv'
      BY <1>1, <3>1, <3>2, <3>3 DEF ScheduleInv, ThreadInv
    <3> QED
      BY <1>1, <3>1, <3>2, <3>4, <3>5 DEF ScheduleInv
  <2> QED
    BY <1>1, <2>1, UseProcessInv, FinishOrderInv, VoicesInv, AssignThreadsInv, ReassignInv,
       CreateThreadsInv DEF Next
<1> QED
  BY <1>1, InitScheduleInv, PTL DEF Spec

-----------------------------------------------------------------------------
\* What has to be serviced first is listed first.
LEMMA ServedInOrder ==
    ASSUME ScheduleInv, stage = "ready", NEW p \in Process, NEW q \in Process,
           <<q, p>> \in ServedBefore
    PROVE  Position(q) < Position(p)
<1>1. OrderInv /\ disordered = {}
  BY DEF ScheduleInv, StageInv
<1>2. CASE <<q, p>> \in links
  <2>1. Position(p) \in 1 .. Len(order) /\ order[Position(p)] = p
    BY <1>1, PositionOfAll
  <2>2. q \in ZeroLagSources(p)
    BY <1>2 DEF ZeroLagSources
  <2>3. PICK j \in 1 .. Position(p) - 1 : order[j] = q
    BY <1>1, <2>1, <2>2 DEF OrderInv
  <2>4. j \in 1 .. Len(order) /\ j < Position(p)
    <3>1. Len(order) \in Nat
      BY <1>1 DEF OrderInv
    <3> QED
      BY <2>1, <2>3, <3>1
  <2> QED
    BY <1>1, <2>3, <2>4, PositionAt
<1>3. CASE <<q, p>> \notin links
  BY <1>3 DEF ServedBefore
<1> QED
  BY <1>2, <1>3

\* The processes that a refused system has left disordered form a loop.
LEMMA RefusedHasLoop ==
    ASSUME ScheduleInv, stage = "E_CIRCULAR_REFERENCE" PROVE HasLoop(links)
<1>1. disordered \in (SUBSET Process) \ {{}}
  <2>1. disordered \subseteq Process
    BY DEF ScheduleInv, OrderInv
  <2>2. disordered # {}
    BY DEF ScheduleInv, StageInv
  <2> QED
    BY <2>1, <2>2
<1>2. \A p \in disordered : \E q \in disordered : <<q, p>> \in links
  BY DEF ScheduleInv, StageInv, ZeroLagSources
<1> QED
  BY <1>1, <1>2 DEF HasLoop

\* In a loop there would be a first process of the list, and one serviced before it.
LEMMA ReadyHasNoLoop ==
    ASSUME ScheduleInv, stage = "ready" PROVE ~ HasLoop(ServedBefore)
<1> SUFFICES ASSUME NEW C \in (SUBSET Process) \ {{}},
                    \A p \in C : \E q \in C : <<q, p>> \in ServedBefore
             PROVE  FALSE
  BY DEF HasLoop
<1> DEFINE Positions == {Position(p) : p \in C}
<1>1. \A p \in C : p \in Process /\ Position(p) \in Nat
  <2>1. OrderInv /\ disordered = {} /\ Len(order) \in Nat
    BY DEF ScheduleInv, StageInv, OrderInv
  <2> QED
    BY <2>1, PositionOfAll
<1>2. Positions \subseteq Nat /\ Positions # {}
  <2>1. PICK p \in C : TRUE
    OBVIOUS
  <2> QED
    BY <1>1, <2>1
<1>3. PICK m \in Positions : \A k \in Positions : ~ (<<k, m>> \in OpToRel(<, Nat))
  <2> HIDE DEF Positions
  <2> QED
    BY <1>2, NatLessThanWellFounded, WFMin
<1>4. PICK p \in C : Position(p) = m
  BY <1>3
<1>5. PICK q \in C : <<q, p>> \in ServedBefore
  BY <1>4
<1>6. Position(q) < Position(p)
  BY <1>1, <1>5, ServedInOrder
<1>7. <<Position(q), m>> \in OpToRel(<, Nat)
  BY <1>1, <1>4, <1>6 DEF OpToRel
<1> QED
  BY <1>3, <1>7

\* A system is refused only for a loop of its own, and the threads of an accepted one, in
\* all voices together, never wait for one another in a circle.
THEOREM ScheduleServable == Spec => []ServableUnlessLoop
<1>1. ScheduleInv => ServableUnlessLoop
  BY RefusedHasLoop, ReadyHasNoLoop DEF ServableUnlessLoop
<1> QED
  BY <1>1, ScheduleInvariant, PTL

\* Processes of a class that is not thread-safe end up in one thread of their voice, whatever
\* the number of threads and however the nominal assignment has spread them.
THEOREM ScheduleNotConcurrent == Spec => []NotConcurrent
<1>1. ScheduleInv => NotConcurrent
  BY DEF ScheduleInv, ThreadInv, NotConcurrent, Split
<1> QED
  BY <1>1, ScheduleInvariant, PTL

-----------------------------------------------------------------------------
(* The balance.                                                            *)

\* The processes that voice v is known to compute: assignedProcessCount counts these.
Counted(v) ==
    {p \in Process : IF GroupOf(p) = 0 THEN place[p] = v ELSE groupVoice[GroupOf(p)] = v}

BalanceTypes ==
    /\ groups \in Groups
    /\ groupVoice \in [Group -> Voice \cup {VOICE_UNDEFINED}]
    /\ place \in [Process -> Voice \cup {VOICE_UNDEFINED}]
    /\ assigned \in [Voice -> Nat]

\* The scheduler's counts are true, and balanced: no voice is ahead of another by more than
\* what any one choice of the scheduler gave to it.
CountInv ==
    /\ \A v \in Voice : assigned[v] = Cardinality(Counted(v))
    /\ \A u, v \in Voice : \A c \in Chosen(u) : assigned[u] - assigned[v] <= c

\* Groups are chosen for before processes, and large ones before small ones.
GroupsInv ==
    /\ \A p \in Process : place[p] = VOICE_UNDEFINED
    /\ \A v \in Voice : \A c \in Chosen(v) : \A g \in Unscheduled :
           c \in Nat /\ Cardinality(Members(g)) <= c
    /\ \A v \in Voice : \A c \in Chosen(v) : c \in Nat \ {0}

\* Processes are placed in the order of the list, those of a group with it.
ProcessesInv ==
    /\ Unscheduled = {} /\ next >= 1
    /\ \A i \in 1 .. Len(order) : place[order[i]] = VOICE_UNDEFINED <=> i >= next
    /\ \A p \in Process : place[p] # VOICE_UNDEFINED /\ GroupOf(p) # 0 =>
           place[p] = groupVoice[GroupOf(p)]
    /\ \A v \in Voice : \A c \in Chosen(v) : c \in Nat \ {0}

BalanceInv ==
    /\ BalanceTypes
    /\ stage \in {"order", "count"} =>
           /\ next = 1
           /\ \A g \in Group : groupVoice[g] = groups[g].named
           /\ \A p \in Process : place[p] = VOICE_UNDEFINED
    /\ stage = "groups" => next = 1 /\ CountInv /\ GroupsInv
    /\ stage = "processes" => CountInv /\ ProcessesInv
    /\ Balanced

LEMMA VoiceRange ==
    /\ Voice \subseteq Nat /\ Voice # {} /\ VOICE_UNDEFINED \notin Voice
    /\ \A v \in Voice : v \in Nat /\ v # VOICE_UNDEFINED
<1>1. 0 \in Voice /\ Voice \subseteq Nat
  BY ScheduleAssumption DEF Voice
<1> QED
  BY <1>1 DEF VOICE_UNDEFINED

LEMMA LeastOf ==
    ASSUME NEW S, S \subseteq Nat, S # {}
    PROVE  \E m \in S : \A k \in S : m <= k
<1>1. PICK m \in S : \A k \in S : ~ (<<k, m>> \in OpToRel(<, Nat))
  BY NatLessThanWellFounded, WFMin
<1>2. \A k \in S : ~ (k < m)
  BY <1>1 DEF OpToRel
<1> QED
  BY <1>2

LEMMA Finite ==
    ASSUME NEW S, S \subseteq Process
    PROVE  IsFiniteSet(S) /\ Cardinality(S) \in Nat
<1>1. IsFiniteSet(Process)
  BY ScheduleAssumption, FS_Interval DEF Process
<1> QED
  BY <1>1, FS_Subset, FS_CardinalityType

\* A process is in one group, or in none.
LEMMA GroupRange ==
    ASSUME BalanceTypes
    PROVE  /\ Group \subseteq Nat /\ 0 \notin Group
           /\ \A p \in Process : GroupOf(p) = 0 \/ GroupOf(p) \in Group
<1>1. groups \in Seq([fit : [Process -> Nat], named : Voice \cup {VOICE_UNDEFINED}])
  BY ScheduleAssumption DEF BalanceTypes
<1>2. Group \subseteq Nat /\ 0 \notin Group
  BY <1>1 DEF Group
<1>3. ASSUME NEW p \in Process, GroupOf(p) # 0 PROVE GroupOf(p) \in Group
  <2> DEFINE best == {g \in Group : /\ groups[g].fit[p] > 0
                                    /\ \A h \in Group : groups[h].fit[p] <= groups[g].fit[p]}
  <2>1. GroupOf(p) = IF best = {} THEN 0 ELSE CHOOSE g \in best : \A h \in best : g <= h
    BY DEF GroupOf
  <2>2. best \subseteq Group
    OBVIOUS
  <2> HIDE DEF best
  <2>3. best # {}
    BY <1>3, <2>1
  <2>4. \E g \in best : \A h \in best : g <= h
    BY <1>2, <2>2, <2>3, LeastOf
  <2> QED
    BY <2>1, <2>2, <2>3, <2>4
<1> QED
  BY <1>2, <1>3

\* The voice with the fewest processes has no more than any.
LEMMA LeastLoadedIs ==
    ASSUME BalanceTypes
    PROVE  LeastLoaded \in Voice /\ \A u \in Voice : assigned[LeastLoaded] <= assigned[u]
<1> DEFINE Loads == {assigned[v] : v \in Voice}
<1>1. Loads \subseteq Nat /\ Loads # {}
  BY VoiceRange DEF BalanceTypes
<1>2. PICK m \in Loads : \A k \in Loads : m <= k
  <2> HIDE DEF Loads
  <2> QED
    BY <1>1, LeastOf
<1> DEFINE Candidates == {v \in Voice : assigned[v] = m}
<1>3. Candidates \subseteq Nat /\ Candidates # {}
  BY VoiceRange, <1>2
<1>4. PICK w \in Candidates : \A u \in Candidates : w <= u
  <2> HIDE DEF Candidates
  <2> QED
    BY <1>3, LeastOf
<1>5. w \in Voice /\ assigned[w] = m /\ \A u \in Voice : assigned[u] \in Nat /\ m <= assigned[u]
  BY <1>2, <1>4 DEF BalanceTypes
<1>6. \A u \in Voice : assigned[w] < assigned[u] \/ (assigned[w] = assigned[u] /\ w <= u)
  <2> SUFFICES ASSUME NEW u \in Voice
               PROVE  assigned[w] < assigned[u] \/ (assigned[w] = assigned[u] /\ w <= u)
    OBVIOUS
  <2>1. CASE assigned[u] = m
    BY <1>4, <1>5, <2>1
  <2>2. CASE assigned[u] # m
    BY <1>5, <2>2
  <2> QED
    BY <2>1, <2>2
<1>7. LET l == LeastLoaded
      IN l \in Voice /\ \A u \in Voice :
             assigned[l] < assigned[u] \/ (assigned[l] = assigned[u] /\ l <= u)
  BY <1>5, <1>6 DEF LeastLoaded
<1> QED
  BY <1>5, <1>7

\* What the groups are never changes.
LEMMA SameGroups ==
    ASSUME groups' = groups
    PROVE  /\ Group' = Group
           /\ \A p : GroupOf(p)' = GroupOf(p)
           /\ \A g : Members(g)' = Members(g)
<1>1. Group' = Group /\ \A p : GroupOf(p)' = GroupOf(p)
  BY DEF Group, GroupOf
<1> QED
  BY <1>1 DEF Members

LEMMA ChosenIs ==
    ASSUME NEW v \in Voice, NEW c
    PROVE  c \in Chosen(v) <=>
             \/ \E g \in Group : /\ groups[g].named = VOICE_UNDEFINED /\ groupVoice[g] = v
                                 /\ c = Cardinality(Members(g))
             \/ c = 1 /\ \E p \in Process : GroupOf(p) = 0 /\ place[p] = v
BY DEF Chosen

-----------------------------------------------------------------------------
LEMMA InitBalance == ASSUME Init PROVE BalanceInv
<1>1. groups \in Seq([fit : [Process -> Nat], named : Voice \cup {VOICE_UNDEFINED}])
  BY ScheduleAssumption DEF Init
<1>2. BalanceTypes
  <2>1. ASSUME NEW g \in Group PROVE groups[g].named \in Voice \cup {VOICE_UNDEFINED}
    <3> DEFINE Read == [fit : [Process -> Nat], named : Voice \cup {VOICE_UNDEFINED}]
    <3>1. groups \in Seq(Read) /\ g \in DOMAIN groups
      BY <1>1 DEF Group
    <3> HIDE DEF Read
    <3>2. groups[g] \in Read
      BY <3>1
    <3> QED
      BY <3>2 DEF Read
  <2> QED
    BY <2>1 DEF Init, BalanceTypes, Group
<1>3. stage = "order" /\ next = 1
  BY DEF Init
<1> QED
  BY <1>2, <1>3 DEF Init, BalanceInv, Balanced, Group

LEMMA OrderBalance ==
    ASSUME BalanceInv, UseProcess \/ FinishOrder PROVE BalanceInv'
<1>1. /\ stage = "order" /\ stage' \in {"order", "count", "E_CIRCULAR_REFERENCE"}
      /\ UNCHANGED <<groups, groupVoice, place, assigned, next>>
  BY DEF UseProcess, FinishOrder, given
<1>2. BalanceTypes'
  BY <1>1 DEF BalanceInv, BalanceTypes, Group
<1> QED
  BY <1>1, <1>2 DEF BalanceInv, Balanced, Group

\* Nothing has been chosen for yet.
LEMMA CountBalance == ASSUME BalanceInv, CountGiven PROVE BalanceInv'
<1>1. /\ stage = "count" /\ stage' = "groups" /\ next = 1
      /\ UNCHANGED <<groups, groupVoice, place, next>>
      /\ assigned' = [v \in Voice |->
                        Cardinality({p \in Process : /\ GroupOf(p) # 0
                                                     /\ groupVoice[GroupOf(p)] = v})]
      /\ \A g \in Group : groupVoice[g] = groups[g].named
      /\ \A p \in Process : place[p] = VOICE_UNDEFINED
      /\ BalanceTypes
  BY DEF CountGiven, given, BalanceInv
<1>2. /\ Group' = Group /\ \A p : GroupOf(p)' = GroupOf(p)
      /\ \A g : Members(g)' = Members(g)
  BY <1>1, SameGroups
<1>3. ASSUME NEW v \in Voice PROVE Chosen(v)' = {}
  <2>1. \A c : c \notin Chosen(v)
    BY <1>1, VoiceRange, ChosenIs
  <2>2. Chosen(v)' = Chosen(v)
    BY <1>1, <1>2 DEF Chosen
  <2> QED
    BY <2>1, <2>2
<1>4. ASSUME NEW v \in Voice
      PROVE  assigned'[v] \in Nat /\ assigned'[v] = Cardinality(Counted(v)')
  <2>1. Counted(v)' = {p \in Process : GroupOf(p) # 0 /\ groupVoice[GroupOf(p)] = v}
    BY <1>1, <1>2, VoiceRange DEF Counted
  <2> QED
    BY <1>1, <2>1, Finite
<1>5. BalanceTypes'
  <2>1. assigned' \in [Voice -> Nat]
    BY <1>1, <1>4
  <2> QED
    BY <1>1, <1>2, <2>1 DEF BalanceTypes
<1>6. CountInv' /\ GroupsInv'
  BY <1>1, <1>3, <1>4 DEF CountInv, GroupsInv
<1> QED
  BY <1>1, <1>5, <1>6 DEF BalanceInv, Balanced

\* The members of the largest group left are added to the voice with the fewest processes.
LEMMA GroupBalance == ASSUME BalanceInv, ScheduleGroup PROVE BalanceInv'
<1> DEFINE L == LeastLoaded
<1>1. /\ stage = "groups" /\ stage' = "groups" /\ next = 1
      /\ UNCHANGED <<groups, place, next>>
      /\ BalanceTypes /\ CountInv /\ GroupsInv
  BY DEF ScheduleGroup, given, BalanceInv
<1>2. PICK g \in Unscheduled :
         /\ \A h \in Unscheduled : \/ Cardinality(Members(h)) < Cardinality(Members(g))
                                   \/ Cardinality(Members(h)) = Cardinality(Members(g)) /\ g <= h
         /\ groupVoice' = [groupVoice EXCEPT ![g] = L]
         /\ assigned' = [assigned EXCEPT ![L] = @ + Cardinality(Members(g))]
  BY DEF ScheduleGroup
<1> DEFINE m == Cardinality(Members(g))
<1>3. L \in Voice /\ \A u \in Voice : assigned[L] <= assigned[u]
  BY <1>1, LeastLoadedIs
<1> HIDE DEF L
<1>4. /\ g \in Group /\ groupVoice[g] = VOICE_UNDEFINED
      /\ Members(g) # {} /\ Members(g) \subseteq Process
  BY <1>2 DEF Unscheduled, Members
<1>5. m \in Nat \ {0} /\ \A h : Cardinality(Members(h)) \in Nat
  <2>1. \A h : Members(h) \subseteq Process
    BY DEF Members
  <2>2. \A h : Cardinality(Members(h)) \in Nat /\ IsFiniteSet(Members(h))
    BY <2>1, Finite
  <2> QED
    BY <1>4, <2>2, FS_EmptySet
<1>6. \A h \in Unscheduled : Cardinality(Members(h)) <= m
  BY <1>2, <1>5
<1>7. /\ groupVoice' \in [Group -> Voice \cup {VOICE_UNDEFINED}] /\ groupVoice'[g] = L
      /\ \A h \in Group : h # g => groupVoice'[h] = groupVoice[h]
      /\ assigned' \in [Voice -> Nat] /\ assigned'[L] = assigned[L] + m
      /\ \A v \in Voice : v # L => assigned'[v] = assigned[v]
  <2> HIDE DEF m
  <2>1. assigned' = [assigned EXCEPT ![L] = assigned[L] + m] /\ assigned[L] + m \in Nat
    BY <1>1, <1>2, <1>3, <1>5 DEF BalanceTypes, m
  <2> QED
    BY <1>1, <1>2, <1>3, <1>4, <2>1 DEF BalanceTypes
<1>8. /\ Group' = Group /\ \A p : GroupOf(p)' = GroupOf(p)
      /\ \A h : Members(h)' = Members(h)
  BY <1>1, SameGroups
<1> HIDE DEF m
<1>9. BalanceTypes'
  BY <1>1, <1>7, <1>8 DEF BalanceTypes
<1>10. ASSUME NEW v \in Voice, NEW c, c \in Chosen(v)'
       PROVE  c \in Chosen(v) \/ (v = L /\ c = m)
  <2>1. \/ \E h \in Group : /\ groups[h].named = VOICE_UNDEFINED /\ groupVoice'[h] = v
                            /\ c = Cardinality(Members(h))
        \/ c = 1 /\ \E p \in Process : GroupOf(p) = 0 /\ place[p] = v
    BY <1>1, <1>8, <1>10 DEF Chosen
  <2>2. ASSUME NEW h \in Group, groups[h].named = VOICE_UNDEFINED, groupVoice'[h] = v,
               c = Cardinality(Members(h))
        PROVE  c \in Chosen(v) \/ (v = L /\ c = m)
    <3>1. CASE h = g
      BY <1>7, <2>2, <3>1 DEF m
    <3>2. CASE h # g
      <4>1. groupVoice[h] = v
        BY <1>7, <2>2, <3>2
      <4> QED
        BY <2>2, <4>1, ChosenIs
    <3> QED
      BY <3>1, <3>2
  <2> QED
    BY <2>1, <2>2, ChosenIs
<1>11. Unscheduled' \subseteq Unscheduled
  BY <1>3, <1>7, <1>8, VoiceRange DEF Unscheduled
<1>12. ASSUME NEW v \in Voice, NEW c \in Chosen(v)
       PROVE  c \in Nat \ {0} /\ m <= c
  BY <1>1, <1>2 DEF GroupsInv, m
<1>13. GroupsInv'
  <2>1. ASSUME NEW v \in Voice, NEW c, c \in Chosen(v)'
        PROVE  c \in Nat \ {0} /\ \A h \in Unscheduled' : Cardinality(Members(h)) <= c
    <3>1. CASE c \in Chosen(v)
      BY <1>1, <1>11, <3>1 DEF GroupsInv
    <3>2. CASE c = m
      BY <1>5, <1>6, <1>11, <3>2
    <3> QED
      BY <1>10, <2>1, <3>1, <3>2
  <2> QED
    BY <1>1, <1>8, <2>1 DEF GroupsInv
<1>14. ASSUME NEW v \in Voice PROVE assigned'[v] = Cardinality(Counted(v)')
  <2>1. \A p \in Process : GroupOf(p) = 0 \/ GroupOf(p) \in Group
    BY <1>1, GroupRange
  <2>2. CASE v = L
    <3>1. Counted(v)' = Counted(v) \cup Members(g)
      <4>1. ASSUME NEW p \in Process PROVE p \in Counted(v)' <=> p \in Counted(v) \cup Members(g)
        <5>1. CASE GroupOf(p) = 0
          <6>1. p \notin Members(g)
            BY <1>1, <1>4, <5>1, GroupRange DEF Members
          <6> QED
            BY <1>1, <1>8, <5>1, <6>1 DEF Counted
        <5>2. CASE GroupOf(p) # 0 /\ GroupOf(p) # g
          BY <1>7, <1>8, <2>1, <5>2 DEF Counted, Members
        <5>3. CASE GroupOf(p) # 0 /\ GroupOf(p) = g
          BY <1>7, <1>8, <2>2, <5>3 DEF Counted, Members
        <5> QED
          BY <5>1, <5>2, <5>3
      <4> QED
        BY <1>4, <4>1 DEF Counted
    <3>2. Counted(v) \cap Members(g) = {}
      BY <1>1, <1>4, GroupRange, VoiceRange DEF Counted, Members
    <3>3. IsFiniteSet(Counted(v)) /\ IsFiniteSet(Members(g)) /\ Cardinality(Counted(v)) \in Nat
      <4>1. Counted(v) \subseteq Process
        BY DEF Counted
      <4> QED
        BY <1>4, <4>1, Finite
    <3>4. Cardinality(Counted(v) \cup Members(g)) = Cardinality(Counted(v)) + m
      BY <1>5, <3>2, <3>3, FS_Union, FS_EmptySet DEF m
    <3> QED
      BY <1>1, <1>7, <2>2, <3>1, <3>4 DEF CountInv
  <2>3. CASE v # L
    <3>1. \A p \in Process : p \in Counted(v)' <=> p \in Counted(v)
      <4> TAKE p \in Process
      <4>1. CASE GroupOf(p) = 0
        BY <1>1, <1>8, <4>1 DEF Counted
      <4>2. CASE GroupOf(p) # 0 /\ GroupOf(p) # g
        BY <1>7, <1>8, <2>1, <4>2 DEF Counted
      <4>3. CASE GroupOf(p) # 0 /\ GroupOf(p) = g
        BY <1>4, <1>7, <1>8, <2>3, <4>3, VoiceRange DEF Counted
      <4> QED
        BY <4>1, <4>2, <4>3
    <3>2. Counted(v)' = Counted(v)
      BY <3>1 DEF Counted
    <3> QED
      BY <1>1, <1>7, <2>3, <3>2 DEF CountInv
  <2> QED
    BY <2>2, <2>3
<1>15. ASSUME NEW u \in Voice, NEW v \in Voice, NEW c, c \in Chosen(u)'
       PROVE  assigned'[u] - assigned'[v] <= c
  <2>1. /\ assigned[u] \in Nat /\ assigned[v] \in Nat /\ assigned[L] \in Nat
        /\ assigned[L] <= assigned[v]
    BY <1>1, <1>3 DEF BalanceTypes
  <2>2. c \in Nat /\ (u = L => m <= c)
    BY <1>5, <1>10, <1>12, <1>15
  <2>3. CASE u = L
    BY <1>5, <1>7, <2>1, <2>2, <2>3
  <2>4. CASE u # L
    <3>1. assigned[u] - assigned[v] <= c
      BY <1>1, <1>10, <1>15, <2>4 DEF CountInv
    <3>2. assigned'[u] = assigned[u] /\ assigned'[v] \in Nat /\ assigned'[v] >= assigned[v]
      BY <1>5, <1>7, <2>1, <2>4
    <3> QED
      BY <2>1, <2>2, <3>1, <3>2
  <2> QED
    BY <2>3, <2>4
<1>16. CountInv'
  BY <1>14, <1>15 DEF CountInv
<1> QED
  BY <1>1, <1>9, <1>13, <1>16 DEF BalanceInv, Balanced

\* No group with members is left.
LEMMA FinishBalance ==
    ASSUME ScheduleInv, BalanceInv, FinishGroups PROVE BalanceInv'
<1>1. /\ stage = "groups" /\ stage' = "processes" /\ next = 1 /\ Unscheduled = {}
      /\ UNCHANGED <<groups, groupVoice, place, next, assigned, order>>
      /\ BalanceTypes /\ CountInv /\ GroupsInv
  BY DEF FinishGroups, given, BalanceInv
<1>2. /\ Group' = Group /\ \A p : GroupOf(p)' = GroupOf(p)
      /\ \A h : Members(h)' = Members(h)
  BY <1>1, SameGroups
<1>3. /\ BalanceTypes' /\ Unscheduled' = Unscheduled
      /\ \A v : Chosen(v)' = Chosen(v) /\ Counted(v)' = Counted(v)
  BY <1>1, <1>2 DEF BalanceTypes, Unscheduled, Chosen, Counted
<1>4. CountInv'
  BY <1>1, <1>3 DEF CountInv
<1>5. \A i \in 1 .. Len(order) : order[i] \in Process /\ i >= 1
  BY DEF ScheduleInv, OrderInv
<1>6. ProcessesInv'
  BY <1>1, <1>2, <1>3, <1>5 DEF GroupsInv, ProcessesInv
<1> QED
  BY <1>1, <1>3, <1>4, <1>6 DEF BalanceInv, Balanced

\* A process without a group is added to the voice with the fewest processes.
LEMMA ProcessBalance ==
    ASSUME ScheduleInv, BalanceInv, ScheduleProcess PROVE BalanceInv'
<1> DEFINE L == LeastLoaded
           p == order[next]
           g == GroupOf(p)
<1>1. /\ stage = "processes" /\ stage' = "processes" /\ next <= Len(order)
      /\ UNCHANGED <<groups, groupVoice, order>> /\ next' = next + 1
      /\ BalanceTypes /\ CountInv /\ ProcessesInv
  BY DEF ScheduleProcess, given, BalanceInv
<1>2. /\ g # 0 => place' = [place EXCEPT ![p] = groupVoice[g]] /\ assigned' = assigned
      /\ g = 0 => /\ place' = [place EXCEPT ![p] = L]
                  /\ assigned' = [assigned EXCEPT ![L] = @ + 1]
  BY DEF ScheduleProcess
<1>3. L \in Voice /\ \A u \in Voice : assigned[L] <= assigned[u]
  BY <1>1, LeastLoadedIs
<1>4. /\ next \in 1 .. Len(order) /\ p \in Process /\ place[p] = VOICE_UNDEFINED
      /\ \A i \in 1 .. Len(order) : order[i] \in Process /\ (order[i] = p => i = next)
  <2>1. /\ Len(order) \in Nat /\ next \in Nat /\ next >= 1
        /\ \A i \in 1 .. Len(order) : order[i] \in Process
    BY <1>1 DEF ScheduleInv, OrderInv, ThreadInv, ProcessesInv
  <2>2. next \in 1 .. Len(order)
    BY <1>1, <2>1
  <2> QED
    BY <1>1, <2>1, <2>2 DEF ScheduleInv, OrderInv, ProcessesInv
<1>5. g # 0 => g \in Group /\ groupVoice[g] \in Voice
  <2> SUFFICES ASSUME g # 0 PROVE g \in Group /\ groupVoice[g] \in Voice
    OBVIOUS
  <2>1. g \in Group /\ p \in Members(g)
    BY <1>1, <1>4, GroupRange DEF Members
  <2> QED
    BY <1>1, <2>1 DEF BalanceTypes, ProcessesInv, Unscheduled
<1>6. /\ Group' = Group /\ \A q : GroupOf(q)' = GroupOf(q)
      /\ \A h : Members(h)' = Members(h)
  BY <1>1, SameGroups
<1> HIDE DEF L, p, g
<1> DEFINE x == IF g = 0 THEN L ELSE groupVoice[g]
<1>7. /\ x \in Voice /\ place' \in [Process -> Voice \cup {VOICE_UNDEFINED}]
      /\ place'[p] = x /\ \A q \in Process : q # p => place'[q] = place[q]
  <2>1. x \in Voice /\ place' = [place EXCEPT ![p] = x]
    BY <1>2, <1>3, <1>5
  <2> HIDE DEF x
  <2> QED
    BY <1>1, <1>4, <2>1 DEF BalanceTypes
<1> HIDE DEF x
<1>8. /\ assigned' \in [Voice -> Nat]
      /\ g # 0 => assigned' = assigned
      /\ g = 0 => /\ assigned'[L] = assigned[L] + 1
                  /\ \A v \in Voice : v # L => assigned'[v] = assigned[v]
  BY <1>1, <1>2, <1>3 DEF BalanceTypes
<1>9. BalanceTypes'
  BY <1>1, <1>6, <1>7, <1>8 DEF BalanceTypes
<1>10. ASSUME NEW v \in Voice, NEW c, c \in Chosen(v)'
       PROVE  c \in Chosen(v) \/ (g = 0 /\ v = L /\ c = 1)
  <2>1. \/ \E h \in Group : /\ groups[h].named = VOICE_UNDEFINED /\ groupVoice[h] = v
                            /\ c = Cardinality(Members(h))
        \/ c = 1 /\ \E q \in Process : GroupOf(q) = 0 /\ place'[q] = v
    BY <1>1, <1>6, <1>10 DEF Chosen
  <2>2. ASSUME NEW q \in Process, GroupOf(q) = 0, place'[q] = v, c = 1
        PROVE  c \in Chosen(v) \/ (g = 0 /\ v = L /\ c = 1)
    <3>1. CASE q = p
      BY <1>7, <2>2, <3>1 DEF g, x
    <3>2. CASE q # p
      <4>1. place[q] = v
        BY <1>7, <2>2, <3>2
      <4> QED
        BY <2>2, <4>1, ChosenIs
    <3> QED
      BY <3>1, <3>2
  <2> QED
    BY <2>1, <2>2, ChosenIs
<1>11. ASSUME NEW v \in Voice PROVE assigned'[v] = Cardinality(Counted(v)')
  <2>1. ASSUME NEW q \in Process, q # p PROVE q \in Counted(v)' <=> q \in Counted(v)
    BY <1>1, <1>6, <1>7, <2>1 DEF Counted
  <2>2. CASE g = 0 /\ v = L
    <3>1. Counted(v)' = Counted(v) \cup {p}
      <4>1. p \in Counted(v)'
        BY <1>4, <1>6, <1>7, <2>2 DEF Counted, g, x
      <4> QED
        BY <1>4, <2>1, <4>1 DEF Counted
    <3>2. p \notin Counted(v)
      BY <1>4, <2>2, VoiceRange DEF Counted, g
    <3>3. IsFiniteSet(Counted(v))
      <4>1. Counted(v) \subseteq Process
        BY DEF Counted
      <4> QED
        BY <4>1, Finite
    <3>4. Cardinality(Counted(v) \cup {p}) = Cardinality(Counted(v)) + 1
      BY <3>2, <3>3, FS_AddElement
    <3> QED
      BY <1>1, <1>8, <2>2, <3>1, <3>4 DEF CountInv
  <2>3. CASE ~ (g = 0 /\ v = L)
    <3>1. p \in Counted(v)' <=> p \in Counted(v)
      <4>1. CASE g = 0
        BY <1>4, <1>6, <1>7, <2>3, <4>1, VoiceRange DEF Counted, g, x
      <4>2. CASE g # 0
        BY <1>1, <1>6, <4>2 DEF Counted, g
      <4> QED
        BY <4>1, <4>2
    <3>2. Counted(v)' = Counted(v)
      BY <2>1, <3>1 DEF Counted
    <3> QED
      BY <1>1, <1>8, <2>3, <3>2 DEF CountInv
  <2> QED
    BY <2>2, <2>3
<1>12. ASSUME NEW u \in Voice, NEW v \in Voice, NEW c, c \in Chosen(u)'
       PROVE  c \in Nat \ {0} /\ assigned'[u] - assigned'[v] <= c
  <2>1. /\ assigned[u] \in Nat /\ assigned[v] \in Nat /\ assigned[L] \in Nat
        /\ assigned[L] <= assigned[v] /\ assigned'[v] \in Nat /\ assigned'[u] \in Nat
    BY <1>1, <1>3, <1>8 DEF BalanceTypes
  <2>2. c \in Nat \ {0}
    BY <1>1, <1>10, <1>12 DEF ProcessesInv
  <2>3. CASE g = 0 /\ u = L
    BY <1>8, <2>1, <2>2, <2>3
  <2>4. CASE ~ (g = 0 /\ u = L)
    <3>1. assigned[u] - assigned[v] <= c
      BY <1>1, <1>10, <1>12, <2>4 DEF CountInv
    <3>2. assigned'[u] = assigned[u] /\ assigned'[v] >= assigned[v]
      BY <1>8, <2>1, <2>4
    <3> QED
      BY <2>1, <2>2, <3>1, <3>2
  <2> QED
    BY <2>2, <2>3, <2>4
<1>13. CountInv'
  BY <1>11, <1>12 DEF CountInv
<1>14. ProcessesInv'
  <2>1. Unscheduled' = {} /\ next' >= 1
    BY <1>1, <1>4, <1>6 DEF ProcessesInv, Unscheduled
  <2>2. ASSUME NEW i \in 1 .. Len(order)
        PROVE  place'[order[i]] = VOICE_UNDEFINED <=> i >= next'
    <3>1. CASE i = next
      BY <1>1, <1>4, <1>7, <3>1, VoiceRange DEF p
    <3>2. CASE i # next
      <4>1. place'[order[i]] = place[order[i]]
        BY <1>4, <1>7, <3>2
      <4> QED
        BY <1>1, <1>4, <3>2, <4>1 DEF ProcessesInv
    <3> QED
      BY <3>1, <3>2
  <2>3. ASSUME NEW q \in Process, place'[q] # VOICE_UNDEFINED, GroupOf(q) # 0
        PROVE  place'[q] = groupVoice[GroupOf(q)]
    <3>1. CASE q = p
      BY <1>7, <2>3, <3>1 DEF g, x
    <3>2. CASE q # p
      BY <1>1, <1>7, <2>3, <3>2 DEF ProcessesInv
    <3> QED
      BY <3>1, <3>2
  <2> QED
    BY <1>1, <1>6, <1>12, <2>1, <2>2, <2>3 DEF ProcessesInv
<1> QED
  BY <1>1, <1>9, <1>13, <1>14 DEF BalanceInv, Balanced

\* All processes have a voice: what was counted is what there is.
LEMMA AssignBalance ==
    ASSUME ScheduleInv, BalanceInv, AssignThreads PROVE BalanceInv'
<1>1. /\ stage = "processes" /\ stage' = "reassign" /\ next > Len(order)
      /\ UNCHANGED <<groups, groupVoice, place, assigned>>
      /\ BalanceTypes /\ CountInv /\ ProcessesInv
  BY DEF AssignThreads, given, BalanceInv
<1>2. /\ Group' = Group /\ \A p : GroupOf(p)' = GroupOf(p)
      /\ \A h : Members(h)' = Members(h)
  BY <1>1, SameGroups
<1>3. BalanceTypes' /\ \A v : Chosen(v)' = Chosen(v)
  BY <1>1, <1>2 DEF BalanceTypes, Chosen
<1>4. \A p \in Process : place[p] # VOICE_UNDEFINED
  <2> TAKE p \in Process
  <2>1. Position(p) \in 1 .. Len(order) /\ order[Position(p)] = p
    BY <1>1, PositionOfAll DEF ScheduleInv, StageInv
  <2>2. Len(order) \in Nat /\ next \in Nat
    BY DEF ScheduleInv, OrderInv, ThreadInv
  <2> QED
    BY <1>1, <2>1, <2>2 DEF ProcessesInv
<1>5. \A v \in Voice : {p \in Process : place[p] = v} = Counted(v)
  BY <1>1, <1>4 DEF Counted, ProcessesInv
<1>6. \A v \in Voice : Load(v)' = assigned[v]
  BY <1>1, <1>5 DEF Load, CountInv
<1> QED
  BY <1>1, <1>3, <1>6 DEF BalanceInv, Balanced, CountInv

\* Threads do not matter to the balance.
LEMMA ThreadsBalance ==
    ASSUME BalanceInv, Reassign \/ CreateThreads PROVE BalanceInv'
<1>1. /\ stage \in {"reassign", "ready"} /\ stage' \in {"reassign", "ready"}
      /\ UNCHANGED <<groups, groupVoice, place, assigned>>
  BY DEF Reassign, CreateThreads, given
<1>2. /\ Group' = Group /\ \A p : GroupOf(p)' = GroupOf(p)
      /\ \A h : Members(h)' = Members(h)
  BY <1>1, SameGroups
<1>3. BalanceTypes' /\ \A v : Chosen(v)' = Chosen(v) /\ Load(v)' = Load(v)
  BY <1>1, <1>2 DEF BalanceInv, BalanceTypes, Chosen, Load
<1> QED
  BY <1>1, <1>3 DEF BalanceInv, Balanced

LEMMA StutterBalance == ASSUME BalanceInv, UNCHANGED vars PROVE BalanceInv'
<1>1. UNCHANGED <<stage, groups, groupVoice, place, assigned, order, next>>
  BY DEF vars
<1>2. /\ Group' = Group /\ \A p : GroupOf(p)' = GroupOf(p)
      /\ \A h : Members(h)' = Members(h)
  BY <1>1, SameGroups
<1>3. /\ BalanceTypes' <=> BalanceTypes
      /\ \A v : Chosen(v)' = Chosen(v) /\ Counted(v)' = Counted(v) /\ Load(v)' = Load(v)
      /\ Unscheduled' = Unscheduled
  BY <1>1, <1>2 DEF BalanceTypes, Chosen, Counted, Load, Unscheduled
<1>4. /\ CountInv => CountInv'
      /\ GroupsInv => GroupsInv'
      /\ ProcessesInv => ProcessesInv'
      /\ Balanced => Balanced'
  BY <1>1, <1>2, <1>3 DEF CountInv, GroupsInv, ProcessesInv, Balanced
<1> QED
  BY <1>1, <1>2, <1>3, <1>4 DEF BalanceInv

\* The scheduler keeps the voices even: a voice ahead of another owes it to the execution
\* file, or to a group it could not have split (System::load, "scheduling").
THEOREM ScheduleBalanced == Spec => []Balanced
<1>1. ASSUME ScheduleInv, BalanceInv, [Next]_vars PROVE BalanceInv'
  BY <1>1, OrderBalance, CountBalance, GroupBalance, FinishBalance, ProcessBalance,
     AssignBalance, ThreadsBalance, StutterBalance DEF Next
<1>2. BalanceInv => Balanced
  BY DEF BalanceInv
<1> QED
  BY <1>1, <1>2, InitBalance, ScheduleInvariant, PTL DEF Spec
=============================================================================
