------------------------------- MODULE Schedule -------------------------------
(***************************************************************************)
(* From the system file to worker threads: System::load puts the processes *)
(* in an order that its zero-lag links allow and shares them out among the *)
(* voices (systemml/system.cpp), Engine::open shares those of a voice out  *)
(* among its threads (main/engine-open.cpp).  A thread services its        *)
(* processes in the order of the list and waits for their inputs, so a     *)
(* wrong order is a deadlock of the run phase; WorkerService assumes the   *)
(* order made here (ServiceAssumption).                                    *)
(*                                                                         *)
(* All voices load the same file and make the same schedule, which is      *)
(* modelled once; the threads of all voices are assigned together.         *)
(***************************************************************************)
EXTENDS Integers, Sequences, FiniteSets

CONSTANTS
    N,                \* number of processes in the system file
    Voices,           \* number of voices
    ZeroLagLinks,     \* the sets of zero-lag links <<src, dst>> to consider
    Groups,           \* the affinity groups to consider, sequences of records:
                      \*   fit    for each process, the length of the longest ident of
                      \*          the group that its name starts with, or 0
                      \*   named  the voice the execution file names, or VOICE_UNDEFINED
    Executable,       \* the executable class of each process: a binding's for 1258, 1262
    NotThreadSafe,    \* the executable classes with F_NO_CONCURRENCY
    MaxThreadCounts   \* values of MaxThreadCount to consider; 0 is unlimited

Process == 1 .. N
Voice   == 0 .. Voices - 1
VOICE_UNDEFINED == -1

ASSUME ScheduleAssumption ==
    /\ N \in Nat /\ Voices \in Nat \ {0}
    /\ ZeroLagLinks \subseteq SUBSET (Process \X Process)
    /\ \A gs \in Groups :
           gs \in Seq([fit : [Process -> Nat], named : Voice \cup {VOICE_UNDEFINED}])
    /\ MaxThreadCounts \subseteq Nat

VARIABLES
    stage,        \* the part of the two functions that is next
    links,        \* the zero-lag links of this system
    groups,       \* execution.groups as read from the file
    groupVoice,   \* Group::voice, which the scheduler fills in
    maxThreads,   \* MaxThreadCount of this execution
    disordered,   \* the processes that "disordered" still holds
    order,        \* "processes": those put in order so far
    assigned,     \* assignedProcessCount: processes given to each voice
    next,         \* the position in "order" a loop has come to
    place,        \* the voice that computes each process
    thread        \* threadIndex: the thread of each process in its voice

vars == <<stage, links, groups, groupVoice, maxThreads, disordered, order, assigned,
          next, place, thread>>

given == <<links, groups, maxThreads>>

Init ==
    /\ stage = "order"
    /\ links \in ZeroLagLinks
    /\ groups \in Groups
    /\ groupVoice = [g \in DOMAIN groups |-> groups[g].named]
    /\ maxThreads \in MaxThreadCounts
    /\ disordered = Process
    /\ order = << >>
    /\ assigned = [v \in Voice |-> 0]
    /\ next = 1
    /\ place = [p \in Process |-> VOICE_UNDEFINED]
    /\ thread = [p \in Process |-> 0]

-----------------------------------------------------------------------------
(* The order of processes.                                                 *)

ZeroLagSources(p) == {src \in Process : <<src, p>> \in links}

\* Fault: the sources are looked up in the list that is being made.
AcceptableByNewIndex(p) ==
    /\ p \in disordered
    /\ \A src \in ZeroLagSources(p) : src <= Len(order)

\* All zero-lag sources of p have been used; an index is one in the system file.
Acceptable(p) == p \in disordered /\ ZeroLagSources(p) \cap disordered = {}

\* The first acceptable process is used next.
UseProcess ==
    /\ stage = "order"
    /\ \E p \in disordered :
         /\ Acceptable(p)
         /\ \A q \in disordered : Acceptable(q) => p <= q
         /\ order' = Append(order, p)
         /\ disordered' = disordered \ {p}
    /\ UNCHANGED <<given, stage, groupVoice, assigned, next, place, thread>>

\* No process is acceptable: all have been used, or there is an arithmetic loop.
FinishOrder ==
    /\ stage = "order"
    /\ ~ \E p \in disordered : Acceptable(p)
    /\ stage' = IF disordered = {} THEN "count" ELSE "E_CIRCULAR_REFERENCE"
    /\ UNCHANGED <<given, groupVoice, disordered, order, assigned, next, place, thread>>

-----------------------------------------------------------------------------
(* The voices.                                                             *)

Group == DOMAIN groups

\* The group with the longest ident that the name of the process starts with, the
\* first of equals; 0 if there is none.
GroupOf(p) ==
    LET best == {g \in Group : /\ groups[g].fit[p] > 0
                               /\ \A h \in Group : groups[h].fit[p] <= groups[g].fit[p]}
    IN  IF best = {} THEN 0 ELSE CHOOSE g \in best : \A h \in best : g <= h

Members(g) == {p \in Process : GroupOf(p) = g}

\* The first voice with the smallest process count.
LeastLoaded ==
    CHOOSE v \in Voice : \A u \in Voice :
        assigned[v] < assigned[u] \/ (assigned[v] = assigned[u] /\ v <= u)

\* The members of groups whose voice the execution file names.
CountGiven ==
    /\ stage = "count"
    /\ assigned' = [v \in Voice |->
                       Cardinality({p \in Process : /\ GroupOf(p) # 0
                                                    /\ groupVoice[GroupOf(p)] = v})]
    /\ stage' = "groups"
    /\ UNCHANGED <<given, groupVoice, disordered, order, next, place, thread>>

Unscheduled == {g \in Group : groupVoice[g] = VOICE_UNDEFINED /\ Members(g) # {}}

\* Fault: the members of the group are not counted.
ScheduleGroupUncounted ==
    /\ stage = "groups"
    /\ \E g \in Unscheduled :
         /\ \A h \in Unscheduled :
              \/ Cardinality(Members(h)) < Cardinality(Members(g))
              \/ Cardinality(Members(h)) = Cardinality(Members(g)) /\ g <= h
         /\ groupVoice' = [groupVoice EXCEPT ![g] = LeastLoaded]
    /\ UNCHANGED <<given, stage, disordered, order, assigned, next, place, thread>>

\* The largest group without a voice goes to the voice with the fewest processes.
ScheduleGroup ==
    /\ stage = "groups"
    /\ \E g \in Unscheduled :
         /\ \A h \in Unscheduled :
              \/ Cardinality(Members(h)) < Cardinality(Members(g))
              \/ Cardinality(Members(h)) = Cardinality(Members(g)) /\ g <= h
         /\ groupVoice' = [groupVoice EXCEPT ![g] = LeastLoaded]
         /\ assigned' = [assigned EXCEPT ![LeastLoaded] = @ + Cardinality(Members(g))]
    /\ UNCHANGED <<given, stage, disordered, order, next, place, thread>>

FinishGroups ==
    /\ stage = "groups"
    /\ Unscheduled = {}
    /\ stage' = "processes"
    /\ UNCHANGED <<given, groupVoice, disordered, order, assigned, next, place, thread>>

\* A process goes where its group is, or to the voice with the fewest processes.
ScheduleProcess ==
    /\ stage = "processes"
    /\ next <= Len(order)
    /\ LET p == order[next]
           g == GroupOf(p)
       IN  IF g # 0
           THEN /\ place' = [place EXCEPT ![p] = groupVoice[g]]
                /\ UNCHANGED assigned
           ELSE /\ place' = [place EXCEPT ![p] = LeastLoaded]
                /\ assigned' = [assigned EXCEPT ![LeastLoaded] = @ + 1]
    /\ next' = next + 1
    /\ UNCHANGED <<given, stage, groupVoice, disordered, order, thread>>

-----------------------------------------------------------------------------
(* The threads of a voice.                                                 *)

Position(p) == CHOOSE i \in DOMAIN order : order[i] = p

\* The processes of the same voice that are listed before p.
ListedBefore(p) ==
    {q \in Process : place[q] = place[p] /\ Position(q) < Position(p)}

ThreadsUsed(v) ==
    LET processCount == Cardinality({p \in Process : place[p] = v})
    IN  IF maxThreads = 0 \/ processCount < maxThreads THEN processCount ELSE maxThreads

\* The nominal assignment: process p of a voice to thread p % numberOfThreadsUsed.
AssignThreads ==
    /\ stage = "processes"
    /\ next > Len(order)
    /\ thread' = [p \in Process |->
                     Cardinality(ListedBefore(p)) % ThreadsUsed(place[p])]
    /\ next' = 1
    /\ stage' = "reassign"
    /\ UNCHANGED <<given, groupVoice, disordered, order, assigned, place>>

\* Fault: only the process listed just before is looked at.
SplitFromPrevious(p) ==
    {q \in ListedBefore(p) : /\ Executable[q] = Executable[p]
                             /\ thread[q] # thread[p]
                             /\ Position(q) = Position(p) - 1}

\* Earlier processes of the same executable class in another thread.
SplitFrom(p) ==
    {q \in ListedBefore(p) : /\ Executable[q] = Executable[p]
                             /\ thread[q] # thread[p]}

\* A process that is not thread-safe moves to the thread of the first of them.
Reassign ==
    /\ stage = "reassign"
    /\ next <= Len(order)
    /\ LET p == order[next]
       IN  IF Executable[p] \in NotThreadSafe /\ SplitFrom(p) # {}
           THEN \E q \in SplitFrom(p) :
                  /\ \A r \in SplitFrom(p) : Position(q) <= Position(r)
                  /\ thread' = [thread EXCEPT ![p] = thread[q]]
           ELSE UNCHANGED thread
    /\ next' = next + 1
    /\ UNCHANGED <<given, stage, groupVoice, disordered, order, assigned, place>>

CreateThreads ==
    /\ stage = "reassign"
    /\ next > Len(order)
    /\ stage' = "ready"
    /\ UNCHANGED <<given, groupVoice, disordered, order, assigned, next, place, thread>>

Next ==
    \/ UseProcess
    \/ FinishOrder
    \/ CountGiven
    \/ ScheduleGroup
    \/ FinishGroups
    \/ ScheduleProcess
    \/ AssignThreads
    \/ Reassign
    \/ CreateThreads

Spec == Init /\ [][Next]_vars

-----------------------------------------------------------------------------
(* Correctness.                                                            *)

\* A relation has a loop if every member of some set has a predecessor in it.
HasLoop(before) ==
    \E C \in (SUBSET Process) \ {{}} : \A p \in C : \E q \in C : <<q, p>> \in before

SameThread(p, q) == place[p] = place[q] /\ thread[p] = thread[q]

\* p has to be serviced before q at every sample: q reads it without lag, or follows it
\* in the list of their thread.
ServedBefore ==
    {e \in Process \X Process :
        \/ e \in links
        \/ SameThread(e[1], e[2]) /\ Position(e[1]) < Position(e[2])}

\* A system is refused only when its zero-lag links form a loop (system.cpp, "this
\* indicates an arithmetic loop").  When it is accepted, the threads of all voices
\* together can service it: waiting for the process before in the list and waiting for
\* an input without lag never go round in a circle, across threads and voices.
ServableUnlessLoop ==
    /\ stage = "E_CIRCULAR_REFERENCE" => HasLoop(links)
    /\ stage = "ready" => ~ HasLoop(ServedBefore)

\* Processes that must not be executed concurrently share a thread (engine-open.cpp,
\* "we should execute all of them in the same processing thread"), wherever the nominal
\* assignment and earlier moves have put the others of their class.
NotConcurrent ==
    stage = "ready" =>
        \A p, q \in Process :
            /\ Executable[p] = Executable[q]
            /\ Executable[p] \in NotThreadSafe
            /\ place[p] = place[q]
            => thread[p] = thread[q]

Load(v) == Cardinality({p \in Process : place[p] = v})

\* The numbers of processes the scheduler put on voice v of its own choice, in one go:
\* a single process, or the members of a group.
Chosen(v) ==
    {Cardinality(Members(g)) :
        g \in {h \in Group : groups[h].named = VOICE_UNDEFINED /\ groupVoice[h] = v}}
    \cup {1 : p \in {q \in Process : GroupOf(q) = 0 /\ place[q] = v}}

\* The scheduler never makes things worse: a voice with more processes than another has
\* been given them by name in the execution file, or has no more than the least the
\* scheduler ever added to it at once.  The counts it decides by must be true for this,
\* and the largest groups must come first.
Balanced ==
    stage \in {"reassign", "ready"} =>
        \A u, v \in Voice : \A c \in Chosen(u) : Load(u) - Load(v) <= c
=============================================================================
