---------------------------- MODULE RunPhaseTimer ----------------------------
(***************************************************************************)
(* The timing of the run phase (class RunPhaseTimer of systemml/thread.cpp).*)
(* Workers::doRunPhase starts the timer and sets a counter to the number of *)
(* workers; each worker decrements the counter when it ends the run phase,  *)
(* and the one that finds it zero reads the timer.  The counter is a plain  *)
(* UINT32: the decrement is a load and a store, and the test another load.  *)
(***************************************************************************)
EXTENDS Integers

CONSTANT Workers      \* number of worker threads

Worker == 1 .. Workers

VARIABLES
    threadsLeftToReport,
    loaded,           \* the value each worker is about to store
    pc,               \* where each worker is in report()
    timerRead         \* runPhaseBracketTime has been set

vars == <<threadsLeftToReport, loaded, pc, timerRead>>

\* RunPhaseTimer::start, before any worker is released.
Init ==
    /\ threadsLeftToReport = Workers
    /\ loaded = [w \in Worker |-> 0]
    /\ pc = [w \in Worker |-> "run"]
    /\ timerRead = FALSE

At(w, from, to) == pc[w] = from /\ pc' = [pc EXCEPT ![w] = to]

Load(w) ==
    /\ At(w, "run", "store")
    /\ loaded' = [loaded EXCEPT ![w] = threadsLeftToReport]
    /\ UNCHANGED <<threadsLeftToReport, timerRead>>

Store(w) ==
    /\ At(w, "store", "test")
    /\ threadsLeftToReport' = loaded[w] - 1
    /\ UNCHANGED <<loaded, timerRead>>

Test(w) ==
    /\ At(w, "test", "idle")
    /\ timerRead' = (timerRead \/ threadsLeftToReport = 0)
    /\ UNCHANGED <<threadsLeftToReport, loaded>>

Next == \E w \in Worker : Load(w) \/ Store(w) \/ Test(w)

Spec == Init /\ [][Next]_vars

\* "When each thread ends run phase it calls back, and if it is the last thread to
\* call back, we read the system timer again" (Workers::doRunPhase): when all have
\* gone idle, and Engine::execute adds the run time, the timer has been read.
LastReportReadsTimer == (\A w \in Worker : pc[w] = "idle") => timerRead
=============================================================================
