--------------------------- MODULE MCWorkerService ---------------------------
(***************************************************************************)
(* Instances of WorkerService for TLC.                                     *)
(***************************************************************************)
EXTENDS WorkerService

\* Two workers and four processes.  Process 1 writes port "fast" (every second
\* base sample), read by itself (lag 1), by process 2 in the other worker (lag
\* 0) and by process 3 in its own (lag 0).  Process 2 writes port "slow" (every
\* third), fed back to process 1 (lag 1) and on to process 3 (lag 0).  Process 4
\* has no ports.
LoopPeriod    == [o \in {"fast", "slow"} |-> IF o = "fast" THEN 2 ELSE 3]
LoopReaders   == [o \in {"fast", "slow"} |-> IF o = "fast" THEN 3 ELSE 2]
LoopLag       == [o \in {"fast", "slow"} |->
                     IF o = "fast" THEN [r \in 0 .. 2 |-> IF r = 0 THEN 1 ELSE 0]
                                   ELSE [r \in 0 .. 1 |-> IF r = 0 THEN 1 ELSE 0]]
LoopProcesses == <<  <<1, 3>>, <<2, 4>> >>
LoopInputs    == << << <<"fast", 0>>, <<"slow", 0>> >>,
                    << <<"fast", 1>> >>,
                    << <<"fast", 2>>, <<"slow", 1>> >>,
                    << >> >>
LoopOutputs   == << <<"fast">>, <<"slow">>, << >>, << >> >>

\* Three workers with a process each: process 1 writes "fast" for process 2 (lag
\* 0) and process 3 (lag 2); process 2 writes "slow" for process 3 (lag 0) and
\* process 1 (lag 3).
ChainReaders   == [o \in {"fast", "slow"} |-> 2]
ChainLag       == [o \in {"fast", "slow"} |->
                      [r \in 0 .. 1 |-> IF r = 0 THEN 0
                                        ELSE IF o = "fast" THEN 2 ELSE 3]]
ChainProcesses == << <<1>>, <<2>>, <<3>> >>
ChainInputs    == << << <<"slow", 1>> >>,
                     << <<"fast", 0>> >>,
                     << <<"slow", 0>>, <<"fast", 1>> >> >>
ChainOutputs   == << <<"fast">>, <<"slow">>, << >> >>
=============================================================================
