---------------------------- MODULE WorkerService ----------------------------
(***************************************************************************)
(* The run phase of one voice: every worker thread services the processes  *)
(* it was loaded with, in order of simulated time and, within one time, in *)
(* the order of the system (systemml/thread-service.c).  A service locks   *)
(* the due inputs, then the due outputs, fires EVENT_RUN_SERVICE on the    *)
(* process, releases the inputs, releases the outputs and advances the     *)
(* process to the next time at which one of its ports is due.  Threads     *)
(* meet only at the alternators of the rings (module PortRing) and at      *)
(* COND_END_RUN_PHASE, which ends the waits of all of them.                *)
(***************************************************************************)
EXTENDS RingOps, SequencesExt

CONSTANTS
    Worker,        \* the worker threads
    Processes,     \* for each worker, its processes in the order of loading
    Port,          \* the output ports of the voice
    Period,        \* each port's sample period, in base samples
    Readers,       \* number of input ports connected to each port
    Lag,           \* for each port, the lag of the link to each reader
    Inputs,        \* for each process, its input ports: <<port, reader>> pairs
    Outputs,       \* for each process, its output ports
    ExecutionStart,\* base samples already done (a resumed execution), or 0
    ExecutionStop, \* base samples at which the execution stops
    Responses,     \* what a process may answer to EVENT_RUN_SERVICE
    Cancellable    \* whether the run phase may be ended from outside

\* Processes are numbered in the order System::load gave them.
Process == DOMAIN Inputs
Reader(o) == 0 .. Readers[o] - 1

WorkerOf(p) == CHOOSE w \in Worker : p \in ToSet(Processes[w])
WriterOf(o) == CHOOSE p \in Process : o \in ToSet(Outputs[p])
ReaderOf(o, r) == CHOOSE p \in Process : <<o, r>> \in ToSet(Inputs[p])

\* RingBuffer::expand: room for the largest lag, and never fewer than two.
RingSize(o) == Max({2} \cup {Lag[o][r] + 1 : r \in Reader(o)})

\* Fault: signalling is dropped for every reader.
EveryReader(o) == Reader(o)

\* OutputPort::connectInput: no signalling within one thread.
SameThread(o) ==
    {r \in Reader(o) : WorkerOf(ReaderOf(o, r)) = WorkerOf(WriterOf(o))}

\* Within a thread and a time, a reader that comes no later than its writer.
SameThreadFirst(o) == {r \in SameThread(o) : ReaderOf(o, r) <= WriterOf(o)}

\* Engine::open gives every process to one worker; an output port belongs to one
\* process, and OutputPort::connectInput makes an input port a reader of one.
OneOwner ==
    /\ \A p \in Process : \E w \in Worker : p \in ToSet(Processes[w])
    /\ \A v, w \in Worker : v # w => ToSet(Processes[v]) \cap ToSet(Processes[w]) = {}
    /\ \A o \in Port : \E p \in Process : o \in ToSet(Outputs[p])
    /\ \A p, q \in Process : \A i \in DOMAIN Outputs[p], j \in DOMAIN Outputs[q] :
           Outputs[p][i] = Outputs[q][j] => p = q /\ i = j
    /\ \A o \in Port : \A r \in Reader(o) :
           \E p \in Process : <<o, r>> \in ToSet(Inputs[p])
    /\ \A p, q \in Process : \A i \in DOMAIN Inputs[p], j \in DOMAIN Inputs[q] :
           Inputs[p][i] = Inputs[q][j] => p = q /\ i = j

\* System::load rejects a cycle of zero-lag links and puts the source of each
\* before its destination; processes are loaded into threads in that order.
ASSUME ServiceAssumption ==
    /\ \A o \in Port : Period[o] \in Nat \ {0} /\ Readers[o] \in Nat
    /\ \A o \in Port : Lag[o] \in [Reader(o) -> Nat]
    /\ Inputs \in Seq(Seq(Port \X Nat)) /\ Outputs \in [Process -> Seq(Port)]
    /\ \A p \in Process : \A i \in ToSet(Inputs[p]) : i[2] \in Reader(i[1])
    /\ \A w \in Worker : Processes[w] \in Seq(Process)
    /\ OneOwner
    /\ \A o \in Port : \A r \in Reader(o) :
           Lag[o][r] = 0 => WriterOf(o) < ReaderOf(o, r)
    /\ \A w \in Worker : \A i, j \in DOMAIN Processes[w] :
           i < j => Processes[w][i] < Processes[w][j]
    /\ ExecutionStart \in Nat /\ ExecutionStop \in Nat
    /\ Responses \subseteq {"C_OK", "C_STOP", "E_ERROR"}
    /\ Cancellable \in BOOLEAN

VARIABLES
    pc,            \* where each worker is in the service loop
    turn,          \* the process each worker is at, counted in its own list
    due,           \* the port it is at, counted in the ports of the process
    timeNow,       \* WorkerThread::time_now
    now,           \* componentTime.now of each process: its next service time
    ring,          \* the ring of each output port, as in PortRing
    endRunPhase    \* COND_END_RUN_PHASE

vars == <<pc, turn, due, timeNow, now, ring, endRunPhase>>

NULL == -1

IsDue(o, t) == t % Period[o] = 0

\* The first multiple of the period that is no earlier than t.
SamplesBefore(o, t) == (t + Period[o] - 1) \div Period[o]

Content(k) == IF k >= 0 THEN k ELSE -1

Ring(o) ==
    INSTANCE PortRing WITH
        Readers <- Readers[o], Lag <- Lag[o], Size <- RingSize(o),
        Redundant <- SameThread(o), ReadsFirst <- SameThreadFirst(o),
        Start <- SamplesBefore(o, ExecutionStart),
        Stop <- SamplesBefore(o, ExecutionStop),
        writeBuffer <- ring[o].writeBuffer, readBuffer <- ring[o].readBuffer,
        readReady <- ring[o].readReady, writeReady <- ring[o].writeReady,
        contents <- ring[o].contents, wpc <- ring[o].wpc,
        windex <- ring[o].windex, dueData <- ring[o].dueData,
        written <- ring[o].written, consumed <- ring[o].consumed
-----------------------------------------------------------------------------
\* Process::progress and OutputPort::initInterThreadLocks set up every ring for
\* the number of services its port has had by the start of the execution.
FreshRing(o) ==
    LET start == SamplesBefore(o, ExecutionStart)
        size == RingSize(o)
        w == WriteBufferAfter(start, size)
        rb == [r \in Reader(o) |-> ReadBufferAfter(start, Lag[o][r], size)]
        Ready(r) == {b \in 0 .. size - 1 : StartsWriteReady(rb[r], w, b, size)}
    IN [writeBuffer |-> w,
        readBuffer  |-> rb,
        readReady   |-> [r \in Reader(o) |-> (0 .. size - 1) \ Ready(r)],
        writeReady  |-> [r \in Reader(o) |-> Ready(r)],
        contents    |-> [b \in 0 .. size - 1 |->
                            Content(start - SamplesTill(b, w, size)
                                          - (IF b = w THEN size ELSE 0))],
        wpc         |-> "lock",
        windex      |-> 0,
        dueData     |-> [r \in Reader(o) |-> NULL],
        written     |-> start,
        consumed    |-> [r \in Reader(o) |-> start]]

Init ==
    /\ pc = [w \in Worker |-> "enter"]
    /\ turn = [w \in Worker |-> 1]
    /\ due = [w \in Worker |-> 1]
    /\ timeNow = [w \in Worker |-> ExecutionStart]
    /\ now = [p \in Process |-> ExecutionStart]
    /\ ring = [o \in Port |-> FreshRing(o)]
    /\ endRunPhase = FALSE

-----------------------------------------------------------------------------
\* The process a worker is at, and those of its ports, from the one the worker is
\* at, that are due now: a pass over the ports services them and no others.
Current(w) == Processes[w][turn[w]]

Input(w, i) == Inputs[Current(w)][i]
Output(w, i) == Outputs[Current(w)][i]

DueInputs(w) ==
    {i \in DOMAIN Inputs[Current(w)] : i >= due[w] /\ IsDue(Input(w, i)[1], timeNow[w])}

DueOutputs(w) ==
    {i \in DOMAIN Outputs[Current(w)] : i >= due[w] /\ IsDue(Output(w, i), timeNow[w])}

FirstOf(S) == {i \in S : \A j \in S : i <= j}

Goto(w, l) == pc' = [pc EXCEPT ![w] = l]
FirstDue(w) == due' = [due EXCEPT ![w] = 1]
NextDue(w, i) == due' = [due EXCEPT ![w] = i + 1]
NextTurn(w) == turn' = [turn EXCEPT ![w] = @ + 1]

\* Processes without ports get no service: their time is the execution stop.
Enter(w) ==
    /\ pc[w] = "enter"
    /\ now' = [p \in Process |->
                  IF /\ p \in ToSet(Processes[w])
                     /\ Inputs[p] = <<>> /\ Outputs[p] = <<>>
                  THEN ExecutionStop ELSE now[p]]
    /\ Goto(w, "top")
    /\ UNCHANGED <<turn, due, timeNow, ring, endRunPhase>>

\* Fault: one base sample too few.
TopStopsEarly(w) ==
    LET t == Min({ExecutionStop} \cup {now[p] : p \in ToSet(Processes[w])}) IN
    /\ pc[w] = "top"
    /\ timeNow' = [timeNow EXCEPT ![w] = t]
    /\ turn' = [turn EXCEPT ![w] = 1]
    /\ Goto(w, IF t + 1 >= ExecutionStop THEN "exit" ELSE "each")
    /\ UNCHANGED <<due, now, ring, endRunPhase>>

\* The thread's time is the earliest at which one of its processes is due.
Top(w) ==
    LET t == Min({ExecutionStop} \cup {now[p] : p \in ToSet(Processes[w])}) IN
    /\ pc[w] = "top"
    /\ timeNow' = [timeNow EXCEPT ![w] = t]
    /\ turn' = [turn EXCEPT ![w] = 1]
    /\ Goto(w, IF t >= ExecutionStop THEN "exit" ELSE "each")
    /\ UNCHANGED <<due, now, ring, endRunPhase>>

\* All processes have been looked at: go round again unless told to stop.
EndRound(w) ==
    /\ pc[w] = "each" /\ turn[w] > Len(Processes[w])
    /\ Goto(w, IF endRunPhase THEN "exit" ELSE "top")
    /\ UNCHANGED <<turn, due, timeNow, now, ring, endRunPhase>>

Skip(w) ==
    /\ pc[w] = "each" /\ turn[w] <= Len(Processes[w])
    /\ now[Current(w)] # timeNow[w]
    /\ NextTurn(w)
    /\ UNCHANGED <<pc, due, timeNow, now, ring, endRunPhase>>

BeginService(w) ==
    /\ pc[w] = "each" /\ turn[w] <= Len(Processes[w])
    /\ now[Current(w)] = timeNow[w]
    /\ FirstDue(w)
    /\ Goto(w, IF endRunPhase THEN "exit" ELSE "readLock")
    /\ UNCHANGED <<turn, timeNow, now, ring, endRunPhase>>

\* The alternator a worker stands before, and whether it would let it pass.
MayRead(o, r) ==
    r \in SameThread(o) \/ ring[o].readBuffer[r] \in ring[o].readReady[r]

ReadLock(w) ==
    /\ pc[w] = "readLock"
    /\ \E i \in FirstOf(DueInputs(w)) :
           LET o == Input(w, i)[1]
               r == Input(w, i)[2]
               b == ring[o].readBuffer[r]
           IN /\ MayRead(o, r)
              /\ ring' = [ring EXCEPT
                     ![o].readReady[r] = IF r \in SameThread(o) THEN @ ELSE @ \ {b},
                     ![o].dueData[r] = b]
              /\ NextDue(w, i)
    /\ UNCHANGED <<pc, turn, timeNow, now, endRunPhase>>

InputsLocked(w) ==
    /\ pc[w] = "readLock" /\ DueInputs(w) = {}
    /\ FirstDue(w)
    /\ Goto(w, "writeLock")
    /\ UNCHANGED <<turn, timeNow, now, ring, endRunPhase>>

MayWrite(o, r) ==
    r \in SameThread(o) \/ ring[o].writeBuffer \in ring[o].writeReady[r]

\* OutputPort::writeLock locks the current buffer's alternator of each reader,
WriteLock(w) ==
    /\ pc[w] = "writeLock"
    /\ \E i \in FirstOf(DueOutputs(w)) :
           LET o == Output(w, i)
               r == ring[o].windex
               b == ring[o].writeBuffer
           IN /\ r < Readers[o]
              /\ MayWrite(o, r)
              /\ ring' = [ring EXCEPT
                     ![o].writeReady[r] = IF r \in SameThread(o) THEN @ ELSE @ \ {b},
                     ![o].windex = r + 1]
    /\ UNCHANGED <<pc, turn, due, timeNow, now, endRunPhase>>

\* and then makes the buffer the port's due data.
WriteLocked(w) ==
    /\ pc[w] = "writeLock"
    /\ \E i \in FirstOf(DueOutputs(w)) :
           LET o == Output(w, i)
           IN /\ ring[o].windex = Readers[o]
              /\ ring' = [ring EXCEPT ![o].wpc = "fill", ![o].windex = 0]
              /\ NextDue(w, i)
    /\ UNCHANGED <<pc, turn, timeNow, now, endRunPhase>>

\* Fault: the wait does not look at the condition.
NeverGivesUp(w) == FALSE /\ UNCHANGED vars

\* Signal::waitfor gives up with C_CANCEL only while the signal is not set.
CancelWait(w) ==
    /\ endRunPhase
    /\ \/ /\ pc[w] = "readLock"
          /\ \E i \in FirstOf(DueInputs(w)) : ~ MayRead(Input(w, i)[1], Input(w, i)[2])
       \/ /\ pc[w] = "writeLock"
          /\ \E i \in FirstOf(DueOutputs(w)) :
                 LET o == Output(w, i)
                 IN ring[o].windex < Readers[o] /\ ~ MayWrite(o, ring[o].windex)
    /\ Goto(w, "exit")
    /\ UNCHANGED <<turn, due, timeNow, now, ring, endRunPhase>>

OutputsLocked(w) ==
    /\ pc[w] = "writeLock" /\ DueOutputs(w) = {}
    /\ Goto(w, IF endRunPhase THEN "exit" ELSE "fire")
    /\ UNCHANGED <<turn, due, timeNow, now, ring, endRunPhase>>

\* EVENT_RUN_SERVICE has returned, and the process has written its due outputs with
\* the sample of this time.  (If it stops, whether it has makes no difference: its
\* outputs are not released.)
Serviced(w) ==
    /\ pc[w] = "fire"
    /\ ring' = [o \in Port |->
           IF o \in ToSet(Outputs[Current(w)]) /\ IsDue(o, timeNow[w])
           THEN [ring[o] EXCEPT !.wpc = "release",
                     !.contents[ring[o].writeBuffer] = timeNow[w] \div Period[o]]
           ELSE ring[o]]
    /\ FirstDue(w)
    /\ Goto(w, "readRelease")
    /\ UNCHANGED <<turn, timeNow, now>>

\* Answered C_OK.
FireOK(w) == Serviced(w) /\ UNCHANGED endRunPhase

\* Answered C_STOP_..: the condition is set.  The break of EXIT_MAIN_LOOP leaves no more
\* than the switch it is in, so the inputs are released before the loop is left.
FireStop(w) == Serviced(w) /\ endRunPhase' = TRUE

\* Answered an error: thrown out of the loop; threadProc catches it and sets
\* the condition in a step of its own.
FireError(w) ==
    /\ pc[w] = "fire"
    /\ Goto(w, "catch")
    /\ UNCHANGED <<turn, due, timeNow, now, ring, endRunPhase>>

Fire(w) == \/ "C_OK" \in Responses /\ FireOK(w)
           \/ "C_STOP" \in Responses /\ FireStop(w)
           \/ "E_ERROR" \in Responses /\ FireError(w)

Catch(w) ==
    /\ pc[w] = "catch"
    /\ endRunPhase' = TRUE
    /\ Goto(w, "exit")
    /\ UNCHANGED <<turn, due, timeNow, now, ring>>

ReadRelease(w) ==
    /\ pc[w] = "readRelease"
    /\ \E i \in FirstOf(DueInputs(w)) :
           LET o == Input(w, i)[1]
               r == Input(w, i)[2]
               b == ring[o].readBuffer[r]
           IN /\ ring' = [ring EXCEPT
                     ![o].writeReady[r] = IF r \in SameThread(o) THEN @ ELSE @ \cup {b},
                     ![o].dueData[r] = NULL,
                     ![o].readBuffer[r] = Down(b, RingSize(o)),
                     ![o].consumed[r] = @ + 1]
              /\ NextDue(w, i)
    /\ UNCHANGED <<pc, turn, timeNow, now, endRunPhase>>

InputsReleased(w) ==
    /\ pc[w] = "readRelease" /\ DueInputs(w) = {}
    /\ FirstDue(w)
    /\ Goto(w, IF endRunPhase THEN "exit" ELSE "writeRelease")
    /\ UNCHANGED <<turn, timeNow, now, ring, endRunPhase>>

\* Fault: the reader is not told that its buffer is ready.
WriteReleaseSilently(w) ==
    /\ pc[w] = "writeRelease"
    /\ \E i \in FirstOf(DueOutputs(w)) :
           LET o == Output(w, i)
           IN /\ ring[o].windex < Readers[o]
              /\ ring' = [ring EXCEPT ![o].windex = @ + 1]
    /\ UNCHANGED <<pc, turn, due, timeNow, now, endRunPhase>>

WriteRelease(w) ==
    /\ pc[w] = "writeRelease"
    /\ \E i \in FirstOf(DueOutputs(w)) :
           LET o == Output(w, i)
               r == ring[o].windex
               b == ring[o].writeBuffer
           IN /\ r < Readers[o]
              /\ ring' = [ring EXCEPT
                     ![o].readReady[r] = IF r \in SameThread(o) THEN @ ELSE @ \cup {b},
                     ![o].windex = r + 1]
    /\ UNCHANGED <<pc, turn, due, timeNow, now, endRunPhase>>

WriteReleased(w) ==
    /\ pc[w] = "writeRelease"
    /\ \E i \in FirstOf(DueOutputs(w)) :
           LET o == Output(w, i)
           IN /\ ring[o].windex = Readers[o]
              /\ ring' = [ring EXCEPT
                     ![o].writeBuffer = Down(@, RingSize(o)),
                     ![o].wpc = "lock", ![o].windex = 0,
                     ![o].written = @ + 1]
              /\ NextDue(w, i)
    /\ UNCHANGED <<pc, turn, timeNow, now, endRunPhase>>

\* The readRelease and writeRelease of every port, due or not, lower the next
\* service time to the port's next sample boundary after t.
NextBoundary(o, t) == t - (t % Period[o]) + Period[o]

PortsOf(p) == {i[1] : i \in ToSet(Inputs[p])} \cup ToSet(Outputs[p])

\* Fault: only the outputs decide when the process is next due.
NextOutputService(p, t) ==
    Min({ExecutionStop} \cup {NextBoundary(o, t) : o \in ToSet(Outputs[p])})

NextService(p, t) ==
    Min({ExecutionStop} \cup {NextBoundary(o, t) : o \in PortsOf(p)})

OutputsReleased(w) ==
    /\ pc[w] = "writeRelease" /\ DueOutputs(w) = {}
    /\ now' = [now EXCEPT ![Current(w)] = NextService(Current(w), timeNow[w])]
    /\ NextTurn(w)
    /\ Goto(w, IF endRunPhase THEN "exit" ELSE "each")
    /\ UNCHANGED <<due, timeNow, ring, endRunPhase>>

\* The main thread sets a condition: the user, a peer voice, a timeout.
Cancel ==
    /\ Cancellable /\ ~ endRunPhase
    /\ endRunPhase' = TRUE
    /\ UNCHANGED <<pc, turn, due, timeNow, now, ring>>

Work(w) ==
    \/ Enter(w) \/ Top(w) \/ EndRound(w) \/ Skip(w) \/ BeginService(w)
    \/ ReadLock(w) \/ InputsLocked(w) \/ WriteLock(w) \/ WriteLocked(w)
    \/ CancelWait(w) \/ OutputsLocked(w) \/ Fire(w) \/ Catch(w)
    \/ ReadRelease(w) \/ InputsReleased(w) \/ WriteRelease(w)
    \/ WriteReleased(w) \/ OutputsReleased(w)

Next == Cancel \/ \E w \in Worker : Work(w)

Spec == Init /\ [][Next]_vars

\* Every worker is a thread of its own, which the system keeps scheduling.
FairSpec == Spec /\ \A w \in Worker : WF_vars(Work(w))

-----------------------------------------------------------------------------
Label == {"enter", "top", "each", "readLock", "writeLock", "fire", "catch",
          "readRelease", "writeRelease", "exit"}

RingFields == {"writeBuffer", "readBuffer", "readReady", "writeReady", "contents",
               "wpc", "windex", "dueData", "written", "consumed"}

TypeOK ==
    /\ pc \in [Worker -> Label]
    /\ turn \in [Worker -> Nat] /\ due \in [Worker -> Nat \ {0}]
    /\ timeNow \in [Worker -> Nat]
    /\ now \in [Process -> Nat]
    /\ endRunPhase \in BOOLEAN
    /\ \A w \in Worker : turn[w] \in 1 .. Len(Processes[w]) + 1
    /\ DOMAIN ring = Port
    /\ \A o \in Port : DOMAIN ring[o] = RingFields /\ Ring(o)!TypeOK

\* When a process is fired, exactly its due ports carry data, and the data on an
\* input is what its source wrote lag samples ago, whichever threads they run in.
ServedOnTime ==
    \A w \in Worker : pc[w] = "fire" =>
        LET t == timeNow[w]
            p == Current(w)
        IN /\ \A i \in ToSet(Inputs[p]) :
                 LET o == i[1]
                     d == ring[o].dueData[i[2]]
                 IN IF IsDue(o, t)
                    THEN d # NULL /\ ring[o].contents[d] =
                             Content(t \div Period[o] - Lag[o][i[2]])
                    ELSE d = NULL
           /\ \A o \in ToSet(Outputs[p]) : ring[o].wpc = "fill" <=> IsDue(o, t)

\* A worker that leaves the loop while nobody has asked for the end has brought
\* each of its processes that has ports, and each of these ports, exactly to the
\* execution stop, or left them where they were resumed if that is already later.
ExecutionEnd == IF ExecutionStart <= ExecutionStop THEN ExecutionStop ELSE ExecutionStart

HasPorts(p) == Inputs[p] # <<>> \/ Outputs[p] # <<>>

Done(p) ==
    /\ HasPorts(p) => now[p] = ExecutionEnd
    /\ \A i \in ToSet(Inputs[p]) :
           ring[i[1]].consumed[i[2]] = SamplesBefore(i[1], ExecutionEnd)
    /\ \A o \in ToSet(Outputs[p]) :
           ring[o].written = SamplesBefore(o, ExecutionEnd)

ExitOnlyWhenDone ==
    \A w \in Worker : pc[w] = "exit" /\ ~ endRunPhase =>
        \A p \in ToSet(Processes[w]) : Done(p)

\* The loop keeps, for every port, the order among the processes of one thread
\* that PortRing relies on where an alternator is redundant: each ring runs as
\* specified there.
RingsImplemented ==
    /\ \A o \in Port : Ring(o)!Init
    /\ [][\A o \in Port : [Ring(o)!Next]_(Ring(o)!vars)]_vars

\* The workers never wait for one another in a circle: left alone, all of them
\* reach the execution stop.
AllReachStop ==
    (<>[] ~ endRunPhase) => <>(\A w \in Worker : pc[w] = "exit")

\* An error, a stop or a cancel ends every worker, those waiting for a buffer
\* that a worker now gone was to hand over included.
EndReachesAll ==
    endRunPhase ~> (\A w \in Worker : pc[w] = "exit")

-----------------------------------------------------------------------------
\* The inductive invariant behind these properties.  While a worker is in the
\* loop, each of its processes and their ports stand at the time "now" of the
\* process, and nothing was due between the thread's time and that time.
Serving == {"readLock", "writeLock", "fire", "readRelease", "writeRelease"}

InLoop(w) == pc[w] \notin {"catch", "exit"}

\* The label at which process p is being serviced, or "idle".
Stage(p) ==
    LET w == WorkerOf(p)
    IN IF pc[w] \in Serving /\ Current(w) = p THEN pc[w] ELSE "idle"

\* Whether the input, or the output, at position i has been locked, ...
Held(l, d, i) == \/ l \in {"writeLock", "fire"}
                 \/ l = "readLock" /\ i < d
                 \/ l = "readRelease" /\ i >= d

Read(l, d, i) == l = "writeRelease" \/ (l = "readRelease" /\ i < d)

PhaseAt(l, d, i) ==
    IF l = "fire" \/ (l = "writeLock" /\ i < d) THEN "fill"
    ELSE IF l = "readRelease" \/ (l = "writeRelease" /\ i >= d) THEN "release"
    ELSE "lock"

Wrote(l, d, i) == l = "writeRelease" /\ i < d

InputInv(p, i) ==
    LET o == Inputs[p][i][1]
        r == Inputs[p][i][2]
        w == WorkerOf(p)
        dueNow == IsDue(o, timeNow[w])
    IN /\ ring[o].dueData[r] # NULL <=> dueNow /\ Held(Stage(p), due[w], i)
       /\ ring[o].consumed[r] = SamplesBefore(o, now[p])
                + (IF dueNow /\ Read(Stage(p), due[w], i) THEN 1 ELSE 0)

OutputInv(p, i) ==
    LET o == Outputs[p][i]
        w == WorkerOf(p)
        dueNow == IsDue(o, timeNow[w])
    IN /\ ring[o].wpc = IF dueNow THEN PhaseAt(Stage(p), due[w], i) ELSE "lock"
       /\ ring[o].windex # 0 => /\ pc[w] \in {"writeLock", "writeRelease"}
                                /\ Current(w) = p /\ i \in FirstOf(DueOutputs(w))
       /\ ring[o].written = SamplesBefore(o, now[p])
                + (IF dueNow /\ Wrote(Stage(p), due[w], i) THEN 1 ELSE 0)

\* While its worker is in the loop, a process stands where its time puts it.
ProcessInv(p) ==
    InLoop(WorkerOf(p)) => /\ \A i \in DOMAIN Inputs[p] : InputInv(p, i)
                           /\ \A i \in DOMAIN Outputs[p] : OutputInv(p, i)

\* Up to turn[w] the processes of a worker have been serviced at its time.
TimeAt(w, j) == IF j < turn[w] THEN timeNow[w] + 1 ELSE timeNow[w]

TimeInv(w) ==
    \A j \in DOMAIN Processes[w] :
        LET p == Processes[w][j]
        IN IF HasPorts(p)
           THEN /\ TimeAt(w, j) <= now[p] /\ now[p] <= ExecutionEnd
                /\ \A o \in PortsOf(p) :
                       SamplesBefore(o, now[p]) = SamplesBefore(o, TimeAt(w, j))
           ELSE pc[w] = "enter" \/ now[p] = ExecutionStop

WorkerInv(w) ==
    /\ InLoop(w) => TimeInv(w) /\ ExecutionStart <= timeNow[w]
    /\ pc[w] \in Serving \cup {"each"} => timeNow[w] < ExecutionStop
    /\ pc[w] \in {"enter", "top"} => turn[w] \in {1, Len(Processes[w]) + 1}
    /\ pc[w] \in Serving =>
           turn[w] \in DOMAIN Processes[w] /\ now[Current(w)] = timeNow[w]
    /\ pc[w] = "exit" => \/ endRunPhase
                         \/ \A p \in ToSet(Processes[w]) : Done(p)

ServiceInv ==
    /\ TypeOK
    /\ \A w \in Worker : WorkerInv(w)
    /\ \A p \in Process : ProcessInv(p)
    /\ \A o \in Port : Ring(o)!RingInv
=============================================================================
