--------------------------- MODULE WorkerHandshake ---------------------------
(***************************************************************************)
(* How the main thread of a voice drives its worker threads from their     *)
(* creation to the end of the system (systemml/thread.cpp, base/thread.cpp *)
(* and the main/engine-*.cpp functions that call them).  The main thread   *)
(* lays an instruction into a worker, sets its release signal and waits    *)
(* for its idle signal; the run phase alone is released without waiting    *)
(* and then polled.  A worker that fails does not go idle again: it flags  *)
(* the error, ends its run phase and exits, and the main thread finds the  *)
(* flag when its wait for idle times out.                                  *)
(*                                                                         *)
(* One process stands for all the processes of a worker, one instruction   *)
(* INIT for the events of Engine::open and EVENT_BEGIN_RUNPHASE, and one,  *)
(* TERM, for those of Engine::close.                                       *)
(***************************************************************************)
EXTENDS Integers

CONSTANTS
    Workers,      \* number of worker threads
    Fails,        \* the events of a process that may throw
    MayCancel,    \* whether the run phase may be cancelled from outside
    MayHang       \* whether a worker may be silent for TimeoutThreadHang

Worker == 1 .. Workers

ASSUME HandshakeAssumption ==
    /\ Workers \in Nat \ {0}
    /\ Fails \subseteq {"INIT", "PLAY", "SERVICE", "STOP", "TERM", "DESTROY"}
    /\ MayCancel \in BOOLEAN /\ MayHang \in BOOLEAN

VARIABLES
    mpc,          \* where the main thread is
    mw,           \* the worker it is dealing with
    phase,        \* the instruction it is giving: INIT, RUN or TERM
    failed,       \* open, execute or close has thrown; only down() is called
    instruction,  \* WorkerThread::commonEventType, shared without a lock
    idle,         \* WorkerThread::signalIdle
    release,      \* WorkerThread::signalRelease
    stop,         \* WorkerThread::stop
    error,        \* F_THREAD_ERROR
    hung,         \* F_THREAD_HUNG
    runFinished,  \* WorkerThread::flag_runPhaseFinished
    reported,     \* workers that have called RunPhaseTimer::report
    endRunPhase,  \* COND_END_RUN_PHASE
    wpc,          \* where each worker is in threadProc
    process,      \* the life of each worker's process
    given, done   \* (history) instructions given to, and carried out by, each

mainVars == <<mpc, mw, phase, failed>>
workVars == <<wpc, process, runFinished, reported>>
vars == <<mainVars, workVars, instruction, idle, release, stop, error, hung,
          endRunPhase, given, done>>

NONE == "S_NULL"

Init ==
    /\ mpc = "create" /\ mw = 1 /\ phase = "INIT" /\ failed = FALSE
    /\ instruction = [w \in Worker |-> NONE]
    /\ idle = [w \in Worker |-> FALSE]
    /\ release = [w \in Worker |-> FALSE]
    /\ stop = [w \in Worker |-> FALSE]
    /\ error = [w \in Worker |-> FALSE]
    /\ hung = [w \in Worker |-> FALSE]
    /\ runFinished = [w \in Worker |-> FALSE]
    /\ reported = {}
    /\ endRunPhase = FALSE
    /\ wpc = [w \in Worker |-> "unborn"]
    /\ process = [w \in Worker |-> "none"]
    /\ given = [w \in Worker |-> 0]
    /\ done = [w \in Worker |-> 0]

Set(f, w, v) == [f EXCEPT ![w] = v]

-----------------------------------------------------------------------------
\* The main thread.

\* Fault: one worker too many.
AdvancePastTheLast(after) ==
    IF mw <= Workers THEN mw' = mw + 1 /\ UNCHANGED mpc
                     ELSE mw' = 1 /\ mpc' = after

\* To the next worker, or to "after" when this was the last one.
Advance(after) ==
    IF mw < Workers THEN mw' = mw + 1 /\ UNCHANGED mpc
                    ELSE mw' = 1 /\ mpc' = after

\* Engine::open creates the threads one by one.
Create ==
    /\ mpc = "create"
    /\ wpc' = Set(wpc, mw, "idle")
    /\ mpc' = "created"
    /\ UNCHANGED <<mw, phase, failed, process, runFinished, reported, instruction,
                   idle, release, stop, error, hung, endRunPhase, given, done>>

Created ==
    /\ mpc = "created" /\ idle[mw]
    /\ idle' = Set(idle, mw, FALSE)
    /\ IF mw < Workers THEN mw' = mw + 1 /\ mpc' = "create"
                       ELSE mw' = 1 /\ mpc' = "post"
    /\ UNCHANGED <<phase, failed, workVars, instruction, release, stop, error,
                   hung, endRunPhase, given, done>>

\* WorkerThread::fireCommonEvent gives the instruction ...
Post ==
    /\ mpc = "post"
    /\ instruction' = Set(instruction, mw, phase)
    /\ release' = Set(release, mw, TRUE)
    /\ given' = Set(given, mw, given[mw] + 1)
    /\ mpc' = "await"
    /\ UNCHANGED <<mw, phase, failed, workVars, idle, stop, error, hung,
                   endRunPhase, done>>

\* ... and takes it back once the worker is idle again.
Answered ==
    /\ mpc = "await" /\ idle[mw]
    /\ idle' = Set(idle, mw, FALSE)
    /\ instruction' = Set(instruction, mw, NONE)
    /\ IF mw < Workers THEN mw' = mw + 1 /\ mpc' = "post" /\ UNCHANGED phase
       ELSE /\ mw' = 1
            /\ IF phase = "INIT" THEN phase' = "RUN" /\ mpc' = "run"
                                 ELSE mpc' = "terminate" /\ UNCHANGED phase
    /\ UNCHANGED <<failed, workVars, release, stop, error, hung, endRunPhase,
                   given, done>>

\* Workers::doRunPhase releases all of them and waits for none.
DoRunPhase ==
    /\ mpc = "run"
    /\ instruction' = Set(instruction, mw, "RUN")
    /\ release' = Set(release, mw, TRUE)
    /\ given' = Set(given, mw, given[mw] + 1)
    /\ Advance("poll")
    /\ UNCHANGED <<phase, failed, workVars, idle, stop, error, hung, endRunPhase,
                   done>>

\* The main loop of Engine::execute ends with the run phase,
PollEnds ==
    /\ mpc = "poll"
    /\ endRunPhase \/ \A w \in Worker : runFinished[w]
    /\ mpc' = "pick"
    /\ UNCHANGED <<mw, phase, failed, workVars, instruction, idle, release, stop,
                   error, hung, endRunPhase, given, done>>

\* or when a worker that has not finished is found silent for too long ...
PollSuspects ==
    /\ mpc = "poll" /\ MayHang
    /\ \E w \in Worker : ~ runFinished[w] /\ mw' = w
    /\ mpc' = "suspect"
    /\ UNCHANGED <<phase, failed, workVars, instruction, idle, release, stop,
                   error, hung, endRunPhase, given, done>>

\* ... which WorkerThread::hasHung then flags and stores as its error.
PollFlagsHung ==
    /\ mpc = "suspect"
    /\ hung' = Set(hung, mw, TRUE)
    /\ error' = Set(error, mw, TRUE)
    /\ endRunPhase' = TRUE
    /\ mpc' = "pick" /\ mw' = 1
    /\ UNCHANGED <<phase, failed, workVars, instruction, idle, release, stop,
                   given, done>>

\* Fault: the idle signal does not reset itself.
PickUpLeavesSignal ==
    /\ mpc = "pick" /\ idle[mw]
    /\ IF mw < Workers THEN mw' = mw + 1 /\ UNCHANGED <<mpc, phase>>
                       ELSE mw' = 1 /\ mpc' = "post" /\ phase' = "TERM"
    /\ UNCHANGED <<failed, workVars, instruction, idle, release, stop, error, hung,
                   endRunPhase, given, done>>

\* Engine::execute waits for all workers to go idle, and returns.
PickUp ==
    /\ mpc = "pick" /\ idle[mw]
    /\ idle' = Set(idle, mw, FALSE)
    /\ IF mw < Workers THEN mw' = mw + 1 /\ UNCHANGED <<mpc, phase>>
                       ELSE mw' = 1 /\ mpc' = "post" /\ phase' = "TERM"
    /\ UNCHANGED <<failed, workVars, instruction, release, stop, error, hung,
                   endRunPhase, given, done>>

\* WorkerThread::waitForIdle, when its wait times out, throws on the error flag or
\* on a hung worker (the signal may be set meanwhile); the client of the engine
\* then calls nothing but down().
Throw ==
    /\ mpc \in {"created", "await", "pick"}
    /\ \/ /\ error[mw]
          /\ UNCHANGED <<hung, error>>
       \/ /\ ~ error[mw] /\ MayHang
          /\ hung' = Set(hung, mw, TRUE)
          /\ error' = Set(error, mw, TRUE)
    /\ endRunPhase' = TRUE
    /\ failed' = TRUE
    /\ mpc' = "terminate" /\ mw' = 1
    /\ UNCHANGED <<phase, workVars, instruction, idle, release, stop, given, done>>

\* Fault: the worker is not woken.
TerminateWithoutWaking ==
    /\ mpc = "terminate"
    /\ stop' = Set(stop, mw, TRUE)
    /\ mpc' = "join"
    /\ UNCHANGED <<mw, phase, failed, workVars, instruction, idle, release, error,
                   hung, endRunPhase, given, done>>

\* WorkerThread::terminate tells the worker to stop, and wakes it.
Terminate ==
    /\ mpc = "terminate"
    /\ stop' = Set(stop, mw, TRUE)
    /\ release' = Set(release, mw, TRUE)
    /\ mpc' = "join"
    /\ UNCHANGED <<mw, phase, failed, workVars, instruction, idle, error, hung,
                   endRunPhase, given, done>>

\* Fault: the thread is not waited for.
JoinAtOnce ==
    /\ mpc = "join"
    /\ IF mw < Workers THEN mw' = mw + 1 /\ mpc' = "terminate"
       ELSE mw' = 1 /\ mpc' = IF failed THEN "down" ELSE "deleted"
    /\ UNCHANGED <<phase, failed, workVars, instruction, idle, release, stop,
                   error, hung, endRunPhase, given, done>>

\* Thread::terminate waits for the thread to finish, but not for one flagged hung.
\* System::terminate, after the last of them, deletes the processes.
Join ==
    /\ mpc = "join"
    /\ wpc[mw] \in {"unborn", "done"} \/ hung[mw]
    /\ IF mw < Workers THEN mw' = mw + 1 /\ mpc' = "terminate"
       ELSE mw' = 1 /\ mpc' = IF failed THEN "down" ELSE "deleted"
    /\ UNCHANGED <<phase, failed, workVars, instruction, idle, release, stop,
                   error, hung, endRunPhase, given, done>>

Main == \/ Create \/ Created \/ Post \/ Answered \/ DoRunPhase \/ PollEnds
        \/ PollSuspects \/ PollFlagsHung \/ PickUp \/ Throw \/ Terminate \/ Join

-----------------------------------------------------------------------------
\* A worker.

Go(w, l) == wpc' = Set(wpc, w, l)

\* WorkerThread::worker_error: flag and condition.
StoreError(w) == error' = Set(error, w, TRUE) /\ endRunPhase' = TRUE

NoError == UNCHANGED <<error, endRunPhase>>

SignalIdle(w) ==
    /\ wpc[w] = "idle"
    /\ idle' = Set(idle, w, TRUE)
    /\ Go(w, "wait")
    /\ UNCHANGED <<mainVars, process, runFinished, reported, instruction, release,
                   stop, error, hung, endRunPhase, given, done>>

\* Released: to stop, to enter the run phase, or to fire a common event.
Released(w) ==
    /\ wpc[w] = "wait" /\ release[w]
    /\ release' = Set(release, w, FALSE)
    /\ Go(w, IF stop[w] THEN "unwind"
             ELSE IF instruction[w] = "RUN" THEN "play" ELSE "fire")
    /\ UNCHANGED <<mainVars, process, runFinished, reported, instruction, idle,
                   stop, error, hung, endRunPhase, given, done>>

Obeyed(w) == done' = Set(done, w, done[w] + 1)

\* FireCommonEvent of an event that is not guarded: an error leaves the loop.
FireCommonEvent(w) ==
    /\ wpc[w] = "fire"
    /\ \/ /\ Go(w, "idle") /\ Obeyed(w) /\ NoError
          /\ process' = IF process[w] = "none" THEN Set(process, w, "stopped")
                        ELSE process
       \/ /\ instruction[w] \in Fails
          /\ Go(w, "unwind") /\ StoreError(w)
          /\ \/ UNCHANGED process
             \/ process[w] = "none" /\ process' = Set(process, w, "stopped")
          /\ UNCHANGED done
    /\ UNCHANGED <<mainVars, runFinished, reported, instruction, idle, release,
                   stop, hung, given>>

\* EVENT_RUN_PLAY and EVENT_RUN_RESUME put the process in play, then fire.
Play(w) ==
    /\ wpc[w] = "play"
    /\ process' = Set(process, w, "playing")
    /\ instruction' = Set(instruction, w, "RESUME")
    /\ \/ Go(w, "service") /\ NoError
       \/ "PLAY" \in Fails /\ Go(w, "unwind") /\ StoreError(w)
    /\ UNCHANGED <<mainVars, runFinished, reported, idle, release, stop, hung,
                   given, done>>

\* Fault: an error skips the events that stop the process.
ServiceErrorDestroys(w) ==
    /\ wpc[w] = "service"
    /\ \/ Go(w, "pause") /\ NoError
       \/ "SERVICE" \in Fails /\ Go(w, "destroy") /\ StoreError(w)
    /\ UNCHANGED <<mainVars, process, runFinished, reported, instruction, idle,
                   release, stop, hung, given, done>>

\* Service (module WorkerService) ends, sooner if the condition is set; one of
\* its processes may have set it.
Service(w) ==
    /\ wpc[w] = "service"
    /\ \/ Go(w, "pause") /\ NoError
       \/ Go(w, "pause") /\ MayCancel /\ endRunPhase' = TRUE /\ UNCHANGED error
       \/ "SERVICE" \in Fails /\ Go(w, "unwind") /\ StoreError(w)
    /\ UNCHANGED <<mainVars, process, runFinished, reported, instruction, idle,
                   release, stop, hung, given, done>>

\* EVENT_RUN_PAUSE and EVENT_RUN_STOP fire only on a process in play, and catch
\* what it throws; on the way out ("unwind") as at the end of the run phase.
PauseAndStop(w) ==
    /\ wpc[w] \in {"pause", "unwind"}
    /\ Go(w, IF wpc[w] = "pause" THEN "endRunPhase" ELSE "unwound")
    /\ instruction' = Set(instruction, w, "STOP")
    /\ IF process[w] = "playing"
       THEN /\ process' = Set(process, w, "stopped")
            /\ \/ NoError
               \/ "STOP" \in Fails /\ StoreError(w)
       ELSE NoError /\ UNCHANGED process
    /\ UNCHANGED <<mainVars, runFinished, reported, idle, release, stop, hung,
                   given, done>>

\* WorkerThread::endRunPhase flags the worker's end ...
EndRunPhase(w) ==
    /\ wpc[w] \in {"endRunPhase", "unwound"}
    /\ runFinished' = Set(runFinished, w, TRUE)
    /\ Go(w, IF runFinished[w] THEN IF wpc[w] = "endRunPhase" THEN "check" ELSE "destroy"
             ELSE IF wpc[w] = "endRunPhase" THEN "report" ELSE "reportUnwound")
    /\ UNCHANGED <<mainVars, process, reported, instruction, idle, release, stop,
                   error, hung, endRunPhase, given, done>>

\* ... before it reports to the run phase timer.
Report(w) ==
    /\ wpc[w] \in {"report", "reportUnwound"}
    /\ reported' = reported \cup {w}
    /\ Go(w, IF wpc[w] = "report" THEN "check" ELSE "destroy")
    /\ UNCHANGED <<mainVars, process, runFinished, instruction, idle, release,
                   stop, error, hung, endRunPhase, given, done>>

\* Fault: errors caught at the end of the run phase are forgotten.
CheckNothing(w) ==
    /\ wpc[w] = "check"
    /\ Go(w, "idle") /\ Obeyed(w)
    /\ UNCHANGED <<mainVars, process, runFinished, reported, instruction, idle,
                   release, stop, error, hung, endRunPhase, given>>

\* After the run phase the worker goes idle, or leaves if it is flagged.
CheckError(w) ==
    /\ wpc[w] = "check"
    /\ IF error[w] THEN Go(w, "done") /\ UNCHANGED done
                   ELSE Go(w, "idle") /\ Obeyed(w)
    /\ UNCHANGED <<mainVars, process, runFinished, reported, instruction, idle,
                   release, stop, error, hung, endRunPhase, given>>

\* EVENT_MODULE_DESTROY, the last thing a worker does; it too catches errors.
Destroy(w) ==
    /\ wpc[w] = "destroy"
    /\ process' = IF process[w] = "none" THEN process ELSE Set(process, w, "destroyed")
    /\ instruction' = Set(instruction, w, "DESTROY")
    /\ \/ NoError
       \/ "DESTROY" \in Fails /\ process[w] # "none" /\ StoreError(w)
    /\ Go(w, "done")
    /\ UNCHANGED <<mainVars, runFinished, reported, idle, release, stop, hung,
                   given, done>>

Work(w) ==
    \/ SignalIdle(w) \/ Released(w) \/ FireCommonEvent(w) \/ Play(w)
    \/ Service(w) \/ PauseAndStop(w) \/ EndRunPhase(w) \/ Report(w)
    \/ CheckError(w) \/ Destroy(w)

\* The monitor or a peer voice cancels the run phase.
Cancel ==
    /\ MayCancel /\ mpc = "poll" /\ ~ endRunPhase
    /\ endRunPhase' = TRUE
    /\ UNCHANGED <<mainVars, workVars, instruction, idle, release, stop, error,
                   hung, given, done>>

Next == Main \/ Cancel \/ \E w \in Worker : Work(w)

Spec == Init /\ [][Next]_vars

\* All threads are scheduled, and (unless they hang) the events they fire return.
FairSpec == Spec /\ WF_vars(Main) /\ \A w \in Worker : WF_vars(Work(w))

-----------------------------------------------------------------------------
TypeOK ==
    /\ mpc \in {"create", "created", "post", "await", "run", "poll", "suspect",
                "pick", "terminate", "join", "deleted", "down"}
    /\ mw \in Worker /\ phase \in {"INIT", "RUN", "TERM"} /\ failed \in BOOLEAN
    /\ instruction \in [Worker -> {NONE, "INIT", "RUN", "RESUME", "STOP", "TERM", "DESTROY"}]
    /\ {idle, release, stop, error, hung, runFinished} \subseteq [Worker -> BOOLEAN]
    /\ reported \subseteq Worker /\ endRunPhase \in BOOLEAN
    /\ process \in [Worker -> {"none", "stopped", "playing", "destroyed"}]
    /\ wpc \in [Worker -> {"unborn", "idle", "wait", "fire", "play", "service",
                           "pause", "endRunPhase", "report", "check", "unwind",
                           "unwound", "reportUnwound", "destroy", "done"}]

\* An idle signal always answers the latest instruction: the main thread never
\* takes a worker's earlier idleness, or that of a worker that has failed, for the
\* completion of what it asked since.
AnswersAreFresh ==
    \A w \in Worker : idle[w] /\ ~ stop[w] =>
        wpc[w] = "wait" /\ ~ release[w] /\ done[w] = given[w]

\* The unlocked exchange of commonEventType is safe: the main thread writes it only
\* while the worker, which writes it too, waits for its release.
ExchangeExclusive ==
    [][\A w \in Worker :
         instruction'[w] # instruction[w] /\ wpc' = wpc => wpc[w] = "wait"]_vars

NoneHung == \A w \in Worker : ~ hung[w]

\* Unless a worker was flagged as hung, Engine::execute returns normally only when
\* every worker has carried out the run phase, reported its end, stopped its
\* process, raised no error and is waiting.
ExecuteReturnsClean ==
    mpc = "post" /\ phase = "TERM" /\ mw = 1 /\ NoneHung =>
        \A w \in Worker :
            /\ wpc[w] = "wait" /\ w \in reported /\ ~ error[w]
            /\ process[w] = "stopped" /\ done[w] = given[w]

\* Every process that was put in play is stopped before it is destroyed or left.
StoppedBeforeTheEnd ==
    \A w \in Worker : wpc[w] \in {"destroy", "done"} => process[w] # "playing"

\* "we must delete the system only after all threads that might operate on it
\* have terminated" (System::terminate).
DeletedAfterWorkers ==
    mpc = "deleted" => \A w \in Worker : wpc[w] = "done"

\* With every worker answering in time, System::terminate keeps to it.
DeletedUnlessHung == NoneHung => DeletedAfterWorkers

\* A worker that ends has destroyed its process (the end of threadProc: "they will
\* execute on all processes regardless of how many processes throw errors").
DestroyedAtTheEnd ==
    \A w \in Worker : wpc[w] = "done" => process[w] \in {"none", "destroyed"}

\* Whatever fails, the main thread gets through, and no worker outlives it waiting.
EverythingEnds ==
    /\ <>(mpc \in {"deleted", "down"})
    /\ <>[](\A w \in Worker : wpc[w] \in {"unborn", "done"})
=============================================================================
