------------------------ MODULE WorkerHandshakeProofs ------------------------
(***************************************************************************)
(* Proofs about WorkerHandshake, for every number of workers, whichever    *)
(* events throw and whether or not workers may be silent: an idle signal   *)
(* answers the latest instruction, Engine::execute returns normally only   *)
(* from a clean run phase, and nothing is deleted under a worker that has  *)
(* not been flagged as hung.                                               *)
(***************************************************************************)
EXTENDS WorkerHandshake, TLAPS

\* Where a worker is while it carries out an instruction, or after it has failed.
Busy == {"fire", "play", "service", "pause", "endRunPhase", "report", "check",
         "unwind", "unwound", "reportUnwound", "destroy", "done"}

\* The stages of one exchange, as the signals and the worker show them.
Unborn(w) == wpc[w] = "unborn" /\ ~ idle[w] /\ ~ release[w] /\ given[w] = done[w]
Quiet(w)  == wpc[w] = "wait" /\ ~ idle[w] /\ ~ release[w] /\ given[w] = done[w]
Asked(w)  == wpc[w] = "wait" /\ ~ idle[w] /\ release[w] /\ given[w] = done[w] + 1
AtWork(w) == wpc[w] \in Busy /\ ~ idle[w] /\ ~ release[w] /\ given[w] = done[w] + 1
Ready(w)  == /\ (wpc[w] = "idle" /\ ~ idle[w]) \/ (wpc[w] = "wait" /\ idle[w])
             /\ ~ release[w] /\ given[w] = done[w]
Out(w)    == Asked(w) \/ AtWork(w) \/ Ready(w)

\* The main thread has an answer of w to come.
Answering(w) ==
    \/ mpc \in {"created", "await"} /\ w = mw
    \/ mpc = "run" /\ w < mw
    \/ mpc \in {"poll", "suspect"}
    \/ mpc = "pick" /\ w >= mw

NotYet(w) == (mpc = "create" /\ w >= mw) \/ (mpc = "created" /\ w > mw)

\* Before System::terminate.
Calm == mpc \notin {"terminate", "join", "deleted", "down"}

\* Which stage a worker is in follows from where the main thread is.
HandInv(w) ==
    /\ ~ stop[w] => Unborn(w) \/ Quiet(w) \/ Out(w)
    /\ Calm => ~ stop[w]
    /\ Calm => IF Answering(w) THEN Out(w)
               ELSE IF NotYet(w) THEN Unborn(w) ELSE Quiet(w)

\* The worker has been through the run phase.
Ran(w) == process[w] = "stopped" /\ w \in reported

\* A worker that answers the instruction of the run phase has been through it.
RunInv(w) ==
    /\ mpc \in {"run", "poll", "suspect", "pick"} /\ Answering(w) =>
         /\ Asked(w) => instruction[w] = "RUN"
         /\ AtWork(w) => wpc[w] # "fire"
         /\ Ready(w) => Ran(w)
    /\ mpc = "pick" /\ w < mw => Ran(w)
    /\ mpc = "post" /\ phase = "TERM" /\ mw = 1 => Ran(w)

\* Where a worker can be while an error of its own is flagged.
Flagged == {"endRunPhase", "report", "check", "unwind", "unwound", "reportUnwound",
            "destroy", "done"}

\* What a worker has done with its process and its run phase shows where it is.
LifeInv(w) ==
    /\ wpc[w] \in {"service", "pause"} => process[w] = "playing"
    /\ wpc[w] \in {"endRunPhase", "report", "check"} => process[w] = "stopped"
    /\ wpc[w] \in {"report", "check", "reportUnwound"} => runFinished[w]
    /\ wpc[w] \in {"unwound", "reportUnwound", "destroy", "done"} => process[w] # "playing"
    /\ runFinished[w] => w \in reported \/ wpc[w] \in {"report", "reportUnwound"}
    /\ error[w] => hung[w] \/ wpc[w] \in Flagged

\* A worker that has been joined has ended, unless it was given up.
EndInv(w) ==
    /\ mpc \in {"create", "created"} \/ failed \/ wpc[w] # "unborn"
    /\ (mpc \in {"terminate", "join"} /\ w < mw) \/ mpc \in {"deleted", "down"} =>
           wpc[w] \in {"unborn", "done"} \/ hung[w]
    /\ mpc = "deleted" => ~ failed

WorkerInv(w) == HandInv(w) /\ RunInv(w) /\ LifeInv(w) /\ EndInv(w)

HandshakeInv ==
    /\ TypeOK
    /\ given \in [Worker -> Nat] /\ done \in [Worker -> Nat]
    /\ mpc \in {"create", "created"} => phase = "INIT"
    /\ mpc = "poll" => mw = 1
    /\ \A w \in Worker : WorkerInv(w)

-----------------------------------------------------------------------------
\* The instructions and places that occur.
Instruction == {NONE, "INIT", "RUN", "RESUME", "STOP", "TERM", "DESTROY"}
Life == {"none", "stopped", "playing", "destroyed"}
Spot == {"unborn", "idle", "wait", "fire", "play", "service", "pause", "endRunPhase",
         "report", "check", "unwind", "unwound", "reportUnwound", "destroy", "done"}
MainSpot == {"create", "created", "post", "await", "run", "poll", "suspect", "pick",
             "terminate", "join", "deleted", "down"}

\* TypeOK and the history, variable by variable.
Types ==
    /\ mpc \in MainSpot /\ mw \in Worker /\ phase \in {"INIT", "RUN", "TERM"}
    /\ failed \in BOOLEAN /\ instruction \in [Worker -> Instruction]
    /\ idle \in [Worker -> BOOLEAN] /\ release \in [Worker -> BOOLEAN]
    /\ stop \in [Worker -> BOOLEAN] /\ error \in [Worker -> BOOLEAN]
    /\ hung \in [Worker -> BOOLEAN] /\ runFinished \in [Worker -> BOOLEAN]
    /\ reported \subseteq Worker /\ endRunPhase \in BOOLEAN
    /\ process \in [Worker -> Life] /\ wpc \in [Worker -> Spot]
    /\ given \in [Worker -> Nat] /\ done \in [Worker -> Nat]

LEMMA TypesAre ==
    Types <=> TypeOK /\ given \in [Worker -> Nat] /\ done \in [Worker -> Nat]
BY DEF Types, TypeOK, Instruction, Life, Spot, MainSpot

LEMMA SetType ==
    ASSUME NEW S, NEW f \in [Worker -> S], NEW w \in Worker, NEW v \in S
    PROVE  /\ Set(f, w, v) \in [Worker -> S]
           /\ Set(f, w, v)[w] = v
           /\ \A u \in Worker : u # w => Set(f, w, v)[u] = f[u]
BY DEF Set

-----------------------------------------------------------------------------
(* Types.                                                                  *)

LEMMA MainTypes == ASSUME Types, Main PROVE Types'
<1> USE HandshakeAssumption DEF Types, Worker, Instruction, Life, Spot, MainSpot, NONE,
        mainVars, workVars
<1>1. ASSUME Create PROVE Types'
  BY <1>1 DEF Create, Set
<1>2. ASSUME Created PROVE Types'
  BY SMTT(30), <1>2 DEF Created, Set
<1>3. ASSUME Post PROVE Types'
  BY <1>3 DEF Post, Set
<1>4. ASSUME Answered PROVE Types'
  BY <1>4 DEF Answered, Set
<1>5. ASSUME DoRunPhase PROVE Types'
  <2>1. mpc' \in MainSpot /\ mw' \in Worker
    BY <1>5 DEF DoRunPhase, Advance
  <2>2. /\ instruction' \in [Worker -> Instruction] /\ release' \in [Worker -> BOOLEAN]
        /\ given' \in [Worker -> Nat]
    BY <1>5 DEF DoRunPhase, Set
  <2> QED
    BY <1>5, <2>1, <2>2 DEF DoRunPhase
<1>6. ASSUME PollEnds PROVE Types'
  BY <1>6 DEF PollEnds, Set
<1>7. ASSUME PollSuspects PROVE Types'
  BY <1>7 DEF PollSuspects, Set
<1>8. ASSUME PollFlagsHung PROVE Types'
  BY <1>8 DEF PollFlagsHung, Set
<1>9. ASSUME PickUp PROVE Types'
  BY SMTT(30), <1>9 DEF PickUp, Set
<1>10. ASSUME Throw PROVE Types'
  <2>1. error' \in [Worker -> BOOLEAN] /\ hung' \in [Worker -> BOOLEAN]
    BY <1>10 DEF Throw, Set
  <2> QED
    BY <1>10, <2>1 DEF Throw
<1>11. ASSUME Terminate PROVE Types'
  BY <1>11 DEF Terminate, Set
<1>12. ASSUME Join PROVE Types'
  <2>1. mpc' \in MainSpot /\ mw' \in Worker
    BY <1>12 DEF Join
  <2> QED
    BY <1>12, <2>1 DEF Join
<1> QED
  BY <1>1, <1>2, <1>3, <1>4, <1>5, <1>6, <1>7, <1>8, <1>9, <1>10, <1>11, <1>12 DEF Main

LEMMA WorkTypes == ASSUME Types, NEW w \in Worker, Work(w) PROVE Types'
<1> USE DEF Types, Instruction, Life, Spot, mainVars
<1>1. ASSUME SignalIdle(w) PROVE Types'
  BY <1>1 DEF SignalIdle, Set, Go
<1>2. ASSUME Released(w) PROVE Types'
  BY <1>2 DEF Released, Set, Go
<1>3. ASSUME FireCommonEvent(w) PROVE Types'
  <2>1. wpc' \in [Worker -> Spot] /\ process' \in [Worker -> Life]
    BY <1>3 DEF FireCommonEvent, Set, Go
  <2>2. error' \in [Worker -> BOOLEAN] /\ endRunPhase' \in BOOLEAN
    BY <1>3 DEF FireCommonEvent, Set, StoreError, NoError
  <2>3. done' \in [Worker -> Nat]
    BY <1>3 DEF FireCommonEvent, Set, Obeyed
  <2> QED
    BY <1>3, <2>1, <2>2, <2>3 DEF FireCommonEvent
<1>4. ASSUME Play(w) PROVE Types'
  BY <1>4 DEF Play, Set, Go, StoreError, NoError
<1>5. ASSUME Service(w) PROVE Types'
  BY <1>5 DEF Service, Set, Go, StoreError, NoError
<1>6. ASSUME PauseAndStop(w) PROVE Types'
  BY <1>6 DEF PauseAndStop, Set, Go, StoreError, NoError
<1>7. ASSUME EndRunPhase(w) PROVE Types'
  BY <1>7 DEF EndRunPhase, Set, Go
<1>8. ASSUME Report(w) PROVE Types'
  BY <1>8 DEF Report, Set, Go
<1>9. ASSUME CheckError(w) PROVE Types'
  BY <1>9 DEF CheckError, Set, Go, Obeyed
<1>10. ASSUME Destroy(w) PROVE Types'
  BY <1>10 DEF Destroy, Set, Go, StoreError, NoError
<1> QED
  BY <1>1, <1>2, <1>3, <1>4, <1>5, <1>6, <1>7, <1>8, <1>9, <1>10 DEF Work

-----------------------------------------------------------------------------
(* The invariant, worker by worker.                                        *)

\* What a step leaves alone of worker v.
Same(v) ==
    /\ wpc'[v] = wpc[v] /\ process'[v] = process[v] /\ runFinished'[v] = runFinished[v]
    /\ (v \in reported') = (v \in reported) /\ instruction'[v] = instruction[v]
    /\ idle'[v] = idle[v] /\ release'[v] = release[v] /\ stop'[v] = stop[v]
    /\ error'[v] = error[v] /\ hung'[v] = hung[v] /\ given'[v] = given[v]
    /\ done'[v] = done[v]

LEMMA Undisturbed ==
    ASSUME NEW v \in Worker, UNCHANGED mainVars, Same(v), WorkerInv(v)
    PROVE  WorkerInv(v)'
<1> USE DEF mainVars, Same, WorkerInv, Unborn, Quiet, Asked, AtWork, Ready, Out,
        Answering, NotYet, Calm, Ran
<1>1. HandInv(v)'
  BY DEF HandInv
<1>2. RunInv(v)'
  BY DEF RunInv
<1>3. LifeInv(v)'
  BY DEF LifeInv
<1>4. EndInv(v)'
  BY DEF EndInv
<1> QED
  BY <1>1, <1>2, <1>3, <1>4

\* A worker acts for itself alone.
LEMMA OneWorker ==
    ASSUME Types, NEW w \in Worker, Work(w), NEW v \in Worker, v # w
    PROVE  UNCHANGED mainVars /\ Same(v)
<1> USE DEF Types, Same, Set
<1>1. ASSUME SignalIdle(w) PROVE UNCHANGED mainVars /\ Same(v)
  BY <1>1 DEF SignalIdle, Go
<1>2. ASSUME Released(w) PROVE UNCHANGED mainVars /\ Same(v)
  BY <1>2 DEF Released, Go
<1>3. ASSUME FireCommonEvent(w) PROVE UNCHANGED mainVars /\ Same(v)
  BY <1>3 DEF FireCommonEvent, Go, Obeyed, StoreError, NoError
<1>4. ASSUME Play(w) PROVE UNCHANGED mainVars /\ Same(v)
  BY <1>4 DEF Play, Go, StoreError, NoError
<1>5. ASSUME Service(w) PROVE UNCHANGED mainVars /\ Same(v)
  BY <1>5 DEF Service, Go, StoreError, NoError
<1>6. ASSUME PauseAndStop(w) PROVE UNCHANGED mainVars /\ Same(v)
  BY <1>6 DEF PauseAndStop, Go, StoreError, NoError
<1>7. ASSUME EndRunPhase(w) PROVE UNCHANGED mainVars /\ Same(v)
  BY <1>7 DEF EndRunPhase, Go
<1>8. ASSUME Report(w) PROVE UNCHANGED mainVars /\ Same(v)
  BY <1>8 DEF Report, Go
<1>9. ASSUME CheckError(w) PROVE UNCHANGED mainVars /\ Same(v)
  BY <1>9 DEF CheckError, Go, Obeyed
<1>10. ASSUME Destroy(w) PROVE UNCHANGED mainVars /\ Same(v)
  BY <1>10 DEF Destroy, Go, StoreError, NoError
<1> QED
  BY <1>1, <1>2, <1>3, <1>4, <1>5, <1>6, <1>7, <1>8, <1>9, <1>10 DEF Work

-----------------------------------------------------------------------------
(* The steps of the main thread, for any worker v.                         *)

LEMMA CreateInv ==
    ASSUME Types, Create, NEW v \in Worker, WorkerInv(v),
           mpc \in {"create", "created"} => phase = "INIT",
           mpc = "poll" => mw = 1
    PROVE  WorkerInv(v)'
<1> USE HandshakeAssumption DEF Worker, Types, Set, WorkerInv, Unborn, Quiet,
        Asked, AtWork, Ready, Out, Answering, NotYet, Calm, Ran, Busy, mainVars, workVars
<1>1. HandInv(v)'
  <2>1. v # mw => Same(v) /\ UNCHANGED mw
    BY DEF Create, Same
  <2>2. CASE v # mw
    BY <2>1, <2>2 DEF Create, HandInv, Same
  <2>3. CASE v = mw
    <3>1. Unborn(v) /\ ~ stop[v]
      BY <2>3 DEF Create, HandInv
    <3>2. wpc'[v] = "idle" /\ UNCHANGED <<idle, release, stop, given, done>>
      BY <2>3 DEF Create
    <3>3. Ready(v)'
      BY <3>1, <3>2
    <3>4. Answering(v)' /\ ~ stop'[v]
      BY <2>3, <3>1 DEF Create
    <3> QED
      BY <3>3, <3>4 DEF HandInv
  <2> QED
    BY <2>2, <2>3
<1>2. RunInv(v)'
  BY DEF Create, HandInv, RunInv
<1>3. LifeInv(v)'
  <2>1. v # mw => Same(v)
    BY DEF Create, Same
  <2>2. CASE v # mw
    BY <2>1, <2>2 DEF LifeInv, Same
  <2>3. CASE v = mw
    <3>1. wpc[v] = "unborn"
      BY <2>3 DEF Create, HandInv
    <3>2. wpc'[v] = "idle" /\ UNCHANGED <<process, runFinished, reported, error, hung>>
      BY <2>3 DEF Create
    <3> QED
      BY <3>1, <3>2 DEF LifeInv, Flagged
  <2> QED
    BY <2>2, <2>3
<1>4. EndInv(v)'
  BY DEF Create, HandInv, EndInv
<1> QED
  BY <1>1, <1>2, <1>3, <1>4

LEMMA CreatedInv ==
    ASSUME Types, Created, NEW v \in Worker, WorkerInv(v),
           mpc \in {"create", "created"} => phase = "INIT",
           mpc = "poll" => mw = 1
    PROVE  WorkerInv(v)'
<1> USE HandshakeAssumption DEF Worker, Types, Set, WorkerInv, Unborn, Quiet,
        Asked, AtWork, Ready, Out, Answering, NotYet, Calm, Ran, Busy, mainVars, workVars
<1>1. HandInv(v)'
  BY SMTT(30) DEF Created, HandInv
<1>2. RunInv(v)'
  BY DEF Created, HandInv, RunInv
<1>3. LifeInv(v)'
  BY DEF Created, LifeInv, Flagged
<1>4. EndInv(v)'
  BY DEF Created, HandInv, EndInv
<1> QED
  BY <1>1, <1>2, <1>3, <1>4

LEMMA PostInv ==
    ASSUME Types, Post, NEW v \in Worker, WorkerInv(v),
           mpc \in {"create", "created"} => phase = "INIT",
           mpc = "poll" => mw = 1
    PROVE  WorkerInv(v)'
<1> USE HandshakeAssumption DEF Worker, Types, Set, WorkerInv, Unborn, Quiet,
        Asked, AtWork, Ready, Out, Answering, NotYet, Calm, Ran, Busy, mainVars, workVars
<1>1. HandInv(v)'
  BY DEF Post, HandInv
<1>2. RunInv(v)'
  BY DEF Post, HandInv, RunInv
<1>3. LifeInv(v)'
  BY DEF Post, LifeInv, Flagged
<1>4. EndInv(v)'
  BY DEF Post, HandInv, EndInv
<1> QED
  BY <1>1, <1>2, <1>3, <1>4

LEMMA AnsweredInv ==
    ASSUME Types, Answered, NEW v \in Worker, WorkerInv(v),
           mpc \in {"create", "created"} => phase = "INIT",
           mpc = "poll" => mw = 1
    PROVE  WorkerInv(v)'
<1> USE HandshakeAssumption DEF Worker, Types, Set, WorkerInv, Unborn, Quiet,
        Asked, AtWork, Ready, Out, Answering, NotYet, Calm, Ran, Busy, mainVars, workVars
<1>1. HandInv(v)'
  BY DEF Answered, HandInv
<1>2. RunInv(v)'
  BY DEF Answered, HandInv, RunInv
<1>3. LifeInv(v)'
  BY DEF Answered, LifeInv, Flagged
<1>4. EndInv(v)'
  BY DEF Answered, HandInv, EndInv
<1> QED
  BY <1>1, <1>2, <1>3, <1>4

LEMMA DoRunPhaseInv ==
    ASSUME Types, DoRunPhase, NEW v \in Worker, WorkerInv(v),
           mpc \in {"create", "created"} => phase = "INIT",
           mpc = "poll" => mw = 1
    PROVE  WorkerInv(v)'
<1> USE HandshakeAssumption DEF Worker, Types, Set, WorkerInv, Unborn, Quiet,
        Asked, AtWork, Ready, Out, Answering, NotYet, Calm, Ran, Busy, mainVars, workVars
<1>1. HandInv(v)'
  BY SMTT(30) DEF DoRunPhase, HandInv, Advance
<1>2. RunInv(v)'
  BY DEF DoRunPhase, HandInv, RunInv, Advance
<1>3. LifeInv(v)'
  BY DEF DoRunPhase, LifeInv, Flagged, Advance
<1>4. EndInv(v)'
  BY DEF DoRunPhase, HandInv, EndInv, Advance
<1> QED
  BY <1>1, <1>2, <1>3, <1>4

LEMMA PollEndsInv ==
    ASSUME Types, PollEnds, NEW v \in Worker, WorkerInv(v),
           mpc \in {"create", "created"} => phase = "INIT",
           mpc = "poll" => mw = 1
    PROVE  WorkerInv(v)'
<1> USE HandshakeAssumption DEF Worker, Types, Set, WorkerInv, Unborn, Quiet,
        Asked, AtWork, Ready, Out, Answering, NotYet, Calm, Ran, Busy, mainVars, workVars
<1>1. HandInv(v)'
  BY DEF PollEnds, HandInv
<1>2. RunInv(v)'
  BY DEF PollEnds, HandInv, RunInv
<1>3. LifeInv(v)'
  BY DEF PollEnds, LifeInv, Flagged
<1>4. EndInv(v)'
  BY DEF PollEnds, HandInv, EndInv
<1> QED
  BY <1>1, <1>2, <1>3, <1>4

LEMMA PollSuspectsInv ==
    ASSUME Types, PollSuspects, NEW v \in Worker, WorkerInv(v),
           mpc \in {"create", "created"} => phase = "INIT",
           mpc = "poll" => mw = 1
    PROVE  WorkerInv(v)'
<1> USE HandshakeAssumption DEF Worker, Types, Set, WorkerInv, Unborn, Quiet,
        Asked, AtWork, Ready, Out, Answering, NotYet, Calm, Ran, Busy, mainVars, workVars
<1>1. HandInv(v)'
  BY DEF PollSuspects, HandInv
<1>2. RunInv(v)'
  BY DEF PollSuspects, HandInv, RunInv
<1>3. LifeInv(v)'
  BY DEF PollSuspects, LifeInv, Flagged
<1>4. EndInv(v)'
  BY DEF PollSuspects, HandInv, EndInv
<1> QED
  BY <1>1, <1>2, <1>3, <1>4

LEMMA PollFlagsHungInv ==
    ASSUME Types, PollFlagsHung, NEW v \in Worker, WorkerInv(v),
           mpc \in {"create", "created"} => phase = "INIT",
           mpc = "poll" => mw = 1
    PROVE  WorkerInv(v)'
<1> USE HandshakeAssumption DEF Worker, Types, Set, WorkerInv, Unborn, Quiet,
        Asked, AtWork, Ready, Out, Answering, NotYet, Calm, Ran, Busy, mainVars, workVars
<1>1. HandInv(v)'
  BY DEF PollFlagsHung, HandInv
<1>2. RunInv(v)'
  BY DEF PollFlagsHung, HandInv, RunInv
<1>3. LifeInv(v)'
  BY DEF PollFlagsHung, LifeInv, Flagged
<1>4. EndInv(v)'
  BY DEF PollFlagsHung, HandInv, EndInv
<1> QED
  BY <1>1, <1>2, <1>3, <1>4

LEMMA PickUpInv ==
    ASSUME Types, PickUp, NEW v \in Worker, WorkerInv(v),
           mpc \in {"create", "created"} => phase = "INIT",
           mpc = "poll" => mw = 1
    PROVE  WorkerInv(v)'
<1> USE HandshakeAssumption DEF Worker, Types, Set, WorkerInv, Unborn, Quiet,
        Asked, AtWork, Ready, Out, Answering, NotYet, Calm, Ran, Busy, mainVars, workVars
<1>1. HandInv(v)'
  BY DEF PickUp, HandInv
<1>2. RunInv(v)'
  BY SMTT(30) DEF PickUp, HandInv, RunInv
<1>3. LifeInv(v)'
  BY DEF PickUp, LifeInv, Flagged
<1>4. EndInv(v)'
  BY DEF PickUp, HandInv, EndInv
<1> QED
  BY <1>1, <1>2, <1>3, <1>4

LEMMA ThrowInv ==
    ASSUME Types, Throw, NEW v \in Worker, WorkerInv(v),
           mpc \in {"create", "created"} => phase = "INIT",
           mpc = "poll" => mw = 1
    PROVE  WorkerInv(v)'
<1> USE HandshakeAssumption DEF Worker, Types, Set, WorkerInv, Unborn, Quiet,
        Asked, AtWork, Ready, Out, Answering, NotYet, Calm, Ran, Busy, mainVars, workVars
<1>1. HandInv(v)'
  BY DEF Throw, HandInv
<1>2. RunInv(v)'
  BY DEF Throw, HandInv, RunInv
<1>3. LifeInv(v)'
  BY SMTT(30) DEF Throw, LifeInv, Flagged
<1>4. EndInv(v)'
  BY DEF Throw, HandInv, EndInv
<1> QED
  BY <1>1, <1>2, <1>3, <1>4

LEMMA TerminateInv ==
    ASSUME Types, Terminate, NEW v \in Worker, WorkerInv(v),
           mpc \in {"create", "created"} => phase = "INIT",
           mpc = "poll" => mw = 1
    PROVE  WorkerInv(v)'
<1> USE HandshakeAssumption DEF Worker, Types, Set, WorkerInv, Unborn, Quiet,
        Asked, AtWork, Ready, Out, Answering, NotYet, Calm, Ran, Busy, mainVars, workVars
<1>1. HandInv(v)'
  BY DEF Terminate, HandInv
<1>2. RunInv(v)'
  BY DEF Terminate, HandInv, RunInv
<1>3. LifeInv(v)'
  BY DEF Terminate, LifeInv, Flagged
<1>4. EndInv(v)'
  BY DEF Terminate, HandInv, EndInv
<1> QED
  BY <1>1, <1>2, <1>3, <1>4

LEMMA JoinInv ==
    ASSUME Types, Join, NEW v \in Worker, WorkerInv(v),
           mpc \in {"create", "created"} => phase = "INIT",
           mpc = "poll" => mw = 1
    PROVE  WorkerInv(v)'
<1> USE HandshakeAssumption DEF Worker, Types, Set, WorkerInv, Unborn, Quiet,
        Asked, AtWork, Ready, Out, Answering, NotYet, Calm, Ran, Busy, mainVars, workVars
<1>1. HandInv(v)'
  BY DEF Join, HandInv
<1>2. RunInv(v)'
  BY DEF Join, HandInv, RunInv
<1>3. LifeInv(v)'
  BY DEF Join, LifeInv, Flagged
<1>4. EndInv(v)'
  <2>1. UNCHANGED <<wpc, hung, failed>>
    BY DEF Join
  <2>2. v <= mw => wpc[v] \in {"unborn", "done"} \/ hung[v]
    BY DEF Join, EndInv
  <2>3. CASE mw < Workers
    BY <2>1, <2>2, <2>3 DEF Join, EndInv
  <2>4. CASE mw = Workers
    <3>1. v <= mw
      BY <2>4
    <3> QED
      BY <2>1, <2>2, <2>4, <3>1 DEF Join, EndInv
  <2> QED
    BY <2>3, <2>4
<1> QED
  BY <1>1, <1>2, <1>3, <1>4

-----------------------------------------------------------------------------
(* The steps of worker w, for itself.                                      *)

LEMMA SignalIdleInv ==
    ASSUME Types, NEW w \in Worker, SignalIdle(w), WorkerInv(w)
    PROVE  WorkerInv(w)'
<1> USE HandshakeAssumption DEF Worker, Types, Set, WorkerInv, Unborn, Quiet,
        Asked, AtWork, Ready, Out, Answering, NotYet, Calm, Ran, Busy, mainVars, workVars
<1>1. HandInv(w)'
  BY DEF SignalIdle, HandInv, Go
<1>2. RunInv(w)'
  BY DEF SignalIdle, HandInv, RunInv, LifeInv, Go
<1>3. LifeInv(w)'
  BY DEF SignalIdle, LifeInv, Flagged, Go
<1>4. EndInv(w)'
  BY DEF SignalIdle, HandInv, EndInv, Go
<1> QED
  BY <1>1, <1>2, <1>3, <1>4

LEMMA ReleasedInv ==
    ASSUME Types, NEW w \in Worker, Released(w), WorkerInv(w)
    PROVE  WorkerInv(w)'
<1> USE HandshakeAssumption DEF Worker, Types, Set, WorkerInv, Unborn, Quiet,
        Asked, AtWork, Ready, Out, Answering, NotYet, Calm, Ran, Busy, mainVars, workVars
<1>1. HandInv(w)'
  BY DEF Released, HandInv, Go
<1>2. RunInv(w)'
  BY DEF Released, HandInv, RunInv, LifeInv, Go
<1>3. LifeInv(w)'
  BY DEF Released, LifeInv, Flagged, Go
<1>4. EndInv(w)'
  BY DEF Released, HandInv, EndInv, Go
<1> QED
  BY <1>1, <1>2, <1>3, <1>4

LEMMA FireCommonEventInv ==
    ASSUME Types, NEW w \in Worker, FireCommonEvent(w), WorkerInv(w)
    PROVE  WorkerInv(w)'
<1> USE HandshakeAssumption DEF Worker, Types, Set, WorkerInv, Unborn, Quiet,
        Asked, AtWork, Ready, Out, Answering, NotYet, Calm, Ran, Busy, mainVars, workVars
<1>1. HandInv(w)'
  <2>1. wpc[w] = "fire" /\ UNCHANGED <<mainVars, idle, release, stop, given>>
    BY DEF FireCommonEvent
  <2>2. \/ wpc'[w] = "unwind" /\ done'[w] = done[w]
        \/ wpc'[w] = "idle" /\ done'[w] = done[w] + 1
    BY DEF FireCommonEvent, Go, Obeyed
  <2>3. ~ stop[w] \/ Calm => AtWork(w)
    BY <2>1 DEF HandInv
  <2>4. AtWork(w) => Out(w)'
    BY <2>1, <2>2
  <2>5. Calm => Answering(w)
    BY <2>1 DEF HandInv
  <2>6. stop'[w] = stop[w] /\ Calm' = Calm /\ Answering(w)' = Answering(w)
    BY <2>1
  <2> HIDE DEF Calm, AtWork, Out, Answering
  <2> QED
    BY <2>3, <2>4, <2>5, <2>6 DEF HandInv
<1>2. RunInv(w)'
  BY DEF FireCommonEvent, HandInv, RunInv, LifeInv, Go, Obeyed, StoreError, NoError
<1>3. LifeInv(w)'
  BY DEF FireCommonEvent, LifeInv, Flagged, Go, Obeyed, StoreError, NoError
<1>4. EndInv(w)'
  BY DEF FireCommonEvent, HandInv, EndInv, Go, Obeyed, StoreError, NoError
<1> QED
  BY <1>1, <1>2, <1>3, <1>4

LEMMA PlayInv ==
    ASSUME Types, NEW w \in Worker, Play(w), WorkerInv(w)
    PROVE  WorkerInv(w)'
<1> USE HandshakeAssumption DEF Worker, Types, Set, WorkerInv, Unborn, Quiet,
        Asked, AtWork, Ready, Out, Answering, NotYet, Calm, Ran, Busy, mainVars, workVars
<1>1. HandInv(w)'
  BY DEF Play, HandInv, Go, StoreError, NoError
<1>2. RunInv(w)'
  BY DEF Play, HandInv, RunInv, LifeInv, Go, StoreError, NoError
<1>3. LifeInv(w)'
  BY DEF Play, LifeInv, Flagged, Go, StoreError, NoError
<1>4. EndInv(w)'
  BY DEF Play, HandInv, EndInv, Go, StoreError, NoError
<1> QED
  BY <1>1, <1>2, <1>3, <1>4

LEMMA ServiceInv ==
    ASSUME Types, NEW w \in Worker, Service(w), WorkerInv(w)
    PROVE  WorkerInv(w)'
<1> USE HandshakeAssumption DEF Worker, Types, Set, WorkerInv, Unborn, Quiet,
        Asked, AtWork, Ready, Out, Answering, NotYet, Calm, Ran, Busy, mainVars, workVars
<1>1. HandInv(w)'
  BY DEF Service, HandInv, Go, StoreError, NoError
<1>2. RunInv(w)'
  BY DEF Service, HandInv, RunInv, LifeInv, Go, StoreError, NoError
<1>3. LifeInv(w)'
  BY DEF Service, LifeInv, Flagged, Go, StoreError, NoError
<1>4. EndInv(w)'
  BY DEF Service, HandInv, EndInv, Go, StoreError, NoError
<1> QED
  BY <1>1, <1>2, <1>3, <1>4

LEMMA PauseAndStopInv ==
    ASSUME Types, NEW w \in Worker, PauseAndStop(w), WorkerInv(w)
    PROVE  WorkerInv(w)'
<1> USE HandshakeAssumption DEF Worker, Types, Set, WorkerInv, Unborn, Quiet,
        Asked, AtWork, Ready, Out, Answering, NotYet, Calm, Ran, Busy, mainVars, workVars
<1>1. HandInv(w)'
  BY DEF PauseAndStop, HandInv, Go, StoreError, NoError
<1>2. RunInv(w)'
  BY DEF PauseAndStop, HandInv, RunInv, LifeInv, Go, StoreError, NoError
<1>3. LifeInv(w)'
  BY DEF PauseAndStop, LifeInv, Flagged, Go, StoreError, NoError
<1>4. EndInv(w)'
  BY DEF PauseAndStop, HandInv, EndInv, Go, StoreError, NoError
<1> QED
  BY <1>1, <1>2, <1>3, <1>4

LEMMA EndRunPhaseInv ==
    ASSUME Types, NEW w \in Worker, EndRunPhase(w), WorkerInv(w)
    PROVE  WorkerInv(w)'
<1> USE HandshakeAssumption DEF Worker, Types, Set, WorkerInv, Unborn, Quiet,
        Asked, AtWork, Ready, Out, Answering, NotYet, Calm, Ran, Busy, mainVars, workVars
<1>1. HandInv(w)'
  BY DEF EndRunPhase, HandInv, Go
<1>2. RunInv(w)'
  BY DEF EndRunPhase, HandInv, RunInv, LifeInv, Go
<1>3. LifeInv(w)'
  BY DEF EndRunPhase, LifeInv, Flagged, Go
<1>4. EndInv(w)'
  BY DEF EndRunPhase, HandInv, EndInv, Go
<1> QED
  BY <1>1, <1>2, <1>3, <1>4

LEMMA ReportInv ==
    ASSUME Types, NEW w \in Worker, Report(w), WorkerInv(w)
    PROVE  WorkerInv(w)'
<1> USE HandshakeAssumption DEF Worker, Types, Set, WorkerInv, Unborn, Quiet,
        Asked, AtWork, Ready, Out, Answering, NotYet, Calm, Ran, Busy, mainVars, workVars
<1>1. HandInv(w)'
  BY DEF Report, HandInv, Go
<1>2. RunInv(w)'
  BY DEF Report, HandInv, RunInv, LifeInv, Go
<1>3. LifeInv(w)'
  BY DEF Report, LifeInv, Flagged, Go
<1>4. EndInv(w)'
  BY DEF Report, HandInv, EndInv, Go
<1> QED
  BY <1>1, <1>2, <1>3, <1>4

LEMMA CheckErrorInv ==
    ASSUME Types, NEW w \in Worker, CheckError(w), WorkerInv(w)
    PROVE  WorkerInv(w)'
<1> USE HandshakeAssumption DEF Worker, Types, Set, WorkerInv, Unborn, Quiet,
        Asked, AtWork, Ready, Out, Answering, NotYet, Calm, Ran, Busy, mainVars, workVars
<1>1. HandInv(w)'
  <2>1. wpc[w] = "check" /\ UNCHANGED <<mainVars, idle, release, stop, given>>
    BY DEF CheckError
  <2>2. \/ wpc'[w] = "done" /\ done'[w] = done[w]
        \/ wpc'[w] = "idle" /\ done'[w] = done[w] + 1
    BY DEF CheckError, Go, Obeyed
  <2>3. ~ stop[w] \/ Calm => AtWork(w)
    BY <2>1 DEF HandInv
  <2>4. AtWork(w) => Out(w)'
    BY <2>1, <2>2
  <2>5. Calm => Answering(w)
    BY <2>1 DEF HandInv
  <2>6. stop'[w] = stop[w] /\ Calm' = Calm /\ Answering(w)' = Answering(w)
    BY <2>1
  <2> HIDE DEF Calm, AtWork, Out, Answering
  <2> QED
    BY <2>3, <2>4, <2>5, <2>6 DEF HandInv
<1>2. RunInv(w)'
  BY DEF CheckError, HandInv, RunInv, LifeInv, Go, Obeyed
<1>3. LifeInv(w)'
  BY DEF CheckError, LifeInv, Flagged, Go, Obeyed
<1>4. EndInv(w)'
  BY DEF CheckError, HandInv, EndInv, Go, Obeyed
<1> QED
  BY <1>1, <1>2, <1>3, <1>4

LEMMA DestroyInv ==
    ASSUME Types, NEW w \in Worker, Destroy(w), WorkerInv(w)
    PROVE  WorkerInv(w)'
<1> USE HandshakeAssumption DEF Worker, Types, Set, WorkerInv, Unborn, Quiet,
        Asked, AtWork, Ready, Out, Answering, NotYet, Calm, Ran, Busy, mainVars, workVars
<1>1. HandInv(w)'
  BY DEF Destroy, HandInv, Go, StoreError, NoError
<1>2. RunInv(w)'
  BY DEF Destroy, HandInv, RunInv, LifeInv, Go, StoreError, NoError
<1>3. LifeInv(w)'
  BY DEF Destroy, LifeInv, Flagged, Go, StoreError, NoError
<1>4. EndInv(w)'
  BY DEF Destroy, HandInv, EndInv, Go, StoreError, NoError
<1> QED
  BY <1>1, <1>2, <1>3, <1>4

LEMMA TypesPrimed ==
    Types' <=> TypeOK' /\ given' \in [Worker -> Nat] /\ done' \in [Worker -> Nat]
BY DEF Types, TypeOK, Instruction, Life, Spot, MainSpot

-----------------------------------------------------------------------------
LEMMA InitHandshakeInv == Init => HandshakeInv
<1> SUFFICES ASSUME Init PROVE HandshakeInv
  OBVIOUS
<1>1. Types
  <2>1. mw \in Worker
    BY HandshakeAssumption DEF Init, Worker
  <2> QED
    BY <2>1 DEF Init, Types, Instruction, Life, Spot, MainSpot
<1>2. ASSUME NEW v \in Worker PROVE WorkerInv(v)
  <2> USE DEF Init, Worker, Unborn, Quiet, Asked, AtWork, Ready, Out, Answering, NotYet,
          Calm, Busy
  <2>1. HandInv(v)
    BY DEF HandInv
  <2>2. RunInv(v)
    BY DEF RunInv
  <2>3. LifeInv(v) /\ EndInv(v)
    BY DEF LifeInv, EndInv
  <2> QED
    BY <2>1, <2>2, <2>3 DEF WorkerInv
<1> QED
  BY <1>1, <1>2, TypesAre DEF HandshakeInv, Init

LEMMA MainInv == ASSUME HandshakeInv, Main PROVE HandshakeInv'
<1>1. Types
  BY TypesAre DEF HandshakeInv
<1>2. Types'
  BY <1>1, MainTypes
<1>3. ASSUME NEW v \in Worker PROVE WorkerInv(v)'
  BY <1>1, CreateInv, CreatedInv, PostInv, AnsweredInv, DoRunPhaseInv, PollEndsInv,
     PollSuspectsInv, PollFlagsHungInv, PickUpInv, ThrowInv, TerminateInv, JoinInv
     DEF Main, HandshakeInv
<1>4. /\ mpc' \in {"create", "created"} => phase' = "INIT"
      /\ mpc' = "poll" => mw' = 1
  BY DEF HandshakeInv, Main, Create, Created, Post, Answered, DoRunPhase, Advance, PollEnds,
         PollSuspects, PollFlagsHung, PickUp, Throw, Terminate, Join, mainVars
<1> QED
  BY <1>2, <1>3, <1>4, TypesPrimed DEF HandshakeInv

LEMMA WorkInv == ASSUME HandshakeInv, NEW w \in Worker, Work(w) PROVE HandshakeInv'
<1>1. Types
  BY TypesAre DEF HandshakeInv
<1>2. Types'
  BY <1>1, WorkTypes
<1>3. WorkerInv(w)'
  BY <1>1, SignalIdleInv, ReleasedInv, FireCommonEventInv, PlayInv, ServiceInv,
     PauseAndStopInv, EndRunPhaseInv, ReportInv, CheckErrorInv, DestroyInv
     DEF Work, HandshakeInv
<1>4. ASSUME NEW v \in Worker, v # w PROVE WorkerInv(v)'
  BY <1>1, <1>4, OneWorker, Undisturbed DEF HandshakeInv
<1>5. UNCHANGED mainVars
  BY DEF Work, SignalIdle, Released, FireCommonEvent, Play, Service,
         PauseAndStop, EndRunPhase, Report, CheckError, Destroy
<1> QED
  BY <1>2, <1>3, <1>4, <1>5, TypesPrimed DEF HandshakeInv, mainVars

\* The stages of the exchange are kept by every step of the main thread and of a worker.
THEOREM HandshakeInvariant == Spec => []HandshakeInv
<1>1. ASSUME HandshakeInv, [Next]_vars PROVE HandshakeInv'
  <2>1. CASE Cancel
    <3>1. UNCHANGED mainVars /\ \A v \in Worker : Same(v)
      BY <2>1 DEF Cancel, workVars, Same
    <3>2. \A v \in Worker : WorkerInv(v)'
      BY <1>1, <3>1, Undisturbed DEF HandshakeInv
    <3>3. Types
      BY <1>1, TypesAre DEF HandshakeInv
    <3>4. Types'
      BY <2>1, <3>3 DEF Cancel, Types, mainVars, workVars
    <3> QED
      BY <1>1, <3>1, <3>2, <3>4, TypesPrimed DEF HandshakeInv, mainVars
  <2>2. CASE UNCHANGED vars
    <3>1. UNCHANGED mainVars /\ \A v \in Worker : Same(v)
      BY <2>2 DEF vars, workVars, Same
    <3>2. \A v \in Worker : WorkerInv(v)'
      BY <1>1, <3>1, Undisturbed DEF HandshakeInv
    <3>3. Types
      BY <1>1, TypesAre DEF HandshakeInv
    <3>4. Types'
      BY <2>2, <3>3 DEF vars, Types, mainVars, workVars
    <3> QED
      BY <1>1, <3>1, <3>2, <3>4, TypesPrimed DEF HandshakeInv, mainVars
  <2> QED
    BY <1>1, <2>1, <2>2, MainInv, WorkInv DEF Next
<1> QED
  BY <1>1, InitHandshakeInv, PTL DEF Spec

\* The variables keep their types.
THEOREM HandshakeTypes == Spec => []TypeOK
<1>1. HandshakeInv => TypeOK
  BY DEF HandshakeInv
<1> QED
  BY <1>1, HandshakeInvariant, PTL

\* The main thread never takes an earlier idleness of a worker, or that of one that has
\* failed, for the completion of what it asked since.
THEOREM HandshakeAnswers == Spec => []AnswersAreFresh
<1>1. HandshakeInv => AnswersAreFresh
  BY DEF HandshakeInv, WorkerInv, HandInv, AnswersAreFresh, Unborn, Quiet, Out, Asked, AtWork,
         Ready
<1> QED
  BY <1>1, HandshakeInvariant, PTL

\* When Engine::execute returns normally and no worker is hung, all workers have been
\* through the run phase without an error and wait.
THEOREM HandshakeReturns == Spec => []ExecuteReturnsClean
<1>1. ASSUME HandshakeInv, mpc = "post", phase = "TERM", mw = 1, NoneHung, NEW w \in Worker
      PROVE  /\ wpc[w] = "wait" /\ w \in reported /\ ~ error[w]
             /\ process[w] = "stopped" /\ done[w] = given[w]
  <2>1. HandInv(w) /\ RunInv(w) /\ LifeInv(w)
    BY <1>1 DEF HandshakeInv, WorkerInv
  <2>2. Quiet(w)
    BY <1>1, <2>1 DEF HandInv, Calm, Answering, NotYet
  <2>3. Ran(w)
    BY <1>1, <2>1 DEF RunInv
  <2>4. ~ error[w]
    BY <1>1, <2>1, <2>2 DEF LifeInv, Flagged, Quiet, NoneHung
  <2> QED
    BY <2>2, <2>3, <2>4 DEF Quiet, Ran
<1>2. HandshakeInv => ExecuteReturnsClean
  BY <1>1 DEF ExecuteReturnsClean
<1> QED
  BY <1>2, HandshakeInvariant, PTL

\* A process in play is stopped on every way out of the run phase.
THEOREM HandshakeStops == Spec => []StoppedBeforeTheEnd
<1>1. HandshakeInv => StoppedBeforeTheEnd
  BY DEF HandshakeInv, WorkerInv, LifeInv, StoppedBeforeTheEnd
<1> QED
  BY <1>1, HandshakeInvariant, PTL

\* System::terminate deletes the processes only after the workers, none of them hung.
THEOREM HandshakeDeletes == Spec => []DeletedUnlessHung
<1>1. HandshakeInv => DeletedUnlessHung
  BY DEF HandshakeInv, WorkerInv, EndInv, DeletedUnlessHung, DeletedAfterWorkers, NoneHung
<1> QED
  BY <1>1, HandshakeInvariant, PTL

\* The shared instruction is written from outside only while its worker waits.
THEOREM HandshakeExclusive == Spec => ExchangeExclusive
<1>1. ASSUME HandshakeInv, [Next]_vars, NEW w \in Worker,
             instruction'[w] # instruction[w], wpc' = wpc
      PROVE  wpc[w] = "wait"
  <2>1. HandInv(w) /\ Types
    BY <1>1, TypesAre DEF HandshakeInv, WorkerInv
  <2>2. CASE Main
    <3>1. w = mw /\ (Post \/ Answered \/ DoRunPhase)
      BY <1>1, <2>1, <2>2 DEF Main, Create, Created, Post, Answered, DoRunPhase, PollEnds,
             PollSuspects, PollFlagsHung, PickUp, Throw, Terminate, Join, Types, Set
    <3>2. Post \/ DoRunPhase => Quiet(w)
      <4>1. mpc = "post" \/ mpc = "run" => Quiet(w)
        BY <2>1, <3>1 DEF HandInv, Calm, Answering, NotYet, Worker
      <4> QED
        BY <4>1 DEF Post, DoRunPhase
    <3>3. Answered => Ready(w)
      BY <2>1, <3>1 DEF Answered, HandInv, Calm, Answering, NotYet, Out, Asked, AtWork
    <3> QED
      BY <3>1, <3>2, <3>3 DEF Quiet, Ready, Answered
  <2>3. ASSUME NEW u \in Worker, Work(u) PROVE FALSE
    <3>1. instruction' = instruction \/ wpc'[u] # wpc[u]
      BY <2>1, <2>3 DEF Work, SignalIdle, Released, FireCommonEvent, Play, Service,
             PauseAndStop, EndRunPhase, Report, CheckError, Destroy, Go, Set, Types
    <3> QED
      BY <1>1, <3>1
  <2>4. CASE Cancel \/ UNCHANGED vars
    BY <1>1, <2>4 DEF Cancel, vars
  <2> QED
    BY <1>1, <2>2, <2>3, <2>4 DEF Next
<1>2. HandshakeInv /\ [Next]_vars =>
        [\A w \in Worker :
           instruction'[w] # instruction[w] /\ wpc' = wpc => wpc[w] = "wait"]_vars
  BY <1>1
<1> QED
  BY <1>2, HandshakeInvariant, PTL DEF Spec, ExchangeExclusive
=============================================================================
