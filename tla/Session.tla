------------------------------- MODULE Session -------------------------------
(***************************************************************************)
(* An execution over several voices, from the barrier at the end of        *)
(* Engine::open to Engine::down (main/engine-execute.cpp, engine-close.cpp,*)
(* engine.cpp, comm.h; channel.cpp, sockets/sockets.cpp,                   *)
(* sockets/sockets-receiver.cpp).                                          *)
(*                                                                         *)
(* Nobody is in charge: voices agree that an execution went well by        *)
(* exchanging SYNC messages, tell one another of an error or a cancel by a *)
(* signal of which each sends one at most, and part with GOODBYE messages, *)
(* each waiting for those of the others.  Any of them may throw an error   *)
(* wherever it is, be cancelled by its user, or be gone all of a sudden.   *)
(*                                                                         *)
(* A voice is a main thread, its workers (one here, with links from other  *)
(* voices), and for each peer a receiver thread with a queue that the main *)
(* thread pulls from.                                                      *)
(***************************************************************************)
EXTENDS Integers, Sequences

CONSTANTS
    Voices,       \* number of voices
    Feeds,        \* the peers that the output of each voice goes to
    Lag,          \* of the links between voices
    Samples,      \* samples of the execution
    MaxTroubles   \* bound on the errors, cancels and crashes of each voice

Voice == 0 .. Voices - 1

Peer(v) == Voice \ {v}

ASSUME SessionAssumption ==
    /\ Voices \in Nat \ {0} /\ Lag \in Nat /\ Samples \in Nat
    /\ MaxTroubles \in [Voice -> Nat]
    /\ Feeds \in [Voice -> SUBSET Voice] /\ \A v \in Voice : v \notin Feeds[v]

Rounds == 2       \* calls of synchronize: in open and in close

VARIABLES
    pc,           \* where each main thread is
    entered,      \* calls of synchronize that have sent their SYNC messages
    passed,       \* calls of synchronize that have returned
    cause,        \* the first error of each voice (COND_LOCAL_ERROR), or "none"
    engine,       \* the rest of each voice, until its end; see New
    chan,         \* messages from one voice to another
    troubles

vars == <<pc, entered, passed, cause, engine, chan, troubles>>

New(v) ==
    [next      |-> 0,                        \* the peer whose SYNC is pulled next
     cancelled |-> FALSE,                    \* COND_LOCAL_CANCEL
     ended     |-> FALSE,                    \* COND_END_RUN_PHASE
     signalled |-> FALSE,                    \* Comms::signalledPeers
     worker    |-> "idle",                   \* state of the workers
     produced  |-> 0,                        \* samples they have made
     delivered |-> [w \in Voice |-> 0],      \* samples delivered from each peer
     queue     |-> [w \in Voice |-> <<>>],   \* ProtocolChannel::Receiver::q
     receiving |-> Peer(v)]                  \* receiver threads that are active

Set(f, v, x) == [f EXCEPT ![v] = x]

Init ==
    /\ pc = [v \in Voice |-> "open"]
    /\ entered = [v \in Voice |-> 0] /\ passed = [v \in Voice |-> 0]
    /\ cause = [v \in Voice |-> "none"]
    /\ engine = [v \in Voice |-> New(v)]
    /\ chan = [v \in Voice |-> [w \in Voice |-> <<>>]]
    /\ troubles = [v \in Voice |-> 0]

Open(v) == pc[v] \notin {"parting", "gone", "crashed"}

\* The channels when voice v has sent messages to some peers.  Of what reaches a voice
\* that has closed its channels only the GOODBYEs matter: see Part.
Sent(v, peers, ms) ==
    [chan EXCEPT ![v] = [w \in Voice |-> IF w \in peers /\ Open(w) THEN @[w] \o ms ELSE @[w]]]

Send(v, peers, ms) == chan' = Sent(v, peers, ms)

\* The engine of voice v is no more.
Ends(v, where, channels) ==
    /\ pc' = Set(pc, v, where)
    /\ engine' = Set(engine, v, New(v))
    /\ chan' = [w \in Voice |-> Set(channels[w], v, <<>>)]

\* ThreadBase::storeError: the first error is kept.
StoreError(v, e) == cause' = Set(cause, v, IF cause[v] = "none" THEN e ELSE cause[v])

\* Comms::signalPeers: only the first signal of a voice is sent.
Signal(v, m) == IF engine[v].signalled THEN <<>> ELSE <<m>>

\* Engine::down, which the client calls after engine_close, or when any call before it
\* has failed: an error is signalled, and all channels are closed.
Down(v, failed) ==
    LET farewell == (IF failed THEN Signal(v, "ERROR") ELSE <<>>) \o <<"GOODBYE">>
    IN Ends(v, "parting", Sent(v, Peer(v), farewell))

\* An error thrown in the main thread.
Throw(v, e) == StoreError(v, e) /\ Down(v, TRUE)

Trouble(v) ==
    /\ troubles[v] < MaxTroubles[v]
    /\ troubles' = Set(troubles, v, troubles[v] + 1)

-----------------------------------------------------------------------------
\* Comms::synchronize.

\* The first of some voices, or the number of voices if there is none.
First(peers) == CHOOSE w \in peers \cup {Voices} : \A u \in peers : w <= u

\* Fault: the workers are not waited for.
SynchronizesAtOnce(v) == pc[v] = "open" \/ (pc[v] = "wait" /\ engine[v].worker # "failed")

\* At the end of open, and at the beginning of close, for which the workers must have
\* gone idle without an error: the postamble of execute.  An error of any other thread,
\* a cancel or a signal of a peer does not keep a voice from it.
Synchronizes(v) == pc[v] = "open" \/ (pc[v] = "wait" /\ engine[v].worker = "idle")

\* SYNC is sent to all peers.
Enter(v) ==
    /\ Synchronizes(v)
    /\ Send(v, Peer(v), <<"SYNC">>)
    /\ entered' = Set(entered, v, entered[v] + 1)
    /\ engine' = [engine EXCEPT ![v].next = First(Peer(v))]
    /\ pc' = Set(pc, v, "pull")
    /\ UNCHANGED <<passed, cause, troubles>>

\* A channel whose sender thread has failed takes no more messages.
EnterThrows(v) ==
    /\ Synchronizes(v) /\ \E w \in Peer(v) : pc[w] = "crashed"
    /\ Throw(v, "broken")
    /\ UNCHANGED <<entered, passed, troubles>>

From(v) == engine[v].queue[engine[v].next]

Pulling(v) == pc[v] = "pull" /\ engine[v].next \in Voice

\* One message is pulled from each peer in turn, and must be its SYNC.
PullSync(v) ==
    /\ Pulling(v) /\ From(v) # <<>> /\ Head(From(v)) = "SYNC"
    /\ LET n == engine[v].next
       IN engine' = [engine EXCEPT ![v].queue[n] = Tail(@),
                                   ![v].next = First({w \in Peer(v) : w > n})]
    /\ UNCHANGED <<pc, entered, passed, cause, chan, troubles>>

PullError(v) ==
    /\ Pulling(v) /\ From(v) # <<>> /\ Head(From(v)) # "SYNC"
    /\ Throw(v, "peer")
    /\ UNCHANGED <<entered, passed, troubles>>

\* The queue stays empty for a while.  (That has no effect, and is left out, while the
\* GOODBYE that ends the receiver thread has not been sent.)
PullTimesOut(v) ==
    /\ Pulling(v) /\ From(v) = <<>> /\ ~ Open(engine[v].next)
    /\ pc' = Set(pc, v, "timeout")
    /\ UNCHANGED <<entered, passed, cause, engine, chan, troubles>>

\* Fault: the pull goes on whether or not the receiver thread still runs.
PullAgainForEver(v) ==
    /\ pc[v] = "timeout"
    /\ pc' = Set(pc, v, "pull")
    /\ UNCHANGED <<entered, passed, cause, engine, chan, troubles>>

\* Then the receiver thread must still be active.  Messages that arrived since are
\* not looked at: a voice may find the channel dropped although what it waits for
\* has come.
PullAgain(v) ==
    /\ pc[v] = "timeout"
    /\ IF engine[v].next \in engine[v].receiving
       THEN pc' = Set(pc, v, "pull") /\ UNCHANGED <<cause, engine, chan>>
       ELSE Throw(v, IF From(v) = <<>> THEN "dropped" ELSE "overlooked")
    /\ UNCHANGED <<entered, passed, troubles>>

\* Where synchronize returns to: the execution runs, or is closed.
Return(v) ==
    /\ passed' = Set(passed, v, passed[v] + 1)
    /\ IF entered[v] = 1
       THEN pc' = Set(pc, v, "run") /\ engine' = [engine EXCEPT ![v].worker = "run"]
       ELSE pc' = Set(pc, v, "close") /\ UNCHANGED engine
    /\ UNCHANGED <<entered, cause, chan, troubles>>

\* Fault: the answer of one peer is enough.
PassOnFirst(v) == pc[v] = "pull" /\ engine[v].next > First(Peer(v)) /\ Return(v)

\* All have answered.
Pass(v) == pc[v] = "pull" /\ engine[v].next \notin Voice /\ Return(v)

-----------------------------------------------------------------------------
\* The run phase: workers, and the main loop of Engine::execute.

\* A sample needs that of every peer with a link to this voice, Lag samples ago.
Produce(v) ==
    LET e == engine[v]
    IN /\ e.worker = "run" /\ e.produced < Samples /\ ~ e.ended
       /\ \A w \in Voice : v \in Feeds[w] => e.delivered[w] + Lag > e.produced
       /\ engine' = [engine EXCEPT ![v].produced = @ + 1]
       /\ Send(v, Feeds[v], <<"PUSHDATA">>)
       /\ UNCHANGED <<pc, entered, passed, cause, troubles>>

\* Workers go idle at the end of the execution or, wherever they wait, of the run phase.
GoIdle(v) ==
    LET e == engine[v]
    IN /\ e.worker = "run" /\ (e.produced = Samples \/ e.ended)
       /\ engine' = [engine EXCEPT ![v].worker = "idle"]
       /\ UNCHANGED <<pc, entered, passed, cause, chan, troubles>>

WorkerThrows(v) ==
    /\ engine[v].worker = "run" /\ Trouble(v)
    /\ StoreError(v, "own")
    /\ engine' = [engine EXCEPT ![v].worker = "failed", ![v].ended = TRUE]
    /\ UNCHANGED <<pc, entered, passed, chan>>

\* C_CANCEL from the monitor.
Cancel(v) ==
    /\ pc[v] = "run" /\ ~ engine[v].cancelled /\ Trouble(v)
    /\ engine' = [engine EXCEPT ![v].cancelled = TRUE, ![v].ended = TRUE]
    /\ UNCHANGED <<pc, entered, passed, cause, chan>>

\* The main loop ends, and peers are told of a cancel, or else of an error.
LeaveLoop(v) ==
    LET e == engine[v]
    IN /\ pc[v] = "run" /\ (e.ended \/ e.worker # "run")
       /\ pc' = Set(pc, v, "wait")
       /\ IF e.cancelled \/ cause[v] # "none"
          THEN /\ engine' = [engine EXCEPT ![v].signalled = TRUE]
               /\ Send(v, Peer(v), Signal(v, IF e.cancelled THEN "CANCEL" ELSE "ERROR"))
          ELSE UNCHANGED <<engine, chan>>
       /\ UNCHANGED <<entered, passed, cause, troubles>>

\* Fault: a cancelled execution is not closed.
WorkersThrowOrCancel(v) ==
    /\ pc[v] = "wait" /\ engine[v].worker # "run"
    /\ IF engine[v].worker = "failed" THEN Throw(v, "own")
       ELSE engine[v].cancelled /\ Down(v, FALSE) /\ UNCHANGED cause
    /\ UNCHANGED <<entered, passed, troubles>>

\* An error of a worker is thrown again when the voice has waited for it to go idle.
WorkersThrow(v) ==
    /\ pc[v] = "wait" /\ engine[v].worker = "failed"
    /\ Throw(v, "own")
    /\ UNCHANGED <<entered, passed, troubles>>

-----------------------------------------------------------------------------
\* The end.

\* Engine::close has run to its end.
Close(v) ==
    /\ pc[v] = "close"
    /\ Down(v, cause[v] # "none")
    /\ UNCHANGED <<entered, passed, cause, troubles>>

\* It throws, or the end of open does.
MainThrows(v) ==
    /\ pc[v] \in {"open", "close"} /\ Trouble(v)
    /\ Throw(v, "own")
    /\ UNCHANGED <<entered, passed>>

\* Channels are terminated when the GOODBYE of every peer has ended its receiver thread, or
\* a broken connection has.
Part(v) ==
    /\ pc[v] = "parting" /\ \A w \in Peer(v) : ~ Open(w)
    /\ pc' = Set(pc, v, "gone")
    /\ IF \E w \in Peer(v) : pc[w] = "crashed" THEN StoreError(v, "broken") ELSE UNCHANGED cause
    /\ UNCHANGED <<entered, passed, engine, chan, troubles>>

\* The process of a voice is killed.
Crash(v) ==
    /\ Open(v) /\ Trouble(v)
    /\ Ends(v, "crashed", chan)
    /\ UNCHANGED <<entered, passed, cause>>

-----------------------------------------------------------------------------
\* The receiver thread of voice v for voice w.

\* Fault: a signal is only queued, and does not end the run phase.
HandleQueued(v, w, m) ==
    engine' = [engine EXCEPT
        ![v].delivered[w] = IF m = "PUSHDATA" THEN @ + 1 ELSE @,
        ![v].queue[w] = IF m \in {"SYNC", "ERROR"} THEN Append(@, m) ELSE @,
        ![v].receiving = IF m = "GOODBYE" THEN @ \ {w} ELSE @]

\* Samples go to a deliverer, CANCEL and ERROR end the run phase, GOODBYE the thread;
\* ERROR, like all that is not handled here, is queued for the main thread.
Handle(v, w, m) ==
    engine' = [engine EXCEPT
        ![v].delivered[w] = IF m = "PUSHDATA" THEN @ + 1 ELSE @,
        ![v].ended = @ \/ m \in {"CANCEL", "ERROR"},
        ![v].queue[w] = IF m \in {"SYNC", "ERROR"} THEN Append(@, m) ELSE @,
        ![v].receiving = IF m = "GOODBYE" THEN @ \ {w} ELSE @]

Receive(v, w) ==
    /\ Open(v) /\ w \in engine[v].receiving /\ chan[w][v] # <<>>
    /\ Handle(v, w, Head(chan[w][v]))
    /\ chan' = [chan EXCEPT ![w][v] = Tail(@)]
    /\ UNCHANGED <<pc, entered, passed, cause, troubles>>

\* recv() fails when the peer's process is no more; what had not been read may be lost.
ReceiveFails(v, w) ==
    /\ Open(v) /\ w \in engine[v].receiving /\ pc[w] = "crashed"
    /\ StoreError(v, "broken")
    /\ engine' = [engine EXCEPT ![v].ended = TRUE, ![v].receiving = @ \ {w}]
    /\ chan' = [chan EXCEPT ![w][v] = <<>>]
    /\ UNCHANGED <<pc, entered, passed, troubles>>

Synchronize(v) ==
    \/ Enter(v) \/ EnterThrows(v) \/ PullSync(v) \/ PullError(v) \/ PullTimesOut(v)
    \/ PullAgain(v) \/ Pass(v)

Main(v) == Synchronize(v) \/ LeaveLoop(v) \/ WorkersThrow(v) \/ Close(v) \/ Part(v)

Work(v) == Produce(v) \/ GoIdle(v)

Troubled(v) == WorkerThrows(v) \/ Cancel(v) \/ MainThrows(v) \/ Crash(v)

Next ==
    \E v \in Voice :
        \/ Main(v) \/ Work(v) \/ Troubled(v)
        \/ \E w \in Peer(v) : Receive(v, w) \/ ReceiveFails(v, w)

Spec == Init /\ [][Next]_vars

\* Threads run, messages arrive, and a broken connection is noticed.
Fairness ==
    \A v \in Voice :
        /\ WF_vars(Main(v))
        /\ WF_vars(Work(v) \/ \E w \in Peer(v) : Receive(v, w) \/ ReceiveFails(v, w))

FairSpec == Spec /\ Fairness

-----------------------------------------------------------------------------
\* When a voice has passed the closing barrier, no worker runs any more and no sample
\* is on its way to it, so that its deliverers can be stopped (the comment before
\* comms.synchronize in engine-close.cpp).  It needs the wait for idle, the order of the
\* channel, and SYNC sent after both.
NothingUnderWay ==
    \A v \in Voice : passed[v] = Rounds =>
        \A w \in Peer(v) : /\ engine[w].worker # "run"
                           /\ \A i \in DOMAIN chan[w][v] : chan[w][v][i] # "PUSHDATA"

\* A voice reports an error of a peer, or a dropped channel, only if some voice had
\* an error of its own or was killed, whatever was cancelled; or if one voice overlooked a
\* message that came with the GOODBYE while its pull timed out.
ErrorsHaveACause ==
    (\E v \in Voice : cause[v] \in {"peer", "dropped", "broken"}) =>
        \E w \in Voice : cause[w] \in {"own", "overlooked"} \/ pc[w] = "crashed"

\* Both calls of synchronize are rounds of one barrier: no voice runs before all
\* have opened, and none closes before all have run, whatever fails.
Barrier == INSTANCE SyncBarrier WITH Voice <- Voice, Rounds <- Rounds
ImplementsBarrier == Barrier!Spec

\* An error before the closing barrier, or a voice killed before it has said GOODBYE, is
\* an error of the execution: every voice reports one, even if the signal was used up
\* by a cancel or none could be sent.
FailureReachesAll ==
    (\E v \in Voice : (cause[v] # "none" /\ entered[v] < Rounds) \/ pc[v] = "crashed")
        ~> (\A w \in Voice : cause[w] # "none" \/ pc[w] = "crashed")

\* The execution is over for every voice in the end: nobody waits for a sample, a SYNC or a
\* GOODBYE that will not come.
EverybodyLeaves == <>(\A v \in Voice : pc[v] \in {"gone", "crashed"})
=============================================================================
