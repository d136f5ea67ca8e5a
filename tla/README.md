# BRAHMS engine: TLA+ models, model checking and proofs

BRAHMS executes *SystemML* systems: processes joined by links of whole-sample
lag. An execution runs on one or more *voices* (engine instances, one per
computer or OS process); in a voice a main thread drives *worker* threads, and
voices exchange samples through a channel library (sockets or MPI). This
directory models the concurrent core of the engine, checks it with TLC and
proves the safety of its central components with TLAPS. Paths below are relative to `src/framework/`.

## 1. Inventory

| Part | State | Operations and partners | What makes it correct |
|---|---|---|---|
| Port ring (`engine/systemml/port.*`, `alternator.h`) | ring of buffers, write index, one read index per reader, one pair of auto-reset signals per buffer and reader, due data | `writeLock/Release` from the writer's worker, `readLock/Release` from a reader's worker | reader and writer never share a buffer; a reader sees exactly the sample its lag calls for; no sample is lost; no deadlock |
| Service loop (`engine/systemml/thread-service.c`, `interface.cpp`, `process.cpp`) | per worker: time, position in the list; per process: next service time | lock inputs, lock outputs, `EVENT_RUN_SERVICE`, release inputs, release outputs | service exactly at the port boundaries; freedom from deadlock between workers; an error, stop or cancel ends all |
| Worker handshake (`engine/systemml/thread.cpp`, `engine/base/thread.cpp`, `engine/main/engine-*.cpp`) | per worker: instruction, idle and release signals, error and hung flags, stop | `fireCommonEvent`, `doRunPhase`, `waitForIdle`, `hasHung`, `terminate` | an idle signal answers the latest instruction; errors are noticed; processes stopped and destroyed; nothing deleted under a running thread |
| Run phase timer (`thread.cpp`) | a counter shared by workers | `start`, `report` | the last worker reads the timer |
| Save and resume (`engine-close.cpp`, `process.cpp`) | System File | `getWriteBuffer(lag)`, `Process::progress` | a resumed execution continues the samples exactly |
| System loading (`system.cpp` 106-531) | process list, zero-lag tally | reorder, affinity, thread assignment | sources of zero-lag links first; loops rejected |
| Connect phase (`system.cpp` 593-1269) | seen inputs, announced outputs, remote ports | local passes, `FINDOUTPUT`/announce messages | terminates; deadlock detected only when real; stream numbers agree |
| Remote ports (`port.cpp` 200-480) | `readBuffer`, `nextBufferToRead`, messages | push in the writer's thread, `messageAway` in the sender's, `pushdataHandler` in a deliverer's | samples in order, none dropped; cancel reaches everybody |
| Comms layer (`engine/main/comm.h`, `engine/base/ipm.*`) | channels, signalled flag, message pool | `synchronize`, `flush`, `signalPeers`, `push`, `pull` | all voices agree on success, cancel or error |
| Channel protocols (`channel/`) | FIFOs, sender, receiver and deliverer threads | push, send, receive, route, terminate | order per stream, bounded memory, termination |
| Signals, conditions (`engine/base/os.cpp`, `core.h`) | flag under a mutex; five booleans | `set`, `waitfor`; `Condition::set` | a set signal is consumed once; a cancel ends a wait |
| Logging (`loggable.cpp`, `port.cpp` 917-989, `system.cpp` 1705-2000) | windows in base samples | `originToBaseSamples`, window test | exactly the samples of the windows |
| Loader, registers, API, XML, text, output, components, bindings, front ends | | | single-threaded or I/O; not modelled |

The hard behaviours are the interleavings of workers at the alternators, the
exits from the service loop with locks held, the lock-free exchange of
instructions, errors and timeouts racing completion, and, between voices, that
nobody is in charge: voices agree on verdicts, rounds and failures by messages
only, and samples are sent out of the very buffers the writer comes back to.
`PROJECT.json` lists them one by one under `hazards`, each with its line and the
properties that cover it.

## 2. Modules

| Module | Models | State and actions in the code's terms |
|---|---|---|
| `RingOps` | index arithmetic of the ring | `Down` is the advance in `writeRelease`/`readRelease`, `StartsWriteReady` the choice in `initInterThreadLocks`, `WriteBufferAfter`/`ReadBufferAfter` the positions in `Process::progress` |
| `SampleChannel` | abstract: what a link promises to one reader | bounded FIFO with `Lag` initial samples |
| `PortRing` | one output port, its ring and readers | one action per alternator lock and release; `readReady[r]`, `writeReady[r]` are the sets of buffers whose signal is set |
| `PortRingFamily` | the induction behind `PortRing`, for the rings of all ports of a voice | section 5 |
| `PortRingProofs` | theorems about `PortRing` | section 5; the family of one ring |
| `PortSave` | `getWriteBuffer` when a stopped system is saved | an invariant over `PortRing` |
| `WorkerService` | the run phase of a voice | one action per window between two conditions the loop tests or two waits; `ring[o]` is a record of `PortRing`'s variables and `Ring(o)` the instance it implements. `turn` and `due` are the loop's places in the list of processes and among the ports of one, `FirstOf(DueInputs(w))` the next due port of a walk over them; an execution resumed past the stop ends where it begins (`ExecutionEnd`) |
| `WorkerServiceProofs` | theorems about `WorkerService` | section 5 |
| `WorkerHandshake` | main thread and workers from creation to deletion | main: `Create` .. `Join`; worker: `threadProc`, one action per event or signal |
| `WorkerHandshakeProofs` | theorems about `WorkerHandshake` | section 5 |
| `RunPhaseTimer` | the counter of `report()` as load, store and test | |
| `RemoteStream` | one output with readers in other voices, from `OutputPort::writeLock` here to the reader's `readRelease` there | writer: `Fire`, `HoldUp`, `GoAhead`, `Queue` are `outputWriteReleased` and `push`; sender and receiver threads: one action per message; `MessageAway` is the callback; deliverer: `DelivererPull`, `Deliver`, `GiveUp` |
| `RemoteStreamProofs` | theorems about `RemoteStream` | section 5 |
| `ConnectPhase` | `Engine::open` of all voices from `EVENT_INIT_CONNECT` to the barrier | `LocalPass` is `localPass` and `findOutput`, `Serve` is `connectPhaseServe`, `EndTurn` the counting of passes, `BaseRate` the collection of sample rates, `Barrier` the first `synchronize` |
| `ConnectPhaseProofs` | theorems about `ConnectPhase` | section 5 |
| `Session` | an execution over several voices from that barrier to `Engine::down` | `Synchronize` is `Comms::synchronize` down to `ProtocolChannel::pull`; `Signal`, `Down`, `Part` are `signalPeers`, `down` and the closing of channels; `Receive` is the receiver thread |
| `SyncBarrier` | abstract: what `synchronize` promises | a reusable barrier whose users may stop |
| `SessionProofs` | theorems about `Session` | section 5 |
| `Schedule` | `System::load` after the links are read, and the thread assignment of `Engine::open` | `order`, `disordered`, `assigned` and `thread` are the code's `processes`, `disordered`, `assignedProcessCount` and `threadIndex` |
| `ScheduleProofs` | theorems about `Schedule` | section 5 |
| `MCPortRing`, `MCWorkerService`, `MCRemoteStream`, `MCConnectPhase`, `MCSession`, `MCSchedule` | constants for TLC | `MCSession` also bounds the next-state relation (`MCNext`) |

`WorkerService` composes any number of rings with any number of workers.
`PortRing` has guards for the order of the service loop where an alternator is
*redundant* (reader and writer in one thread, no signals); `WorkerService` has
no such guards, and its property `RingsImplemented` says that every ring it
drives is a behaviour of `PortRing`, so that what is proved of `PortRing` is
about the rings the loop uses. Both facts are proved for any assignment of processes,
periods and lags. `WorkerHandshake` sees the run phase as one
action, `Service`, that ends by itself: what `WorkerService` shows with
`AllReachStop` and `EndReachesAll`.

The modules about several voices rest on one another in the same way.
`Schedule` makes the order of processes that `WorkerService` assumes
(`ServiceAssumption`). `ConnectPhase` ends with the barrier that `Session`
begins with, and shows that stream ids agree, which `RemoteStream` takes for
granted; `Session` in turn says when a stream may be torn down. The port that
stands for an output in another voice is a ring like any other: `RemoteStream`
takes it as the bounded channel that `PortRing` is proved to implement.

Definitions that begin with `Fault:` are seeded errors, each the plausible
slip it names; nothing uses them in the specifications. Each is put in the place of
a definition to see that a property notices.

### Abstractions

* A buffer holds a sample number. `-1` is initial data. Everything a process
  computes is left out: what matters is *which* sample is where.
* A signal is a Boolean that `set` makes true and a successful wait makes
  false; the wait gives up on the condition only while the signal is unset
  (`base/os.cpp` 352-363; on Windows the condition has priority, which
  `WorkerService` does not distinguish after the next test of it).
* `C_STOP_...` responses are one response, all errors thrown in a service are one.
  A process that answers `C_STOP_...` still releases its inputs before its worker leaves
  the loop, since the `break` in `EXIT_MAIN_LOOP` ends only the `switch` around it
  (`thread-service.c` 306-325, 357-363). Whether it has filled its outputs is not told apart:
  they are not released, so nobody reads them.
* A resumed ring holds what it held when saved. By `getWriteBuffer`'s arithmetic this
  is so for rings of up to five buffers, except for the buffer about to be
  overwritten, which no reader meets; larger rings can lose a sample.
* In `WorkerHandshake` one process stands for those of a worker, `INIT` for the
  events of `open` and `TERM` for those of `close`; `TimeoutThreadTerm` is
  long enough; flag and condition of an error are set in one step. A wait for
  idle that times out is a step `Throw`.
* Channels keep the order of messages and lose none while both ends live (TCP).
  A message sent to all peers is sent in one step. Compression, byte counts
  (`PushDataMaxBytes`) and message pools are left out; congestion is counted in
  samples, and one query travels at a time where the bound says so.
* `ConnectPhase`: what a process creates when it is called is a function of the
  inputs it has been shown; a process announces all of its outputs again when it
  creates more, as the code does (`newlyCreated` is never cleared).
* `Session`: keep-alive messages arrive every second as long as a voice lives, so
  neither `SocketsTimeout` nor the five seconds of `Receiver::terminate` pass
  while a peer is alive; a pull that times out before the peer has said `GOODBYE`
  changes nothing and is left out. What reaches a voice after it has closed its
  channels counts only if it is the `GOODBYE`. One worker stands for all of a
  voice. A `synchronize` that finds a broken channel sends no `SYNC` at all; the code
  (`comm.h` 451-459) sends it to the peers that come before that channel.
  Failures while channels are being opened are not modelled.
* `Schedule`: a name matches the idents of a group in a length or not at all;
  `F_NO_CONCURRENCY` is a property of the executable class.

## 3. Runs

| Run | Instance and bound | Shows |
|---|---|---|
| `port_ring` | `PortRingMixed`: 3 buffers; readers of lag 0 and 2 in other threads, of lag 1 before and 0 after the writer in its own; 5 samples | `RingInv` (inductive, includes types), exclusion, freshness, one owner per alternator, refinement of `SampleChannel`, all samples serviced |
| `worker_loop` | `WorkerLoop`: 2 workers, 4 processes, periods 2 and 3, a link of a process to itself, zero-lag links between and within threads, feedback; stop at 7; stop, error, cancel anywhere | samples on time, exact end, `RingsImplemented`, no deadlock, the end reaches everybody |
| `worker_resume` | `WorkerResume`: 3 workers in a cycle, lags 0, 2, 3; from 3 to 10 | samples on time and `RingsImplemented` for an execution resumed at a time that is a sample of one port only |
| `handshake` | `HandshakeErrors`: 2 workers, every event may throw, cancel, workers may be silent | fresh idle answers, exclusive exchange, clean return of `execute`, processes stopped, deletion after the threads unless one was flagged hung, everything ends |
| `handshake_hang` | workers that never throw but may be silent | **violation**: deletion under a running worker |
| `handshake_destroy` | only pause/stop throw | **violation**: no `EVENT_MODULE_DESTROY` |
| `run_phase_timer` | 2 workers | **violation**: lost decrement |
| `port_save` | 3 buffers, 6 samples | **violation**: wrong lag saved |
| `remote_stream` | `RemoteStream`: one peer, 2 buffers, a link of lag 1, congestion above 2 samples, 5 samples, one query at a time; sends may fail, run phases may end | samples undisturbed, in order, estimate of the backlog, refinement of `SampleChannel` in the peer, everything delivered unless something ends early, the end frees the writer |
| `connect_phase` | 3 voices; all systems of three processes with one output each, in two distributions over voices, and three larger systems | right and common verdict, no unexpected message, stream ids agree, nobody runs before all are ready, everybody comes to an end |
| `session` | `Session`: 3 voices in a chain of links, one sample; errors, cancels and crashes anywhere: one in the first voice, or up to two in the middle one, or one in the last, or one each in the last two | `synchronize` implements `SyncBarrier`; nothing under way after the closing barrier; failures reach all and have a cause; everybody leaves |
| `schedule` | 4 processes, 2 voices, all sets of at most 3 zero-lag links, two groups with all assignments of members, thread cap 2 or none | loops and only loops refused, no circular waiting between any threads, thread safety, balance |

Bounds. Five samples take every index of a ring of three more than once round.
A ring's behaviour depends on readers only one by one (the writer meets
them in turn), so one reader of each kind suffices; the proofs remove the
bound. Seven base samples contain the pattern of boundaries of periods 2 and 3
(their product is 6). Two workers suffice for the handshake since they meet
only through the condition and the order in which the main thread waits, and the proofs
remove that bound; three make the cycle of `worker_resume`. `remote_stream` sends enough samples to go twice round
the ring and to exceed the congestion limit; it has one peer, since peers meet only in
the writer, which takes them in turn, and in the buffers they share, and the proofs are about
any number. Three voices are the
fewest in which two peers of a voice can disagree, and a loop through them
needs more global passes than voices. `Session` itself lets any voices fail, within
the budget `MaxTroubles` of each; `MCSession` adds which of them may in one behaviour. (With any two
failures of any voices `session` passes as well, but takes more than five minutes.) The proofs of
section 5 are about `Session` without that bound, for what `session` says of safety. Four processes hold every loop of up to
three and a process outside of it; the proofs remove that bound too.

`CHECK_DEADLOCK FALSE` in every configuration: the systems stop when the
execution is over (and the properties say in which state).

## 4. Fairness

Weak fairness of every worker (`Work(w)`) and of the main thread: each is an OS
thread, and while one of its steps stays enabled it is eventually scheduled.
A signal that is set stays set until its only waiter consumes it, so weak
fairness is enough. `Service` and the events being fair says that a process
returns from its events; a worker that does not is what `MayHang` is about, and
no liveness is claimed of it beyond the main thread's own progress. `Cancel` and
`Throw` of a hang are never forced.

Between voices: weak fairness of every thread (main, worker, sender, receiver,
deliverer), of TCP, which carries on what it is given, and of the detection of a
broken connection (`recv` fails or returns 0). `Session` asks less: of the threads of a
voice that are not its main thread, some one goes on as long as one can; each has
finitely much to do, so all get their turn. A voice whose run phase ends early
signals its peers (`SignalArrives` in `RemoteStream`, modelled in `Session`).
Errors, cancels, crashes, failing sends and early ends are never forced.
`Schedule` is a function: it has safety properties only.

## 5. Proofs

`PortRingProofs` proves, for every number of readers, lag, ring size, set of
redundant readers, start and stop that satisfy `RingAssumption` (at least two
buffers and more buffers than any lag, as `RingBuffer::expand` arranges; a redundant
reader that goes first has a lag, as `System::load` arranges):

* `RingInvariant`: `Spec => []RingInv`;
* `RingTypes`, `RingExclusion`, `RingFreshness`, `RingOneTurn` from it;
* `RingImplementsChannels`: each reader's view refines `SampleChannel`.

The lemmas are those of `PortRingFamily`, which states them for a family of rings, one for
each port of a voice; here the family has one member.

None of the safety properties is inductive. `RingInv` adds what ties them
together: the *lead* of a reader, the number of samples it may still take,
is its distance above the write buffer round the ring (`PositionInv`), and each
signal is set exactly when the age of its buffer and that lead say whose turn it
is (`SignalInv`); for redundant readers the two counters of services differ by
at most the one service in progress (`TurnInv`); and each buffer holds the sample
its age gives (`ContentsInv`). There is one lemma per action and under it one step per
conjunct; `AtAge` and `LeadRange` carry the arithmetic round the ring.

`WorkerServiceProofs` proves, for every number of workers, every assignment of
processes to them, all periods, lags and links, and every start and stop
(`ServiceAssumption`: each process has one worker, each port one writer and each input
one reader, and zero-lag links lead from an earlier process to a later one):

* `ServiceInvariant`: `Spec => []ServiceInv`;
* `ServiceTypes`, `ServiceServedOnTime`, `ServiceExit` from it;
* `ServiceImplementsRings`: `Spec => RingsImplemented`, every step of the loop is a step of
  `PortRing` for each port, or leaves its ring alone.

A step of the loop is one of `PortRing` only if the guards which `PortRing` has in place of
the missing signals hold: when reader and writer share a thread, the reader must come
before or after the writer as the lag says. So `ServiceInv` ties the counters of
every ring to time: a port has been written, and read by each reader, as often as it has
multiples of its period before its process's `now`, and once more if the walk of the
service under way has passed it (`InputInv`, `OutputInv`; what is locked follows
from the walk too). `TimeInv` says where the processes of a worker stand: each behind the
worker's place in the list has a `now` after the thread's time, no other has one before
it, and no port of it was due in between. So two ports of one thread are as far apart
as their places in (time, list) order say, which gives the turns that `PortRing` asks
for; and the sample a ring offers, which is a matter of counts by `RingInv` of the family,
is the one that `ServedOnTime` asks for. `RingInv` of each ring is kept by `PortRingFamily`, since
the step is one of that ring.

`ConnectPhaseProofs` proves, for every number of voices, all systems
(`ConnectAssumption`: processes belong to voices and outputs to processes, and what an output
waits for is among the inputs of its process), in every order of messages:

* `ConnectInvariant`: `Spec => []ConnectInv`;
* `ConnectVerdictRight`, `ConnectNeverConfused`, `ConnectStreamsAgree`,
  `ConnectRunAfterAllOpened` from it: all safety properties of the run `connect_phase`.

Nobody is in charge of the connect phase: each voice counts the reports of
the others and decides alone. The invariant names what no voice knows, as witnesses:
the *front* `F`, the voice whose turn it is, and `rep`, what each voice reported of its last
turn. `Pos(w)` is the turn that voice *w* believes to be in. It may be behind the front,
even by a whole global pass (`Old`), and `Pending` says of whom it
has yet to hear. `Link` gives the content of each channel from that: announcements and the
report that is pending, the question and then its answer if one end asks, announcements only
from the front, and after the last pass what `Post` says. No other message can ever arrive,
hence `ConnectNeverConfused`. The verdict is drawn from the tally (`TallyInv`): if a voice reported to be finished
its processes see all inputs and have all outputs (`Full`), and as long as a global pass has
seen no progress every process passed in it is `Settled`, none of
its missing outputs could be created, and a voice not finished has a process that is
`Lacking` an input. When the front comes to `Voices` without progress, what has been created is closed under
creation, so it holds everything `Creatable`, and some input is not in it: a real deadlock. A voice
still in the old pass is not misled by this, since `Late` says that the reports
still on their way to it make it go on. `LookInv`, `PortInv`, `AnnounceInv` and `StreamInv` tie the
search for one input, the announcements and the numbering of streams to the channels.

`SessionProofs` proves, for every number of voices, links, samples, lag and any
budget of errors, cancels and crashes (any of which may have them; `SessionAssumption`: a voice does not
feed itself):

* `SessionInvariant`: `Spec => []SessionInv`;
* `SessionNothingUnderWay` and `SessionImplementsBarrier` from it;
* `SessionErrorsHaveACause`: errors that spread between voices, and dropped or broken
  channels, have a cause (`ErrorsHaveACause`).

The argument counts `SYNC` messages. What voice *v* has pulled from *w* in the round it is
in, what waits in its queue and what is still in the channel are together no more
than *w* has sent (`LinkInv`): without failures exactly as many, but a voice that
leaves or crashes takes messages with it, so the account is an inequality, which
is the side the properties need. A voice pulls one `SYNC` of each peer before it
leaves a round, so it cannot be ahead of anybody's entry: that is the barrier.
For the closing round each channel is first-in, first-out and a voice that has
entered it sends no sample afterwards (`SyncLast`: every sample in the channel
has a `SYNC` behind it), so that with all its `SYNC`s pulled nothing but
farewells can be under way. The barrier alone is not inductive: it
says nothing of the messages which let the next step pass.

For the causes (`CauseInv`), call a session `Guilty` once a voice has an error of its own, was
killed or overlooked a message; it stays so. Until then it is `Clean`: the account of `SYNC`s is an equation for every
voice whose channels are open, no `ERROR` is on its way, whoever has closed its channels has entered both rounds,
and its `GOODBYE` is the last message of each channel. So a receiver thread ends only
after all `SYNC`s have come, and a pull that then finds the thread ended must have
one in its queue: the only way to report a dropped channel is to overlook it (`sockets.cpp` 491).
A cancel changes none of this.

`ScheduleProofs` proves, for every number of processes and voices, every set of
links, every grouping, every class of executables and every thread cap:

* `ScheduleInvariant`: `Spec => []ScheduleInv`;
* `ScheduleServable`: only a loop of zero-lag links is refused, and the waiting of an
  accepted system has no loop;
* `ScheduleNotConcurrent`: classes that are not thread-safe share a thread;
* `ScheduleBalanced`: the scheduler's own choices never leave a voice further ahead of
  another than the least of them (`Balanced`).

The invariant says of the ordering loop that what is ordered stands behind its
sources and that nothing is lost or listed twice, and of the loop that moves processes that no two of those
already visited are split. A loop of waiting would, between *any*
threads and voices, lead along an edge from each of its members to one later in the one
common order; the member with the least position contradicts it. In a
refused system every process left has a source that is left: these are the loop.

The balance has an invariant of its own (`BalanceInv`): `assignedProcessCount` is the true
size of the set of processes known to belong to a voice (`Counted`), and no voice is ahead of another by
more than any one choice made for it. A step keeps this since it adds to the least loaded voice,
and since what it adds is not more than any earlier choice: groups come in the order of their
sizes, and single processes, which count one, after all groups that have members. A voice not chosen
for may be ahead by any amount: that is what the execution file asked for. The sizes
are compared by the library's theorems on finite sets: a group joins a voice as a set
disjoint from those already counted.

`WorkerHandshakeProofs` proves, for every number of workers, whichever events throw and
whether or not workers may be silent:

* `HandshakeInvariant`: `Spec => []HandshakeInv`;
* `HandshakeTypes`, `HandshakeAnswers`, `HandshakeReturns`, `HandshakeStops`,
  `HandshakeDeletes`, `HandshakeExclusive`: all safety properties of the run `handshake`.

Between the main thread and one worker there are five stages: the worker is not born,
is quiet, has been asked, is at work, or is ready. `HandInv` says that the place of the
main thread tells in which of them each worker is; the signals, the count of
instructions given and answered and the worker's own place follow. `RunInv`
remembers that a worker that has answered the instruction to run has been through the run
phase, `LifeInv` ties the state of its process and its error flag to its place,
and `EndInv` says what joining has found out. `ExecuteReturnsClean` needs them all: the idle
signal counts as the end of the run phase only because it answers that instruction.

`RemoteStreamProofs` proves, for every number of peers, lags, ring of at least two buffers,
congestion limit and stop, whatever fails or ends (`RemoteAssumption`):

* `RemoteInvariant`: `Spec => []RemoteInv`;
* `RemoteUndisturbed`, `RemoteInOrder`, `RemoteEstimate`, `RemoteImplementsStreams` from it.

The argument numbers the samples. The sender's queue (`SendInv`), the connection
and the deliverer's queue (`NetInv`) each hold an interval of the numbers in order, with
queries between them, and the intervals join; three numbers per peer say where. The ring
holds every sample from the oldest unsent one (`RingInv`), and each message that waits
names the buffer, content and header of its number (`Held`): the writer cannot lock the
buffer of any, and the sender's `messageAway` is always called for the one at `readBuffer`. Not so that of
a push on a channel that has failed: it names the newest buffer, and is refused if, and only if, older ones
are left unsent (the last but one part of `InOrder`). The replies under
way account for the difference between what is counted as used here and there (`UsedInv`), which with
the congestion limit bounds what is unread (`BacklogInv`): the capacity of the
channel. "An interval of the numbers" is itself stated without recursion, by a
function from positions to numbers (`Track`), since induction over sequences is not available;
`NumberedAppend`, `NumberedTail` and their kin carry it through the queues. `EstimateCovers` counts:
an interval has as many samples as its ends say (`NumberedCount`), and the replies under way
add up to the difference of the two counts (`SummedTotal`). Both follow from the least
position at which the count would go wrong (`Least`), which stands in for an induction.

Checked by TLC only: all liveness (of every component), since it rests on fairness and
`ENABLED`, which the prover does not reason about.

## 6. Plan

Done: the modules above. Next, in this order: the base sample rate (`BaseRate::findBaseRate`) and the windows of logging as
functions against a reference; the MPI protocol and the opening of channels.

## 7. Not modelled

* Loader, registers and API dispatch, XML, text, output, components, bindings and
  front ends hold no protocol of their own, or are I/O and numerical code.
* Logging, base sample rate: sequential arithmetic on one datum.
* Message pools (`ipm.cpp`): a free list under a mutex.
* The opening of channels and the MPI protocol: their states are those of
  libraries outside the repository.
* Real time: time-outs are steps that may be taken, or, where stated above, long
  enough never to be.
* Resumed executions over several voices: the code does not restore remote ports
  (`process.cpp` 291).
