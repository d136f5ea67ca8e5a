----------------------------- MODULE RemoteStream -----------------------------
(***************************************************************************)
(* The samples of one output on their way to readers in other voices:      *)
(* InputPortRemote (systemml/port.cpp), the push, sender and receiver of a *)
(* sockets channel, the deliverer of the stream (channel/*.cpp) and the    *)
(* port that stands for the output in the other voice.                     *)
(*                                                                         *)
(* The writer's worker queues each sample to every peer as it publishes    *)
(* it, without copying it: the message IS the ring's buffer, which stays   *)
(* locked until the sender thread has handed it to TCP and calls back      *)
(* (messageAway).  A count of the samples that a peer has not yet used     *)
(* holds the writer up; the peer reports what it used when it is asked.    *)
(*                                                                         *)
(* The port in the other voice is a ring like any other (module PortRing), *)
(* and is taken here as the bounded channel that PortRing implements.      *)
(***************************************************************************)
EXTENDS Integers, Sequences, FiniteSets, RingOps

CONSTANTS
    Peers,             \* number of voices that read the output
    RingSize,          \* buffers of the output's ring
    Lag,               \* lag of the link read in each of those voices
    PushDataMaxItems,  \* samples unused by a peer beyond which it is congested
    Samples,           \* bound: samples published, and read, until the stop
    MaxQueries,        \* bound: QUERYBUFFER messages on the way to one peer
    MayEnd, MayFail    \* whether run phases may be ended, and send() may fail

Peer == 1 .. Peers
Buffer == 0 .. RingSize - 1

ASSUME RemoteAssumption ==
    /\ Peers \in Nat \ {0} /\ RingSize \in Nat \ {0, 1}
    /\ Lag \in [Peer -> Nat]
    /\ PushDataMaxItems \in Nat \ {0}
    /\ Samples \in Nat /\ MaxQueries \in Nat \ {0}
    /\ MayEnd \in BOOLEAN /\ MayFail \in BOOLEAN

VARIABLES
    wpc,               \* where the writer's worker is
    wp,                \* the InputPortRemote it is firing
    written,           \* samples published
    writeBuffer,       \* RingBuffer::writeBuffer
    content,           \* the sample in each buffer
    order,             \* IPM_HEADER::order in front of it
    full,              \* alternators of each peer: ready to be read, or being read
    nextBufferToRead, readBuffer, messagesSent,   \* of each InputPortRemote
    sendQ,             \* Sender::q of each channel
    sending,           \* the message its sender thread has pulled
    items,             \* its estimate of the samples the peer has not used
    unanswered,        \* a query was left without a reply
    failed,            \* F_THREAD_ERROR of the sender thread
    net,               \* messages TCP carries to the peer
    back,              \* USEDDATA on the way back
    queue, used,       \* the deliverer's queue, and the items its audit counts
    delivering,        \* the message the deliverer works on
    expected,          \* Deliverer::order
    dpc,               \* where the deliverer is
    port,              \* samples in the remote port, the next to be read first
    taken, con,        \* the sample its reader works on, and those it is done with
    ended, peerEnded   \* COND_END_RUN_PHASE here and in each peer voice

writerVars == <<wpc, wp, written, writeBuffer, content, order, messagesSent,
                nextBufferToRead>>
senderVars == <<sendQ, sending, items, unanswered, failed>>
peerVars == <<queue, used, delivering, expected, dpc, port, taken, con>>
vars == <<writerVars, senderVars, peerVars, full, readBuffer, net, back, ended,
          peerEnded>>

None    == [tag |-> "none"]
Query   == [tag |-> "QUERYBUFFER"]
Data(b) == [tag |-> "PUSHDATA", buffer |-> b]
Initial == -1
NoSample == -2

Set(f, p, v) == [f EXCEPT ![p] = v]
All(v) == [p \in Peer |-> v]

\* Buffers of the port in the other voice.
PortSize(p) == IF Lag[p] < 1 THEN 2 ELSE Lag[p] + 1

\* InputPortRemotes are connected with lag 0; the readers of the port are not.
Init ==
    /\ wpc = "lock" /\ wp = 1 /\ written = 0 /\ writeBuffer = 0
    /\ content = [b \in Buffer |-> Initial] /\ order = [b \in Buffer |-> 0]
    /\ full = All([b \in Buffer |-> ~ StartsWriteReady(0, 0, b, RingSize)])
    /\ nextBufferToRead = All(0) /\ readBuffer = All(0) /\ messagesSent = All(0)
    /\ sendQ = All(<<>>) /\ sending = All(None) /\ items = All(0)
    /\ unanswered = All(FALSE) /\ failed = All(FALSE)
    /\ net = All(<<>>) /\ back = All(<<>>)
    /\ queue = All(<<>>) /\ used = All(0) /\ delivering = All(None)
    /\ expected = All(0) /\ dpc = All("pull")
    /\ port = [p \in Peer |-> [i \in 1 .. Lag[p] |-> Initial]]
    /\ taken = All(NoSample) /\ con = All(0)
    /\ ended = FALSE /\ peerEnded = All(FALSE)

-----------------------------------------------------------------------------
\* The writer's worker.

\* Fault: the writer does not wait for the messages that hold the buffer.
LockAtOnce ==
    /\ wpc = "lock" /\ written < Samples /\ ~ ended
    /\ wpc' = "fill"
    /\ UNCHANGED <<wp, written, writeBuffer, content, order, messagesSent,
                   nextBufferToRead, senderVars, peerVars, full, readBuffer, net,
                   back, ended, peerEnded>>

\* OutputPort::writeLock: every peer's message of this buffer is away.
WriteLock ==
    /\ wpc = "lock" /\ written < Samples /\ ~ ended
    /\ \A p \in Peer : ~ full[p][writeBuffer]
    /\ wpc' = "fill"
    /\ UNCHANGED <<wp, written, writeBuffer, content, order, messagesSent,
                   nextBufferToRead, senderVars, peerVars, full, readBuffer, net,
                   back, ended, peerEnded>>

\* The process writes the sample, and OutputPort::writeRelease publishes it.
Publish ==
    /\ wpc = "fill"
    /\ content' = Set(content, writeBuffer, written)
    /\ full' = [p \in Peer |-> Set(full[p], writeBuffer, TRUE)]
    /\ writeBuffer' = Down(writeBuffer, RingSize)
    /\ written' = written + 1
    /\ wpc' = "fire" /\ wp' = 1
    /\ UNCHANGED <<order, messagesSent, nextBufferToRead, senderVars, peerVars,
                   readBuffer, net, back, ended, peerEnded>>

\* On to the next InputPortRemote, or to the next sample.
FireNext == IF wp < Peers THEN wp' = wp + 1 /\ wpc' = "fire"
                          ELSE wp' = 1 /\ wpc' = "lock"

\* Fault: the header is left as the last message of this buffer had it.
FireWithOldHeader ==
    /\ wpc = "fire"
    /\ full[wp][nextBufferToRead[wp]]
    /\ wpc' = "push"
    /\ UNCHANGED <<wp, written, writeBuffer, content, order, messagesSent,
                   nextBufferToRead, senderVars, peerVars, full, readBuffer, net,
                   back, ended, peerEnded>>

\* InputPortRemote::outputWriteReleased locks the buffer it has reached and puts
\* the header in front of the sample; a cancelled lock leaves the sample unsent.
Fire ==
    /\ wpc = "fire"
    /\ \/ /\ full[wp][nextBufferToRead[wp]]
          /\ order' = Set(order, nextBufferToRead[wp], messagesSent[wp])
          /\ wpc' = "push"
          /\ UNCHANGED wp
       \/ ~ full[wp][nextBufferToRead[wp]] /\ ended /\ FireNext /\ UNCHANGED order
    /\ UNCHANGED <<written, writeBuffer, content, messagesSent, nextBufferToRead,
                   senderVars, peerVars, full, readBuffer, net, back, ended,
                   peerEnded>>

Queries(p) == Cardinality({i \in DOMAIN sendQ[p] : sendQ[p][i] = Query})
            + Cardinality({i \in DOMAIN net[p] : net[p][i] = Query})
            + IF sending[p] = Query THEN 1 ELSE 0

Congested(p) == items[p] > PushDataMaxItems

\* Fault: a held-up writer does not ask what the peer has used.
HoldUpSilently ==
    /\ wpc = "push" /\ ~ failed[wp] /\ Congested(wp) /\ ~ ended
    /\ UNCHANGED vars

\* ProtocolChannel::push of a congested stream: the writer asks what was used,
\* sleeps, and comes back.
HoldUp ==
    /\ wpc = "push" /\ ~ failed[wp] /\ Congested(wp) /\ ~ ended
    /\ Queries(wp) < MaxQueries
    /\ sendQ' = Set(sendQ, wp, Append(sendQ[wp], Query))
    /\ UNCHANGED <<writerVars, sending, items, unanswered, failed, peerVars, full,
                   readBuffer, net, back, ended, peerEnded>>

\* Fault: congestion holds the writer up even when the run phase has ended.
GoAheadUncongested ==
    /\ wpc = "push" /\ ~ failed[wp] /\ ~ Congested(wp)
    /\ wpc' = "queue"
    /\ UNCHANGED <<wp, written, writeBuffer, content, order, messagesSent,
                   nextBufferToRead, senderVars, peerVars, full, readBuffer, net,
                   back, ended, peerEnded>>

\* ... of any other, or once the run phase has ended: go ahead ...
GoAhead ==
    /\ wpc = "push" /\ ~ failed[wp] /\ (~ Congested(wp) \/ ended)
    /\ wpc' = "queue"
    /\ UNCHANGED <<wp, written, writeBuffer, content, order, messagesSent,
                   nextBufferToRead, senderVars, peerVars, full, readBuffer, net,
                   back, ended, peerEnded>>

\* ... and leave the message to the sender thread.
Queue ==
    /\ wpc = "queue"
    /\ sendQ' = Set(sendQ, wp, Append(sendQ[wp], Data(nextBufferToRead[wp])))
    /\ nextBufferToRead' = Set(nextBufferToRead, wp, Down(nextBufferToRead[wp], RingSize))
    /\ messagesSent' = Set(messagesSent, wp, messagesSent[wp] + 1)
    /\ FireNext
    /\ UNCHANGED <<written, writeBuffer, content, order, sending, items, unanswered,
                   failed, peerVars, full, readBuffer, net, back, ended, peerEnded>>

\* InputPortRemote::readRelease, called with the index of a message: the buffer
\* at readBuffer is released, and any other index is refused (and thrown upon).
MessageAway(p, b) ==
    IF b = readBuffer[p]
    THEN /\ full' = Set(full, p, Set(full[p], b, FALSE))
         /\ readBuffer' = Set(readBuffer, p, Down(b, RingSize))
    ELSE UNCHANGED <<full, readBuffer>>

\* Push on a dropped channel releases the message and throws; the worker ends.
PushDropped ==
    /\ wpc = "push" /\ failed[wp]
    /\ MessageAway(wp, nextBufferToRead[wp])
    /\ wpc' = "done" /\ ended' = TRUE
    /\ UNCHANGED <<wp, written, writeBuffer, content, order, messagesSent,
                   nextBufferToRead, senderVars, peerVars, net, back, peerEnded>>

\* The worker leaves the run phase when it ends, also from a lock it waits for.
Leave ==
    /\ wpc = "lock" /\ (ended \/ written = Samples)
    /\ wpc' = "done"
    /\ UNCHANGED <<wp, written, writeBuffer, content, order, messagesSent,
                   nextBufferToRead, senderVars, peerVars, full, readBuffer, net,
                   back, ended, peerEnded>>

Writer == \/ WriteLock \/ Publish \/ Fire \/ HoldUp \/ GoAhead \/ Queue
          \/ PushDropped \/ Leave

-----------------------------------------------------------------------------
\* The channel to peer p: sender thread here, receiver threads at both ends.

\* queryBufferMsgsUnaccountedFor is zero: no query on its way, no reply on its
\* way back, and none that was left unanswered.
Accounted(p) == Queries(p) = 0 /\ back[p] = <<>> /\ ~ unanswered[p]

\* The sender pulls a message, counts a sample as unused by the peer, and asks the
\* peer what it used if it is half way to congestion and was not asked already.
SenderPull(p) ==
    /\ ~ failed[p] /\ sending[p] = None /\ sendQ[p] # <<>>
    /\ LET m == Head(sendQ[p])
           n == items[p] + 1
       IN /\ sending' = Set(sending, p, m)
          /\ IF m.tag = "PUSHDATA"
             THEN /\ items' = Set(items, p, n)
                  /\ sendQ' = Set(sendQ, p,
                        IF 2 * n >= PushDataMaxItems /\ Accounted(p)
                        THEN Append(Tail(sendQ[p]), Query) ELSE Tail(sendQ[p]))
             ELSE sendQ' = Set(sendQ, p, Tail(sendQ[p])) /\ UNCHANGED items
    /\ UNCHANGED <<writerVars, unanswered, failed, peerVars, full, readBuffer, net,
                   back, ended, peerEnded>>

Release(p, m) == IF m.tag = "PUSHDATA" THEN MessageAway(p, m.buffer)
                                       ELSE UNCHANGED <<full, readBuffer>>

\* send(): what the buffer now holds goes out, and the message is released.
SenderSend(p) ==
    /\ sending[p] # None
    /\ LET m == sending[p]
       IN /\ net' = Set(net, p, Append(net[p],
                IF m = Query THEN m
                ELSE [tag |-> "PUSHDATA", order |-> order[m.buffer],
                      sample |-> content[m.buffer]]))
          /\ Release(p, m)
    /\ sending' = Set(sending, p, None)
    /\ UNCHANGED <<writerVars, sendQ, items, unanswered, failed, peerVars, back,
                   ended, peerEnded>>

\* send() fails: the thread stores the error and ends; what is queued stays there.
SenderFails(p) ==
    /\ MayFail /\ sending[p] # None
    /\ failed' = Set(failed, p, TRUE) /\ ended' = TRUE
    /\ Release(p, sending[p])
    /\ sending' = Set(sending, p, None)
    /\ UNCHANGED <<writerVars, sendQ, items, unanswered, peerVars, net, back,
                   peerEnded>>

\* The peer's receiver thread routes a sample to the deliverer of the stream.
ReceivePushData(p) ==
    /\ net[p] # <<>> /\ Head(net[p]).tag = "PUSHDATA"
    /\ net' = Set(net, p, Tail(net[p]))
    /\ queue' = IF dpc[p] = "done" THEN queue
                ELSE Set(queue, p, Append(queue[p], Head(net[p])))
    /\ UNCHANGED <<writerVars, senderVars, used, delivering, expected, dpc, port,
                   taken, con, full, readBuffer, back, ended, peerEnded>>

\* Fault: the audit is not cleared when it is reported.
ReceiveQueryAgain(p) ==
    /\ net[p] # <<>> /\ Head(net[p]).tag = "QUERYBUFFER"
    /\ net' = Set(net, p, Tail(net[p]))
    /\ IF used[p] > 0 THEN back' = Set(back, p, Append(back[p], used[p])) /\ UNCHANGED unanswered
                      ELSE unanswered' = Set(unanswered, p, TRUE) /\ UNCHANGED back
    /\ UNCHANGED <<writerVars, sendQ, sending, items, failed, peerVars, full,
                   readBuffer, ended, peerEnded>>

\* It answers a query with what was used since the last answer, if anything.
ReceiveQuery(p) ==
    /\ net[p] # <<>> /\ Head(net[p]).tag = "QUERYBUFFER"
    /\ net' = Set(net, p, Tail(net[p]))
    /\ IF used[p] > 0 THEN back' = Set(back, p, Append(back[p], used[p])) /\ UNCHANGED unanswered
                      ELSE unanswered' = Set(unanswered, p, TRUE) /\ UNCHANGED back
    /\ used' = Set(used, p, 0)
    /\ UNCHANGED <<writerVars, sendQ, sending, items, failed, queue, delivering,
                   expected, dpc, port, taken, con, full, readBuffer, ended, peerEnded>>

\* The receiver thread here takes the reply off the estimate.
ReceiveUsedData(p) ==
    /\ back[p] # <<>>
    /\ items' = Set(items, p, items[p] - Head(back[p]))
    /\ back' = Set(back, p, Tail(back[p]))
    /\ UNCHANGED <<writerVars, sendQ, sending, unanswered, failed, peerVars, full,
                   readBuffer, net, ended, peerEnded>>

-----------------------------------------------------------------------------
\* The peer voice: the deliverer of the stream and the reader of its port.

\* Deliverer::ThreadProc pulls a sample, which counts as used; one out of order
\* is an error, and ends the thread.
DelivererPull(p) ==
    /\ dpc[p] = "pull" /\ queue[p] # <<>>
    /\ delivering' = Set(delivering, p, Head(queue[p]))
    /\ used' = Set(used, p, used[p] + 1)
    /\ IF Head(queue[p]).order = expected[p]
       THEN /\ dpc' = Set(dpc, p, "deliver")
            /\ expected' = Set(expected, p, expected[p] + 1)
            /\ queue' = Set(queue, p, Tail(queue[p]))
            /\ UNCHANGED peerEnded
       ELSE /\ dpc' = Set(dpc, p, "done")
            /\ queue' = Set(queue, p, <<>>)
            /\ peerEnded' = Set(peerEnded, p, TRUE)
            /\ UNCHANGED expected
    /\ UNCHANGED <<writerVars, senderVars, port, taken, con, full, readBuffer, net,
                   back, ended>>

\* pushdataHandler writes it to the port, once there is a buffer for it ...
Deliver(p) ==
    /\ dpc[p] = "deliver" /\ Len(port[p]) < PortSize(p)
    /\ port' = Set(port, p, Append(port[p], delivering[p].sample))
    /\ delivering' = Set(delivering, p, None)
    /\ dpc' = Set(dpc, p, "pull")
    /\ UNCHANGED <<writerVars, senderVars, queue, used, expected, taken, con, full,
                   readBuffer, net, back, ended, peerEnded>>

\* ... or gives up when the run phase ends there; the queue is flushed and closed.
GiveUp(p) ==
    /\ dpc[p] = "deliver" /\ Len(port[p]) >= PortSize(p) /\ peerEnded[p]
    /\ delivering' = Set(delivering, p, None)
    /\ queue' = Set(queue, p, <<>>)
    /\ dpc' = Set(dpc, p, "done")
    /\ UNCHANGED <<writerVars, senderVars, used, expected, port, taken, con, full,
                   readBuffer, net, back, ended, peerEnded>>

\* (external) The reader's worker in the other voice: readLock and readRelease.
Take(p) ==
    /\ taken[p] = NoSample /\ port[p] # <<>>
    /\ con[p] < Samples /\ ~ peerEnded[p]
    /\ taken' = Set(taken, p, Head(port[p]))
    /\ UNCHANGED <<writerVars, senderVars, queue, used, delivering, expected, dpc,
                   port, con, full, readBuffer, net, back, ended, peerEnded>>

GiveBack(p) ==
    /\ taken[p] # NoSample
    /\ taken' = Set(taken, p, NoSample)
    /\ port' = Set(port, p, Tail(port[p]))
    /\ con' = Set(con, p, con[p] + 1)
    /\ UNCHANGED <<writerVars, senderVars, queue, used, delivering, expected, dpc,
                   full, readBuffer, net, back, ended, peerEnded>>

\* The run phase ends in a peer voice, or here by the signal of such a peer.
PeerEnds(p) ==
    /\ MayEnd /\ ~ peerEnded[p]
    /\ peerEnded' = Set(peerEnded, p, TRUE)
    /\ UNCHANGED <<writerVars, senderVars, peerVars, full, readBuffer, net, back, ended>>

SignalArrives ==
    /\ ~ ended /\ \E p \in Peer : peerEnded[p]
    /\ ended' = TRUE
    /\ UNCHANGED <<writerVars, senderVars, peerVars, full, readBuffer, net, back, peerEnded>>

Sender(p)    == SenderPull(p) \/ SenderSend(p)
Receiver(p)  == ReceivePushData(p) \/ ReceiveQuery(p)
Deliverer(p) == DelivererPull(p) \/ Deliver(p) \/ GiveUp(p)
Reader(p)    == Take(p) \/ GiveBack(p)

Next ==
    \/ Writer \/ SignalArrives
    \/ \E p \in Peer : \/ Sender(p) \/ SenderFails(p) \/ Receiver(p)
                       \/ ReceiveUsedData(p) \/ Deliverer(p) \/ Reader(p) \/ PeerEnds(p)

Spec == Init /\ [][Next]_vars

\* Every thread is scheduled, TCP carries on what it is given, and a voice that
\* ends its run phase early signals its peers; nothing need end or fail.
FairSpec ==
    /\ Spec /\ WF_vars(Writer) /\ WF_vars(SignalArrives)
    /\ \A p \in Peer : /\ WF_vars(Sender(p)) /\ WF_vars(Receiver(p))
                       /\ WF_vars(ReceiveUsedData(p)) /\ WF_vars(Deliverer(p))
                       /\ WF_vars(Reader(p))

-----------------------------------------------------------------------------
\* The messages of peer p that still name a buffer of the ring, oldest first.
Unsent(p) == (IF sending[p] = None THEN <<>> ELSE <<sending[p]>>) \o sendQ[p]

\* A buffer is not written while a message that consists of it waits to be sent:
\* nothing is copied, so the peer would get another sample or half of one.
StreamUndisturbed ==
    wpc = "fill" =>
        \A p \in Peer : \A i \in DOMAIN Unsent(p) : Unsent(p)[i] # Data(writeBuffer)

\* The buffers of a channel's messages are released in the order of the ring: the oldest
\* unsent one is at readBuffer and the others follow it.  So the sender's messageAway is
\* never refused ("disagreement whilst doing comms").  A push that finds the channel
\* failed releases its own message, and is refused if, and only if, older ones have been
\* left unsent.  Each sample reaches its deliverer with the order it expects, never
\* E_OUT_OF_ORDER_DELIVERY.
InOrder ==
    \A p \in Peer :
        LET data == {i \in DOMAIN Unsent(p) : Unsent(p)[i].tag = "PUSHDATA"}
        IN /\ \A i \in data : (\A j \in data : i <= j) => Unsent(p)[i].buffer = readBuffer[p]
           /\ \A i, j \in data :
                i < j /\ (\A k \in data : k <= i \/ j <= k) =>
                    Unsent(p)[j].buffer = Down(Unsent(p)[i].buffer, RingSize)
           /\ wpc = "push" /\ p = wp => (nextBufferToRead[p] = readBuffer[p] <=> data = {})
           /\ queue[p] # <<>> => Head(queue[p]).order = expected[p]

\* What some replies report as used, all together.
Total(replies) ==
    LET sum[i \in 0 .. Len(replies)] == IF i = 0 THEN 0 ELSE sum[i - 1] + replies[i]
    IN  sum[Len(replies)]

\* What the writer believes of the peer's backlog is never less than the samples
\* under way to it and queued for its deliverer, so USEDDATA never takes it below
\* zero; until the peer discards its queue it is exactly the samples not reported
\* as used.
EstimateCovers ==
    \A p \in Peer :
        LET counted == (IF sending[p] \notin {None, Query} THEN 1 ELSE 0)
                     + Cardinality({i \in DOMAIN net[p] : net[p][i].tag = "PUSHDATA"})
                     + Len(queue[p]) + used[p] + Total(back[p])
        IN /\ items[p] >= counted
           /\ dpc[p] # "done" /\ ~ failed[p] => items[p] = counted

\* The reader's view of the link in peer voice p.  At most PushDataMaxItems + 1
\* samples are unused by the peer, one ring of them waits here, one is being
\* delivered and one ring is in the port.
Stream(p) == INSTANCE SampleChannel WITH
    Lag <- Lag[p], Start <- 0, pub <- written, con <- con[p], taken <- taken[p],
    Capacity <- PushDataMaxItems + RingSize + PortSize(p) + 2

\* Every reader in another voice sees a FIFO channel of bounded capacity that
\* starts with Lag initial samples: none lost, repeated or out of step.
ImplementsStreams ==
    /\ \A p \in Peer : Stream(p)!Init
    /\ [][\A p \in Peer : [Stream(p)!Next]_(Stream(p)!channelVars)]_vars

\* Unless a run phase ends early, every reader gets all it reads until the stop,
\* however often the writer is held up, and no deliverer is left waiting for a buffer
\* that nobody will read (Deliverer::terminate would wait for it).
AllDelivered ==
    \/ <>(ended \/ \E p \in Peer : peerEnded[p])
    \/ \A p \in Peer : <>[](con[p] = Samples /\ Len(port[p]) = Lag[p] /\ dpc[p] = "pull")

\* The end of the run phase gets the writer out, also out of a held-up push.
EndFreesWriter == ended ~> wpc = "done"
=============================================================================
