----------------------------- MODULE ConnectPhase -----------------------------
(***************************************************************************)
(* Engine::open of all voices from EVENT_INIT_CONNECT to the barrier that  *)
(* ends it (main/engine-open.cpp, systemml/system.cpp, main/comm.h).       *)
(*                                                                         *)
(* Processes create outputs in answer to the inputs they are shown, so a   *)
(* system is connected in passes: voices take turns, in each global pass   *)
(* every voice once, and while one makes its local pass the others serve   *)
(* it.  Nobody coordinates them: each voice keeps its own count of passes  *)
(* and its own tally of what was reported, and all must come to the same   *)
(* verdict after the same pass.  Then the master collects the sample rates *)
(* and broadcasts the base rate, and SYNC messages let all of them start.  *)
(*                                                                         *)
(* What a process does when it is called is a function of the inputs it    *)
(* has been shown: it creates output o once it has seen After[o].          *)
(***************************************************************************)
EXTENDS Integers, Sequences, FiniteSets

CONSTANTS
    Voices,      \* number of voices; VOICE_MASTER is 0
    Systems      \* the systems to connect, each a record with the fields
                 \*   home   the voice of each process, a sequence
                 \*   needs  the outputs each process has links from
                 \*   owner  the process that may create each output
                 \*   after  the inputs it must have seen for it
                 \*   all    the processes with F_NEEDS_ALL_INPUTS

Voice == 0 .. Voices - 1
Master == 0

Process(s) == DOMAIN s.home
Output(s)  == DOMAIN s.owner

ASSUME ConnectAssumption ==
    /\ Voices \in Nat \ {0}
    /\ \A s \in Systems :
         /\ s.home \in Seq(Voice) /\ s.owner \in Seq(Process(s))
         /\ s.needs \in [Process(s) -> SUBSET Output(s)]
         /\ s.after \in [Output(s) -> SUBSET Output(s)]
         /\ \A o \in Output(s) : s.after[o] \subseteq s.needs[s.owner[o]]
         /\ s.all \subseteq Process(s)

VARIABLES
    sys,             \* the system of this execution; never changes
    pc,              \* where each voice is in Engine::open
    pass,            \* the voice whose local pass each of them believes it is
    finished, progress,          \* prGlobal
    myFinished, myProgress,      \* prLocal
    at,              \* the process each voice is passing
    todo,            \* inputs of it still to be looked for
    missing,         \* inputs of it that were not found in this pass
    ask,             \* the next peer to be asked for the input
    seen,            \* inputs of each process that are connected
    called,          \* processes that have had their first call
    created,         \* outputs that exist
    announced,       \* peerVoices[w].outputs in each voice
    inputRemotes,    \* System::inputPortRemotes of each voice
    routes,          \* remote outputs of each voice, with their routing entries
    chan,            \* messages on their way from one voice to another
    rates            \* voices whose sample rates the base rate is made of

passVars == <<pass, finished, progress, myFinished, myProgress, at>>
lookVars == <<todo, missing, ask>>
portVars == <<seen, called, created, announced, inputRemotes, routes>>
vars == <<sys, pc, passVars, lookVars, portVars, chan, rates>>

Set(f, v, x) == [f EXCEPT ![v] = x]

Init ==
    /\ sys \in Systems
    /\ pc = [v \in Voice |-> "pass"]
    /\ pass = [v \in Voice |-> 0] /\ at = [v \in Voice |-> 1]
    /\ finished = [v \in Voice |-> TRUE] /\ progress = [v \in Voice |-> FALSE]
    /\ myFinished = [v \in Voice |-> TRUE] /\ myProgress = [v \in Voice |-> FALSE]
    /\ todo = [v \in Voice |-> {}] /\ missing = [v \in Voice |-> {}]
    /\ ask = [v \in Voice |-> 0]
    /\ seen = [p \in Process(sys) |-> {}]
    /\ called = {} /\ created = {}
    /\ announced = [v \in Voice |-> [w \in Voice |-> {}]]
    /\ inputRemotes = [v \in Voice |-> <<>>]
    /\ routes = [v \in Voice |-> {}]
    /\ chan = [v \in Voice |-> [w \in Voice |-> <<>>]]
    /\ rates = [v \in Voice |-> {}]

\* Comms::push: a message from voice v to voice w.
Send(v, w, m) == chan' = [chan EXCEPT ![v][w] = Append(@, m)]

\* The same messages from voice v to every other voice.
Broadcast(v, ms) ==
    chan' = [chan EXCEPT ![v] = [w \in Voice |-> IF w = v THEN <<>> ELSE @[w] \o ms]]

\* Comms::pull: the next message to voice v from voice w.
Arrived(v, w) == chan[w][v] # <<>>
Message(v, w) == Head(chan[w][v])
Pulled(v, w)  == chan' = [chan EXCEPT ![w][v] = Tail(@)]

-----------------------------------------------------------------------------
\* System::localPass, the turn of voice v.

Local(v) == {p \in Process(sys) : sys.home[p] = v}

Unseen(p) == sys.needs[p] \ seen[p]

Passing(v) == pc[v] = "pass" /\ pass[v] = v

\* Processes are taken in order; one that belongs to another voice, or has seen all
\* its inputs and had its first call, is passed over.
PassOver(v) ==
    /\ Passing(v) /\ at[v] \in Process(sys)
    /\ at[v] \notin Local(v) \/ (Unseen(at[v]) = {} /\ at[v] \in called)
    /\ at' = Set(at, v, at[v] + 1)
    /\ UNCHANGED <<sys, pc, pass, finished, progress, myFinished, myProgress,
                   lookVars, portVars, chan, rates>>

\* Of any other, the unseen inputs are looked for.
BeginProcess(v) ==
    /\ Passing(v) /\ at[v] \in Local(v)
    /\ Unseen(at[v]) # {} \/ at[v] \notin called
    /\ pc' = Set(pc, v, "look")
    /\ todo' = Set(todo, v, Unseen(at[v]))
    /\ missing' = Set(missing, v, {})
    /\ ask' = Set(ask, v, 0)
    /\ UNCHANGED <<sys, passVars, portVars, chan, rates>>

\* OutputPort::connectInput of input o of the process.
Connect(v, o) ==
    /\ seen' = Set(seen, at[v], seen[at[v]] \cup {o})
    /\ todo' = Set(todo, v, todo[v] \ {o})
    /\ ask' = Set(ask, v, 0)

Lowest(S) == CHOOSE x \in S : \A y \in S : x <= y

\* findOutput: among the outputs of this voice and those already fetched.
FindHere(v) ==
    /\ pc[v] = "look" /\ todo[v] # {}
    /\ LET o == Lowest(todo[v])
       IN /\ \/ o \in created /\ sys.home[sys.owner[o]] = v
             \/ \E r \in routes[v] : r.name = o
          /\ Connect(v, o)
    /\ UNCHANGED <<sys, pc, passVars, missing, called, created, announced,
                   inputRemotes, routes, chan, rates>>

\* Fault: peers are asked whether or not they announced the output.
AskableUnannounced(v, o) == {w \in Voice \ {v} : w >= ask[v]}

\* Peers that are still to be asked for output o and are known to have it.
Askable(v, o) == {w \in Voice \ {v} : w >= ask[v] /\ o \in announced[v][w]}

NotHere(v, o) == /\ ~ (o \in created /\ sys.home[sys.owner[o]] = v)
                 /\ \A r \in routes[v] : r.name # o

\* Otherwise a peer that announced it is asked, and its reply awaited ...
Ask(v) ==
    /\ pc[v] = "look" /\ todo[v] # {}
    /\ LET o == Lowest(todo[v])
       IN /\ NotHere(v, o) /\ Askable(v, o) # {}
          /\ ask' = Set(ask, v, Lowest(Askable(v, o)))
          /\ Send(v, Lowest(Askable(v, o)), [tag |-> "FINDOUTPUT", name |-> o])
    /\ pc' = Set(pc, v, "reply")
    /\ UNCHANGED <<sys, passVars, todo, missing, portVars, rates>>

\* ... or the input stays unseen in this pass.
NotFound(v) ==
    /\ pc[v] = "look" /\ todo[v] # {}
    /\ LET o == Lowest(todo[v])
       IN /\ NotHere(v, o) /\ Askable(v, o) = {}
          /\ todo' = Set(todo, v, todo[v] \ {o})
          /\ missing' = Set(missing, v, missing[v] \cup {o})
    /\ ask' = Set(ask, v, 0)
    /\ UNCHANGED <<sys, pc, passVars, portVars, chan, rates>>

\* OUTPUTFOUND: a port stands for the output here, and the channel gets a routing
\* entry for its stream.  Any tag but the two replies is an error.
Reply(v) ==
    /\ pc[v] = "reply" /\ Arrived(v, ask[v])
    /\ Pulled(v, ask[v])
    /\ LET m == Message(v, ask[v])
           o == Lowest(todo[v])
       IN \/ /\ m.tag = "OUTPUTFOUND"
             /\ routes' = Set(routes, v,
                   routes[v] \cup {[name |-> o, from |-> ask[v], stream |-> m.stream]})
             /\ Connect(v, o) /\ pc' = Set(pc, v, "look")
          \/ /\ m.tag # "OUTPUTFOUND"
             /\ pc' = Set(pc, v, IF m.tag = "OUTPUTNOTFOUND" THEN "look" ELSE "error")
             /\ ask' = Set(ask, v, ask[v] + 1)
             /\ UNCHANGED <<routes, seen, todo>>
    /\ UNCHANGED <<sys, passVars, missing, called, created, announced, inputRemotes,
                   rates>>

\* The process waits for its other inputs: F_NEEDS_ALL_INPUTS.
WaitForAll(v) ==
    /\ pc[v] = "look" /\ todo[v] = {}
    /\ at[v] \in sys.all /\ missing[v] # {}
    /\ myFinished' = Set(myFinished, v, FALSE)
    /\ at' = Set(at, v, at[v] + 1)
    /\ pc' = Set(pc, v, "pass")
    /\ UNCHANGED <<sys, pass, finished, progress, myProgress, lookVars, portVars,
                   chan, rates>>

\* What process p creates when it is called with what it has seen.
Creates(p) == {o \in Output(sys) \ created : sys.owner[o] = p /\ sys.after[o] \subseteq seen[p]}

\* If any, all outputs of the process are announced: newlyCreated, by which "old ones"
\* are to be ignored, is set when a port is constructed and never cleared.
Announces(p) ==
    IF Creates(p) = {} THEN {} ELSE {o \in created \cup Creates(p) : sys.owner[o] = p}

Tagged(tag, S) == {[tag |-> tag, name |-> o] : o \in S}

\* One sequence of the elements of S.
InSomeOrder(S) ==
    CHOOSE s \in [1 .. Cardinality(S) -> S] : \A i, j \in DOMAIN s : s[i] = s[j] => i = j

\* Fault: the progress of the last process called replaces that of the others.
FireConnectLastCounts(v) ==
    /\ pc[v] = "look" /\ todo[v] = {}
    /\ ~ (at[v] \in sys.all /\ missing[v] # {})
    /\ LET new == Creates(at[v])
       IN /\ created' = created \cup new
          /\ Broadcast(v, InSomeOrder(Tagged("ANNOUNCEOUTPUT", Announces(at[v]))))
          /\ myProgress' = Set(myProgress, v, new # {})
    /\ myFinished' = Set(myFinished, v, myFinished[v] /\ missing[v] = {})
    /\ called' = called \cup {at[v]}
    /\ at' = Set(at, v, at[v] + 1)
    /\ pc' = Set(pc, v, "pass")
    /\ UNCHANGED <<sys, pass, finished, progress, lookVars, seen, announced,
                   inputRemotes, routes, rates>>

\* EVENT_INIT_CONNECT: outputs the process creates are progress.
FireConnect(v) ==
    /\ pc[v] = "look" /\ todo[v] = {}
    /\ ~ (at[v] \in sys.all /\ missing[v] # {})
    /\ LET new == Creates(at[v])
       IN /\ created' = created \cup new
          /\ Broadcast(v, InSomeOrder(Tagged("ANNOUNCEOUTPUT", Announces(at[v]))))
          /\ myProgress' = Set(myProgress, v, myProgress[v] \/ new # {})
    /\ myFinished' = Set(myFinished, v, myFinished[v] /\ missing[v] = {})
    /\ called' = called \cup {at[v]}
    /\ at' = Set(at, v, at[v] + 1)
    /\ pc' = Set(pc, v, "pass")
    /\ UNCHANGED <<sys, pass, finished, progress, lookVars, seen, announced,
                   inputRemotes, routes, rates>>

\* Fault: the tally of the last global pass is kept.
EndTurnKeepsTally(v, f, p) ==
    IF pass[v] < Voices - 1
    THEN /\ pass' = Set(pass, v, pass[v] + 1)
         /\ finished' = Set(finished, v, f) /\ progress' = Set(progress, v, p)
         /\ pc' = Set(pc, v, "pass")
    ELSE /\ pass' = Set(pass, v, 0)
         /\ pc' = Set(pc, v, IF f THEN "rates" ELSE IF p THEN "pass" ELSE "deadlock")
         /\ finished' = Set(finished, v, TRUE) /\ progress' = Set(progress, v, p)

\* A turn ends with what was reported of it.  After the last one of a global pass
\* the voice has finished, finds a deadlock, or begins another.
EndTurn(v, f, p) ==
    IF pass[v] < Voices - 1
    THEN /\ pass' = Set(pass, v, pass[v] + 1)
         /\ finished' = Set(finished, v, f) /\ progress' = Set(progress, v, p)
         /\ pc' = Set(pc, v, "pass")
    ELSE /\ pass' = Set(pass, v, 0)
         /\ pc' = Set(pc, v, IF f THEN "rates" ELSE IF p THEN "pass" ELSE "deadlock")
         /\ finished' = Set(finished, v, TRUE) /\ progress' = Set(progress, v, FALSE)

\* The local pass is over; ENDPHASE tells the others how it went.
EndPass(v) ==
    /\ Passing(v) /\ at[v] \notin Process(sys)
    /\ Broadcast(v, <<[tag |-> "ENDPHASE", finished |-> myFinished[v],
                       progress |-> myProgress[v]]>>)
    /\ EndTurn(v, finished[v] /\ myFinished[v], progress[v] \/ myProgress[v])
    /\ at' = Set(at, v, 1)
    /\ myFinished' = Set(myFinished, v, TRUE) /\ myProgress' = Set(myProgress, v, FALSE)
    /\ UNCHANGED <<sys, lookVars, portVars, rates>>

-----------------------------------------------------------------------------
\* System::connectPhaseServe: voice v serves the one whose turn it is.

Serves(v, tag) == /\ pc[v] = "pass" /\ pass[v] # v
                  /\ Arrived(v, pass[v]) /\ Message(v, pass[v]).tag = tag

ServeEndPhase(v) ==
    /\ Serves(v, "ENDPHASE") /\ Pulled(v, pass[v])
    /\ LET m == Message(v, pass[v])
       IN EndTurn(v, finished[v] /\ m.finished, progress[v] \/ m.progress)
    /\ UNCHANGED <<sys, myFinished, myProgress, at, lookVars, portVars, rates>>

\* Any other message must be an announcement.
ServeAnnounce(v) ==
    /\ pc[v] = "pass" /\ pass[v] # v
    /\ Arrived(v, pass[v]) /\ Pulled(v, pass[v])
    /\ LET m == Message(v, pass[v])
       IN /\ m.tag \notin {"ENDPHASE", "FINDOUTPUT"}
          /\ IF m.tag = "ANNOUNCEOUTPUT"
             THEN /\ announced' = [announced EXCEPT ![v][pass[v]] = @ \cup {m.name}]
                  /\ UNCHANGED pc
             ELSE /\ pc' = Set(pc, v, "error")
                  /\ UNCHANGED announced
    /\ UNCHANGED <<sys, passVars, lookVars, seen, called, created, inputRemotes, routes, rates>>

\* Fault: a stream is numbered by how many streams its channel has.
StreamOfChannel(v, o) ==
    Cardinality({i \in DOMAIN inputRemotes[v] : inputRemotes[v][i].to = pass[v]})

\* The id of the stream that carries output o: that of a stream which carries it to
\* another voice already, or else the number of streams so far.
MsgStreamID(v, o) ==
    LET same == {i \in DOMAIN inputRemotes[v] : inputRemotes[v][i].name = o}
    IN IF same # {} THEN inputRemotes[v][Lowest(same)].stream ELSE Len(inputRemotes[v])

\* Only an output of this voice is found, and gets an InputPortRemote.
ServeFind(v) ==
    /\ Serves(v, "FINDOUTPUT")
    /\ LET o == Message(v, pass[v]).name
           found == o \in created /\ sys.home[sys.owner[o]] = v
           reply == IF found THEN [tag |-> "OUTPUTFOUND", stream |-> MsgStreamID(v, o)]
                             ELSE [tag |-> "OUTPUTNOTFOUND"]
       IN /\ chan' = [chan EXCEPT ![pass[v]][v] = Tail(@), ![v][pass[v]] = Append(@, reply)]
          /\ inputRemotes' = IF found
                THEN Set(inputRemotes, v, Append(inputRemotes[v],
                        [name |-> o, stream |-> reply.stream, to |-> pass[v]]))
                ELSE inputRemotes
    /\ UNCHANGED <<sys, pc, passVars, lookVars, seen, called, created, announced,
                   routes, rates>>

-----------------------------------------------------------------------------
\* The base rate, and the barrier that ends the initialisation.

\* Pull a message of this tag from voice w, or fail.
Expect(v, w, tag, then) ==
    /\ Arrived(v, w) /\ Pulled(v, w)
    /\ pc' = Set(pc, v, IF Message(v, w).tag = tag THEN then ELSE "error")

PushRates(v) ==
    /\ pc[v] = "rates" /\ v # Master
    /\ Send(v, Master, [tag |-> "PUSHRATES"])
    /\ pc' = Set(pc, v, "baserate")
    /\ UNCHANGED <<sys, passVars, lookVars, portVars, rates>>

\* The master collects them in the order of the voices ...
CollectRates ==
    /\ pc[Master] = "rates"
    /\ LET w == Cardinality(rates[Master]) + 1
       IN /\ w \in Voice
          /\ Expect(Master, w, "PUSHRATES", "rates")
          /\ rates' = Set(rates, Master, rates[Master] \cup {w})
    /\ UNCHANGED <<sys, passVars, lookVars, portVars>>

\* ... and broadcasts the base rate found.
PushBaseRate ==
    /\ pc[Master] = "rates" /\ rates[Master] = Voice \ {Master}
    /\ rates' = Set(rates, Master, Voice)
    /\ Broadcast(Master, <<[tag |-> "PUSHBASERATE", of |-> Voice]>>)
    /\ pc' = Set(pc, Master, "sync")
    /\ UNCHANGED <<sys, passVars, lookVars, portVars>>

TakeBaseRate(v) ==
    /\ pc[v] = "baserate" /\ Expect(v, Master, "PUSHBASERATE", "sync")
    /\ rates' = IF Message(v, Master).tag = "PUSHBASERATE"
                THEN Set(rates, v, Message(v, Master).of) ELSE rates
    /\ UNCHANGED <<sys, passVars, lookVars, portVars>>

\* Fault: a voice that has sent its SYNC does not wait for the others.
SyncAtOnce(v) ==
    /\ pc[v] = "sync"
    /\ Broadcast(v, <<[tag |-> "SYNC"]>>)
    /\ ask' = Set(ask, v, Voices)
    /\ pc' = Set(pc, v, "synchronizing")
    /\ UNCHANGED <<sys, passVars, todo, missing, portVars, rates>>

\* Comms::synchronize: send SYNC to every peer, then pull one from each in turn.
Sync(v) ==
    /\ pc[v] = "sync"
    /\ Broadcast(v, <<[tag |-> "SYNC"]>>)
    /\ ask' = Set(ask, v, 0)
    /\ pc' = Set(pc, v, "synchronizing")
    /\ UNCHANGED <<sys, passVars, todo, missing, portVars, rates>>

Synchronize(v) ==
    /\ pc[v] = "synchronizing" /\ ask[v] \in Voice
    /\ IF ask[v] = v THEN UNCHANGED <<pc, chan>>
                     ELSE Expect(v, ask[v], "SYNC", "synchronizing")
    /\ ask' = Set(ask, v, ask[v] + 1)
    /\ UNCHANGED <<sys, passVars, todo, missing, portVars, rates>>

Opened(v) ==
    /\ pc[v] = "synchronizing" /\ ask[v] \notin Voice
    /\ pc' = Set(pc, v, "run")
    /\ UNCHANGED <<sys, passVars, lookVars, portVars, chan, rates>>

LocalPass(v) ==
    \/ PassOver(v) \/ BeginProcess(v) \/ FindHere(v) \/ Ask(v) \/ NotFound(v)
    \/ Reply(v) \/ WaitForAll(v) \/ FireConnect(v) \/ EndPass(v)

Serve(v) == ServeEndPhase(v) \/ ServeAnnounce(v) \/ ServeFind(v)

BaseRate(v) == \/ PushRates(v) \/ TakeBaseRate(v)
               \/ v = Master /\ (CollectRates \/ PushBaseRate)

Barrier(v) == Sync(v) \/ Synchronize(v) \/ Opened(v)

Step(v) == LocalPass(v) \/ Serve(v) \/ BaseRate(v) \/ Barrier(v)

Next == \E v \in Voice : Step(v)

Spec == Init /\ [][Next]_vars

\* Every voice's main thread runs, and messages arrive.
FairSpec == Spec /\ \A v \in Voice : WF_vars(Step(v))

-----------------------------------------------------------------------------
\* What can be created at all: the smallest set of outputs that the processes,
\* called as their flags allow, add nothing to.
Stable(S) ==
    \A o \in Output(sys) :
        LET p == sys.owner[o]
        IN (p \in sys.all => sys.needs[p] \subseteq S) /\ sys.after[o] \subseteq S => o \in S

Creatable == {o \in Output(sys) : \A S \in SUBSET Output(sys) : Stable(S) => o \in S}

Connectable == \A p \in Process(sys) : sys.needs[p] \subseteq Creatable

Connected == {"rates", "baserate", "sync", "synchronizing", "run"}

\* The verdict is right, and therefore the same in every voice: E_DEADLOCK is thrown
\* only for a system that no order of calls could connect, and the connect phase is
\* left only when every input is connected and every output that can exist does.
VerdictRight ==
    \A v \in Voice :
        /\ pc[v] = "deadlock" => ~ Connectable
        /\ pc[v] \in Connected => /\ created = Creatable
                                  /\ \A p \in Process(sys) : seen[p] = sys.needs[p]

\* No voice is ever sent a message it does not expect where it is ("unexpected
\* message", "invalid response", "expected ... at this point", "invalid sync
\* response"), nor told that an announced output does not exist (the note in
\* base/ipm.h: "IPMTAG_OUTPUTNOTFOUND should *never* get sent!").
NeverConfused ==
    \A v, w \in Voice :
        /\ pc[v] # "error"
        /\ \A i \in DOMAIN chan[v][w] : chan[v][w][i].tag # "OUTPUTNOTFOUND"

\* Both ends of every stream agree on its id, and over one channel an id means one
\* output, so samples reach the port that stands for the output they are of; where an
\* output goes to several voices its id is the same in all of them
\* (PUSHDATA_IDENTICAL_TO_ALL_SENDERS).
StreamsAgree ==
    \A v \in Voice :
        /\ \A r \in routes[v] :
             \E i \in DOMAIN inputRemotes[r.from] :
                inputRemotes[r.from][i] = [name |-> r.name, stream |-> r.stream, to |-> v]
        /\ \A i, j \in DOMAIN inputRemotes[v] :
             LET a == inputRemotes[v][i]
                 b == inputRemotes[v][j]
             IN (a.name = b.name) = (a.stream = b.stream) /\ (i # j => a # b)

\* The first sample may be sent only when no voice will add a routing entry any more:
\* the receiver thread reads the table that Comms::addRoutingEntry resizes.  The base
\* rate is by then made of the rates of all voices.
RunAfterAllOpened ==
    \A v \in Voice : pc[v] = "run" =>
        \A w \in Voice : pc[w] \in {"synchronizing", "run"} /\ rates[w] = Voice

\* Every voice comes to an end: all run, or all report the deadlock.
AllComeToAVerdict ==
    \/ <>(\A v \in Voice : pc[v] = "run")
    \/ <>(\A v \in Voice : pc[v] = "deadlock")
=============================================================================
