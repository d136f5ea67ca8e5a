-------------------------- MODULE ConnectPhaseProofs --------------------------
(***************************************************************************)
(* Proofs about the connect phase: all voices come to the same, right      *)
(* verdict, no message is out of place, the ends of streams agree, and     *)
(* nobody runs before all have opened, for any number of voices and any    *)
(* systems.                                                                *)
(***************************************************************************)
EXTENDS ConnectPhase, FiniteSetTheorems, SequenceTheorems, WellFoundedInduction, TLAPS

\* The messages of the connect phase of system s.
Report == [tag : {"ENDPHASE"}, finished : BOOLEAN, progress : BOOLEAN]

Msg(s) ==
    Report
    \cup [tag : {"FINDOUTPUT", "ANNOUNCEOUTPUT"}, name : Output(s)]
    \cup [tag : {"OUTPUTFOUND"}, stream : Nat]
    \cup [tag : {"PUSHBASERATE"}, of : {Voice}]
    \cup [tag : {"OUTPUTNOTFOUND", "PUSHRATES", "SYNC"}]

FindMsg(o)  == [tag |-> "FINDOUTPUT", name |-> o]
AnnMsg(o)   == [tag |-> "ANNOUNCEOUTPUT", name |-> o]
FoundMsg(n) == [tag |-> "OUTPUTFOUND", stream |-> n]
RatesMsg    == [tag |-> "PUSHRATES"]
BaseMsg     == [tag |-> "PUSHBASERATE", of |-> Voice]
SyncMsg     == [tag |-> "SYNC"]

Turning    == {"pass", "look", "reply"}
AfterRates == {"baserate", "sync", "synchronizing", "run"}
AfterBase  == {"sync", "synchronizing", "run"}
AfterSync  == {"synchronizing", "run"}

Entry(s) == [name : Output(s), stream : Nat, to : Voice]
Route(s) == [name : Output(s), from : Voice, stream : Nat]

PassTypes ==
    /\ pc \in [Voice -> Turning \cup Connected \cup {"deadlock", "error"}]
    /\ pass \in [Voice -> Voice]
    /\ finished \in [Voice -> BOOLEAN] /\ progress \in [Voice -> BOOLEAN]
    /\ myFinished \in [Voice -> BOOLEAN] /\ myProgress \in [Voice -> BOOLEAN]
    /\ at \in [Voice -> 1 .. Len(sys.home) + 1]

LookTypes ==
    /\ todo \in [Voice -> SUBSET Output(sys)]
    /\ missing \in [Voice -> SUBSET Output(sys)]
    /\ ask \in [Voice -> Nat]

PortTypes ==
    /\ seen \in [Process(sys) -> SUBSET Output(sys)]
    /\ called \subseteq Process(sys) /\ created \subseteq Output(sys)
    /\ announced \in [Voice -> [Voice -> SUBSET Output(sys)]]
    /\ inputRemotes \in [Voice -> Seq(Entry(sys))]
    /\ routes \in [Voice -> SUBSET Route(sys)]

ChanTypes == chan \in [Voice -> [Voice -> Seq(Msg(sys))]]

TypeOK ==
    /\ sys \in Systems
    /\ PassTypes /\ LookTypes /\ PortTypes /\ ChanTypes
    /\ rates \in [Voice -> SUBSET Voice]

-----------------------------------------------------------------------------
\* The inductive invariant.  F is the voice whose turn it is, or Voices once the last
\* pass is over; rep[u] is what voice u reported of its last turn.

\* The turn a voice is in, or believes to be in.
Pos(v) == IF pc[v] \in Turning THEN pass[v] ELSE Voices

\* Voice w has not finished the global pass before this one.
Old(F, w) == w >= F /\ Pos(w) > w

\* The turn of voice u is over, and voice w has not been told so yet.
Pending(F, u, w) == \/ Old(F, w) /\ u >= Pos(w)
                    \/ u < F /\ (Old(F, w) \/ u >= Pos(w))

Leads(F, v) == v = F /\ Pos(v) = F

\* A voice's tally is that of the reports it has had; one that is still in the last
\* global pass will find that it must go on.
Late(w, rep) ==
    /\ ~ (finished[w] /\ \A u \in Pos(w) .. Voices - 1 : rep[u].finished)
    /\ progress[w] \/ \E u \in Pos(w) .. Voices - 1 : rep[u].progress

InTime(F, w, rep) ==
    /\ Pos(w) <= F /\ (w < F => w < Pos(w))
    /\ pc[w] \in Turning =>
           /\ finished[w] <=> \A u \in 0 .. Pos(w) - 1 : rep[u].finished
           /\ progress[w] <=> \E u \in 0 .. Pos(w) - 1 : rep[u].progress

WhereInv(F, rep) ==
    \A w \in Voice : IF Old(F, w) THEN Late(w, rep) ELSE InTime(F, w, rep)

\* All but the voice whose turn it is are between two local passes.
LeadInv(F) ==
    \A w \in Voice : ~ Leads(F, w) =>
        pc[w] \notin {"look", "reply"} /\ at[w] = 1 /\ myFinished[w] /\ ~ myProgress[w]

\* All voices come to the verdict that the reports of the last pass call for.
VerdictInv(F, rep) ==
    /\ F < Voices => \A w \in Voice : pc[w] \in Turning
    /\ F = Voices =>
           /\ \/ \A u \in Voice : rep[u].finished
              \/ \A u \in Voice : ~ rep[u].progress
           /\ \A w \in Voice : /\ pc[w] \in Connected => \A u \in Voice : rep[u].finished
                               /\ pc[w] = "deadlock" => ~ \A u \in Voice : rep[u].finished

\* Outputs of voice v.
Owned(v) == {o \in created : sys.home[sys.owner[o]] = v}

Anns(u) == {AnnMsg(o) : o \in Owned(u)}

AllIn(s, A) == \A i \in 1 .. Len(s) : s[i] \in A

EndsWith(s, A, e) ==
    s # <<>> /\ s[Len(s)] = e /\ \A i \in 1 .. Len(s) - 1 : s[i] \in A

\* What voice u has sent to voice w after the connect phase and w has not taken yet.
RateSent(u, w) == w = Master /\ pc[u] \in AfterRates /\ u \notin rates[Master]

BaseSent(u, w) == u = Master /\ w # Master /\ pc[u] \in AfterBase /\ pc[w] \notin AfterBase

SyncSent(u, w) == pc[u] \in AfterSync /\ pc[w] # "run"
                     /\ ~ (pc[w] = "synchronizing" /\ ask[w] > u)

Post(u, w) ==
    (IF RateSent(u, w) THEN <<RatesMsg>> ELSE IF BaseSent(u, w) THEN <<BaseMsg>> ELSE <<>>)
    \o (IF SyncSent(u, w) THEN <<SyncMsg>> ELSE <<>>)

\* Voice u waits for the answer of voice w.
Asks(u, w) == pc[u] = "reply" /\ ask[u] = w

\* Entry i of inputRemotes[w] is for output o and voice u.
Streams(w, i, o, u) == inputRemotes[w][i].name = o /\ inputRemotes[w][i].to = u

Asked(u, w, o) ==
    /\ EndsWith(chan[u][w], Anns(u), FindMsg(o)) /\ chan[w][u] = <<>>
    /\ \A i \in DOMAIN inputRemotes[w] : ~ Streams(w, i, o, u)

Answered(u, w, o) ==
    /\ chan[u][w] = <<>>
    /\ \E i \in DOMAIN inputRemotes[w] :
           Streams(w, i, o, u) /\ chan[w][u] = <<FoundMsg(inputRemotes[w][i].stream)>>

\* What is on its way from voice u to voice w.
Link(F, rep, u, w) ==
    /\ Pending(F, u, w) =>
           \E s \in Seq(Msg(sys)) : EndsWith(s, Anns(u), rep[u]) /\ chan[u][w] = s \o Post(u, w)
    /\ Asks(u, w) => Asked(u, w, Lowest(todo[u])) \/ Answered(u, w, Lowest(todo[u]))
    /\ ~ Pending(F, u, w) /\ u = F /\ ~ Asks(u, w) => AllIn(chan[u][w], Anns(u))
    /\ ~ Pending(F, u, w) /\ u # F /\ ~ Asks(w, u) => chan[u][w] = Post(u, w)

ChanInv(F, rep) == \A u, w \in Voice : u # w => Link(F, rep, u, w)

\* The process a voice is at, and what it has found of its inputs.
LookAt(v) ==
    /\ pc[v] \in {"look", "reply"} =>
          /\ at[v] \in Local(v)
          /\ Unseen(at[v]) = todo[v] \cup missing[v]
          /\ todo[v] \cap missing[v] = {} /\ missing[v] \cap created = {}
          /\ \A u \in Voice \ {v} : u < ask[v] /\ todo[v] # {} =>
                 Lowest(todo[v]) \notin Owned(u)
    /\ pc[v] = "reply" =>
          /\ todo[v] # {} /\ ask[v] \in Voice \ {v}
          /\ NotHere(v, Lowest(todo[v])) /\ Lowest(todo[v]) \in Owned(ask[v])

LookInv == \A v \in Voice : LookAt(v)

RateInv ==
    /\ pc[Master] # "baserate"
    /\ pc[Master] = "rates" => \E k \in 0 .. Voices - 1 : rates[Master] = 1 .. k
    /\ pc[Master] \notin Connected => rates[Master] = {}
    /\ \A w \in Voice :
          /\ pc[w] \in AfterBase => rates[w] = Voice /\ pc[Master] \in AfterBase
          /\ w # Master /\ w \in rates[Master] => pc[w] \in AfterRates
          /\ pc[w] = "synchronizing" => /\ ask[w] <= Voices
                                        /\ \A u \in Voice : u # w /\ u < ask[w] =>
                                               pc[u] \in AfterSync
          /\ pc[w] = "run" => \A u \in Voice : pc[u] \in AfterSync

ControlInv(F, rep) ==
    /\ F \in 0 .. Voices /\ rep \in [Voice -> Report]
    /\ WhereInv(F, rep) /\ LeadInv(F) /\ VerdictInv(F, rep) /\ ChanInv(F, rep)

-----------------------------------------------------------------------------
\* Outputs and what is known of them.
Looking(q) == pc[sys.home[q]] \in {"look", "reply"} /\ at[sys.home[q]] = q

AllOut(q) == \A o \in Output(sys) : sys.owner[o] = q => o \in created

Announced(u, w, o) ==
    \/ o \in announced[w][u]
    \/ \E i \in 1 .. Len(chan[u][w]) : chan[u][w][i] = AnnMsg(o)

PortInv ==
    /\ \A q \in Process(sys) : seen[q] \subseteq created /\ seen[q] \subseteq sys.needs[q]
    /\ \A S \in SUBSET Output(sys) : Stable(S) => created \subseteq S
    /\ \A q \in called : seen[q] = sys.needs[q] /\ ~ Looking(q) => AllOut(q)

AnnounceInv ==
    /\ \A v, w \in Voice : announced[v][w] \subseteq Owned(w)
    /\ \A u, w \in Voice : u # w => \A o \in Owned(u) : Announced(u, w, o)

\* What the reports say of the processes.
Full(q) == seen[q] = sys.needs[q] /\ AllOut(q)

Settled(q) ==
    \A o \in Output(sys) :
        /\ sys.owner[o] = q
        /\ q \in sys.all => sys.needs[q] \subseteq created
        /\ sys.after[o] \subseteq created
        => o \in created

Lacking(q) == ~ (sys.needs[q] \subseteq created)

Passed(F, q) == sys.home[q] < F \/ (sys.home[q] = F /\ q < at[F])

NoProgress(F, rep) ==
    (\A u \in 0 .. F - 1 : ~ rep[u].progress) /\ (F < Voices => ~ myProgress[F])

TallyInv(F, rep) ==
    /\ \A u \in 0 .. F - 1 : rep[u].finished => \A q \in Local(u) : Full(q)
    /\ F < Voices /\ myFinished[F] => \A q \in Local(F) : q < at[F] => Full(q)
    /\ NoProgress(F, rep) =>
         /\ \A q \in Process(sys) : Passed(F, q) => Settled(q)
         /\ \A u \in 0 .. F - 1 : ~ rep[u].finished => \E q \in Local(u) : Lacking(q)
         /\ F < Voices /\ ~ myFinished[F] => \E q \in Local(F) : Lacking(q)

\* Every stream has a routing entry, or its answer is on the way.
EntryInv(v, i) ==
    LET e == inputRemotes[v][i]
    IN /\ e.stream < i /\ e.name \in Owned(v) /\ e.to # v
       /\ \/ [name |-> e.name, from |-> v, stream |-> e.stream] \in routes[e.to]
          \/ Asks(e.to, v) /\ e.name = Lowest(todo[e.to])

RouteInv(v, r) ==
    /\ r.from # v /\ r.name \in Owned(r.from)
    /\ \E i \in DOMAIN inputRemotes[r.from] :
           inputRemotes[r.from][i] = [name |-> r.name, stream |-> r.stream, to |-> v]

PairInv(v, i, j) ==
    LET a == inputRemotes[v][i]
        b == inputRemotes[v][j]
    IN (a.name = b.name) = (a.stream = b.stream) /\ (i # j => a # b)

StreamInv ==
    /\ \A v \in Voice : \A i \in DOMAIN inputRemotes[v] : EntryInv(v, i)
    /\ \A v \in Voice : \A r \in routes[v] : RouteInv(v, r)
    /\ \A v \in Voice : \A i, j \in DOMAIN inputRemotes[v] : PairInv(v, i, j)

\* No voice sends itself anything.
SelfInv == \A v \in Voice : chan[v][v] = <<>>

InvAt(F, rep) == ControlInv(F, rep) /\ TallyInv(F, rep)

ConnectInv ==
    /\ TypeOK /\ \A v \in Voice : pc[v] # "error"
    /\ LookInv /\ RateInv /\ PortInv /\ AnnounceInv /\ StreamInv /\ SelfInv
    /\ \E F \in 0 .. Voices, rep \in [Voice -> Report] : InvAt(F, rep)

-----------------------------------------------------------------------------
\* Voices are numbered from 0.
LEMMA VoiceFacts ==
    /\ Voices \in Nat /\ Voices >= 1 /\ Master \in Voice /\ Master = 0
    /\ \A v \in Voice : v \in Nat /\ v < Voices
    /\ \A v \in Nat : v < Voices => v \in Voice
BY ConnectAssumption DEF Voice, Master

\* What the assumption says of the system that is being connected.
LEMMA SystemFacts ==
    ASSUME sys \in Systems
    PROVE  /\ Len(sys.home) \in Nat /\ Process(sys) = 1 .. Len(sys.home)
           /\ Len(sys.owner) \in Nat /\ Output(sys) = 1 .. Len(sys.owner)
           /\ \A q \in Process(sys) : sys.home[q] \in Voice
           /\ \A q \in Process(sys) : sys.needs[q] \subseteq Output(sys)
           /\ \A o \in Output(sys) : sys.owner[o] \in Process(sys)
           /\ \A o \in Output(sys) : sys.after[o] \subseteq sys.needs[sys.owner[o]]
<1>1. /\ sys.home \in Seq(Voice) /\ sys.owner \in Seq(Process(sys))
      /\ sys.needs \in [Process(sys) -> SUBSET Output(sys)]
      /\ \A o \in Output(sys) : sys.after[o] \subseteq sys.needs[sys.owner[o]]
  BY ConnectAssumption
<1>2. /\ Len(sys.home) \in Nat /\ Process(sys) = 1 .. Len(sys.home)
      /\ \A q \in Process(sys) : sys.home[q] \in Voice
  BY <1>1 DEF Process
<1>3. /\ Len(sys.owner) \in Nat /\ Output(sys) = 1 .. Len(sys.owner)
      /\ \A o \in Output(sys) : sys.owner[o] \in Process(sys)
  BY <1>1 DEF Output
<1> QED
  BY <1>1, <1>2, <1>3

\* Sequences: the first element and the rest.
LEMMA HeadTail ==
    ASSUME NEW T, NEW s \in Seq(T), s # <<>>
    PROVE  /\ Len(s) \in Nat /\ Len(s) >= 1 /\ Head(s) = s[1] /\ Head(s) \in T
           /\ Tail(s) \in Seq(T) /\ Len(Tail(s)) = Len(s) - 1
           /\ \A i \in 1 .. Len(s) - 1 : Tail(s)[i] = s[i + 1]
OBVIOUS

LEMMA Concat ==
    ASSUME NEW T, NEW s \in Seq(T), NEW t \in Seq(T)
    PROVE  /\ s \o t \in Seq(T) /\ Len(s \o t) = Len(s) + Len(t)
           /\ Len(s) \in Nat /\ Len(t) \in Nat
           /\ \A i \in 1 .. Len(s) : (s \o t)[i] = s[i]
           /\ \A i \in 1 .. Len(t) : (s \o t)[Len(s) + i] = t[i]
OBVIOUS

LEMMA HeadTailConcat ==
    ASSUME NEW T, NEW s \in Seq(T), NEW t \in Seq(T), s # <<>>
    PROVE  s \o t # <<>> /\ Head(s \o t) = Head(s) /\ Tail(s \o t) = Tail(s) \o t
<1>1. Len(s) \in Nat /\ Len(s) >= 1
  BY HeadTail
<1>2. s \o t # <<>> /\ Head(s \o t) = Head(s)
  BY <1>1, Concat, HeadTail
<1>3. Tail(s \o t) = Tail(s) \o t
  <2>1. /\ Tail(s \o t) \in Seq(T) /\ Len(Tail(s \o t)) = Len(s) + Len(t) - 1
        /\ \A i \in 1 .. Len(s) + Len(t) - 1 : Tail(s \o t)[i] = (s \o t)[i + 1]
    BY <1>1, <1>2, Concat, HeadTail
  <2>2. /\ Tail(s) \o t \in Seq(T) /\ Len(Tail(s) \o t) = Len(s) - 1 + Len(t)
        /\ \A i \in 1 .. Len(s) - 1 : (Tail(s) \o t)[i] = s[i + 1]
        /\ \A i \in 1 .. Len(t) : (Tail(s) \o t)[Len(s) - 1 + i] = t[i]
    BY <1>1, Concat, HeadTail
  <2>3. \A i \in 1 .. Len(s) + Len(t) - 1 : Tail(s \o t)[i] = (Tail(s) \o t)[i]
    <3> SUFFICES ASSUME NEW i \in 1 .. Len(s) + Len(t) - 1
                 PROVE  Tail(s \o t)[i] = (Tail(s) \o t)[i]
      OBVIOUS
    <3>1. Len(t) \in Nat
      OBVIOUS
    <3>2. CASE i \in 1 .. Len(s) - 1
      BY <1>1, <2>1, <2>2, <3>1, <3>2, Concat
    <3>3. CASE i - (Len(s) - 1) \in 1 .. Len(t)
      <4> DEFINE j == i - (Len(s) - 1)
      <4>1. (Tail(s) \o t)[Len(s) - 1 + j] = t[j] /\ (s \o t)[Len(s) + j] = t[j]
        BY <2>2, <3>3, Concat
      <4> QED
        BY <1>1, <2>1, <3>1, <4>1
    <3> QED
      BY <1>1, <3>1, <3>2, <3>3
  <2> QED
    BY <2>1, <2>2, <2>3, SeqEqual
<1> QED
  BY <1>2, <1>3

LEMMA AppendConcat ==
    ASSUME NEW T, NEW s \in Seq(T), NEW t \in Seq(T), NEW m \in T,
           NEW c, c = Append(s \o t, m), NEW d, d = s \o Append(t, m)
    PROVE  c = d
<1>1. Append(s \o t, m) = (s \o t) \o <<m>> /\ Append(t, m) = t \o <<m>>
  BY AppendIsConcat, Concat
<1>2. <<m>> \in Seq(T)
  OBVIOUS
<1>3. Append(s \o t, m) = s \o Append(t, m)
  BY <1>1, <1>2, ConcatAssociative
<1> QED
  BY <1>3

\* Sequences of one message, and the empty one.
LEMMA OneMessage ==
    ASSUME NEW T, NEW m \in T
    PROVE  /\ <<m>> \in Seq(T) /\ <<m>> # <<>> /\ Len(<<m>>) = 1 /\ <<m>>[1] = m
           /\ Head(<<m>>) = m /\ Tail(<<m>>) = <<>>
           /\ Append(<<>>, m) = <<m>>
           /\ <<>> \in Seq(T) /\ Len(<<>>) = 0
OBVIOUS

LEMMA EmptyConcat == ASSUME NEW T, NEW s \in Seq(T) PROVE <<>> \o s = s /\ s \o <<>> = s
BY ConcatEmptySeq

-----------------------------------------------------------------------------
\* Sequences of announcements, which another message may end.
LEMMA EndsWithAppend ==
    ASSUME NEW T, NEW s \in Seq(T), NEW A, NEW e \in T, AllIn(s, A)
    PROVE  Append(s, e) \in Seq(T) /\ EndsWith(Append(s, e), A, e)
<1>1. /\ Append(s, e) \in Seq(T) /\ Append(s, e) # <<>> /\ Len(Append(s, e)) = Len(s) + 1
      /\ \A i \in 1 .. Len(s) : Append(s, e)[i] = s[i]
      /\ Append(s, e)[Len(s) + 1] = e
  BY AppendProperties
<1>2. Len(s) \in Nat
  OBVIOUS
<1> QED
  BY <1>1, <1>2 DEF EndsWith, AllIn

LEMMA EndsWithTail ==
    ASSUME NEW T, NEW s \in Seq(T), NEW A, NEW e, EndsWith(s, A, e)
    PROVE  \/ Head(s) = e /\ Tail(s) = <<>>
           \/ Head(s) \in A /\ EndsWith(Tail(s), A, e)
<1>1. /\ s # <<>> /\ Len(s) \in Nat /\ Len(s) >= 1 /\ Head(s) = s[1]
      /\ Tail(s) \in Seq(T) /\ Len(Tail(s)) = Len(s) - 1
      /\ \A i \in 1 .. Len(s) - 1 : Tail(s)[i] = s[i + 1]
  BY HeadTail DEF EndsWith
<1>2. CASE Len(s) = 1
  <2>1. Tail(s) \in Seq(T) /\ Len(Tail(s)) = 0
    BY <1>1, <1>2
  <2>2. Tail(s) = <<>>
    BY <2>1, EmptySeq
  <2> QED
    BY <1>1, <1>2, <2>2 DEF EndsWith
<1>3. CASE Len(s) > 1
  <2>1. Head(s) \in A
    BY <1>1, <1>3 DEF EndsWith
  <2>2. Tail(s) # <<>>
    <3>1. Len(Tail(s)) # 0
      BY <1>1, <1>3
    <3> QED
      BY <3>1, OneMessage
  <2>3. Tail(s)[Len(Tail(s))] = e
    BY <1>1, <1>3 DEF EndsWith
  <2>4. \A i \in 1 .. Len(Tail(s)) - 1 : Tail(s)[i] \in A
    <3> SUFFICES ASSUME NEW i \in 1 .. Len(Tail(s)) - 1 PROVE Tail(s)[i] \in A
      OBVIOUS
    <3>1. i \in 1 .. Len(s) - 1 /\ i + 1 \in 1 .. Len(s) - 1
      BY <1>1, <1>3
    <3> QED
      BY <1>1, <3>1 DEF EndsWith
  <2> QED
    BY <2>1, <2>2, <2>3, <2>4 DEF EndsWith
<1> QED
  BY <1>1, <1>2, <1>3

LEMMA AllInTail ==
    ASSUME NEW T, NEW s \in Seq(T), NEW A, AllIn(s, A), s # <<>>
    PROVE  Head(s) \in A /\ AllIn(Tail(s), A)
<1>1. /\ Len(s) \in Nat /\ Len(s) >= 1 /\ Head(s) = s[1]
      /\ Len(Tail(s)) = Len(s) - 1
      /\ \A i \in 1 .. Len(s) - 1 : Tail(s)[i] = s[i + 1]
  BY HeadTail
<1> QED
  BY <1>1 DEF AllIn

LEMMA AllInConcat ==
    ASSUME NEW T, NEW s \in Seq(T), NEW t \in Seq(T), NEW A, AllIn(s, A), AllIn(t, A)
    PROVE  AllIn(s \o t, A)
<1>1. /\ Len(s \o t) = Len(s) + Len(t) /\ Len(s) \in Nat /\ Len(t) \in Nat
      /\ \A i \in 1 .. Len(s) + Len(t) : (s \o t)[i] =
            IF i <= Len(s) THEN s[i] ELSE t[i - Len(s)]
  BY ConcatProperties
<1> QED
  BY <1>1 DEF AllIn

LEMMA Widen ==
    ASSUME NEW s, NEW A, NEW B, A \subseteq B
    PROVE  /\ AllIn(s, A) => AllIn(s, B)
           /\ \A e : EndsWith(s, A, e) => EndsWith(s, B, e)
BY DEF AllIn, EndsWith

LEMMA EndsWithOne == ASSUME NEW T, NEW A, NEW e \in T PROVE EndsWith(<<e>>, A, e)
BY OneMessage DEF EndsWith

LEMMA AllInEmpty == \A A : AllIn(<<>>, A)
BY DEF AllIn

\* The messages of a system, told apart by their tags.
LEMMA MsgFacts ==
    /\ Report \subseteq Msg(sys)
    /\ \A m \in Report : m.tag = "ENDPHASE" /\ m.finished \in BOOLEAN /\ m.progress \in BOOLEAN
    /\ \A o \in Output(sys) : FindMsg(o) \in Msg(sys) /\ AnnMsg(o) \in Msg(sys)
    /\ \A n \in Nat : FoundMsg(n) \in Msg(sys)
    /\ RatesMsg \in Msg(sys) /\ BaseMsg \in Msg(sys) /\ SyncMsg \in Msg(sys)
BY DEF Msg, Report, FindMsg, AnnMsg, FoundMsg, RatesMsg, BaseMsg, SyncMsg

LEMMA MsgTags ==
    /\ \A o : FindMsg(o).tag = "FINDOUTPUT" /\ FindMsg(o).name = o
    /\ \A o : AnnMsg(o).tag = "ANNOUNCEOUTPUT" /\ AnnMsg(o).name = o
    /\ \A n : FoundMsg(n).tag = "OUTPUTFOUND" /\ FoundMsg(n).stream = n
    /\ RatesMsg.tag = "PUSHRATES" /\ BaseMsg.tag = "PUSHBASERATE" /\ SyncMsg.tag = "SYNC"
    /\ BaseMsg.of = Voice
BY DEF FindMsg, AnnMsg, FoundMsg, RatesMsg, BaseMsg, SyncMsg

LEMMA AnnFacts ==
    ASSUME NEW u, NEW m \in Anns(u)
    PROVE  m.tag = "ANNOUNCEOUTPUT" /\ m.name \in Owned(u) /\ m = AnnMsg(m.name)
BY DEF Anns, AnnMsg

\* Outputs are never taken back.
LEMMA OwnedGrow ==
    ASSUME created \subseteq created', sys' = sys
    PROVE  \A u : Owned(u) \subseteq Owned(u)' /\ Anns(u) \subseteq Anns(u)'
BY DEF Owned, Anns, AnnMsg

-----------------------------------------------------------------------------
\* What sending and pulling do to the channels.
LEMMA SendEffect ==
    ASSUME ChanTypes, sys' = sys, NEW v \in Voice, NEW w \in Voice, NEW m \in Msg(sys),
           Send(v, w, m)
    PROVE  /\ ChanTypes' /\ chan'[v][w] = Append(chan[v][w], m)
           /\ \A x, y \in Voice : x # v \/ y # w => chan'[x][y] = chan[x][y]
<1>1. chan' = [chan EXCEPT ![v] = [chan[v] EXCEPT ![w] = Append(chan[v][w], m)]]
  BY DEF Send, ChanTypes
<1>2. chan[v][w] \in Seq(Msg(sys)) /\ Append(chan[v][w], m) \in Seq(Msg(sys))
  BY AppendProperties DEF ChanTypes
<1>3. ChanTypes'
  BY <1>1, <1>2 DEF ChanTypes
<1> QED
  BY <1>1, <1>3 DEF ChanTypes

LEMMA PulledEffect ==
    ASSUME ChanTypes, sys' = sys, NEW v \in Voice, NEW w \in Voice, Arrived(v, w),
           Pulled(v, w)
    PROVE  /\ ChanTypes' /\ chan'[w][v] = Tail(chan[w][v])
           /\ chan[w][v] \in Seq(Msg(sys)) /\ chan[w][v] # <<>>
           /\ Message(v, w) = Head(chan[w][v]) /\ Message(v, w) \in Msg(sys)
           /\ \A x, y \in Voice : x # w \/ y # v => chan'[x][y] = chan[x][y]
<1>1. chan' = [chan EXCEPT ![w] = [chan[w] EXCEPT ![v] = Tail(chan[w][v])]]
  BY DEF Pulled, ChanTypes
<1>2. /\ chan[w][v] \in Seq(Msg(sys)) /\ chan[w][v] # <<>>
      /\ Tail(chan[w][v]) \in Seq(Msg(sys)) /\ Head(chan[w][v]) \in Msg(sys)
  <2>1. chan[w][v] \in Seq(Msg(sys)) /\ chan[w][v] # <<>>
    BY DEF ChanTypes, Arrived
  <2> QED
    BY <2>1, HeadTail
<1>3. ChanTypes'
  BY <1>1, <1>2 DEF ChanTypes
<1> QED
  BY <1>1, <1>2, <1>3 DEF ChanTypes, Message

LEMMA BroadcastEffect ==
    ASSUME ChanTypes, sys' = sys, NEW v \in Voice, NEW ms \in Seq(Msg(sys)),
           Broadcast(v, ms)
    PROVE  /\ ChanTypes'
           /\ \A w \in Voice : w # v => chan'[v][w] = chan[v][w] \o ms
           /\ chan'[v][v] = <<>>
           /\ \A x, y \in Voice : x # v => chan'[x][y] = chan[x][y]
<1> DEFINE row == [w \in Voice |-> IF w = v THEN <<>> ELSE chan[v][w] \o ms]
<1>1. chan' = [chan EXCEPT ![v] = row]
  BY DEF Broadcast, ChanTypes
<1>2. \A w \in Voice : chan[v][w] \o ms \in Seq(Msg(sys)) /\ <<>> \in Seq(Msg(sys))
  BY Concat DEF ChanTypes
<1>3. row \in [Voice -> Seq(Msg(sys))]
  BY <1>2
<1>4. ChanTypes'
  BY <1>1, <1>3 DEF ChanTypes
<1>5. chan'[v] = row /\ \A x \in Voice : x # v => chan'[x] = chan[x]
  BY <1>1 DEF ChanTypes
<1> QED
  BY <1>4, <1>5

LEMMA AnswerEffect ==
    ASSUME ChanTypes, sys' = sys, NEW v \in Voice, NEW w \in Voice, v # w,
           chan[w][v] # <<>>, NEW m \in Msg(sys),
           chan' = [chan EXCEPT ![w][v] = Tail(@), ![v][w] = Append(@, m)]
    PROVE  /\ ChanTypes' /\ chan'[w][v] = Tail(chan[w][v])
           /\ chan'[v][w] = Append(chan[v][w], m)
           /\ \A x, y \in Voice : (x # w \/ y # v) /\ (x # v \/ y # w) =>
                  chan'[x][y] = chan[x][y]
<1> DEFINE a == [chan[w] EXCEPT ![v] = Tail(chan[w][v])]
           b == [chan[v] EXCEPT ![w] = Append(chan[v][w], m)]
<1>1. /\ chan'[w] = a /\ chan'[v] = b
      /\ \A x \in Voice : x # v /\ x # w => chan'[x] = chan[x]
      /\ DOMAIN chan' = Voice /\ chan' = [x \in Voice |-> chan'[x]]
  BY DEF ChanTypes
<1>2. Tail(chan[w][v]) \in Seq(Msg(sys)) /\ Append(chan[v][w], m) \in Seq(Msg(sys))
  <2>1. chan[w][v] \in Seq(Msg(sys)) /\ chan[v][w] \in Seq(Msg(sys))
    BY DEF ChanTypes
  <2> QED
    BY <2>1, HeadTail, AppendProperties
<1>3. a \in [Voice -> Seq(Msg(sys))] /\ b \in [Voice -> Seq(Msg(sys))]
  BY <1>2 DEF ChanTypes
<1>4. /\ a[v] = Tail(chan[w][v]) /\ \A y \in Voice : y # v => a[y] = chan[w][y]
      /\ b[w] = Append(chan[v][w], m) /\ \A y \in Voice : y # w => b[y] = chan[v][y]
  BY DEF ChanTypes
<1> HIDE DEF a, b
<1>5. ChanTypes'
  <2>1. \A x \in Voice : chan'[x] \in [Voice -> Seq(Msg(sys))]
    BY <1>1, <1>3 DEF ChanTypes
  <2> QED
    BY <1>1, <2>1 DEF ChanTypes
<1>6. \A x, y \in Voice : (x # w \/ y # v) /\ (x # v \/ y # w) =>
          chan'[x][y] = chan[x][y]
  <2> SUFFICES ASSUME NEW x \in Voice, NEW y \in Voice, x # w \/ y # v, x # v \/ y # w
               PROVE  chan'[x][y] = chan[x][y]
    OBVIOUS
  <2>1. CASE x = w
    <3>1. a[y] = chan[w][y]
      BY <1>4, <2>1
    <3> QED
      BY <1>1, <2>1, <3>1
  <2>2. CASE x = v
    <3>1. b[y] = chan[v][y]
      BY <1>4, <2>2
    <3> QED
      BY <1>1, <2>2, <3>1
  <2> QED
    BY <1>1, <2>1, <2>2
<1>7. chan'[w][v] = Tail(chan[w][v]) /\ chan'[v][w] = Append(chan[v][w], m)
  BY <1>1, <1>4
<1> QED
  BY <1>5, <1>6, <1>7

\* One sequence of the elements of a finite set.
LEMMA SomeOrder ==
    ASSUME NEW S, IsFiniteSet(S)
    PROVE  /\ InSomeOrder(S) \in Seq(S)
           /\ \A x \in S : \E i \in 1 .. Len(InSomeOrder(S)) : InSomeOrder(S)[i] = x
<1> DEFINE n == Cardinality(S)
<1>1. n \in Nat /\ \E s : s \in Bijection(1 .. n, S)
  BY FS_CardinalityType DEF ExistsBijection
<1>2. \E s \in [1 .. n -> S] : \A i, j \in DOMAIN s : s[i] = s[j] => i = j
  BY <1>1 DEF Bijection, Injection, IsInjective
<1>3. PICK s : /\ s = InSomeOrder(S) /\ s \in [1 .. n -> S]
               /\ \A i, j \in DOMAIN s : s[i] = s[j] => i = j
  BY <1>2 DEF InSomeOrder
<1>4. s \in Seq(S) /\ Len(s) = n
  BY <1>1, <1>3
<1>5. ASSUME NEW x \in S, \A i \in 1 .. n : s[i] # x PROVE FALSE
  <2>1. IsFiniteSet(S \ {x}) /\ Cardinality(S \ {x}) = n - 1
    BY FS_RemoveElement
  <2>2. s \in [1 .. n -> S \ {x}]
    BY <1>3, <1>5
  <2>3. IsFiniteSet(1 .. n) /\ Cardinality(1 .. n) = n
    BY <1>1, FS_Interval
  <2>4. \E i, j \in 1 .. n : i # j /\ s[i] = s[j]
    BY <1>1, <2>1, <2>2, <2>3, FS_PigeonHole
  <2> QED
    BY <1>3, <2>4
<1> QED
  BY <1>3, <1>4, <1>5

-----------------------------------------------------------------------------
\* Messages sent after the connect phase.
LEMMA PostType ==
    \A u, w \in Voice : Post(u, w) \in Seq(Msg(sys))
<1> TAKE u, w \in Voice
<1>1. /\ RatesMsg \in Msg(sys) /\ BaseMsg \in Msg(sys) /\ SyncMsg \in Msg(sys)
  BY MsgFacts
<1>2. /\ <<RatesMsg>> \in Seq(Msg(sys)) /\ <<BaseMsg>> \in Seq(Msg(sys))
      /\ <<SyncMsg>> \in Seq(Msg(sys)) /\ <<>> \in Seq(Msg(sys))
  BY <1>1, OneMessage
<1> DEFINE a == IF RateSent(u, w) THEN <<RatesMsg>>
                ELSE IF BaseSent(u, w) THEN <<BaseMsg>> ELSE <<>>
           b == IF SyncSent(u, w) THEN <<SyncMsg>> ELSE <<>>
<1>3. a \in Seq(Msg(sys)) /\ b \in Seq(Msg(sys)) /\ Post(u, w) = a \o b
  BY <1>2 DEF Post
<1> HIDE DEF a, b
<1> QED
  BY <1>3, Concat

LEMMA ShortConcat ==
    \A x, y : <<x>> \o <<y>> = <<x, y>> /\ <<x>> \o <<>> = <<x>> /\ <<>> \o <<x>> = <<x>>
               /\ Append(<<x>>, y) = <<x, y>> /\ Tail(<<x, y>>) = <<y>> /\ Head(<<x, y>>) = x
<1> TAKE x, y
<1>1. <<x>> \in Seq({x, y}) /\ <<y>> \in Seq({x, y})
  OBVIOUS
<1>2. <<x>> \o <<y>> = <<x, y>>
  <2>1. /\ <<x>> \o <<y>> \in Seq({x, y}) /\ Len(<<x>> \o <<y>>) = 2
        /\ (<<x>> \o <<y>>)[1] = x /\ (<<x>> \o <<y>>)[2] = y
    BY <1>1, ConcatProperties
  <2>2. /\ <<x, y>> \in Seq({x, y}) /\ Len(<<x, y>>) = 2
        /\ <<x, y>>[1] = x /\ <<x, y>>[2] = y
    OBVIOUS
  <2> DEFINE s == <<x>> \o <<y>>
             t == <<x, y>>
  <2> HIDE DEF s, t
  <2>3. \A i \in 1 .. Len(s) : s[i] = t[i]
    BY <2>1, <2>2 DEF s, t
  <2>4. s \in Seq({x, y}) /\ t \in Seq({x, y}) /\ Len(s) = Len(t)
    BY <2>1, <2>2 DEF s, t
  <2>5. s = t
    BY <2>3, <2>4, SeqEqual
  <2> QED
    BY <2>5 DEF s, t
<1>3. Append(<<x>>, y) = <<x, y>>
  <2>1. Append(<<x>>, y) = <<x>> \o <<y>>
    BY <1>1, AppendIsConcat
  <2> QED
    BY <1>2, <2>1
<1>4. Head(<<x, y>>) = x
  OBVIOUS
<1>5. Tail(<<x, y>>) = <<y>>
  OBVIOUS
<1> QED
  BY <1>1, <1>2, <1>3, <1>4, <1>5, EmptyConcat

LEMMA PostCases ==
    ASSUME NEW u \in Voice, NEW w \in Voice
    PROVE  /\ RateSent(u, w) /\ ~ SyncSent(u, w) => Post(u, w) = <<RatesMsg>>
           /\ BaseSent(u, w) /\ SyncSent(u, w) => Post(u, w) = <<BaseMsg, SyncMsg>>
           /\ BaseSent(u, w) /\ ~ SyncSent(u, w) => Post(u, w) = <<BaseMsg>>
           /\ ~ RateSent(u, w) /\ ~ BaseSent(u, w) /\ SyncSent(u, w) =>
                  Post(u, w) = <<SyncMsg>>
           /\ ~ RateSent(u, w) /\ ~ BaseSent(u, w) /\ ~ SyncSent(u, w) =>
                  Post(u, w) = <<>>
<1>1. <<>> \o <<>> = <<>>
  OBVIOUS
<1>2. ~ (RateSent(u, w) /\ BaseSent(u, w))
  BY DEF RateSent, BaseSent
<1> QED
  BY <1>1, <1>2, ShortConcat DEF Post

\* What follows from the messages sent so far when nothing, one kind or another is added
\* or taken in a step.
LEMMA PostNext ==
    ASSUME NEW u \in Voice, NEW w \in Voice
    PROVE  /\ (RateSent(u, w) /\ ~ SyncSent(u, w))' => Post(u, w)' = <<RatesMsg>>
           /\ (BaseSent(u, w) /\ ~ SyncSent(u, w))' => Post(u, w)' = <<BaseMsg>>
           /\ (BaseSent(u, w) /\ SyncSent(u, w))' => Post(u, w)' = <<BaseMsg, SyncMsg>>
           /\ (~ RateSent(u, w) /\ ~ BaseSent(u, w) /\ SyncSent(u, w))' =>
                  Post(u, w)' = <<SyncMsg>>
           /\ (~ RateSent(u, w) /\ ~ BaseSent(u, w) /\ ~ SyncSent(u, w))' =>
                  Post(u, w)' = <<>>
<1>1. <<>> \o <<>> = <<>>
  OBVIOUS
<1>2. ~ (RateSent(u, w) /\ BaseSent(u, w))'
  BY DEF RateSent, BaseSent
<1> QED
  BY <1>1, <1>2, ShortConcat DEF Post, RatesMsg, BaseMsg, SyncMsg

LEMMA NoPost ==
    ASSUME NEW u \in Voice, NEW w \in Voice, pc[u] \notin AfterRates
    PROVE  Post(u, w) = <<>>
<1>1. ~ RateSent(u, w) /\ ~ BaseSent(u, w) /\ ~ SyncSent(u, w)
  BY DEF RateSent, BaseSent, SyncSent, AfterRates, AfterBase, AfterSync
<1> QED
  BY <1>1, PostCases

\* They do not change while both voices are in the connect phase or stand still.
LEMMA PostSame ==
    ASSUME NEW u \in Voice, NEW w \in Voice,
           pc'[u] \in AfterRates <=> pc[u] \in AfterRates,
           pc'[u] \in AfterBase <=> pc[u] \in AfterBase,
           pc'[u] \in AfterSync <=> pc[u] \in AfterSync,
           pc'[w] \in AfterBase <=> pc[w] \in AfterBase,
           pc'[w] = "run" <=> pc[w] = "run",
           pc'[w] = "synchronizing" <=> pc[w] = "synchronizing",
           pc[w] = "synchronizing" => (ask'[w] > u <=> ask[w] > u),
           w = Master => (u \in rates'[Master] <=> u \in rates[Master])
    PROVE  Post(u, w)' = Post(u, w)
<1>1. /\ RateSent(u, w)' <=> RateSent(u, w)
      /\ BaseSent(u, w)' <=> BaseSent(u, w)
      /\ SyncSent(u, w)' <=> SyncSent(u, w)
  BY DEF RateSent, BaseSent, SyncSent
<1> QED
  BY <1>1 DEF Post, RatesMsg, BaseMsg, SyncMsg

\* In particular when one voice moves within the connect phase, or to its end.
Early == Turning \cup {"rates", "deadlock", "error"}

LEMMA PostEarly ==
    ASSUME NEW v \in Voice, \A w \in Voice : w # v => pc'[w] = pc[w],
           pc[v] \in Early, pc'[v] \in Early, UNCHANGED rates,
           \A w \in Voice : w # v => ask'[w] = ask[w]
    PROVE  \A u, w \in Voice : Post(u, w)' = Post(u, w)
<1> SUFFICES ASSUME NEW u \in Voice, NEW w \in Voice PROVE Post(u, w)' = Post(u, w)
  OBVIOUS
<1>1. \A x \in Voice : /\ pc'[x] \in AfterRates <=> pc[x] \in AfterRates
                       /\ pc'[x] \in AfterBase <=> pc[x] \in AfterBase
                       /\ pc'[x] \in AfterSync <=> pc[x] \in AfterSync
                       /\ pc'[x] = "run" <=> pc[x] = "run"
                       /\ pc'[x] = "synchronizing" <=> pc[x] = "synchronizing"
                       /\ pc[x] = "synchronizing" => ask'[x] = ask[x]
  BY DEF Early, Turning, AfterRates, AfterBase, AfterSync
<1> QED
  BY <1>1, PostSame

-----------------------------------------------------------------------------
\* Where the voices are.
LEMMA TurnFacts ==
    ASSUME PassTypes, NEW F \in 0 .. Voices, NEW v \in Voice
    PROVE  /\ F \in Nat /\ F <= Voices /\ v \in Nat /\ v < Voices /\ Voices \in Nat
           /\ pass[v] \in Nat /\ pass[v] \in Voice /\ pass[v] < Voices
           /\ F < Voices => F \in Voice
<1>1. pass[v] \in Voice
  BY DEF PassTypes
<1>2. Voices \in Nat
  BY VoiceFacts
<1>3. F \in Nat /\ F <= Voices
  BY <1>2
<1> QED
  BY <1>1, <1>2, <1>3, VoiceFacts

LEMMA LeaderIs ==
    ASSUME PassTypes, NEW F \in 0 .. Voices, NEW rep, WhereInv(F, rep), LeadInv(F),
           VerdictInv(F, rep), NEW v \in Voice,
           Passing(v) \/ pc[v] \in {"look", "reply"}
    PROVE  /\ v = F /\ F < Voices /\ Leads(F, v) /\ pc[v] \in Turning /\ pass[v] = v
           /\ \A w \in Voice : ~ Pending(F, w, v) /\ ~ Pending(F, v, w)
           /\ \A w \in Voice : w # v => pc[w] = "pass"
<1>1. F \in Nat /\ v \in Nat /\ v < Voices /\ Voices \in Nat /\ pass[v] \in Nat
  BY TurnFacts
<1>2. pc[v] \in Turning
  BY DEF Passing, Turning
<1>3. Leads(F, v)
  <2>1. CASE pc[v] \in {"look", "reply"}
    BY <2>1 DEF LeadInv
  <2>2. CASE Passing(v)
    <3>1. Pos(v) = v /\ ~ Old(F, v)
      BY <1>1, <1>2, <2>2 DEF Passing, Pos, Old
    <3>2. v <= F /\ ~ (v < F)
      BY <1>1, <3>1 DEF WhereInv, InTime
    <3> QED
      BY <1>1, <3>1, <3>2 DEF Leads
  <2> QED
    BY <2>1, <2>2
<1>4. v = F /\ Pos(v) = v /\ pass[v] = v /\ F < Voices
  BY <1>1, <1>2, <1>3 DEF Leads, Pos
<1>5. \A w \in Voice : ~ Pending(F, w, v) /\ ~ Pending(F, v, w)
  <2> TAKE w \in Voice
  <2>1. w \in Nat /\ Pos(w) \in Nat
    BY <1>1, VoiceFacts DEF Pos, PassTypes
  <2>2. ~ Pending(F, w, v)
    BY <1>1, <1>4, <2>1 DEF Pending, Old
  <2>3. ~ Pending(F, v, w)
    BY <1>1, <1>4, <2>1 DEF Pending, Old
  <2> QED
    BY <2>2, <2>3
<1>6. \A w \in Voice : w # v => pc[w] = "pass"
  BY <1>4 DEF VerdictInv, LeadInv, Leads, Turning
<1> QED
  BY <1>2, <1>3, <1>4, <1>5, <1>6

LEMMA ServedIs ==
    ASSUME PassTypes, NEW F \in 0 .. Voices, NEW rep, WhereInv(F, rep), LeadInv(F),
           NEW v \in Voice, pc[v] = "pass", pass[v] # v
    PROVE  /\ pass[v] \in Voice /\ Pos(v) = pass[v] /\ ~ Leads(F, v)
           /\ pass[v] = F \/ Pending(F, pass[v], v)
<1>1. /\ F \in Nat /\ v \in Nat /\ v < Voices /\ Voices \in Nat /\ pass[v] \in Nat
      /\ pass[v] \in Voice
  BY TurnFacts
<1>2. Pos(v) = pass[v]
  BY DEF Pos, Turning
<1>3. CASE Old(F, v)
  BY <1>1, <1>2, <1>3 DEF Pending, Old, Leads
<1>4. CASE ~ Old(F, v)
  <2>1. pass[v] <= F
    BY <1>2, <1>4 DEF WhereInv, InTime
  <2> QED
    BY <1>1, <1>2, <1>4, <2>1 DEF Pending, Leads
<1> QED
  BY <1>3, <1>4

\* A step that leaves the positions and tallies of all voices alone.
LEMMA StandStill ==
    ASSUME PassTypes, NEW F \in 0 .. Voices, NEW rep, WhereInv(F, rep), LeadInv(F),
           VerdictInv(F, rep), NEW v \in Voice, Leads(F, v), pc[v] \in Turning,
           \A w \in Voice : w # v => /\ pc'[w] = pc[w] /\ at'[w] = at[w]
                                     /\ myFinished'[w] = myFinished[w]
                                     /\ myProgress'[w] = myProgress[w],
           pc'[v] \in Turning, UNCHANGED <<pass, finished, progress>>
    PROVE  /\ WhereInv(F, rep)' /\ LeadInv(F)' /\ VerdictInv(F, rep)'
           /\ \A u, w \in Voice : Pending(F, u, w)' <=> Pending(F, u, w)
<1>1. \A w \in Voice : Pos(w)' = Pos(w) /\ (pc'[w] \in Turning <=> pc[w] \in Turning)
  BY DEF Pos
<1>2. \A w \in Voice : Old(F, w)' <=> Old(F, w)
  BY <1>1 DEF Old
<1>3. WhereInv(F, rep)'
  BY <1>1, <1>2 DEF WhereInv, Late, InTime
<1>4. LeadInv(F)'
  BY <1>1 DEF LeadInv, Leads
<1>5. VerdictInv(F, rep)'
  <2>1. F < Voices
    BY VoiceFacts DEF Leads
  <2> QED
    BY <1>1, <2>1, VoiceFacts DEF VerdictInv
<1>6. \A u, w \in Voice : Pending(F, u, w)' <=> Pending(F, u, w)
  BY <1>1, <1>2 DEF Pending
<1> QED
  BY <1>3, <1>4, <1>5, <1>6

\* A pair of voices that a step does not touch.
LEMMA LinkSame ==
    ASSUME sys' = sys, created \subseteq created', NEW F, NEW rep, NEW u, NEW w,
           Link(F, rep, u, w),
           chan'[u][w] = chan[u][w], Asks(u, w) => chan'[w][u] = chan[w][u],
           Post(u, w)' = Post(u, w), Pending(F, u, w)' <=> Pending(F, u, w),
           Asks(u, w)' <=> Asks(u, w), Asks(w, u)' <=> Asks(w, u),
           Asks(u, w) => todo'[u] = todo[u] /\ inputRemotes'[w] = inputRemotes[w]
    PROVE  Link(F, rep, u, w)'
<1>1. Anns(u) \subseteq Anns(u)'
  BY OwnedGrow
<1>2. \A s : /\ AllIn(s, Anns(u)) => AllIn(s, Anns(u)')
             /\ \A e : EndsWith(s, Anns(u), e) => EndsWith(s, Anns(u)', e)
  BY <1>1, Widen
<1>3. ASSUME Pending(F, u, w)
      PROVE  \E s \in Seq(Msg(sys)') : EndsWith(s, Anns(u)', rep[u])
                                          /\ chan'[u][w] = s \o Post(u, w)'
  <2>1. Msg(sys)' = Msg(sys)
    BY DEF Msg, Report
  <2> QED
    BY <1>2, <1>3, <2>1 DEF Link
<1>4. ASSUME Asks(u, w)
      PROVE  Asked(u, w, Lowest(todo[u]))' \/ Answered(u, w, Lowest(todo[u]))'
  <2>1. CASE Asked(u, w, Lowest(todo[u]))
    <3>1. EndsWith(chan[u][w], Anns(u)', FindMsg(Lowest(todo[u])))
      BY <1>2, <2>1 DEF Asked
    <3> QED
      BY <1>4, <2>1, <3>1 DEF Asked, Streams
  <2>2. CASE Answered(u, w, Lowest(todo[u]))
    BY <1>4, <2>2 DEF Answered, Streams
  <2> QED
    BY <1>4, <2>1, <2>2 DEF Link
<1>5. ASSUME ~ Pending(F, u, w), u = F, ~ Asks(u, w) PROVE AllIn(chan'[u][w], Anns(u)')
  BY <1>2, <1>5 DEF Link
<1>6. ASSUME ~ Pending(F, u, w), u # F, ~ Asks(w, u) PROVE chan'[u][w] = Post(u, w)'
  BY <1>6 DEF Link
<1> QED
  BY <1>3, <1>4, <1>5, <1>6 DEF Link

-----------------------------------------------------------------------------
\* The lowest of a set of numbers.
LEMMA LowestIs ==
    ASSUME NEW S, S \subseteq Nat, S # {}
    PROVE  Lowest(S) \in S /\ \A y \in S : Lowest(S) <= y
<1>1. PICK x \in S : \A y \in S : ~ (<<y, x>> \in OpToRel(<, Nat))
  BY NatLessThanWellFounded, WFMin
<1>2. ASSUME NEW y \in S PROVE x <= y
  <2>1. x \in Nat /\ y \in Nat
    OBVIOUS
  <2>2. ~ (y < x)
    <3>1. ASSUME y < x PROVE <<y, x>> \in OpToRel(<, Nat)
      BY <2>1, <3>1 DEF OpToRel
    <3> QED
      BY <1>1, <3>1
  <2> QED
    BY <2>1, <2>2
<1> QED
  BY <1>1, <1>2 DEF Lowest

\* The input a voice is looking for.
LEMMA SoughtIs ==
    ASSUME sys \in Systems, LookTypes, NEW v \in Voice, todo[v] # {}
    PROVE  Lowest(todo[v]) \in todo[v] /\ Lowest(todo[v]) \in Output(sys)
<1>1. todo[v] \subseteq Output(sys) /\ Output(sys) \subseteq Nat
  BY SystemFacts DEF LookTypes
<1> QED
  BY <1>1, LowestIs

LEMMA AskableIs ==
    ASSUME LookTypes, NEW v \in Voice, NEW o, Askable(v, o) # {}
    PROVE  /\ Lowest(Askable(v, o)) \in Askable(v, o)
           /\ \A y \in Askable(v, o) : Lowest(Askable(v, o)) <= y
<1>1. Askable(v, o) \subseteq Nat
  BY VoiceFacts DEF Askable
<1> QED
  BY <1>1, LowestIs

\* The announcements of a process as a sequence of messages.
LEMMA NewsIs ==
    ASSUME TypeOK, NEW p \in Process(sys),
           NEW ms, ms = InSomeOrder(Tagged("ANNOUNCEOUTPUT", Announces(p)))
    PROVE  /\ ms \in Seq(Msg(sys))
           /\ \A i \in 1 .. Len(ms) : \E o \in Announces(p) : ms[i] = AnnMsg(o)
           /\ \A o \in Announces(p) : \E i \in 1 .. Len(ms) : ms[i] = AnnMsg(o)
<1> DEFINE S == Tagged("ANNOUNCEOUTPUT", Announces(p))
<1>1. Announces(p) \subseteq Output(sys)
  BY DEF Announces, Creates, TypeOK, PortTypes
<1>2. \A x : x \in S <=> \E o \in Announces(p) : x = AnnMsg(o)
  BY DEF Tagged, AnnMsg
<1>3. IsFiniteSet(S)
  <2>1. IsFiniteSet(Output(sys))
    BY SystemFacts, FS_Interval DEF TypeOK
  <2>2. IsFiniteSet(Announces(p))
    BY <1>1, <2>1, FS_Subset
  <2> DEFINE f == [o \in Announces(p) |-> AnnMsg(o)]
  <2>3. f \in Surjection(Announces(p), S)
    BY <1>2 DEF Surjection
  <2> QED
    BY <2>2, <2>3, FS_Surjection
<1>4. S \subseteq Msg(sys)
  BY <1>1, <1>2, MsgFacts
<1> HIDE DEF S
<1>5. /\ ms \in Seq(S)
      /\ \A x \in S : \E i \in 1 .. Len(ms) : ms[i] = x
  BY <1>3, SomeOrder DEF S
<1>6. Len(ms) \in Nat /\ \A i \in 1 .. Len(ms) : ms[i] \in S
  BY <1>5
<1> QED
  BY <1>2, <1>4, <1>5, <1>6, SeqMonotonic

-----------------------------------------------------------------------------
\* The steps of a local pass that send nothing.
LEMMA QuietControl ==
    ASSUME TypeOK, NEW F, NEW rep, ControlInv(F, rep), NEW v \in Voice,
           Leads(F, v), pc[v] \in {"pass", "look"}, pc'[v] \in {"pass", "look"},
           \A w \in Voice : w # v => /\ pc'[w] = pc[w] /\ at'[w] = at[w]
                                     /\ myFinished'[w] = myFinished[w]
                                     /\ myProgress'[w] = myProgress[w]
                                     /\ ask'[w] = ask[w],
           UNCHANGED <<sys, pass, finished, progress, chan, rates, created>>
    PROVE  ControlInv(F, rep)'
<1>1. /\ PassTypes /\ F \in 0 .. Voices /\ WhereInv(F, rep) /\ LeadInv(F)
      /\ VerdictInv(F, rep) /\ ChanInv(F, rep)
  BY DEF TypeOK, ControlInv
<1>2. pc[v] \in Turning /\ pc'[v] \in Turning /\ pc[v] \in Early /\ pc'[v] \in Early
  BY DEF Turning, Early
<1>3. /\ WhereInv(F, rep)' /\ LeadInv(F)' /\ VerdictInv(F, rep)'
      /\ \A u, w \in Voice : Pending(F, u, w)' <=> Pending(F, u, w)
  BY <1>1, <1>2, StandStill
<1>4. \A u, w \in Voice : Post(u, w)' = Post(u, w)
  BY <1>2, PostEarly
<1>5. \A u, w \in Voice : ~ Asks(u, w) /\ ~ Asks(u, w)'
  BY <1>1 DEF Asks, LeadInv, Leads
<1>6. ChanInv(F, rep)'
  <2> SUFFICES ASSUME NEW u \in Voice, NEW w \in Voice, u # w PROVE Link(F, rep, u, w)'
    BY DEF ChanInv
  <2>1. Link(F, rep, u, w)
    BY <1>1 DEF ChanInv
  <2> QED
    BY <1>3, <1>4, <1>5, <2>1, LinkSame
<1> QED
  BY <1>1, <1>3, <1>6 DEF ControlInv

\* EVENT_INIT_CONNECT: announcements follow those already on the way.
LEMMA FireConnectControl ==
    ASSUME TypeOK, LookInv, NEW F, NEW rep, ControlInv(F, rep), NEW v \in Voice,
           FireConnect(v)
    PROVE  ControlInv(F, rep)'
<1>1. /\ PassTypes /\ ChanTypes /\ F \in 0 .. Voices /\ WhereInv(F, rep) /\ LeadInv(F)
      /\ VerdictInv(F, rep) /\ ChanInv(F, rep)
  BY DEF TypeOK, ControlInv
<1>2. pc[v] = "look" /\ pc'[v] = "pass" /\ \A w \in Voice : w # v => pc'[w] = pc[w]
  BY <1>1 DEF FireConnect, Set, PassTypes
<1>3. /\ v = F /\ F < Voices /\ Leads(F, v)
      /\ \A w \in Voice : ~ Pending(F, v, w)
  BY <1>1, <1>2, LeaderIs
<1>4. pc[v] \in Turning /\ pc'[v] \in Turning /\ pc[v] \in Early /\ pc'[v] \in Early
  BY <1>2 DEF Turning, Early
<1>5. /\ \A w \in Voice : w # v => /\ at'[w] = at[w]
                                   /\ myFinished'[w] = myFinished[w]
                                   /\ myProgress'[w] = myProgress[w]
      /\ UNCHANGED <<sys, pass, finished, progress, rates, ask>>
      /\ created \subseteq created'
  BY <1>1 DEF FireConnect, Set, PassTypes, lookVars
<1>6. /\ WhereInv(F, rep)' /\ LeadInv(F)' /\ VerdictInv(F, rep)'
      /\ \A u, w \in Voice : Pending(F, u, w)' <=> Pending(F, u, w)
  BY <1>1, <1>2, <1>3, <1>4, <1>5, StandStill
<1>7. \A u, w \in Voice : Post(u, w)' = Post(u, w)
  BY <1>2, <1>4, <1>5, PostEarly
<1>8. \A u, w \in Voice : ~ Asks(u, w) /\ ~ Asks(u, w)'
  BY <1>1, <1>2 DEF Asks, LeadInv, Leads
<1>9. at[v] \in Process(sys) /\ sys.home[at[v]] = v
  BY <1>2 DEF LookInv, LookAt, Local
<1>10. PICK ms : /\ ms = InSomeOrder(Tagged("ANNOUNCEOUTPUT", Announces(at[v])))
                 /\ Broadcast(v, ms)
  BY DEF FireConnect
<1>11. ms \in Seq(Msg(sys)) /\ AllIn(ms, Anns(v)')
  <2>1. /\ ms \in Seq(Msg(sys))
        /\ \A i \in 1 .. Len(ms) : \E o \in Announces(at[v]) : ms[i] = AnnMsg(o)
    BY <1>9, <1>10, NewsIs
  <2>2. Announces(at[v]) \subseteq Owned(v)'
    <3>1. \A o \in Announces(at[v]) : o \in created' /\ sys.owner[o] = at[v]
      BY DEF Announces, Creates, FireConnect
    <3> QED
      BY <1>5, <1>9, <3>1 DEF Owned
  <2> QED
    BY <2>1, <2>2 DEF AllIn, Anns, AnnMsg
<1>12. /\ \A w \in Voice : w # v => chan'[v][w] = chan[v][w] \o ms
       /\ \A x, y \in Voice : x # v => chan'[x][y] = chan[x][y]
  BY <1>1, <1>5, <1>10, <1>11, BroadcastEffect
<1>13. ChanInv(F, rep)'
  <2> SUFFICES ASSUME NEW u \in Voice, NEW w \in Voice, u # w PROVE Link(F, rep, u, w)'
    BY DEF ChanInv
  <2>0. Link(F, rep, u, w)
    BY <1>1 DEF ChanInv
  <2>1. CASE u # v
    BY <1>5, <1>6, <1>7, <1>8, <1>12, <2>0, <2>1, LinkSame
  <2>2. CASE u = v
    <3>1. AllIn(chan[v][w], Anns(v)) /\ chan[v][w] \in Seq(Msg(sys))
      BY <1>1, <1>3, <1>8, <2>0, <2>2 DEF Link, ChanTypes
    <3>2. AllIn(chan[v][w], Anns(v)')
      BY <1>5, <3>1, OwnedGrow, Widen
    <3>3. AllIn(chan[v][w] \o ms, Anns(v)')
      BY <1>11, <3>1, <3>2, AllInConcat
    <3>4. chan'[v][w] = chan[v][w] \o ms
      BY <1>12, <2>2
    <3> QED
      BY <1>3, <1>6, <1>8, <2>2, <3>3, <3>4 DEF Link
  <2> QED
    BY <2>1, <2>2
<1> QED
  BY <1>1, <1>6, <1>13 DEF ControlInv

\* The steps of a local pass that send nothing, one by one.
LEMMA PassingControl ==
    ASSUME TypeOK, NEW F, NEW rep, ControlInv(F, rep), NEW v \in Voice,
           \/ PassOver(v) \/ BeginProcess(v) \/ FindHere(v) \/ NotFound(v) \/ WaitForAll(v)
    PROVE  ControlInv(F, rep)'
<1>1. /\ PassTypes /\ LookTypes /\ F \in 0 .. Voices /\ WhereInv(F, rep) /\ LeadInv(F)
      /\ VerdictInv(F, rep)
  BY DEF TypeOK, ControlInv
<1>2. /\ Passing(v) \/ pc[v] \in {"look", "reply"}
      /\ pc[v] \in {"pass", "look"} /\ pc'[v] \in {"pass", "look"}
      /\ \A w \in Voice : w # v => pc'[w] = pc[w]
  BY <1>1 DEF PassOver, BeginProcess, FindHere, NotFound, WaitForAll, Passing, Set, PassTypes
<1>3. Leads(F, v)
  BY <1>1, <1>2, LeaderIs
<1>4. \A w \in Voice : w # v => /\ at'[w] = at[w] /\ ask'[w] = ask[w]
                                /\ myFinished'[w] = myFinished[w]
                                /\ myProgress'[w] = myProgress[w]
  BY <1>1 DEF PassOver, BeginProcess, FindHere, NotFound, WaitForAll, Connect, Set,
              PassTypes, LookTypes, passVars, lookVars
<1>5. UNCHANGED <<sys, pass, finished, progress, chan, rates, created>>
  BY DEF PassOver, BeginProcess, FindHere, NotFound, WaitForAll, passVars, portVars
<1> QED
  BY <1>2, <1>3, <1>4, <1>5, QuietControl

\* A question follows the announcements on the way to the voice that is asked.
LEMMA AskControl ==
    ASSUME TypeOK, LookInv, StreamInv, NEW F, NEW rep, ControlInv(F, rep), NEW v \in Voice,
           Ask(v)
    PROVE  ControlInv(F, rep)'
<1>1. /\ PassTypes /\ LookTypes /\ PortTypes /\ ChanTypes /\ F \in 0 .. Voices
      /\ sys \in Systems /\ WhereInv(F, rep) /\ LeadInv(F) /\ VerdictInv(F, rep)
      /\ ChanInv(F, rep)
  BY DEF TypeOK, ControlInv
<1>2. /\ pc[v] = "look" /\ pc'[v] = "reply" /\ \A w \in Voice : w # v => pc'[w] = pc[w]
      /\ todo[v] # {}
  BY <1>1 DEF Ask, Set, PassTypes
<1>3. /\ v = F /\ F < Voices /\ Leads(F, v)
      /\ \A w \in Voice : ~ Pending(F, v, w) /\ ~ Pending(F, w, v)
      /\ \A w \in Voice : w # v => pc[w] = "pass"
  BY <1>1, <1>2, LeaderIs
<1>4. pc[v] \in Turning /\ pc'[v] \in Turning /\ pc[v] \in Early /\ pc'[v] \in Early
  BY <1>2 DEF Turning, Early
<1>5. /\ UNCHANGED <<sys, pass, finished, progress, at, myFinished, myProgress, rates>>
      /\ UNCHANGED <<created, inputRemotes, todo>>
      /\ \A w \in Voice : w # v => ask'[w] = ask[w]
  BY <1>1 DEF Ask, Set, LookTypes, passVars, portVars
<1>6. /\ WhereInv(F, rep)' /\ LeadInv(F)' /\ VerdictInv(F, rep)'
      /\ \A u, w \in Voice : Pending(F, u, w)' <=> Pending(F, u, w)
  BY <1>1, <1>2, <1>3, <1>4, <1>5, StandStill
<1>7. \A u, w \in Voice : Post(u, w)' = Post(u, w)
  BY <1>2, <1>4, <1>5, PostEarly
<1>8. PICK o \in Output(sys) : o = Lowest(todo[v]) /\ o \in todo[v]
  BY <1>1, <1>2, SoughtIs
<1>9. /\ NotHere(v, o) /\ Askable(v, o) # {}
      /\ ask' = Set(ask, v, Lowest(Askable(v, o)))
      /\ Send(v, Lowest(Askable(v, o)), FindMsg(o))
  BY <1>8 DEF Ask, FindMsg
<1>10. PICK x \in Voice : x = Lowest(Askable(v, o)) /\ x # v
  <2>1. Lowest(Askable(v, o)) \in Askable(v, o)
    BY <1>1, <1>9, AskableIs
  <2> QED
    BY <2>1 DEF Askable
<1>11. ask'[v] = x /\ Send(v, x, FindMsg(o)) /\ FindMsg(o) \in Msg(sys)
  BY <1>1, <1>9, <1>10, MsgFacts DEF Set, LookTypes
<1>12. /\ chan'[v][x] = Append(chan[v][x], FindMsg(o))
       /\ \A y, z \in Voice : y # v \/ z # x => chan'[y][z] = chan[y][z]
  BY <1>1, <1>5, <1>11, SendEffect
<1>13. \A u, w \in Voice : ~ Asks(u, w) /\ (Asks(u, w)' <=> u = v /\ w = x)
  BY <1>1, <1>2, <1>11 DEF Asks, LeadInv, Leads
<1>14. Asked(v, x, o)'
  <2>1. AllIn(chan[v][x], Anns(v)) /\ chan[v][x] \in Seq(Msg(sys))
    BY <1>1, <1>3, <1>10, <1>13 DEF ChanInv, Link, ChanTypes
  <2>2. EndsWith(chan'[v][x], Anns(v), FindMsg(o))
    BY <1>11, <1>12, <2>1, EndsWithAppend
  <2>3. Anns(v)' = Anns(v)
    BY <1>5 DEF Anns, Owned, AnnMsg
  <2>4. chan'[x][v] = <<>>
    <3>1. chan[x][v] = Post(x, v)
      BY <1>1, <1>3, <1>10, <1>13 DEF ChanInv, Link
    <3>2. Post(x, v) = <<>>
      BY <1>3, <1>10, NoPost DEF AfterRates
    <3> QED
      BY <1>10, <1>12, <3>1, <3>2
  <2>5. ASSUME NEW i \in DOMAIN inputRemotes[x], Streams(x, i, o, v) PROVE FALSE
    <3>1. EntryInv(x, i)
      BY DEF StreamInv
    <3>2. [name |-> o, from |-> x, stream |-> inputRemotes[x][i].stream] \in routes[v]
      BY <1>13, <2>5, <3>1 DEF EntryInv, Streams
    <3> QED
      BY <1>9, <3>2 DEF NotHere
  <2> QED
    BY <1>5, <2>2, <2>3, <2>4, <2>5 DEF Asked, Streams, FindMsg
<1>15. ChanInv(F, rep)'
  <2> SUFFICES ASSUME NEW u \in Voice, NEW w \in Voice, u # w PROVE Link(F, rep, u, w)'
    BY DEF ChanInv
  <2>0. Link(F, rep, u, w)
    BY <1>1 DEF ChanInv
  <2>1. CASE u = v /\ w = x
    BY <1>3, <1>5, <1>6, <1>8, <1>13, <1>14, <2>1 DEF Link
  <2>2. CASE u = x /\ w = v
    BY <1>3, <1>6, <1>10, <1>13, <2>2 DEF Link
  <2>3. CASE ~ (u = v /\ w = x) /\ ~ (u = x /\ w = v)
    <3>1. chan'[u][w] = chan[u][w] /\ (Asks(u, w)' <=> Asks(u, w))
             /\ (Asks(w, u)' <=> Asks(w, u)) /\ ~ Asks(u, w)
      BY <1>12, <1>13, <2>3
    <3> QED
      BY <1>5, <1>6, <1>7, <2>0, <3>1, LinkSame
  <2> QED
    BY <2>1, <2>2, <2>3
<1> QED
  BY <1>1, <1>6, <1>15 DEF ControlInv

\* The answer is that the output exists.
Found(v, w, o, i) ==
    /\ w = ask[v] /\ w # v /\ o = Lowest(todo[v]) /\ o \in todo[v]
    /\ Streams(w, i, o, v) /\ o \in Owned(w)
    /\ chan[v][w] = <<>> /\ chan[w][v] = <<FoundMsg(inputRemotes[w][i].stream)>>
    /\ FoundMsg(inputRemotes[w][i].stream) \in Msg(sys)
    /\ Connect(v, o)
    /\ routes' = Set(routes, v, routes[v] \cup
          {[name |-> o, from |-> w, stream |-> inputRemotes[w][i].stream]})

LEMMA ReplyIs ==
    ASSUME TypeOK, LookInv, NEW F, NEW rep, ControlInv(F, rep), NEW v \in Voice,
           Reply(v)
    PROVE  /\ pc[v] = "reply" /\ pc'[v] = "look"
           /\ \E w \in Voice, o \in Output(sys) : \E i \in DOMAIN inputRemotes[w] :
                  Found(v, w, o, i)
<1>1. /\ PassTypes /\ LookTypes /\ ChanTypes /\ sys \in Systems /\ ChanInv(F, rep)
  BY DEF TypeOK, ControlInv
<1>2. /\ pc[v] = "reply" /\ todo[v] # {} /\ ask[v] \in Voice \ {v}
      /\ Lowest(todo[v]) \in Owned(ask[v])
  BY DEF LookInv, LookAt, Reply
<1>3. PICK w \in Voice, o \in Output(sys) :
          w = ask[v] /\ w # v /\ o = Lowest(todo[v]) /\ o \in todo[v] /\ o \in Owned(w)
  BY <1>1, <1>2, SoughtIs
<1>4. Asks(v, w)
  BY <1>2, <1>3 DEF Asks
<1>5. chan[w][v] # <<>>
  BY <1>3 DEF Reply, Arrived
<1>6. Answered(v, w, o)
  BY <1>1, <1>3, <1>4, <1>5 DEF ChanInv, Link, Asked
<1>7. PICK i \in DOMAIN inputRemotes[w] :
          Streams(w, i, o, v) /\ chan[w][v] = <<FoundMsg(inputRemotes[w][i].stream)>>
  BY <1>6 DEF Answered
<1>8. /\ Message(v, w) = FoundMsg(inputRemotes[w][i].stream)
      /\ FoundMsg(inputRemotes[w][i].stream) \in Msg(sys)
  <2>1. Message(v, w) = Head(chan[w][v])
    BY DEF Message
  <2>2. Head(<<FoundMsg(inputRemotes[w][i].stream)>>) = FoundMsg(inputRemotes[w][i].stream)
    OBVIOUS
  <2>3. Head(chan[w][v]) \in Msg(sys)
    <3>1. chan[w][v] \in Seq(Msg(sys))
      BY <1>1 DEF ChanTypes
    <3> QED
      BY <1>5, <3>1, HeadTail
  <2> QED
    BY <1>7, <2>1, <2>2, <2>3
<1>9. /\ Message(v, w).tag = "OUTPUTFOUND"
      /\ Message(v, w).stream = inputRemotes[w][i].stream
  BY <1>8, MsgTags
<1>10. /\ routes' = Set(routes, v, routes[v] \cup
              {[name |-> o, from |-> w, stream |-> inputRemotes[w][i].stream]})
       /\ Connect(v, o) /\ pc' = Set(pc, v, "look")
  BY <1>3, <1>9 DEF Reply
<1>11. pc'[v] = "look"
  BY <1>1, <1>10 DEF Set, PassTypes
<1> QED
  BY <1>2, <1>3, <1>6, <1>7, <1>8, <1>10, <1>11 DEF Answered, Found

LEMMA ReplyControl ==
    ASSUME TypeOK, LookInv, NEW F, NEW rep, ControlInv(F, rep), NEW v \in Voice,
           Reply(v)
    PROVE  ControlInv(F, rep)'
<1>1. /\ PassTypes /\ LookTypes /\ ChanTypes /\ F \in 0 .. Voices
      /\ sys \in Systems /\ WhereInv(F, rep) /\ LeadInv(F) /\ VerdictInv(F, rep)
      /\ ChanInv(F, rep)
  BY DEF TypeOK, ControlInv
<1>2. PICK w \in Voice, o \in Output(sys) :
          /\ pc[v] = "reply" /\ pc'[v] = "look" /\ w = ask[v] /\ w # v
          /\ chan[v][w] = <<>> /\ \E m \in Msg(sys) : chan[w][v] = <<m>>
          /\ Connect(v, o)
  BY ReplyIs DEF Found
<1>3. /\ v = F /\ F < Voices /\ Leads(F, v)
      /\ \A x \in Voice : ~ Pending(F, v, x) /\ ~ Pending(F, x, v)
      /\ \A x \in Voice : x # v => pc[x] = "pass"
  BY <1>1, <1>2, LeaderIs
<1>4. /\ pc[v] \in Turning /\ pc'[v] \in Turning /\ pc[v] \in Early /\ pc'[v] \in Early
      /\ \A x \in Voice : x # v => pc'[x] = pc[x]
  BY <1>1, <1>2 DEF Turning, Early, Reply, Set, PassTypes
<1>5. /\ UNCHANGED <<sys, pass, finished, progress, at, myFinished, myProgress, rates>>
      /\ UNCHANGED <<created, inputRemotes>>
      /\ \A x \in Voice : x # v => ask'[x] = ask[x]
  BY <1>1, <1>2 DEF Reply, Connect, Set, LookTypes, passVars
<1>6. /\ WhereInv(F, rep)' /\ LeadInv(F)' /\ VerdictInv(F, rep)'
      /\ \A x, y \in Voice : Pending(F, x, y)' <=> Pending(F, x, y)
  BY <1>1, <1>3, <1>4, <1>5, StandStill
<1>7. \A x, y \in Voice : Post(x, y)' = Post(x, y)
  BY <1>4, <1>5, PostEarly
<1>8. /\ chan'[w][v] = <<>>
      /\ \A x, y \in Voice : x # w \/ y # v => chan'[x][y] = chan[x][y]
  <2>1. Arrived(v, w) /\ Pulled(v, w)
    BY <1>2 DEF Reply
  <2>2. /\ chan'[w][v] = Tail(chan[w][v])
        /\ \A x, y \in Voice : x # w \/ y # v => chan'[x][y] = chan[x][y]
    BY <1>1, <1>5, <2>1, PulledEffect
  <2>3. PICK m \in Msg(sys) : chan[w][v] = <<m>>
    BY <1>2
  <2>4. Tail(<<m>>) = <<>>
    OBVIOUS
  <2> QED
    BY <2>2, <2>3, <2>4
<1>9. \A x, y \in Voice : (Asks(x, y) <=> x = v /\ y = w) /\ ~ Asks(x, y)'
  BY <1>1, <1>2, <1>3, <1>4 DEF Asks, LeadInv, Leads
<1>10. ChanInv(F, rep)'
  <2> SUFFICES ASSUME NEW x \in Voice, NEW y \in Voice, x # y PROVE Link(F, rep, x, y)'
    BY DEF ChanInv
  <2>0. Link(F, rep, x, y)
    BY <1>1 DEF ChanInv
  <2>1. CASE x = v /\ y = w
    <3>1. chan'[x][y] = <<>>
      BY <1>2, <1>8, <2>1
    <3>2. AllIn(chan'[x][y], Anns(x)')
      BY <3>1, AllInEmpty
    <3> QED
      BY <1>3, <1>6, <1>9, <2>1, <3>2 DEF Link
  <2>2. CASE x = w /\ y = v
    <3>1. Post(x, y)' = <<>>
      BY <1>2, <1>3, <1>7, <2>2, NoPost DEF AfterRates
    <3> QED
      BY <1>2, <1>3, <1>6, <1>8, <1>9, <2>2, <3>1 DEF Link
  <2>3. CASE ~ (x = v /\ y = w) /\ ~ (x = w /\ y = v)
    <3>1. chan'[x][y] = chan[x][y] /\ (Asks(x, y)' <=> Asks(x, y))
             /\ (Asks(y, x)' <=> Asks(y, x)) /\ ~ Asks(x, y)
      BY <1>8, <1>9, <2>3
    <3> QED
      BY <1>5, <1>6, <1>7, <2>0, <3>1, LinkSame
  <2> QED
    BY <2>1, <2>2, <2>3
<1> QED
  BY <1>1, <1>6, <1>10 DEF ControlInv


-----------------------------------------------------------------------------
\* The end of a local pass: the turn goes to the next voice, or all voices have what
\* they need to come to a verdict.
ReportOf(v) == [tag |-> "ENDPHASE", finished |-> myFinished[v], progress |-> myProgress[v]]

Reported(v, rep, r) == r = [rep EXCEPT ![v] = ReportOf(v)]

AllFinished(r) == \A u \in Voice : r[u].finished
NoneProgressed(r) == \A u \in Voice : ~ r[u].progress

NextFront(v, r) ==
    IF v < Voices - 1 THEN v + 1
    ELSE IF AllFinished(r) \/ NoneProgressed(r) THEN Voices ELSE 0

LEMMA EndTurnTypes ==
    ASSUME PassTypes, NEW v \in Voice, NEW f \in BOOLEAN, NEW p \in BOOLEAN, EndTurn(v, f, p)
    PROVE  /\ pc' \in [Voice -> Turning \cup Connected \cup {"deadlock", "error"}]
           /\ pass' \in [Voice -> Voice]
           /\ finished' \in [Voice -> BOOLEAN] /\ progress' \in [Voice -> BOOLEAN]
<1>1. {"pass", "rates", "deadlock"} \subseteq Turning \cup Connected \cup {"deadlock", "error"}
  BY DEF Turning, Connected
<1>2. 0 \in Voice /\ (pass[v] < Voices - 1 => pass[v] + 1 \in Voice)
  <2>1. pass[v] \in Nat
    BY VoiceFacts DEF PassTypes
  <2> QED
    BY <2>1, VoiceFacts
<1>3. \E x \in {"pass", "rates", "deadlock"} : pc' = Set(pc, v, x)
  BY DEF EndTurn
<1>4. \E x \in Voice : pass' = Set(pass, v, x)
  BY <1>2 DEF EndTurn
<1>5. \E x, y \in BOOLEAN : finished' = Set(finished, v, x) /\ progress' = Set(progress, v, y)
  BY DEF EndTurn
<1> QED
  BY <1>1, <1>3, <1>4, <1>5 DEF Set, PassTypes

LEMMA EndPassFacts ==
    ASSUME TypeOK, NEW F \in 0 .. Voices, NEW rep, ControlInv(F, rep), NEW v \in Voice,
           EndPass(v), NEW r, Reported(v, rep, r)
    PROVE  /\ v = F /\ F < Voices /\ pc[v] = "pass" /\ pass[v] = v /\ Leads(F, v)
           /\ \A w \in Voice : ~ Pending(F, w, v) /\ ~ Pending(F, v, w)
           /\ \A w \in Voice : w # v => pc[w] = "pass"
           /\ ReportOf(v) \in Report /\ r \in [Voice -> Report] /\ r[v] = ReportOf(v)
           /\ \A u \in Voice : u # v => r[u] = rep[u]
<1>1. /\ PassTypes /\ WhereInv(F, rep) /\ LeadInv(F) /\ VerdictInv(F, rep)
      /\ rep \in [Voice -> Report]
  BY DEF TypeOK, ControlInv
<1>2. Passing(v) /\ pc[v] = "pass" /\ pass[v] = v
  BY DEF EndPass, Passing
<1>3. /\ v = F /\ F < Voices /\ Leads(F, v)
      /\ \A w \in Voice : ~ Pending(F, w, v) /\ ~ Pending(F, v, w)
      /\ \A w \in Voice : w # v => pc[w] = "pass"
  BY <1>1, <1>2, LeaderIs
<1>4. /\ ReportOf(v) \in Report /\ r \in [Voice -> Report] /\ r[v] = ReportOf(v)
      /\ \A u \in Voice : u # v => r[u] = rep[u]
  BY <1>1 DEF Reported, ReportOf, Report, PassTypes
<1> QED
  BY <1>2, <1>3, <1>4

LEMMA EndPassEffect ==
    ASSUME TypeOK, NEW v \in Voice, EndPass(v)
    PROVE  /\ UNCHANGED <<sys, rates, ask, created, inputRemotes>>
           /\ \A w \in Voice : w # v =>
                 /\ pc'[w] = pc[w] /\ pass'[w] = pass[w] /\ at'[w] = at[w]
                 /\ finished'[w] = finished[w] /\ progress'[w] = progress[w]
                 /\ myFinished'[w] = myFinished[w] /\ myProgress'[w] = myProgress[w]
           /\ at'[v] = 1 /\ myFinished'[v] = TRUE /\ myProgress'[v] = FALSE
           /\ pc'[v] \in {"pass", "rates", "deadlock"}
           /\ PassTypes' /\ Broadcast(v, <<ReportOf(v)>>)
<1>1. PassTypes /\ sys \in Systems
  BY DEF TypeOK
<1>2. UNCHANGED <<sys, rates, ask, created, inputRemotes>> /\ Broadcast(v, <<ReportOf(v)>>)
  BY DEF EndPass, ReportOf, lookVars, portVars
<1>3. \A w \in Voice : w # v =>
          /\ pc'[w] = pc[w] /\ pass'[w] = pass[w] /\ at'[w] = at[w]
          /\ finished'[w] = finished[w] /\ progress'[w] = progress[w]
          /\ myFinished'[w] = myFinished[w] /\ myProgress'[w] = myProgress[w]
  BY <1>1 DEF EndPass, EndTurn, Set, PassTypes
<1>4. at'[v] = 1 /\ myFinished'[v] = TRUE /\ myProgress'[v] = FALSE
  BY <1>1 DEF EndPass, Set, PassTypes
<1>5. pc'[v] \in {"pass", "rates", "deadlock"}
  BY <1>1 DEF EndPass, EndTurn, Set, PassTypes
<1>6. PassTypes'
  <2>1. PICK f \in BOOLEAN, p \in BOOLEAN : EndTurn(v, f, p)
    BY <1>1 DEF EndPass, PassTypes
  <2>2. /\ pc' \in [Voice -> Turning \cup Connected \cup {"deadlock", "error"}]
        /\ pass' \in [Voice -> Voice]
        /\ finished' \in [Voice -> BOOLEAN] /\ progress' \in [Voice -> BOOLEAN]
    BY <1>1, <2>1, EndTurnTypes
  <2>3. 1 \in 1 .. Len(sys.home) + 1
    BY <1>1, SystemFacts
  <2>4. /\ myFinished' \in [Voice -> BOOLEAN] /\ myProgress' \in [Voice -> BOOLEAN]
        /\ at' \in [Voice -> 1 .. Len(sys.home) + 1]
    BY <1>1, <2>3 DEF EndPass, Set, PassTypes
  <2> QED
    BY <1>2, <2>2, <2>4 DEF PassTypes
<1> QED
  BY <1>2, <1>3, <1>4, <1>5, <1>6

\* The tally of the voice whose turn it was.
LEMMA EndPassTally ==
    ASSUME TypeOK, NEW F \in 0 .. Voices, NEW rep, ControlInv(F, rep), NEW v \in Voice,
           EndPass(v),
           NEW r, Reported(v, rep, r)
    PROVE  /\ v < Voices - 1 =>
                /\ pc'[v] = "pass" /\ pass'[v] = v + 1
                /\ finished'[v] <=> \A u \in 0 .. v : r[u].finished
                /\ progress'[v] <=> \E u \in 0 .. v : r[u].progress
           /\ v = Voices - 1 =>
                /\ pass'[v] = 0 /\ finished'[v] /\ ~ progress'[v]
                /\ AllFinished(r) => pc'[v] = "rates"
                /\ ~ AllFinished(r) /\ NoneProgressed(r) => pc'[v] = "deadlock"
                /\ ~ AllFinished(r) /\ ~ NoneProgressed(r) => pc'[v] = "pass"
<1>1. /\ PassTypes /\ F \in 0 .. Voices /\ WhereInv(F, rep) /\ v \in 0 .. Voices - 1
      /\ Voices \in Nat /\ Voice = 0 .. Voices - 1
  BY VoiceFacts DEF TypeOK, ControlInv, Voice
<1>2. /\ v = F /\ F < Voices /\ pc[v] = "pass" /\ pass[v] = v
      /\ ReportOf(v) \in Report /\ r[v] = ReportOf(v)
      /\ \A u \in Voice : u # v => r[u] = rep[u]
  BY <1>1, EndPassFacts
<1>3. Pos(v) = v /\ pc[v] \in Turning /\ ~ Old(F, v)
  BY <1>1, <1>2 DEF Pos, Turning, Old
<1>4. /\ finished[v] <=> \A u \in 0 .. v - 1 : rep[u].finished
      /\ progress[v] <=> \E u \in 0 .. v - 1 : rep[u].progress
  BY <1>1, <1>3 DEF WhereInv, InTime
<1>5. r[v].finished = myFinished[v] /\ r[v].progress = myProgress[v]
  BY <1>2 DEF ReportOf
<1>6. \A u \in 0 .. v - 1 : u \in Voice /\ r[u] = rep[u]
  BY <1>1, <1>2
<1>7. \A u : u \in 0 .. v <=> u \in 0 .. v - 1 \/ u = v
  BY <1>1
<1> DEFINE f == finished[v] /\ myFinished[v]
           p == progress[v] \/ myProgress[v]
<1>8. f <=> \A u \in 0 .. v : r[u].finished
  BY <1>4, <1>5, <1>6, <1>7
<1>9. p <=> \E u \in 0 .. v : r[u].progress
  BY <1>4, <1>5, <1>6, <1>7
<1>10. EndTurn(v, f, p)
  BY DEF EndPass
<1>11. f \in BOOLEAN /\ p \in BOOLEAN
  BY <1>1 DEF PassTypes
<1> HIDE DEF f, p
<1>12. ASSUME v < Voices - 1
       PROVE  pc'[v] = "pass" /\ pass'[v] = v + 1 /\ finished'[v] = f /\ progress'[v] = p
  <2>1. /\ pass' = Set(pass, v, v + 1) /\ pc' = Set(pc, v, "pass")
        /\ finished' = Set(finished, v, f) /\ progress' = Set(progress, v, p)
    BY <1>2, <1>10, <1>12 DEF EndTurn
  <2> QED
    BY <1>1, <2>1 DEF Set, PassTypes
<1>13. ASSUME v = Voices - 1
       PROVE  /\ pass'[v] = 0 /\ finished'[v] /\ ~ progress'[v]
              /\ pc'[v] = IF f THEN "rates" ELSE IF p THEN "pass" ELSE "deadlock"
  BY <1>1, <1>2, <1>10, <1>13 DEF EndTurn, Set, PassTypes
<1>14. v = Voices - 1 => 0 .. v = Voice
  BY <1>1
<1>15. v = Voices - 1 => (f <=> AllFinished(r)) /\ (p <=> ~ NoneProgressed(r))
  BY <1>8, <1>9, <1>14 DEF AllFinished, NoneProgressed
<1> QED
  BY <1>8, <1>9, <1>11, <1>12, <1>13, <1>15

\* The reports are on their way: voice v's is pending everywhere, and no other changes.
LEMMA EndPassLinks ==
    ASSUME TypeOK, NEW F \in 0 .. Voices, NEW rep, ControlInv(F, rep), NEW v \in Voice,
           EndPass(v), NEW r, Reported(v, rep, r), NEW G,
           \A u, w \in Voice : u # w => (Pending(G, u, w)' <=> Pending(F, u, w) \/ u = v)
    PROVE  ChanInv(G, r)'
<1>1. ChanTypes /\ ChanInv(F, rep) /\ LeadInv(F)
  BY DEF TypeOK, ControlInv
<1>2. /\ v = F /\ pc[v] = "pass"
      /\ \A w \in Voice : ~ Pending(F, w, v) /\ ~ Pending(F, v, w)
      /\ \A w \in Voice : w # v => pc[w] = "pass"
      /\ ReportOf(v) \in Report /\ r[v] = ReportOf(v)
      /\ \A u \in Voice : u # v => r[u] = rep[u]
  BY EndPassFacts
<1>3. /\ UNCHANGED <<sys, rates, ask, created, inputRemotes>>
      /\ \A w \in Voice : w # v => pc'[w] = pc[w]
      /\ pc'[v] \in {"pass", "rates", "deadlock"}
      /\ Broadcast(v, <<ReportOf(v)>>)
  BY EndPassEffect
<1>4. \A u, w \in Voice : Post(u, w)' = Post(u, w)
  BY <1>2, <1>3, PostEarly DEF Early, Turning
<1>5. \A u, w \in Voice : Post(u, w) = <<>> /\ ~ Asks(u, w) /\ ~ Asks(u, w)'
  <2> TAKE u, w \in Voice
  <2>1. pc[u] = "pass" /\ pc'[u] \in {"pass", "rates", "deadlock"}
    BY <1>2, <1>3
  <2> QED
    BY <2>1, NoPost DEF Asks, AfterRates
<1>6. ReportOf(v) \in Msg(sys) /\ <<ReportOf(v)>> \in Seq(Msg(sys))
  BY <1>2, MsgFacts, OneMessage
<1>7. /\ \A w \in Voice : w # v => chan'[v][w] = chan[v][w] \o <<ReportOf(v)>>
      /\ \A x, y \in Voice : x # v => chan'[x][y] = chan[x][y]
  BY <1>1, <1>3, <1>6, BroadcastEffect
<1>8. \A u : Anns(u)' = Anns(u)
  BY <1>3 DEF Anns, Owned, AnnMsg
<1>9. Msg(sys)' = Msg(sys)
  BY <1>3 DEF Msg, Report
<1> SUFFICES ASSUME NEW u \in Voice, NEW w \in Voice, u # w PROVE Link(G, r, u, w)'
  BY DEF ChanInv
<1>10. Link(F, rep, u, w)
  BY <1>1 DEF ChanInv
<1>11. CASE u = v
  <2>1. AllIn(chan[v][w], Anns(v)) /\ chan[v][w] \in Seq(Msg(sys))
    <3>1. chan[v][w] \in Seq(Msg(sys))
      BY <1>1 DEF ChanTypes
    <3>2. Link(F, rep, v, w) /\ v = F /\ ~ Pending(F, v, w) /\ ~ Asks(v, w)
      BY <1>2, <1>5, <1>10, <1>11
    <3>3. AllIn(chan[v][w], Anns(v))
      BY <3>2 DEF Link
    <3> QED
      BY <3>1, <3>3
  <2>2. /\ Append(chan[v][w], ReportOf(v)) \in Seq(Msg(sys))
        /\ EndsWith(Append(chan[v][w], ReportOf(v)), Anns(v), ReportOf(v))
    BY <1>6, <2>1, EndsWithAppend
  <2>3. chan'[v][w] = Append(chan[v][w], ReportOf(v)) \o <<>>
    <3>1. Append(chan[v][w], ReportOf(v)) = chan[v][w] \o <<ReportOf(v)>>
      BY <1>6, <2>1, AppendIsConcat
    <3> QED
      BY <1>7, <1>11, <2>2, <3>1, EmptyConcat
  <2>4. Pending(G, v, w)' /\ Post(v, w)' = <<>>
    BY <1>4, <1>5, <1>11
  <2> DEFINE s == Append(chan[v][w], ReportOf(v))
  <2>5. s \in Seq(Msg(sys))' /\ EndsWith(s, Anns(v)', r[v]) /\ chan'[v][w] = s \o Post(v, w)'
    BY <1>2, <1>8, <1>9, <2>2, <2>3, <2>4
  <2> HIDE DEF s
  <2>6. \E t \in Seq(Msg(sys)') : EndsWith(t, Anns(v)', r[v]) /\ chan'[v][w] = t \o Post(v, w)'
    BY <2>5
  <2> QED
    BY <1>5, <1>11, <2>4, <2>6 DEF Link
<1>12. CASE u # v
  <2>1. chan'[u][w] = chan[u][w] /\ r[u] = rep[u] /\ Post(u, w)' = <<>>
    BY <1>2, <1>4, <1>5, <1>7, <1>12
  <2>2. Pending(G, u, w)' <=> Pending(F, u, w)
    BY <1>12
  <2>3. CASE Pending(F, u, w)
    <3>1. \E s \in Seq(Msg(sys)) : EndsWith(s, Anns(u), rep[u]) /\ chan[u][w] = s \o Post(u, w)
      BY <1>10, <2>3 DEF Link
    <3>2. \E s \in Seq(Msg(sys)') :
              EndsWith(s, Anns(u)', r[u]) /\ chan'[u][w] = s \o Post(u, w)'
      BY <1>4, <1>8, <1>9, <2>1, <3>1
    <3> QED
      BY <1>5, <2>2, <2>3, <3>2 DEF Link
  <2>4. CASE ~ Pending(F, u, w)
    <3>1. chan'[u][w] = <<>>
      BY <1>2, <1>5, <1>10, <1>12, <2>1, <2>4 DEF Link
    <3>2. AllIn(chan'[u][w], Anns(u)')
      BY <3>1, AllInEmpty
    <3> QED
      BY <1>5, <2>1, <2>2, <2>4, <3>1, <3>2 DEF Link
  <2> QED
    BY <2>3, <2>4
<1> QED
  BY <1>11, <1>12

LEMMA EndPassControl ==
    ASSUME TypeOK, NEW F \in 0 .. Voices, NEW rep, ControlInv(F, rep), NEW v \in Voice,
           EndPass(v), NEW r, Reported(v, rep, r), NEW G, G = NextFront(v, r)
    PROVE  ControlInv(G, r)'
<1>1. /\ PassTypes /\ WhereInv(F, rep) /\ LeadInv(F)
  BY DEF TypeOK, ControlInv
<1>2. /\ v = F /\ F < Voices /\ pc[v] = "pass" /\ pass[v] = v
      /\ \A w \in Voice : ~ Pending(F, w, v) /\ ~ Pending(F, v, w)
      /\ \A w \in Voice : w # v => pc[w] = "pass"
      /\ r \in [Voice -> Report] /\ \A u \in Voice : u # v => r[u] = rep[u]
  BY EndPassFacts
<1>3. /\ \A w \in Voice : w # v =>
            /\ pc'[w] = pc[w] /\ pass'[w] = pass[w] /\ at'[w] = at[w]
            /\ finished'[w] = finished[w] /\ progress'[w] = progress[w]
            /\ myFinished'[w] = myFinished[w] /\ myProgress'[w] = myProgress[w]
      /\ at'[v] = 1 /\ myFinished'[v] = TRUE /\ myProgress'[v] = FALSE
      /\ pc'[v] \in {"pass", "rates", "deadlock"}
  BY EndPassEffect
<1>4. /\ v < Voices - 1 =>
           /\ pc'[v] = "pass" /\ pass'[v] = v + 1
           /\ finished'[v] <=> \A u \in 0 .. v : r[u].finished
           /\ progress'[v] <=> \E u \in 0 .. v : r[u].progress
      /\ v = Voices - 1 =>
           /\ pass'[v] = 0 /\ finished'[v] /\ ~ progress'[v]
           /\ AllFinished(r) => pc'[v] = "rates"
           /\ ~ AllFinished(r) /\ NoneProgressed(r) => pc'[v] = "deadlock"
           /\ ~ AllFinished(r) /\ ~ NoneProgressed(r) => pc'[v] = "pass"
  BY EndPassTally
<1>5. /\ Voices \in Nat /\ Voices >= 1 /\ v \in Nat /\ v < Voices /\ v <= Voices - 1
      /\ Voice = 0 .. Voices - 1
  BY VoiceFacts DEF Voice
<1>6. \A w \in Voice : w \in Nat /\ w < Voices /\ Pos(w) \in Nat
  BY <1>1, VoiceFacts DEF Pos, PassTypes
<1>7. /\ \A w \in Voice : w # v => Pos(w)' = Pos(w) /\ Pos(w) = pass[w] /\ pc[w] \in Turning
      /\ Pos(v) = v
  BY <1>2, <1>3 DEF Pos, Turning
<1>8. \A w \in Voice : w # v =>
          /\ w > v /\ Pos(w) > w => Late(w, rep)
          /\ ~ (w > v /\ Pos(w) > w) => InTime(F, w, rep) /\ Pos(w) <= v /\ (w < v => w < Pos(w))
  BY <1>1, <1>2, <1>5, <1>6 DEF WhereInv, Old, InTime
<1>9. LeadInv(G)'
  <2>1. \A w \in Voice : w # v => ~ Leads(F, w)
    BY <1>2 DEF Leads
  <2> QED
    BY <1>1, <1>3, <2>1 DEF LeadInv
<1>10. G \in 0 .. Voices /\ WhereInv(G, r)' /\ VerdictInv(G, r)'
         /\ \A u, w \in Voice : u # w => (Pending(G, u, w)' <=> Pending(F, u, w) \/ u = v)
  <2>1. CASE v < Voices - 1
    <3>1. G = v + 1 /\ G \in 0 .. Voices /\ Pos(v)' = v + 1
      BY <1>4, <1>5, <2>1 DEF NextFront, Pos, Turning
    <3>2. WhereInv(G, r)'
      <4> SUFFICES ASSUME NEW w \in Voice
                   PROVE  IF Old(G, w)' THEN Late(w, r)' ELSE InTime(G, w, r)'
        BY DEF WhereInv
      <4>1. CASE w = v
        BY <1>4, <1>5, <2>1, <3>1, <4>1 DEF Old, InTime
      <4>2. CASE w > v /\ Pos(w) > w
        <5>1. Late(w, rep) /\ \A u \in Pos(w) .. Voices - 1 : u \in Voice /\ r[u] = rep[u]
          BY <1>2, <1>5, <1>6, <1>8, <4>2
        <5>2. Late(w, r)'
          <6>1. Pos(w)' = Pos(w) /\ UNCHANGED <<finished[w], progress[w]>>
            <7>1. w # v
              BY <1>5, <4>2
            <7>2. Pos(w)' = Pos(w)
              BY <1>7, <7>1
            <7> QED
              BY <1>3, <7>1, <7>2
          <6>2. \A u \in Pos(w) .. Voices - 1 : r[u] = rep[u]
            BY <5>1
          <6> QED
            BY <5>1, <6>1, <6>2 DEF Late
        <5>3. Old(G, w)'
          <6>1. Pos(w)' = Pos(w) /\ w \in Nat /\ G = v + 1
            BY <1>5, <1>6, <1>7, <3>1, <4>2
          <6>2. w >= G /\ Pos(w)' > w
            BY <1>5, <1>6, <4>2, <6>1
          <6> QED
            BY <6>2 DEF Old
        <5> QED
          BY <5>2, <5>3
      <4>3. CASE w # v /\ ~ (w > v /\ Pos(w) > w)
        <5>1. /\ InTime(F, w, rep) /\ Pos(w) <= v /\ (w < v => w < Pos(w))
              /\ \A u \in 0 .. Pos(w) - 1 : u \in Voice /\ r[u] = rep[u]
          BY <1>2, <1>5, <1>6, <1>8, <4>3
        <5>2. InTime(G, w, r)'
          <6>1. /\ finished[w] <=> \A u \in 0 .. Pos(w) - 1 : r[u].finished
                /\ progress[w] <=> \E u \in 0 .. Pos(w) - 1 : r[u].progress
            BY <1>7, <4>3, <5>1 DEF InTime
          <6>2. Pos(w)' <= G /\ (w < G => w < Pos(w)')
            BY <1>2, <1>5, <1>6, <1>7, <3>1, <4>3, <5>1
          <6> QED
            BY <1>3, <1>7, <4>3, <6>1, <6>2 DEF InTime
        <5>3. ~ Old(G, w)'
          BY <1>5, <1>6, <1>7, <3>1, <4>3 DEF Old
        <5> QED
          BY <5>2, <5>3
      <4> QED
        BY <1>5, <1>6, <4>1, <4>2, <4>3
    <3>3. VerdictInv(G, r)'
      BY <1>3, <1>4, <1>5, <1>7, <2>1, <3>1 DEF VerdictInv, Turning
    <3>4. \A u, w \in Voice : u # w => (Pending(G, u, w)' <=> Pending(F, u, w) \/ u = v)
      <4> TAKE u, w \in Voice
      <4> HAVE u # w
      <4>1. CASE w = v
        BY <1>2, <1>5, <1>6, <3>1, <4>1 DEF Pending, Old
      <4>2. CASE w # v
        BY <1>2, <1>5, <1>6, <1>7, <1>8, <3>1, <4>2 DEF Pending, Old
      <4> QED
        BY <4>1, <4>2
    <3> QED
      BY <3>1, <3>2, <3>3, <3>4
  <2>2. CASE v = Voices - 1 /\ ~ AllFinished(r) /\ ~ NoneProgressed(r)
    <3>1. G = 0 /\ G \in 0 .. Voices /\ Pos(v)' = 0 /\ pc'[v] = "pass"
      BY <1>4, <1>5, <2>2 DEF NextFront, Pos, Turning
    <3>2. WhereInv(G, r)'
      <4> SUFFICES ASSUME NEW w \in Voice
                   PROVE  IF Old(G, w)' THEN Late(w, r)' ELSE InTime(G, w, r)'
        BY DEF WhereInv
      <4>1. CASE w = v
        BY <1>4, <1>5, <2>2, <3>1, <4>1 DEF Old, InTime
      <4>2. CASE w # v
        <5>1. /\ InTime(F, w, rep) /\ w < v /\ w < Pos(w) /\ Pos(w) <= v
              /\ \A u \in 0 .. Pos(w) - 1 : u \in Voice /\ r[u] = rep[u]
          BY <1>2, <1>5, <1>6, <1>8, <2>2, <4>2
        <5>2. Old(G, w)'
          <6>1. Pos(w)' = Pos(w) /\ w \in Nat /\ G = 0 /\ w < Pos(w)
            BY <1>6, <1>7, <3>1, <4>2, <5>1
          <6>2. w >= G /\ Pos(w)' > w
            BY <1>6, <6>1
          <6> QED
            BY <6>2 DEF Old
        <5>3. /\ finished[w] <=> \A u \in 0 .. Pos(w) - 1 : r[u].finished
              /\ progress[w] <=> \E u \in 0 .. Pos(w) - 1 : r[u].progress
          BY <1>7, <4>2, <5>1 DEF InTime
        <5>4. \A u \in Voice : u \in 0 .. Pos(w) - 1 \/ u \in Pos(w) .. Voices - 1
          BY <1>5, <1>6
        <5>5. Late(w, r)'
          BY <1>3, <1>7, <2>2, <4>2, <5>3, <5>4 DEF Late, AllFinished, NoneProgressed
        <5> QED
          BY <5>2, <5>5
      <4> QED
        BY <4>1, <4>2
    <3>3. VerdictInv(G, r)'
      BY <1>3, <1>5, <1>7, <3>1 DEF VerdictInv, Turning
    <3>4. \A u, w \in Voice : u # w => (Pending(G, u, w)' <=> Pending(F, u, w) \/ u = v)
      <4> TAKE u, w \in Voice
      <4> HAVE u # w
      <4>1. CASE w = v
        BY <1>2, <1>5, <1>6, <3>1, <4>1 DEF Pending, Old
      <4>2. CASE w # v
        BY <1>2, <1>5, <1>6, <1>7, <1>8, <2>2, <3>1, <4>2 DEF Pending, Old
      <4> QED
        BY <4>1, <4>2
    <3> QED
      BY <3>1, <3>2, <3>3, <3>4
  <2>3. CASE v = Voices - 1 /\ (AllFinished(r) \/ NoneProgressed(r))
    <3>1. /\ G = Voices /\ G \in 0 .. Voices
          /\ pc'[v] = IF AllFinished(r) THEN "rates" ELSE "deadlock"
      BY <1>4, <1>5, <2>3 DEF NextFront
    <3>2. Pos(v)' = Voices /\ pc'[v] \notin Turning
      BY <3>1 DEF Pos, Turning
    <3>3. WhereInv(G, r)'
      <4> SUFFICES ASSUME NEW w \in Voice
                   PROVE  IF Old(G, w)' THEN Late(w, r)' ELSE InTime(G, w, r)'
        BY DEF WhereInv
      <4>1. ~ Old(G, w)'
        BY <1>5, <1>6, <3>1 DEF Old
      <4>2. CASE w = v
        BY <1>5, <3>1, <3>2, <4>1, <4>2 DEF InTime
      <4>3. CASE w # v
        <5>1. /\ InTime(F, w, rep) /\ w < v /\ w < Pos(w) /\ Pos(w) <= v
              /\ \A u \in 0 .. Pos(w) - 1 : u \in Voice /\ r[u] = rep[u]
          BY <1>2, <1>5, <1>6, <1>8, <2>3, <4>3
        <5>2. InTime(G, w, r)'
          <6>1. /\ finished[w] <=> \A u \in 0 .. Pos(w) - 1 : r[u].finished
                /\ progress[w] <=> \E u \in 0 .. Pos(w) - 1 : r[u].progress
            BY <1>7, <4>3, <5>1 DEF InTime
          <6>2. Pos(w)' <= G /\ (w < G => w < Pos(w)')
            BY <1>2, <1>5, <1>6, <1>7, <3>1, <4>3, <5>1
          <6> QED
            BY <1>3, <1>7, <4>3, <6>1, <6>2 DEF InTime
        <5> QED
          BY <4>1, <5>2
      <4> QED
        BY <4>2, <4>3
    <3>4. VerdictInv(G, r)'
      <4>1. \A w \in Voice : w # v => pc'[w] \notin Connected /\ pc'[w] # "deadlock"
        BY <1>2, <1>3 DEF Connected
      <4> QED
        BY <1>5, <2>3, <3>1, <4>1 DEF VerdictInv, AllFinished, NoneProgressed, Connected
    <3>5. \A u, w \in Voice : u # w => (Pending(G, u, w)' <=> Pending(F, u, w) \/ u = v)
      <4> TAKE u, w \in Voice
      <4> HAVE u # w
      <4>1. CASE w = v
        BY <1>2, <1>5, <1>6, <3>1, <3>2, <4>1 DEF Pending, Old
      <4>2. CASE w # v
        BY <1>2, <1>5, <1>6, <1>7, <1>8, <2>3, <3>1, <4>2 DEF Pending, Old
      <4> QED
        BY <4>1, <4>2
    <3> QED
      BY <3>1, <3>3, <3>4, <3>5
  <2> QED
    BY <1>5, <2>1, <2>2, <2>3
<1>11. ChanInv(G, r)'
  BY <1>10, EndPassLinks
<1> QED
  BY <1>2, <1>9, <1>10, <1>11 DEF ControlInv

-----------------------------------------------------------------------------
\* What a voice can be served with: an announcement, the report of the voice that it
\* serves, which closes the turn, or the question of the one whose turn it is.
Reports(F, rep, u, v) ==
    /\ Pending(F, u, v) /\ Message(v, u) = rep[u] /\ Tail(chan[u][v]) = Post(u, v)

Questions(F, u, v) ==
    /\ u = F /\ Asks(u, v) /\ ~ Pending(F, u, v)
    /\ Message(v, u) = FindMsg(Lowest(todo[u]))
    /\ Tail(chan[u][v]) = <<>> /\ chan[v][u] = <<>>

LEMMA ServedMessage ==
    ASSUME TypeOK, NEW F, NEW rep, ControlInv(F, rep), NEW v \in Voice,
           pc[v] = "pass", pass[v] # v, NEW u, u = pass[v], Arrived(v, u)
    PROVE  /\ u \in Voice /\ u # v /\ Pos(v) = u
           /\ \/ Message(v, u) \in Anns(u)
              \/ Reports(F, rep, u, v)
              \/ Questions(F, u, v)
<1>1. /\ PassTypes /\ ChanTypes /\ F \in 0 .. Voices /\ WhereInv(F, rep) /\ LeadInv(F)
      /\ VerdictInv(F, rep) /\ ChanInv(F, rep) /\ rep \in [Voice -> Report]
  BY DEF TypeOK, ControlInv
<1>2. u \in Voice /\ u # v /\ Pos(v) = u /\ (u = F \/ Pending(F, u, v))
  BY <1>1, ServedIs
<1>3. Link(F, rep, u, v)
  BY <1>1, <1>2 DEF ChanInv
<1>4. /\ Message(v, u) = Head(chan[u][v]) /\ chan[u][v] # <<>>
      /\ chan[u][v] \in Seq(Msg(sys))
  BY <1>1, <1>2 DEF Message, Arrived, ChanTypes
<1>5. CASE Pending(F, u, v)
  <2>1. PICK s \in Seq(Msg(sys)) : EndsWith(s, Anns(u), rep[u]) /\ chan[u][v] = s \o Post(u, v)
    BY <1>3, <1>5 DEF Link
  <2>2. s # <<>>
    BY <2>1 DEF EndsWith
  <2>3. Post(u, v) \in Seq(Msg(sys))
    BY <1>2, PostType
  <2>4. Head(chan[u][v]) = Head(s) /\ Tail(chan[u][v]) = Tail(s) \o Post(u, v)
    BY <2>1, <2>2, <2>3, HeadTailConcat
  <2>5. \/ Head(s) = rep[u] /\ Tail(s) = <<>>
        \/ Head(s) \in Anns(u)
    BY <2>1, EndsWithTail
  <2>6. <<>> \o Post(u, v) = Post(u, v)
    BY <2>3, EmptyConcat
  <2> QED
    BY <1>2, <1>4, <1>5, <2>4, <2>5, <2>6 DEF Reports
<1>6. CASE ~ Pending(F, u, v) /\ Asks(u, v)
  <2>1. Asked(u, v, Lowest(todo[u]))
    BY <1>3, <1>4, <1>6 DEF Link, Answered
  <2>2. \/ Head(chan[u][v]) = FindMsg(Lowest(todo[u])) /\ Tail(chan[u][v]) = <<>>
        \/ Head(chan[u][v]) \in Anns(u)
    BY <1>4, <2>1, EndsWithTail DEF Asked
  <2> QED
    BY <1>2, <1>4, <1>6, <2>1, <2>2 DEF Asked, Questions
<1>7. CASE ~ Pending(F, u, v) /\ ~ Asks(u, v)
  <2>1. AllIn(chan[u][v], Anns(u))
    BY <1>2, <1>3, <1>7 DEF Link
  <2> QED
    BY <1>2, <1>4, <2>1, AllInTail
<1> QED
  BY <1>5, <1>6, <1>7

\* A message of this tag, then, is what it must be.
LEMMA ServedTags ==
    ASSUME TypeOK, NEW F, NEW rep, ControlInv(F, rep), NEW v \in Voice,
           pc[v] = "pass", pass[v] # v, NEW u, u = pass[v], Arrived(v, u)
    PROVE  /\ Message(v, u).tag \in {"ANNOUNCEOUTPUT", "ENDPHASE", "FINDOUTPUT"}
           /\ Message(v, u).tag = "ANNOUNCEOUTPUT" => Message(v, u) \in Anns(u)
           /\ Message(v, u).tag = "ENDPHASE" => Reports(F, rep, u, v)
           /\ Message(v, u).tag = "FINDOUTPUT" => Questions(F, u, v)
<1>1. /\ u \in Voice
      /\ \/ Message(v, u) \in Anns(u)
         \/ Reports(F, rep, u, v)
         \/ Questions(F, u, v)
  BY ServedMessage
<1>2. Message(v, u) \in Anns(u) => Message(v, u).tag = "ANNOUNCEOUTPUT"
  BY AnnFacts
<1>3. Reports(F, rep, u, v) => Message(v, u).tag = "ENDPHASE"
  BY <1>1, MsgFacts DEF Reports, ControlInv
<1>4. Questions(F, u, v) => Message(v, u).tag = "FINDOUTPUT"
  BY MsgTags DEF Questions
<1> QED
  BY <1>1, <1>2, <1>3, <1>4

\* An announcement leaves what follows it.
LEMMA ServeAnnounceControl ==
    ASSUME TypeOK, NEW F, NEW rep, ControlInv(F, rep), NEW v \in Voice, ServeAnnounce(v)
    PROVE  /\ ControlInv(F, rep)' /\ pc' = pc
           /\ Message(v, pass[v]) \in Anns(pass[v])
           /\ announced' = [announced EXCEPT ![v][pass[v]] = @ \cup {Message(v, pass[v]).name}]
<1>1. /\ PassTypes /\ ChanTypes /\ F \in 0 .. Voices /\ WhereInv(F, rep) /\ LeadInv(F)
      /\ VerdictInv(F, rep) /\ ChanInv(F, rep) /\ rep \in [Voice -> Report]
  BY DEF TypeOK, ControlInv
<1>0. PICK u \in Voice : u = pass[v]
  BY <1>1 DEF PassTypes
<1>2. /\ pc[v] = "pass" /\ u # v /\ Arrived(v, u) /\ Pulled(v, u)
      /\ Message(v, u).tag \notin {"ENDPHASE", "FINDOUTPUT"}
      /\ UNCHANGED <<sys, passVars, lookVars, seen, called, created, inputRemotes, routes, rates>>
  BY <1>0 DEF ServeAnnounce
<1>3. Message(v, u) \in Anns(u) /\ Message(v, u).tag = "ANNOUNCEOUTPUT"
  BY <1>0, <1>2, ServedTags
<1>4. u \in Voice /\ Pos(v) = u
  BY <1>0, <1>2, ServedMessage
<1>5. /\ pc' = pc
      /\ announced' = [announced EXCEPT ![v][u] = @ \cup {Message(v, u).name}]
  BY <1>0, <1>3 DEF ServeAnnounce
<1>6. /\ chan'[u][v] = Tail(chan[u][v]) /\ chan[u][v] \in Seq(Msg(sys)) /\ chan[u][v] # <<>>
      /\ Message(v, u) = Head(chan[u][v])
      /\ \A x, y \in Voice : x # u \/ y # v => chan'[x][y] = chan[x][y]
  BY <1>1, <1>2, <1>4, PulledEffect
<1>7. UNCHANGED <<sys, pc, pass, finished, progress, myFinished, myProgress, at,
                  todo, ask, created, inputRemotes, rates>>
  BY <1>2, <1>5 DEF passVars, lookVars
<1>8. \A x : Anns(x)' = Anns(x)
  BY <1>7 DEF Anns, Owned, AnnMsg
<1>9. /\ \A x, y \in Voice : Post(x, y)' = Post(x, y)
      /\ \A x, y \in Voice : Pending(F, x, y)' <=> Pending(F, x, y)
      /\ \A x, y \in Voice : Asks(x, y)' <=> Asks(x, y)
      /\ Msg(sys)' = Msg(sys)
  BY <1>7, PostSame DEF Pending, Old, Pos, Asks, Msg, Report
<1>10. WhereInv(F, rep)' /\ LeadInv(F)' /\ VerdictInv(F, rep)'
  BY <1>1, <1>7 DEF WhereInv, LeadInv, VerdictInv, Late, InTime, Old, Leads, Pos
<1>11. ChanInv(F, rep)'
  <2> SUFFICES ASSUME NEW x \in Voice, NEW y \in Voice, x # y PROVE Link(F, rep, x, y)'
    BY DEF ChanInv
  <2>1. Link(F, rep, x, y)
    BY <1>1 DEF ChanInv
  <2>2. CASE x # u \/ y # v
    <3>1. CASE Asks(x, y) => chan'[y][x] = chan[y][x]
      BY <1>6, <1>7, <1>9, <2>1, <2>2, <3>1, LinkSame
    <3>2. CASE Asks(x, y) /\ y = u /\ x = v
      BY <1>2, <3>2 DEF Asks
    <3> QED
      BY <1>6, <3>1, <3>2
  <2>3. CASE x = u /\ y = v
    <3>1. ASSUME Pending(F, u, v)
          PROVE  \E s \in Seq(Msg(sys)') :
                     EndsWith(s, Anns(u)', rep[u]) /\ chan'[u][v] = s \o Post(u, v)'
      <4>1. PICK s \in Seq(Msg(sys)) :
                EndsWith(s, Anns(u), rep[u]) /\ chan[u][v] = s \o Post(u, v)
        BY <2>1, <2>3, <3>1 DEF Link
      <4>2. s # <<>> /\ Post(u, v) \in Seq(Msg(sys))
        BY <1>4, <4>1, PostType DEF EndsWith
      <4>3. Head(chan[u][v]) = Head(s) /\ Tail(chan[u][v]) = Tail(s) \o Post(u, v)
        BY <4>1, <4>2, HeadTailConcat
      <4>4. Head(s) # rep[u]
        BY <1>1, <1>3, <1>4, <1>6, <4>3, MsgFacts
      <4>5. EndsWith(Tail(s), Anns(u), rep[u])
        BY <4>1, <4>4, EndsWithTail
      <4>6. Tail(s) \in Seq(Msg(sys))
        BY <4>2, HeadTail
      <4> QED
        BY <1>4, <1>6, <1>8, <1>9, <4>3, <4>5, <4>6
    <3>2. ASSUME Asks(u, v)
          PROVE  Asked(u, v, Lowest(todo[u]))'
      <4>1. Asked(u, v, Lowest(todo[u]))
        BY <1>6, <2>1, <2>3, <3>2 DEF Link, Answered
      <4>2. Head(chan[u][v]) # FindMsg(Lowest(todo[u]))
        BY <1>3, <1>6, MsgTags
      <4>3. EndsWith(Tail(chan[u][v]), Anns(u), FindMsg(Lowest(todo[u])))
        BY <1>6, <4>1, <4>2, EndsWithTail DEF Asked
      <4>4. chan'[v][u] = chan[v][u]
        BY <1>2, <1>4, <1>6
      <4> QED
        BY <1>6, <1>7, <1>8, <4>1, <4>3, <4>4 DEF Asked, Streams, FindMsg
    <3>3. ASSUME ~ Pending(F, u, v), u = F, ~ Asks(u, v)
          PROVE  AllIn(chan'[u][v], Anns(u)')
      <4>1. AllIn(chan[u][v], Anns(u))
        BY <2>1, <2>3, <3>3 DEF Link
      <4> QED
        BY <1>6, <1>8, <4>1, AllInTail
    <3>4. u = F \/ Pending(F, u, v)
      BY <1>0, <1>1, <1>2, ServedIs
    <3> QED
      BY <1>4, <1>9, <2>3, <3>1, <3>2, <3>3, <3>4 DEF Link
  <2> QED
    BY <2>2, <2>3
<1> QED
  BY <1>0, <1>1, <1>3, <1>5, <1>10, <1>11 DEF ControlInv

\* A report closes a turn for the voice that takes it; after the last one it goes on, or
\* comes to the verdict the others came to.
LEMMA ServeEndPhaseFacts ==
    ASSUME TypeOK, NEW F, NEW rep, ControlInv(F, rep), NEW v \in Voice, ServeEndPhase(v)
    PROVE  /\ pc[v] = "pass" /\ pass[v] \in Voice /\ pass[v] # v /\ Pos(v) = pass[v]
           /\ Pending(F, pass[v], v)
           /\ chan'[pass[v]][v] = Post(pass[v], v)
           /\ \A x, y \in Voice : x # pass[v] \/ y # v => chan'[x][y] = chan[x][y]
           /\ EndTurn(v, finished[v] /\ rep[pass[v]].finished,
                         progress[v] \/ rep[pass[v]].progress)
           /\ PassTypes' /\ ChanTypes'
<1>1. PassTypes /\ ChanTypes /\ sys \in Systems /\ rep \in [Voice -> Report]
  BY DEF TypeOK, ControlInv
<1>2. PICK u \in Voice : u = pass[v]
  BY <1>1 DEF PassTypes
<1>3. /\ pc[v] = "pass" /\ u # v /\ Arrived(v, u) /\ Message(v, u).tag = "ENDPHASE"
      /\ Pulled(v, u)
      /\ EndTurn(v, finished[v] /\ Message(v, u).finished, progress[v] \/ Message(v, u).progress)
  BY <1>2 DEF ServeEndPhase, Serves
<1>4. Reports(F, rep, u, v) /\ Pos(v) = u
  BY <1>2, <1>3, ServedTags, ServedMessage
<1>5. sys' = sys
  BY DEF ServeEndPhase
<1>6. /\ chan'[u][v] = Tail(chan[u][v]) /\ ChanTypes'
      /\ \A x, y \in Voice : x # u \/ y # v => chan'[x][y] = chan[x][y]
  BY <1>1, <1>3, <1>5, PulledEffect
<1>7. EndTurn(v, finished[v] /\ rep[u].finished, progress[v] \/ rep[u].progress)
  BY <1>3, <1>4 DEF Reports
<1>8. PassTypes'
  <2>1. PICK f \in BOOLEAN, p \in BOOLEAN : EndTurn(v, f, p)
    BY <1>1, <1>7, MsgFacts DEF PassTypes
  <2>2. /\ pc' \in [Voice -> Turning \cup Connected \cup {"deadlock", "error"}]
        /\ pass' \in [Voice -> Voice]
        /\ finished' \in [Voice -> BOOLEAN] /\ progress' \in [Voice -> BOOLEAN]
    BY <1>1, <2>1, EndTurnTypes
  <2> QED
    BY <1>1, <2>2 DEF PassTypes, ServeEndPhase
<1> QED
  BY <1>2, <1>3, <1>4, <1>6, <1>7, <1>8 DEF Reports

LEMMA ServeEndPhaseControl ==
    ASSUME TypeOK, NEW F, NEW rep, ControlInv(F, rep), NEW v \in Voice, ServeEndPhase(v)
    PROVE  ControlInv(F, rep)'
<1>1. /\ PassTypes /\ F \in 0 .. Voices /\ WhereInv(F, rep) /\ LeadInv(F)
      /\ VerdictInv(F, rep) /\ ChanInv(F, rep) /\ rep \in [Voice -> Report]
  BY DEF TypeOK, ControlInv
<1>2. PICK u \in Voice : u = pass[v]
  BY <1>1 DEF PassTypes
<1>3. /\ pc[v] = "pass" /\ u # v /\ Pos(v) = u /\ Pending(F, u, v)
      /\ chan'[u][v] = Post(u, v)
      /\ \A x, y \in Voice : x # u \/ y # v => chan'[x][y] = chan[x][y]
  BY <1>2, ServeEndPhaseFacts
<1>4. PICK f \in BOOLEAN, p \in BOOLEAN :
          /\ f = (finished[v] /\ rep[u].finished) /\ p = (progress[v] \/ rep[u].progress)
          /\ EndTurn(v, f, p)
  <2>1. EndTurn(v, finished[v] /\ rep[u].finished, progress[v] \/ rep[u].progress)
    BY <1>2, ServeEndPhaseFacts
  <2>2. /\ (finished[v] /\ rep[u].finished) \in BOOLEAN
        /\ (progress[v] \/ rep[u].progress) \in BOOLEAN
    OBVIOUS
  <2> QED
    BY <2>1, <2>2
<1>5. UNCHANGED <<sys, myFinished, myProgress, at, todo, ask, created, inputRemotes, rates>>
  BY DEF ServeEndPhase, lookVars, portVars
<1>6. \A w \in Voice : w # v => /\ pc'[w] = pc[w] /\ pass'[w] = pass[w]
                                /\ finished'[w] = finished[w] /\ progress'[w] = progress[w]
  BY <1>1, <1>4 DEF EndTurn, Set, PassTypes
<1>7. /\ u < Voices - 1 =>
           pc'[v] = "pass" /\ pass'[v] = u + 1 /\ finished'[v] = f /\ progress'[v] = p
      /\ u = Voices - 1 =>
           /\ pass'[v] = 0 /\ finished'[v] = TRUE /\ progress'[v] = FALSE
           /\ pc'[v] = IF f THEN "rates" ELSE IF p THEN "pass" ELSE "deadlock"
  <2>1. u \in Nat /\ Voices \in Nat
    BY VoiceFacts
  <2>2. ASSUME u < Voices - 1
        PROVE  /\ pass' = Set(pass, v, u + 1) /\ pc' = Set(pc, v, "pass")
               /\ finished' = Set(finished, v, f) /\ progress' = Set(progress, v, p)
    BY <1>2, <1>4, <2>2 DEF EndTurn
  <2>3. ASSUME u = Voices - 1
        PROVE  /\ pass' = Set(pass, v, 0)
               /\ pc' = Set(pc, v, IF f THEN "rates" ELSE IF p THEN "pass" ELSE "deadlock")
               /\ finished' = Set(finished, v, TRUE) /\ progress' = Set(progress, v, FALSE)
    <3>1. ~ (pass[v] < Voices - 1)
      BY <1>2, <2>1, <2>3
    <3> QED
      BY <1>4, <3>1 DEF EndTurn
  <2>4. \A g, x : DOMAIN g = Voice => Set(g, v, x)[v] = x
    BY DEF Set
  <2>5. DOMAIN pc = Voice /\ DOMAIN pass = Voice /\ DOMAIN finished = Voice
          /\ DOMAIN progress = Voice
    BY <1>1 DEF PassTypes
  <2> QED
    BY <2>2, <2>3, <2>4, <2>5
<1>8. /\ Voices \in Nat /\ Voices >= 1 /\ v \in Nat /\ v < Voices /\ u \in Nat
      /\ u <= Voices - 1 /\ F \in Nat /\ F <= Voices /\ Voice = 0 .. Voices - 1
  BY <1>1, VoiceFacts DEF Voice
<1>9. \A w \in Voice : w \in Nat /\ w < Voices /\ Pos(w) \in Nat
  BY <1>1, VoiceFacts DEF Pos, PassTypes
<1>10. \A w \in Voice : w # v => Pos(w)' = Pos(w) /\ (Old(F, w)' <=> Old(F, w))
  BY <1>6 DEF Pos, Old
<1>11. LeadInv(F)' /\ pc'[v] \in {"pass", "rates", "deadlock"}
  <2>1. ~ Leads(F, v) /\ \A w \in Voice : w # v => (Leads(F, w)' <=> Leads(F, w))
    BY <1>3, <1>10 DEF Leads
  <2>2. pc'[v] \in {"pass", "rates", "deadlock"}
    BY <1>7, <1>8
  <2> QED
    BY <1>1, <1>5, <1>6, <2>1, <2>2 DEF LeadInv
<1>12. pc[v] \in Turning /\ pc'[v] \in Early /\ pc[v] \in Early
  BY <1>3, <1>11 DEF Turning, Early
<1>13. \A w \in Voice : w # v =>
           IF Old(F, w)' THEN Late(w, rep)' ELSE InTime(F, w, rep)'
  BY <1>1, <1>6, <1>10 DEF WhereInv, Late, InTime
<1>14. /\ IF Old(F, v)' THEN Late(v, rep)' ELSE InTime(F, v, rep)'
       /\ VerdictInv(F, rep)'
       /\ \A x \in Voice : Pending(F, x, v)' <=> Pending(F, x, v) /\ x # u
  <2>0. IF Old(F, v) THEN Late(v, rep) ELSE InTime(F, v, rep)
    BY <1>1 DEF WhereInv
  <2>1. CASE u < Voices - 1
    <3>1. Pos(v)' = u + 1 /\ pc'[v] = "pass" /\ pc'[v] \in Turning
      BY <1>7, <2>1 DEF Pos, Turning
    <3>2. \A w \in Voice : pc'[w] \in Turning <=> pc[w] \in Turning
      BY <1>6, <1>12, <3>1
    <3>3. VerdictInv(F, rep)'
      <4>1. \A w \in Voice : /\ pc'[w] \in Connected => pc[w] \in Connected
                             /\ pc'[w] = "deadlock" => pc[w] = "deadlock"
        BY <1>6, <3>1 DEF Connected
      <4> QED
        BY <1>1, <3>2, <4>1 DEF VerdictInv
    <3>4. CASE Old(F, v)
      <4>1. Old(F, v)'
        BY <1>3, <1>8, <3>1, <3>4 DEF Old
      <4>2. \A x : x \in u .. Voices - 1 <=> x = u \/ x \in u + 1 .. Voices - 1
        BY <1>8
      <4>3. Late(v, rep)'
        <5>1. /\ ~ (finished[v] /\ \A x \in u .. Voices - 1 : rep[x].finished)
              /\ progress[v] \/ \E x \in u .. Voices - 1 : rep[x].progress
          BY <1>3, <2>0, <3>4 DEF Late
        <5>2. finished'[v] = f /\ progress'[v] = p
          BY <1>7, <2>1
        <5> QED
          BY <1>4, <3>1, <4>2, <5>1, <5>2 DEF Late
      <4>4. \A x \in Voice : Pending(F, x, v)' <=> Pending(F, x, v) /\ x # u
        <5>1. F <= v /\ v < u
          BY <1>3, <1>8, <3>4 DEF Old
        <5>2. \A x \in Voice : /\ Pending(F, x, v) <=> x >= u \/ x < F
                               /\ Pending(F, x, v)' <=> x >= u + 1 \/ x < F
          BY <1>3, <3>1, <3>4, <4>1 DEF Pending
        <5> QED
          BY <1>8, <1>9, <5>1, <5>2
      <4> QED
        BY <3>3, <4>1, <4>3, <4>4
    <3>5. CASE ~ Old(F, v)
      <4>1. u < F
        BY <1>3, <3>5 DEF Pending
      <4>2. ~ Old(F, v)'
        BY <1>3, <1>8, <3>1, <3>5, <4>1 DEF Old
      <4>3. \A x : x \in 0 .. u <=> x = u \/ x \in 0 .. u - 1
        BY <1>8
      <4>4. InTime(F, v, rep)'
        <5>1. /\ v < F => v < u
              /\ finished[v] <=> \A x \in 0 .. u - 1 : rep[x].finished
              /\ progress[v] <=> \E x \in 0 .. u - 1 : rep[x].progress
          BY <1>3, <1>12, <2>0, <3>5 DEF InTime
        <5>2. finished'[v] = f /\ progress'[v] = p
          BY <1>7, <2>1
        <5>3. Pos(v)' <= F /\ (v < F => v < Pos(v)')
          BY <1>8, <3>1, <4>1, <5>1
        <5>4. /\ f <=> \A x \in 0 .. u : rep[x].finished
              /\ p <=> \E x \in 0 .. u : rep[x].progress
          BY <1>4, <4>3, <5>1
        <5>5. /\ finished'[v] <=> \A x \in 0 .. Pos(v)' - 1 : rep[x].finished
              /\ progress'[v] <=> \E x \in 0 .. Pos(v)' - 1 : rep[x].progress
          <6>1. Pos(v)' - 1 = u
            BY <1>8, <3>1
          <6>2. finished'[v] <=> f
            BY <5>2
          <6>3. progress'[v] <=> p
            BY <5>2
          <6> QED
            BY <5>4, <6>1, <6>2, <6>3, Zenon
        <5> QED
          BY <5>3, <5>5 DEF InTime
      <4>5. \A x \in Voice : Pending(F, x, v)' <=> Pending(F, x, v) /\ x # u
        BY <1>3, <1>8, <1>9, <3>1, <3>5, <4>2 DEF Pending
      <4> QED
        BY <3>3, <4>2, <4>4, <4>5
    <3> QED
      BY <3>4, <3>5
  <2>2. CASE u = Voices - 1
    <3>1. /\ pass'[v] = 0 /\ finished'[v] = TRUE /\ progress'[v] = FALSE
          /\ pc'[v] = IF f THEN "rates" ELSE IF p THEN "pass" ELSE "deadlock"
      BY <1>7, <2>2
    <3>2. CASE Old(F, v)
      <4>1. ~ f /\ p
        <5>1. /\ ~ (finished[v] /\ \A x \in u .. Voices - 1 : rep[x].finished)
              /\ progress[v] \/ \E x \in u .. Voices - 1 : rep[x].progress
          BY <1>3, <2>0, <3>2 DEF Late
        <5>2. \A x \in u .. Voices - 1 : x = u
          BY <1>8, <2>2
        <5>3. u \in u .. Voices - 1
          BY <1>8
        <5> QED
          BY <1>4, <5>1, <5>2, <5>3
      <4>2. pc'[v] = "pass" /\ Pos(v)' = 0
        BY <3>1, <4>1 DEF Pos, Turning
      <4>3. F <= v /\ v < u /\ ~ Old(F, v)'
        BY <1>3, <1>8, <3>2, <4>2 DEF Old
      <4>4. InTime(F, v, rep)'
        BY <1>8, <3>1, <4>2, <4>3 DEF InTime
      <4>5. VerdictInv(F, rep)'
        <5>1. \A w \in Voice : /\ pc'[w] \in Connected => pc[w] \in Connected
                               /\ pc'[w] = "deadlock" => pc[w] = "deadlock"
                               /\ pc'[w] \in Turning <=> pc[w] \in Turning
          BY <1>6, <1>12, <4>2 DEF Connected, Turning
        <5> QED
          BY <1>1, <5>1 DEF VerdictInv
      <4>6. \A x \in Voice : Pending(F, x, v)' <=> Pending(F, x, v) /\ x # u
        BY <1>3, <1>8, <1>9, <2>2, <3>2, <4>2, <4>3 DEF Pending
      <4> QED
        BY <4>3, <4>4, <4>5, <4>6
    <3>3. CASE ~ Old(F, v)
      <4>1. F = Voices
        BY <1>3, <1>8, <2>2, <3>3 DEF Pending
      <4>2. /\ f <=> \A x \in Voice : rep[x].finished
            /\ p <=> \E x \in Voice : rep[x].progress
        <5>1. /\ finished[v] <=> \A x \in 0 .. u - 1 : rep[x].finished
              /\ progress[v] <=> \E x \in 0 .. u - 1 : rep[x].progress
          BY <1>3, <1>12, <2>0, <3>3 DEF InTime
        <5>2. \A x : x \in Voice <=> x = u \/ x \in 0 .. u - 1
          BY <1>8, <2>2
        <5> QED
          BY <1>4, <5>1, <5>2
      <4>3. (\A x \in Voice : rep[x].finished) \/ (\A x \in Voice : ~ rep[x].progress)
        BY <1>1, <4>1 DEF VerdictInv
      <4>4. pc'[v] = IF f THEN "rates" ELSE "deadlock"
        BY <3>1, <4>2, <4>3
      <4>5. Pos(v)' = Voices /\ pc'[v] \notin Turning
        BY <4>4 DEF Pos, Turning
      <4>6. ~ Old(F, v)'
        BY <1>8, <4>1 DEF Old
      <4>7. InTime(F, v, rep)'
        BY <1>8, <4>1, <4>5 DEF InTime
      <4>8. VerdictInv(F, rep)'
        <5>1. ~ (F < Voices)
          BY <1>8, <4>1
        <5>2. \A w \in Voice : /\ pc'[w] \in Connected => \A x \in Voice : rep[x].finished
                               /\ pc'[w] = "deadlock" => ~ \A x \in Voice : rep[x].finished
          BY <1>1, <1>6, <4>1, <4>2, <4>4 DEF VerdictInv, Connected
        <5> QED
          BY <1>1, <4>3, <5>1, <5>2 DEF VerdictInv
      <4>9. \A x \in Voice : Pending(F, x, v)' <=> Pending(F, x, v) /\ x # u
        BY <1>3, <1>8, <1>9, <2>2, <3>3, <4>5, <4>6 DEF Pending
      <4> QED
        BY <4>6, <4>7, <4>8, <4>9
    <3> QED
      BY <3>2, <3>3
  <2> QED
    BY <1>8, <2>1, <2>2
<1>15. WhereInv(F, rep)'
  BY <1>13, <1>14 DEF WhereInv
<1>16. \A x, y \in Voice : Post(x, y)' = Post(x, y)
  BY <1>5, <1>6, <1>12, PostEarly
<1>17. \A x, y \in Voice : Asks(x, y)' <=> Asks(x, y)
  BY <1>3, <1>5, <1>6, <1>11 DEF Asks
<1>18. ChanInv(F, rep)'
  <2> SUFFICES ASSUME NEW x \in Voice, NEW y \in Voice, x # y PROVE Link(F, rep, x, y)'
    BY DEF ChanInv
  <2>1. Link(F, rep, x, y)
    BY <1>1 DEF ChanInv
  <2>2. CASE x = u /\ y = v
    <3>1. ~ Pending(F, u, v)' /\ u # F
      <4>1. ~ Pending(F, u, v)'
        BY <1>14
      <4>2. u # F
        BY <1>3, <1>8, <1>9 DEF Pending, Old
      <4> QED
        BY <4>1, <4>2
    <3>2. ~ Asks(u, v) /\ ~ Asks(v, u)
      BY <1>1, <1>3, <3>1 DEF Asks, LeadInv, Leads
    <3> QED
      BY <1>3, <1>16, <1>17, <2>2, <3>1, <3>2 DEF Link
  <2>3. CASE ~ (x = u /\ y = v)
    <3>1. Pending(F, x, y)' <=> Pending(F, x, y)
      BY <1>10, <1>14, <2>3 DEF Pending
    <3>2. chan'[x][y] = chan[x][y]
      BY <1>3, <2>3
    <3>3. Asks(x, y) => chan'[y][x] = chan[y][x]
      BY <1>3 DEF Asks
    <3> QED
      BY <1>5, <1>16, <1>17, <2>1, <3>1, <3>2, <3>3, LinkSame
  <2> QED
    BY <2>2, <2>3
<1> QED
  BY <1>1, <1>11, <1>14, <1>15, <1>18 DEF ControlInv

\* The id of the stream for an output: one in use for it, or else a new one.
LEMMA StreamIdIs ==
    ASSUME PortTypes, NEW v \in Voice, NEW o
    PROVE  /\ MsgStreamID(v, o) \in Nat
           /\ \/ \E i \in DOMAIN inputRemotes[v] :
                    inputRemotes[v][i].name = o /\ MsgStreamID(v, o) = inputRemotes[v][i].stream
              \/ /\ \A i \in DOMAIN inputRemotes[v] : inputRemotes[v][i].name # o
                 /\ MsgStreamID(v, o) = Len(inputRemotes[v])
<1> DEFINE same == {i \in DOMAIN inputRemotes[v] : inputRemotes[v][i].name = o}
<1>1. /\ inputRemotes[v] \in Seq(Entry(sys)) /\ Len(inputRemotes[v]) \in Nat
      /\ DOMAIN inputRemotes[v] = 1 .. Len(inputRemotes[v])
      /\ \A i \in DOMAIN inputRemotes[v] : inputRemotes[v][i] \in Entry(sys)
  BY DEF PortTypes
<1>2. CASE same = {}
  <2>1. MsgStreamID(v, o) = Len(inputRemotes[v])
    BY <1>2 DEF MsgStreamID
  <2> QED
    BY <1>1, <1>2, <2>1
<1>3. CASE same # {}
  <2>1. same \subseteq Nat
    BY <1>1
  <2>2. Lowest(same) \in same
    BY <1>3, <2>1, LowestIs
  <2>3. MsgStreamID(v, o) = inputRemotes[v][Lowest(same)].stream
    BY <1>3 DEF MsgStreamID
  <2>4. PICK i \in DOMAIN inputRemotes[v] :
            inputRemotes[v][i].name = o /\ MsgStreamID(v, o) = inputRemotes[v][i].stream
    BY <2>2, <2>3
  <2>5. inputRemotes[v][i].stream \in Nat
    BY <1>1 DEF Entry
  <2> QED
    BY <2>4, <2>5
<1> QED
  BY <1>2, <1>3

\* The question is for an output of this voice; it is found.
NewEntry(v, o, u) == [name |-> o, stream |-> MsgStreamID(v, o), to |-> u]

LEMMA NewEntryType ==
    ASSUME PortTypes, NEW v \in Voice, NEW u \in Voice, NEW o \in Output(sys)
    PROVE  NewEntry(v, o, u) \in Entry(sys)
<1>1. MsgStreamID(v, o) \in Nat
  BY StreamIdIs
<1> QED
  BY <1>1 DEF NewEntry, Entry

Finds(F, v, u, o) ==
    /\ u = pass[v] /\ u # v /\ u = F /\ Asks(u, v) /\ ~ Pending(F, u, v)
    /\ o = Lowest(todo[u]) /\ o \in Owned(v)
    /\ chan[v][u] = <<>> /\ chan'[u][v] = <<>>
    /\ chan'[v][u] = <<FoundMsg(MsgStreamID(v, o))>>
    /\ \A x, y \in Voice : (x # u \/ y # v) /\ (x # v \/ y # u) => chan'[x][y] = chan[x][y]
    /\ inputRemotes' = Set(inputRemotes, v, Append(inputRemotes[v], NewEntry(v, o, u)))

LEMMA ServeFindIs ==
    ASSUME TypeOK, LookInv, NEW F, NEW rep, ControlInv(F, rep), NEW v \in Voice, ServeFind(v)
    PROVE  /\ pc[v] = "pass" /\ ChanTypes'
           /\ \E u \in Voice, o \in Output(sys) : Finds(F, v, u, o)
<1>1. PassTypes /\ LookTypes /\ PortTypes /\ ChanTypes /\ sys \in Systems
  BY DEF TypeOK
<1>2. PICK u \in Voice : u = pass[v]
  BY <1>1 DEF PassTypes
<1>3. /\ pc[v] = "pass" /\ u # v /\ Arrived(v, u) /\ Message(v, u).tag = "FINDOUTPUT"
  BY <1>2 DEF ServeFind, Serves
<1>4. Questions(F, u, v)
  BY <1>2, <1>3, ServedTags
<1>5. pc[u] = "reply" /\ ask[u] = v /\ todo[u] # {} /\ Lowest(todo[u]) \in Owned(v)
  BY <1>4 DEF Questions, Asks, LookInv, LookAt
<1>6. PICK o \in Output(sys) : o = Lowest(todo[u])
  BY <1>1, <1>5, SoughtIs
<1>7. /\ Message(v, u).name = o /\ o \in created /\ sys.home[sys.owner[o]] = v
      /\ o \in Owned(v)
  BY <1>4, <1>5, <1>6, MsgTags DEF Questions, Owned
<1>8. /\ chan' = [chan EXCEPT ![u][v] = Tail(@), ![v][u] = Append(@, FoundMsg(MsgStreamID(v, o)))]
      /\ inputRemotes' = Set(inputRemotes, v, Append(inputRemotes[v], NewEntry(v, o, u)))
  BY <1>2, <1>7 DEF ServeFind, FoundMsg, NewEntry
<1>9. FoundMsg(MsgStreamID(v, o)) \in Msg(sys)
  BY <1>1, StreamIdIs, MsgFacts
<1>10. chan[u][v] # <<>> /\ sys' = sys
  BY <1>3 DEF Arrived, ServeFind
<1>11. /\ ChanTypes' /\ chan'[u][v] = Tail(chan[u][v])
       /\ chan'[v][u] = Append(chan[v][u], FoundMsg(MsgStreamID(v, o)))
       /\ \A x, y \in Voice : (x # u \/ y # v) /\ (x # v \/ y # u) =>
              chan'[x][y] = chan[x][y]
  BY <1>1, <1>3, <1>8, <1>9, <1>10, AnswerEffect
<1>12. Append(<<>>, FoundMsg(MsgStreamID(v, o))) = <<FoundMsg(MsgStreamID(v, o))>>
  BY <1>9, OneMessage
<1>13. /\ u = F /\ Asks(u, v) /\ ~ Pending(F, u, v) /\ Tail(chan[u][v]) = <<>>
       /\ chan[v][u] = <<>>
  BY <1>4 DEF Questions
<1>14. /\ chan'[u][v] = <<>> /\ chan'[v][u] = <<FoundMsg(MsgStreamID(v, o))>>
  BY <1>11, <1>12, <1>13
<1>15. Finds(F, v, u, o)
  BY <1>2, <1>3, <1>6, <1>7, <1>8, <1>11, <1>13, <1>14 DEF Finds
<1> QED
  BY <1>3, <1>11, <1>15

LEMMA ServeFindControl ==
    ASSUME TypeOK, LookInv, NEW F, NEW rep, ControlInv(F, rep), NEW v \in Voice, ServeFind(v)
    PROVE  ControlInv(F, rep)'
<1>1. /\ PassTypes /\ LookTypes /\ PortTypes /\ ChanTypes /\ F \in 0 .. Voices
      /\ sys \in Systems /\ WhereInv(F, rep) /\ LeadInv(F) /\ VerdictInv(F, rep)
      /\ ChanInv(F, rep)
  BY DEF TypeOK, ControlInv
<1>2. PICK u \in Voice, o \in Output(sys) : Finds(F, v, u, o)
  BY ServeFindIs
<1>3. /\ u = F /\ u # v /\ Asks(u, v) /\ ~ Pending(F, u, v) /\ o = Lowest(todo[u])
      /\ chan'[u][v] = <<>> /\ chan'[v][u] = <<FoundMsg(MsgStreamID(v, o))>>
      /\ \A x, y \in Voice : (x # u \/ y # v) /\ (x # v \/ y # u) => chan'[x][y] = chan[x][y]
      /\ inputRemotes' = Set(inputRemotes, v, Append(inputRemotes[v], NewEntry(v, o, u)))
  BY <1>2 DEF Finds
<1>4. UNCHANGED <<sys, pc, pass, finished, progress, myFinished, myProgress, at,
                  todo, ask, created, rates>>
  BY DEF ServeFind, passVars, lookVars
<1>5. \A x, y \in Voice : /\ Post(x, y)' = Post(x, y)
                          /\ Pending(F, x, y)' <=> Pending(F, x, y)
                          /\ Asks(x, y)' <=> Asks(x, y)
  BY <1>4, PostSame DEF Pending, Old, Pos, Asks
<1>6. WhereInv(F, rep)' /\ LeadInv(F)' /\ VerdictInv(F, rep)'
  BY <1>1, <1>4 DEF WhereInv, LeadInv, VerdictInv, Late, InTime, Old, Leads, Pos
<1>7. \A x, y \in Voice : Asks(x, y) => x = u /\ y = v
  BY <1>1, <1>3 DEF Asks, LeadInv, Leads
<1>8. /\ ~ Pending(F, v, u)
      /\ pc[u] = "reply"
  <2>1. pc[u] = "reply"
    BY <1>3 DEF Asks
  <2> QED
    BY <1>1, <2>1, LeaderIs
<1>9. Answered(u, v, o)'
  <2>1. /\ inputRemotes[v] \in Seq(Entry(sys)) /\ Len(inputRemotes[v]) \in Nat
        /\ NewEntry(v, o, u) \in Entry(sys)
    <3>1. NewEntry(v, o, u) \in Entry(sys)
      BY <1>1, NewEntryType
    <3>2. inputRemotes[v] \in Seq(Entry(sys))
      BY <1>1 DEF PortTypes
    <3> QED
      BY <3>1, <3>2
  <2>2. inputRemotes'[v] = Append(inputRemotes[v], NewEntry(v, o, u))
    BY <1>1, <1>3 DEF Set, PortTypes
  <2> DEFINE n == Len(inputRemotes[v]) + 1
  <2>3. n \in DOMAIN inputRemotes'[v] /\ inputRemotes'[v][n] = NewEntry(v, o, u)
    BY <2>1, <2>2
  <2>4. inputRemotes'[v][n].stream = MsgStreamID(v, o)
          /\ inputRemotes'[v][n].name = o /\ inputRemotes'[v][n].to = u
    BY <2>3 DEF NewEntry
  <2> HIDE DEF n
  <2>5. chan'[v][u] = <<FoundMsg(inputRemotes'[v][n].stream)>>
    BY <1>3, <2>4
  <2>6. \E i \in DOMAIN inputRemotes'[v] :
            /\ inputRemotes'[v][i].name = o /\ inputRemotes'[v][i].to = u
            /\ chan'[v][u] = <<FoundMsg(inputRemotes'[v][i].stream)>>
    BY <2>3, <2>4, <2>5
  <2> QED
    BY <1>3, <2>6 DEF Answered, Streams, FoundMsg
<1>10. ChanInv(F, rep)'
  <2> SUFFICES ASSUME NEW x \in Voice, NEW y \in Voice, x # y PROVE Link(F, rep, x, y)'
    BY DEF ChanInv
  <2>1. Link(F, rep, x, y)
    BY <1>1 DEF ChanInv
  <2>2. CASE x = u /\ y = v
    <3>1. Lowest(todo[u])' = o
      BY <1>3, <1>4 DEF Lowest
    <3> QED
      BY <1>3, <1>5, <1>9, <2>2, <3>1 DEF Link
  <2>3. CASE x = v /\ y = u
    BY <1>3, <1>5, <1>7, <1>8, <2>3 DEF Link
  <2>4. CASE ~ (x = u /\ y = v) /\ ~ (x = v /\ y = u)
    <3>1. chan'[x][y] = chan[x][y] /\ ~ Asks(x, y)
      BY <1>3, <1>7, <2>4
    <3> QED
      BY <1>4, <1>5, <2>1, <3>1, LinkSame
  <2> QED
    BY <2>2, <2>3, <2>4
<1> QED
  BY <1>1, <1>6, <1>10 DEF ControlInv

-----------------------------------------------------------------------------
\* After the connect phase: a voice that has left it has had every report, and finds on
\* its channels what was sent after the connect phase.
LEMMA AfterFacts ==
    ASSUME TypeOK, NEW F, NEW rep, ControlInv(F, rep), NEW v \in Voice, pc[v] \in Connected
    PROVE  /\ F = Voices /\ Pos(v) = Voices
           /\ \A u \in Voice : ~ Pending(F, u, v)
           /\ \A x, y \in Voice : ~ Asks(x, y)
           /\ \A u \in Voice : u # v => chan[u][v] = Post(u, v)
<1>1. /\ F \in 0 .. Voices /\ LeadInv(F) /\ VerdictInv(F, rep) /\ ChanInv(F, rep)
  BY DEF ControlInv
<1>2. pc[v] \notin Turning /\ Pos(v) = Voices
  BY DEF Turning, Connected, Pos
<1>3. F = Voices
  <2>1. Voices \in Nat
    BY VoiceFacts
  <2>2. ~ (F < Voices)
    BY <1>1, <1>2 DEF VerdictInv
  <2> QED
    BY <1>1, <2>1, <2>2
<1>4. \A u \in Voice : ~ Pending(F, u, v)
  BY <1>2, <1>3, VoiceFacts DEF Pending, Old
<1>5. \A x, y \in Voice : ~ Asks(x, y)
  <2>1. \A x \in Voice : ~ Leads(F, x)
    BY <1>3, VoiceFacts DEF Leads
  <2> QED
    BY <1>1, <2>1 DEF LeadInv, Asks
<1>6. \A u \in Voice : u # v => chan[u][v] = Post(u, v)
  <2> SUFFICES ASSUME NEW u \in Voice, u # v PROVE chan[u][v] = Post(u, v)
    OBVIOUS
  <2>1. Link(F, rep, u, v) /\ u # F
    BY <1>1, <1>3, VoiceFacts DEF ChanInv
  <2> QED
    BY <1>4, <1>5, <2>1 DEF Link
<1> QED
  BY <1>2, <1>3, <1>4, <1>5, <1>6

\* A channel keeps step with what is sent and taken.
Keeps(v, x, y) ==
    \/ chan'[x][y] = chan[x][y] /\ Post(x, y)' = Post(x, y)
    \/ y = v /\ chan'[x][y] = Post(x, y)'
    \/ \E m \in Msg(sys) : /\ chan'[x][y] = Append(chan[x][y], m)
                           /\ Post(x, y)' = Append(Post(x, y), m)

LEMMA AfterControl ==
    ASSUME TypeOK, NEW F, NEW rep, ControlInv(F, rep), NEW v \in Voice, pc[v] \in Connected,
           pc'[v] \in Connected, \A w \in Voice : w # v => pc'[w] = pc[w],
           UNCHANGED <<sys, pass, finished, progress, myFinished, myProgress, at, created>>,
           \A x, y \in Voice : x # y => Keeps(v, x, y)
    PROVE  ControlInv(F, rep)'
<1>1. /\ F \in 0 .. Voices /\ rep \in [Voice -> Report] /\ WhereInv(F, rep) /\ LeadInv(F)
      /\ VerdictInv(F, rep) /\ ChanInv(F, rep)
  BY DEF ControlInv
<1>2. /\ F = Voices /\ Pos(v) = Voices
      /\ \A u \in Voice : ~ Pending(F, u, v)
      /\ \A x, y \in Voice : ~ Asks(x, y)
  BY AfterFacts
<1>3. /\ pc[v] \notin Turning /\ pc'[v] \notin Turning
      /\ pc'[v] \notin {"look", "reply", "deadlock"} /\ pc[v] \notin {"look", "reply"}
  BY DEF Turning, Connected
<1>4. \A w \in Voice : /\ pc'[w] \in Turning <=> pc[w] \in Turning
                       /\ pc'[w] \in Connected <=> pc[w] \in Connected
                       /\ Pos(w)' = Pos(w)
  BY <1>3 DEF Pos
<1>5. \A w \in Voice : Old(F, w)' <=> Old(F, w)
  BY <1>4 DEF Old
<1>6. WhereInv(F, rep)'
  BY <1>1, <1>4, <1>5 DEF WhereInv, Late, InTime
<1>7. LeadInv(F)'
  BY <1>1, <1>3, <1>4 DEF LeadInv, Leads
<1>8. VerdictInv(F, rep)'
  BY <1>1, <1>3, <1>4 DEF VerdictInv
<1>9. /\ \A x, y \in Voice : Pending(F, x, y)' <=> Pending(F, x, y)
      /\ \A x, y \in Voice : ~ Asks(x, y)'
      /\ \A x \in Voice : x # F
  <2>1. \A x, y \in Voice : ~ Asks(x, y)'
    <3>1. \A x \in Voice : ~ Leads(F, x)'
      BY <1>2, VoiceFacts DEF Leads
    <3> QED
      BY <1>7, <3>1 DEF Asks, LeadInv
  <2> QED
    BY <1>2, <1>4, <1>5, <2>1, VoiceFacts DEF Pending
<1>10. ChanInv(F, rep)'
  <2> SUFFICES ASSUME NEW x \in Voice, NEW y \in Voice, x # y PROVE Link(F, rep, x, y)'
    BY DEF ChanInv
  <2>1. Link(F, rep, x, y) /\ Keeps(v, x, y)
    BY <1>1 DEF ChanInv
  <2>2. Anns(x)' = Anns(x) /\ Msg(sys)' = Msg(sys)
    BY DEF Anns, Owned, AnnMsg, Msg, Report
  <2>3. CASE ~ Pending(F, x, y)
    <3>1. chan[x][y] = Post(x, y)
      BY <1>2, <1>9, <2>1, <2>3 DEF Link
    <3>2. chan'[x][y] = Post(x, y)'
      BY <2>1, <3>1 DEF Keeps
    <3> QED
      BY <1>9, <2>3, <3>2 DEF Link
  <2>4. CASE Pending(F, x, y)
    <3>1. PICK s \in Seq(Msg(sys)) : EndsWith(s, Anns(x), rep[x]) /\ chan[x][y] = s \o Post(x, y)
      BY <2>1, <2>4 DEF Link
    <3>2. y # v
      BY <1>2, <2>4
    <3>3. chan'[x][y] = s \o Post(x, y)'
      <4>1. CASE chan'[x][y] = chan[x][y] /\ Post(x, y)' = Post(x, y)
        BY <3>1, <4>1
      <4>2. ASSUME NEW m \in Msg(sys), chan'[x][y] = Append(chan[x][y], m),
                   Post(x, y)' = Append(Post(x, y), m)
            PROVE  chan'[x][y] = s \o Post(x, y)'
        <5>1. PICK t \in Seq(Msg(sys)) : t = Post(x, y)
          BY PostType
        <5>2. PICK c, d : c = Append(s \o t, m) /\ d = s \o Append(t, m)
          OBVIOUS
        <5>3. c = d
          BY <5>2, AppendConcat
        <5> QED
          BY <3>1, <4>2, <5>1, <5>2, <5>3
      <4> QED
        BY <2>1, <3>2, <4>1, <4>2 DEF Keeps
    <3>4. \E t \in Seq(Msg(sys)') : EndsWith(t, Anns(x)', rep[x]) /\ chan'[x][y] = t \o Post(x, y)'
      BY <2>2, <3>1, <3>3
    <3> QED
      BY <1>9, <2>4, <3>4 DEF Link
  <2> QED
    BY <2>3, <2>4
<1> QED
  BY <1>1, <1>6, <1>7, <1>8, <1>10 DEF ControlInv

\* The sample rates go to the master.
LEMMA PushRatesControl ==
    ASSUME TypeOK, RateInv, NEW F, NEW rep, ControlInv(F, rep), NEW v \in Voice, PushRates(v)
    PROVE  ControlInv(F, rep)'
<1>1. PassTypes /\ ChanTypes /\ Master \in Voice
  BY VoiceFacts DEF TypeOK
<1>2. /\ pc[v] = "rates" /\ v # Master /\ pc'[v] = "baserate"
      /\ \A w \in Voice : w # v => pc'[w] = pc[w]
  BY <1>1 DEF PushRates, Set, PassTypes
<1>3. UNCHANGED <<sys, pass, finished, progress, myFinished, myProgress, at, created,
                  ask, rates>>
  BY DEF PushRates, passVars, lookVars, portVars
<1>4. Send(v, Master, RatesMsg) /\ RatesMsg \in Msg(sys)
  BY MsgFacts DEF PushRates, RatesMsg
<1>5. /\ chan'[v][Master] = Append(chan[v][Master], RatesMsg)
      /\ \A x, y \in Voice : x # v \/ y # Master => chan'[x][y] = chan[x][y]
  BY <1>1, <1>3, <1>4, SendEffect
<1>6. Post(v, Master) = <<>> /\ Post(v, Master)' = <<RatesMsg>>
  <2>1. Post(v, Master) = <<>>
    BY <1>1, <1>2, NoPost DEF AfterRates
  <2>2. v \notin rates[Master]
    BY <1>2 DEF RateInv, AfterRates
  <2>3. RateSent(v, Master)' /\ ~ SyncSent(v, Master)'
    BY <1>2, <1>3, <2>2 DEF RateSent, SyncSent, AfterRates, AfterSync
  <2> QED
    BY <1>1, <2>1, <2>3, PostNext
<1>7. \A x, y \in Voice : x # y /\ (x # v \/ y # Master) => Post(x, y)' = Post(x, y)
  <2> SUFFICES ASSUME NEW x \in Voice, NEW y \in Voice, x # y, x # v \/ y # Master
               PROVE  Post(x, y)' = Post(x, y)
    OBVIOUS
  <2>1. \A z \in Voice : /\ pc'[z] \in AfterBase <=> pc[z] \in AfterBase
                         /\ pc'[z] \in AfterSync <=> pc[z] \in AfterSync
                         /\ pc'[z] = "run" <=> pc[z] = "run"
                         /\ pc'[z] = "synchronizing" <=> pc[z] = "synchronizing"
    BY <1>2 DEF AfterBase, AfterSync
  <2>2. RateSent(x, y)' <=> RateSent(x, y)
    BY <1>2, <1>3 DEF RateSent
  <2>3. (BaseSent(x, y)' <=> BaseSent(x, y)) /\ (SyncSent(x, y)' <=> SyncSent(x, y))
    BY <1>3, <2>1 DEF BaseSent, SyncSent
  <2> QED
    BY <2>2, <2>3 DEF Post, RatesMsg, BaseMsg, SyncMsg
<1>8. Append(<<>>, RatesMsg) = <<RatesMsg>>
  OBVIOUS
<1>9. \A x, y \in Voice : x # y => Keeps(v, x, y)
  BY <1>4, <1>5, <1>6, <1>7, <1>8 DEF Keeps
<1> QED
  BY <1>2, <1>3, <1>9, AfterControl DEF Connected

LEMMA CollectRatesControl ==
    ASSUME TypeOK, RateInv, NEW F, NEW rep, ControlInv(F, rep), CollectRates
    PROVE  /\ ControlInv(F, rep)' /\ pc' = pc
           /\ \E w \in Voice : /\ w # Master /\ pc[w] \in AfterRates
                               /\ rates[Master] = 1 .. w - 1
                               /\ rates' = Set(rates, Master, rates[Master] \cup {w})
<1>1. /\ PassTypes /\ ChanTypes /\ Master \in Voice /\ rates \in [Voice -> SUBSET Voice]
      /\ Master = 0 /\ Voices \in Nat
  BY VoiceFacts DEF TypeOK
<1>2. pc[Master] = "rates"
  BY DEF CollectRates
<1>3. PICK k \in 0 .. Voices - 1 : rates[Master] = 1 .. k
  BY <1>2 DEF RateInv
<1>4. Cardinality(rates[Master]) = k
  BY <1>1, <1>3, FS_Interval
<1>5. PICK w \in Voice :
          /\ w = k + 1 /\ Arrived(Master, w) /\ Pulled(Master, w)
          /\ pc' = Set(pc, Master,
                       IF Message(Master, w).tag = "PUSHRATES" THEN "rates" ELSE "error")
          /\ rates' = Set(rates, Master, rates[Master] \cup {w})
  BY <1>4 DEF CollectRates, Expect
<1>6. w # Master /\ rates[Master] = 1 .. w - 1 /\ w \notin rates[Master]
  BY <1>1, <1>3, <1>5
<1>7. UNCHANGED <<sys, pass, finished, progress, myFinished, myProgress, at, created, ask>>
  BY DEF CollectRates, passVars, lookVars, portVars
<1>8. /\ chan'[w][Master] = Tail(chan[w][Master]) /\ chan[w][Master] # <<>>
      /\ Message(Master, w) = Head(chan[w][Master])
      /\ \A x, y \in Voice : x # w \/ y # Master => chan'[x][y] = chan[x][y]
  BY <1>1, <1>5, <1>7, PulledEffect
<1>9. chan[w][Master] = Post(w, Master)
  BY <1>1, <1>2, <1>6, AfterFacts DEF Connected
<1>10. pc[w] \in AfterRates /\ ~ SyncSent(w, Master) /\ RateSent(w, Master)
  <2>1. pc[w] \in AfterRates
    BY <1>1, <1>8, <1>9, NoPost
  <2>2. \A z \in Voice : pc[z] \notin AfterBase
    BY <1>2 DEF RateInv, AfterBase
  <2>3. ~ SyncSent(w, Master)
    BY <2>2 DEF SyncSent, AfterSync, AfterBase
  <2> QED
    BY <1>6, <2>1, <2>3 DEF RateSent
<1>11. chan[w][Master] = <<RatesMsg>>
  BY <1>1, <1>9, <1>10, PostCases
<1>12. Head(<<RatesMsg>>) = RatesMsg /\ Tail(<<RatesMsg>>) = <<>>
  OBVIOUS
<1>13. pc' = Set(pc, Master, "rates") /\ chan'[w][Master] = <<>>
  BY <1>5, <1>8, <1>11, <1>12, MsgTags
<1>14. pc' = pc
  BY <1>1, <1>2, <1>13 DEF Set, PassTypes
<1>15. \A x, y \in Voice : /\ BaseSent(x, y)' <=> BaseSent(x, y)
                           /\ SyncSent(x, y)' <=> SyncSent(x, y)
  BY <1>7, <1>14 DEF BaseSent, SyncSent
<1>16. /\ w \in rates'[Master]
       /\ \A x \in Voice : x # w => (x \in rates'[Master] <=> x \in rates[Master])
  BY <1>1, <1>5 DEF Set
<1>17. Post(w, Master)' = <<>>
  <2>1. ~ RateSent(w, Master)'
    BY <1>16 DEF RateSent
  <2>2. ~ BaseSent(w, Master)
    BY DEF BaseSent
  <2>3. ~ BaseSent(w, Master)' /\ ~ SyncSent(w, Master)'
    BY <1>1, <1>10, <1>15, <2>2
  <2> QED
    BY <1>1, <2>1, <2>3, PostNext
<1>18. \A x, y \in Voice : x # w \/ y # Master => Post(x, y)' = Post(x, y)
  <2> SUFFICES ASSUME NEW x \in Voice, NEW y \in Voice, x # w \/ y # Master
               PROVE  Post(x, y)' = Post(x, y)
    OBVIOUS
  <2>1. RateSent(x, y)' <=> RateSent(x, y)
    BY <1>14, <1>16 DEF RateSent
  <2> QED
    BY <1>15, <2>1 DEF Post, RatesMsg, BaseMsg, SyncMsg
<1>19. \A x, y \in Voice : x # y => Keeps(Master, x, y)
  BY <1>8, <1>13, <1>17, <1>18 DEF Keeps
<1>20. ControlInv(F, rep)'
  BY <1>1, <1>2, <1>7, <1>14, <1>19, AfterControl DEF Connected
<1> QED
  BY <1>5, <1>6, <1>10, <1>14, <1>20

\* The base rate goes from the master to the others.
LEMMA PushBaseRateControl ==
    ASSUME TypeOK, RateInv, NEW F, NEW rep, ControlInv(F, rep), PushBaseRate
    PROVE  ControlInv(F, rep)'
<1>1. /\ PassTypes /\ ChanTypes /\ Master \in Voice /\ rates \in [Voice -> SUBSET Voice]
  BY VoiceFacts DEF TypeOK
<1>2. /\ pc[Master] = "rates" /\ pc'[Master] = "sync"
      /\ \A w \in Voice : w # Master => pc'[w] = pc[w]
      /\ rates[Master] = Voice \ {Master} /\ rates'[Master] = Voice
  BY <1>1 DEF PushBaseRate, Set, PassTypes
<1>3. UNCHANGED <<sys, pass, finished, progress, myFinished, myProgress, at, created, ask>>
  BY DEF PushBaseRate, passVars, lookVars, portVars
<1>4. /\ Broadcast(Master, <<BaseMsg>>) /\ BaseMsg \in Msg(sys)
      /\ <<BaseMsg>> \in Seq(Msg(sys))
  BY MsgFacts, OneMessage DEF PushBaseRate, BaseMsg
<1>5. /\ \A w \in Voice : w # Master => chan'[Master][w] = chan[Master][w] \o <<BaseMsg>>
      /\ \A x, y \in Voice : x # Master => chan'[x][y] = chan[x][y]
  BY <1>1, <1>3, <1>4, BroadcastEffect
<1>6. \A z \in Voice : pc[z] \notin AfterBase /\ pc[z] \notin AfterSync
  BY <1>2 DEF RateInv, AfterBase, AfterSync
<1>7. \A z \in Voice : /\ z # Master => pc'[z] \notin AfterBase /\ pc'[z] \notin AfterSync
                       /\ pc'[z] \notin AfterSync
  BY <1>2, <1>6 DEF AfterSync
<1>8. \A x, y \in Voice : ~ SyncSent(x, y) /\ ~ SyncSent(x, y)'
  BY <1>6, <1>7 DEF SyncSent
<1>9. ASSUME NEW w \in Voice, w # Master
      PROVE  Post(Master, w) = <<>> /\ Post(Master, w)' = <<BaseMsg>>
  <2>1. Post(Master, w) = <<>>
    BY <1>1, <1>2, NoPost DEF AfterRates
  <2>2. BaseSent(Master, w)' /\ ~ SyncSent(Master, w)'
    BY <1>1, <1>2, <1>7, <1>8, <1>9 DEF BaseSent, AfterBase
  <2> QED
    BY <1>1, <2>1, <2>2, PostNext
<1>10. ASSUME NEW x \in Voice, NEW y \in Voice, x # Master
       PROVE  Post(x, y)' = Post(x, y)
  <2>1. RateSent(x, y)' <=> RateSent(x, y)
    BY <1>2, <1>10 DEF RateSent
  <2>2. ~ BaseSent(x, y)' /\ ~ BaseSent(x, y)
    BY <1>10 DEF BaseSent
  <2> QED
    BY <1>8, <2>1, <2>2 DEF Post, RatesMsg, BaseMsg, SyncMsg
<1>11. ASSUME NEW x \in Voice, NEW y \in Voice, x # y PROVE Keeps(Master, x, y)
  <2>1. CASE x # Master
    BY <1>5, <1>10, <2>1 DEF Keeps
  <2>2. CASE x = Master
    <3>1. PICK t \in Seq(Msg(sys)) : t = chan[Master][y]
      BY <1>1 DEF ChanTypes
    <3>2. t \o <<BaseMsg>> = Append(t, BaseMsg)
      BY <1>4, AppendIsConcat
    <3>3. Append(<<>>, BaseMsg) = <<BaseMsg>>
      OBVIOUS
    <3> QED
      BY <1>4, <1>5, <1>9, <1>11, <2>2, <3>1, <3>2, <3>3 DEF Keeps
  <2> QED
    BY <2>1, <2>2
<1> QED
  BY <1>1, <1>2, <1>3, <1>11, AfterControl DEF Connected

\* A voice that takes the base rate.
LEMMA TakeBaseRateControl ==
    ASSUME TypeOK, RateInv, NEW F, NEW rep, ControlInv(F, rep), NEW v \in Voice,
           TakeBaseRate(v)
    PROVE  /\ ControlInv(F, rep)' /\ pc[v] = "baserate" /\ v # Master /\ pc[Master] \in AfterBase
           /\ pc' = Set(pc, v, "sync") /\ rates' = Set(rates, v, Voice)
<1>1. PassTypes /\ ChanTypes /\ Master \in Voice /\ rates \in [Voice -> SUBSET Voice]
  BY VoiceFacts DEF TypeOK
<1>2. /\ pc[v] = "baserate" /\ Arrived(v, Master) /\ Pulled(v, Master)
      /\ pc' = Set(pc, v, IF Message(v, Master).tag = "PUSHBASERATE" THEN "sync" ELSE "error")
      /\ v # Master
  BY DEF TakeBaseRate, Expect, RateInv
<1>3. UNCHANGED <<sys, pass, finished, progress, myFinished, myProgress, at, created, ask>>
  BY DEF TakeBaseRate, passVars, lookVars, portVars
<1>4. /\ chan'[Master][v] = Tail(chan[Master][v]) /\ chan[Master][v] # <<>>
      /\ Message(v, Master) = Head(chan[Master][v])
      /\ \A x, y \in Voice : x # Master \/ y # v => chan'[x][y] = chan[x][y]
  BY <1>1, <1>2, <1>3, PulledEffect
<1>5. chan[Master][v] = Post(Master, v)
  BY <1>1, <1>2, AfterFacts DEF Connected
<1>6. ~ RateSent(Master, v)
  BY <1>2 DEF RateSent
<1>7. BaseSent(Master, v)
  <2>1. SyncSent(Master, v) => BaseSent(Master, v)
    BY <1>2 DEF SyncSent, BaseSent, AfterSync, AfterBase
  <2>2. SyncSent(Master, v) \/ BaseSent(Master, v)
    BY <1>1, <1>4, <1>5, <1>6, PostCases
  <2> QED
    BY <2>1, <2>2
<1>8. pc[Master] \in AfterBase
  BY <1>7 DEF BaseSent
<1>9. Head(chan[Master][v]) = BaseMsg
  <2>1. chan[Master][v] = <<BaseMsg>> \/ chan[Master][v] = <<BaseMsg, SyncMsg>>
    BY <1>1, <1>5, <1>7, PostCases
  <2>2. Head(<<BaseMsg>>) = BaseMsg
    OBVIOUS
  <2> QED
    BY <2>1, <2>2, ShortConcat
<1>10. /\ pc' = Set(pc, v, "sync") /\ rates' = Set(rates, v, Voice)
  BY <1>2, <1>4, <1>9, MsgTags DEF TakeBaseRate
<1>11. /\ pc'[v] = "sync" /\ \A w \in Voice : w # v => pc'[w] = pc[w]
       /\ rates'[Master] = rates[Master]
  BY <1>1, <1>2, <1>10 DEF Set, PassTypes
<1>12. \A z \in Voice : /\ pc'[z] \in AfterRates <=> pc[z] \in AfterRates
                        /\ pc'[z] \in AfterSync <=> pc[z] \in AfterSync
                        /\ z # v => (pc'[z] \in AfterBase <=> pc[z] \in AfterBase)
                        /\ pc'[z] = "run" <=> pc[z] = "run"
                        /\ pc'[z] = "synchronizing" <=> pc[z] = "synchronizing"
  BY <1>2, <1>11 DEF AfterRates, AfterSync
<1>13. \A x, y \in Voice : /\ RateSent(x, y)' <=> RateSent(x, y)
                           /\ SyncSent(x, y)' <=> SyncSent(x, y)
  BY <1>3, <1>11, <1>12 DEF RateSent, SyncSent
<1>14. \A x, y \in Voice : x # Master \/ y # v => (BaseSent(x, y)' <=> BaseSent(x, y))
  BY <1>2, <1>12 DEF BaseSent
<1>15. ~ BaseSent(Master, v)'
  BY <1>11 DEF BaseSent, AfterBase
<1>16. chan'[Master][v] = Post(Master, v)'
  <2>1. CASE SyncSent(Master, v)
    <3>1. chan[Master][v] = <<BaseMsg, SyncMsg>>
      BY <1>1, <1>5, <1>7, <2>1, PostCases
    <3>2. Post(Master, v)' = <<SyncMsg>>
      <4>1. ~ RateSent(Master, v)' /\ ~ BaseSent(Master, v)' /\ SyncSent(Master, v)'
        BY <1>1, <1>6, <1>13, <1>15, <2>1
      <4> QED
        BY <1>1, <4>1, PostNext
    <3> QED
      BY <1>4, <3>1, <3>2, ShortConcat
  <2>2. CASE ~ SyncSent(Master, v)
    <3>1. chan[Master][v] = <<BaseMsg>>
      BY <1>1, <1>5, <1>7, <2>2, PostCases
    <3>2. Post(Master, v)' = <<>>
      <4>1. ~ RateSent(Master, v)' /\ ~ BaseSent(Master, v)' /\ ~ SyncSent(Master, v)'
        BY <1>1, <1>6, <1>13, <1>15, <2>2
      <4> QED
        BY <1>1, <4>1, PostNext
    <3>3. Tail(<<BaseMsg>>) = <<>>
      OBVIOUS
    <3> QED
      BY <1>4, <3>1, <3>2, <3>3
  <2> QED
    BY <2>1, <2>2
<1>17. ASSUME NEW x \in Voice, NEW y \in Voice, x # y PROVE Keeps(v, x, y)
  <2>1. CASE x = Master /\ y = v
    BY <1>16, <2>1 DEF Keeps
  <2>2. CASE x # Master \/ y # v
    <3>1. Post(x, y)' = Post(x, y)
      BY <1>13, <1>14, <2>2 DEF Post, RatesMsg, BaseMsg, SyncMsg
    <3> QED
      BY <1>4, <2>2, <3>1 DEF Keeps
  <2> QED
    BY <2>1, <2>2
<1>18. ControlInv(F, rep)'
  BY <1>2, <1>3, <1>11, <1>17, AfterControl DEF Connected
<1> QED
  BY <1>2, <1>8, <1>10, <1>18

\* The barrier.
LEMMA SyncControl ==
    ASSUME TypeOK, RateInv, NEW F, NEW rep, ControlInv(F, rep), NEW v \in Voice, Sync(v)
    PROVE  ControlInv(F, rep)'
<1>1. PassTypes /\ LookTypes /\ ChanTypes /\ Master \in Voice
  BY VoiceFacts DEF TypeOK
<1>2. /\ pc[v] = "sync" /\ pc'[v] = "synchronizing" /\ ask'[v] = 0
      /\ \A w \in Voice : w # v => pc'[w] = pc[w] /\ ask'[w] = ask[w]
  BY <1>1 DEF Sync, Set, PassTypes, LookTypes
<1>3. UNCHANGED <<sys, pass, finished, progress, myFinished, myProgress, at, created, rates>>
  BY DEF Sync, passVars, portVars
<1>4. /\ Broadcast(v, <<SyncMsg>>) /\ SyncMsg \in Msg(sys) /\ <<SyncMsg>> \in Seq(Msg(sys))
  BY MsgFacts, OneMessage DEF Sync, SyncMsg
<1>5. /\ \A w \in Voice : w # v => chan'[v][w] = chan[v][w] \o <<SyncMsg>>
      /\ \A x, y \in Voice : x # v => chan'[x][y] = chan[x][y]
  BY <1>1, <1>3, <1>4, BroadcastEffect
<1>6. \A z \in Voice : /\ pc'[z] \in AfterRates <=> pc[z] \in AfterRates
                       /\ pc'[z] \in AfterBase <=> pc[z] \in AfterBase
                       /\ z # v => (pc'[z] \in AfterSync <=> pc[z] \in AfterSync)
                       /\ pc'[z] = "run" <=> pc[z] = "run"
  BY <1>2 DEF AfterRates, AfterBase
<1>7. \A x, y \in Voice : /\ RateSent(x, y)' <=> RateSent(x, y)
                          /\ BaseSent(x, y)' <=> BaseSent(x, y)
  BY <1>3, <1>6 DEF RateSent, BaseSent
<1>8. ASSUME NEW w \in Voice, w # v
      PROVE  ~ SyncSent(v, w) /\ SyncSent(v, w)'
  <2>1. pc[v] \notin AfterSync /\ pc'[v] \in AfterSync
    BY <1>2 DEF AfterSync
  <2>2. pc'[w] # "run"
    BY <1>2, <2>1 DEF RateInv
  <2>3. ASSUME pc'[w] = "synchronizing", ask'[w] > v PROVE FALSE
    <3>1. pc[w] = "synchronizing" /\ ask[w] > v
      BY <1>2, <1>8, <2>3
    <3>2. v < ask[w]
      BY <1>1, <3>1, VoiceFacts DEF LookTypes
    <3> QED
      BY <1>8, <2>1, <3>1, <3>2 DEF RateInv
  <2> QED
    BY <2>1, <2>2, <2>3 DEF SyncSent
<1>9. ASSUME NEW w \in Voice, w # v
      PROVE  Post(v, w)' = Append(Post(v, w), SyncMsg)
  <2>1. Append(<<>>, SyncMsg) = <<SyncMsg>>
    OBVIOUS
  <2>2. ~ RateSent(v, w)
    <3>1. rates[v] = Voice /\ (w = Master => w \in Voice)
      BY <1>2 DEF RateInv, AfterBase
    <3>2. w = Master /\ v # Master => v \in rates[Master]
      <4>1. pc[Master] \in AfterBase
        BY <1>2 DEF RateInv, AfterBase
      <4> QED
        BY <1>1, <4>1 DEF RateInv
    <3> QED
      BY <1>9, <3>2 DEF RateSent
  <2>3. CASE BaseSent(v, w)
    <3>1. Post(v, w) = <<BaseMsg>>
      BY <1>8, <1>9, <2>3, PostCases
    <3>2. (BaseSent(v, w) /\ SyncSent(v, w))'
      BY <1>7, <1>8, <1>9, <2>3
    <3>3. Post(v, w)' = <<BaseMsg, SyncMsg>>
      BY <3>2, PostNext
    <3> QED
      BY <3>1, <3>3, ShortConcat
  <2>4. CASE ~ BaseSent(v, w)
    <3>1. Post(v, w) = <<>>
      BY <1>8, <1>9, <2>2, <2>4, PostCases
    <3>2. (~ RateSent(v, w) /\ ~ BaseSent(v, w) /\ SyncSent(v, w))'
      BY <1>7, <1>8, <1>9, <2>2, <2>4
    <3>3. Post(v, w)' = <<SyncMsg>>
      BY <3>2, PostNext
    <3> QED
      BY <2>1, <3>1, <3>3
  <2> QED
    BY <2>3, <2>4
<1>10. ASSUME NEW x \in Voice, NEW y \in Voice, x # v
       PROVE  Post(x, y)' = Post(x, y)
  <2>1. SyncSent(x, y)' <=> SyncSent(x, y)
    <3>1. CASE y # v
      <4>1. /\ pc'[x] \in AfterSync <=> pc[x] \in AfterSync
            /\ pc'[y] = pc[y] /\ ask'[y] = ask[y]
        BY <1>2, <1>6, <1>10, <3>1
      <4> QED
        BY <4>1 DEF SyncSent
    <3>2. CASE y = v
      <4>1. ~ (ask'[v] > x)
        BY <1>2, VoiceFacts
      <4> QED
        BY <1>2, <1>6, <1>10, <3>2, <4>1 DEF SyncSent
    <3> QED
      BY <3>1, <3>2
  <2> QED
    BY <1>7, <2>1 DEF Post, RatesMsg, BaseMsg, SyncMsg
<1>11. ASSUME NEW x \in Voice, NEW y \in Voice, x # y PROVE Keeps(v, x, y)
  <2>1. CASE x # v
    BY <1>5, <1>10, <2>1 DEF Keeps
  <2>2. CASE x = v
    <3>1. PICK t \in Seq(Msg(sys)) : t = chan[v][y]
      BY <1>1 DEF ChanTypes
    <3>2. t \o <<SyncMsg>> = Append(t, SyncMsg)
      BY <1>4, AppendIsConcat
    <3>3. chan'[x][y] = Append(chan[x][y], SyncMsg)
      BY <1>5, <1>11, <2>2, <3>1, <3>2
    <3>4. Post(x, y)' = Append(Post(x, y), SyncMsg)
      BY <1>9, <1>11, <2>2
    <3> QED
      BY <1>4, <3>3, <3>4 DEF Keeps
  <2> QED
    BY <2>1, <2>2
<1> QED
  BY <1>2, <1>3, <1>11, AfterControl DEF Connected

LEMMA SynchronizeControl ==
    ASSUME TypeOK, RateInv, NEW F, NEW rep, ControlInv(F, rep), NEW v \in Voice, Synchronize(v)
    PROVE  /\ ControlInv(F, rep)' /\ pc' = pc
           /\ ask[v] # v => pc[ask[v]] \in AfterSync
<1>1. PassTypes /\ LookTypes /\ ChanTypes /\ Master \in Voice
  BY VoiceFacts DEF TypeOK
<1>2. PICK w \in Voice : w = ask[v]
  BY DEF Synchronize
<1>3. /\ pc[v] = "synchronizing" /\ ask'[v] = w + 1
      /\ \A x \in Voice : x # v => ask'[x] = ask[x]
  BY <1>1, <1>2 DEF Synchronize, Set, LookTypes
<1>4. UNCHANGED <<sys, pass, finished, progress, myFinished, myProgress, at, created, rates>>
  BY DEF Synchronize, passVars, portVars
<1>5. \A x \in Voice : x \in Nat
  BY VoiceFacts
<1>6. CASE w = v
  <2>1. pc' = pc /\ chan' = chan
    BY <1>2, <1>6 DEF Synchronize
  <2>2. ASSUME NEW x \in Voice, NEW y \in Voice, x # y PROVE Post(x, y)' = Post(x, y)
    <3>1. y = v => (ask'[y] > x <=> ask[y] > x)
      <4>1. x \in Nat /\ v \in Nat /\ ask[v] = v /\ ask'[v] = v + 1
        BY <1>2, <1>3, <1>5, <1>6
      <4>2. y = v => x # v
        BY <2>2
      <4>3. x # v => (ask'[v] > x <=> ask[v] > x)
        BY <4>1
      <4> QED
        BY <4>2, <4>3
    <3> QED
      BY <1>3, <1>4, <2>1, <3>1, PostSame
  <2>3. \A x, y \in Voice : x # y => Keeps(v, x, y)
    BY <2>1, <2>2 DEF Keeps
  <2> QED
    BY <1>2, <1>3, <1>4, <1>6, <2>1, <2>3, AfterControl DEF Connected
<1>7. CASE w # v
  <2>1. /\ Arrived(v, w) /\ Pulled(v, w)
        /\ pc' = Set(pc, v, IF Message(v, w).tag = "SYNC" THEN "synchronizing" ELSE "error")
    BY <1>2, <1>7 DEF Synchronize, Expect
  <2>2. /\ chan'[w][v] = Tail(chan[w][v]) /\ chan[w][v] # <<>>
        /\ Message(v, w) = Head(chan[w][v])
        /\ \A x, y \in Voice : x # w \/ y # v => chan'[x][y] = chan[x][y]
    BY <1>1, <1>4, <2>1, PulledEffect
  <2>3. chan[w][v] = Post(w, v)
    BY <1>3, <1>7, AfterFacts DEF Connected
  <2>4. ~ RateSent(w, v) /\ ~ BaseSent(w, v)
    <3>1. pc[v] \in AfterBase /\ rates[v] = Voice
      BY <1>3 DEF RateInv, AfterBase
    <3> QED
      BY <3>1 DEF RateSent, BaseSent
  <2>5. SyncSent(w, v) /\ pc[w] \in AfterSync
    <3>1. SyncSent(w, v)
      BY <2>2, <2>3, <2>4, PostCases
    <3> QED
      BY <3>1 DEF SyncSent
  <2>6. chan[w][v] = <<SyncMsg>>
    BY <2>3, <2>4, <2>5, PostCases
  <2>7. Head(<<SyncMsg>>) = SyncMsg /\ Tail(<<SyncMsg>>) = <<>>
    OBVIOUS
  <2>8. pc' = Set(pc, v, "synchronizing") /\ chan'[w][v] = <<>>
    BY <2>1, <2>2, <2>6, <2>7, MsgTags
  <2>9. pc' = pc
    BY <1>1, <1>3, <2>8 DEF Set, PassTypes
  <2>10. Post(w, v)' = <<>>
    <3>1. (~ RateSent(w, v) /\ ~ BaseSent(w, v))'
      BY <1>4, <2>4, <2>9 DEF RateSent, BaseSent
    <3>2. ~ SyncSent(w, v)'
      <4>1. pc'[v] = "synchronizing" /\ ask'[v] > w
        BY <1>3, <1>5, <2>9
      <4> QED
        BY <4>1 DEF SyncSent
    <3> QED
      BY <3>1, <3>2, PostNext
  <2>11. ASSUME NEW x \in Voice, NEW y \in Voice, x # w \/ y # v
         PROVE  Post(x, y)' = Post(x, y)
    <3>1. y = v => (ask'[y] > x <=> ask[y] > x)
      BY <1>2, <1>3, <1>5, <2>11
    <3> QED
      BY <1>3, <1>4, <2>9, <3>1, PostSame
  <2>12. \A x, y \in Voice : x # y => Keeps(v, x, y)
    BY <2>2, <2>8, <2>10, <2>11 DEF Keeps
  <2>13. ControlInv(F, rep)'
    BY <1>3, <1>4, <2>9, <2>12, AfterControl DEF Connected
  <2> QED
    BY <1>2, <2>5, <2>9, <2>13
<1> QED
  BY <1>6, <1>7

LEMMA OpenedControl ==
    ASSUME TypeOK, RateInv, NEW F, NEW rep, ControlInv(F, rep), NEW v \in Voice, Opened(v)
    PROVE  /\ ControlInv(F, rep)' /\ pc[v] = "synchronizing" /\ pc' = Set(pc, v, "run")
           /\ \A u \in Voice : pc[u] \in AfterSync
<1>1. PassTypes /\ LookTypes /\ ChanTypes
  BY DEF TypeOK
<1>2. /\ pc[v] = "synchronizing" /\ pc'[v] = "run"
      /\ \A w \in Voice : w # v => pc'[w] = pc[w]
  BY <1>1 DEF Opened, Set, PassTypes
<1>3. UNCHANGED <<sys, pass, finished, progress, myFinished, myProgress, at, created,
                  rates, ask, chan>>
  BY DEF Opened, passVars, portVars, lookVars
<1>4. \A u \in Voice : u < ask[v] /\ ask[v] > u
  <2>1. ask[v] \in Nat /\ ask[v] \notin Voice
    BY <1>1 DEF LookTypes, Opened
  <2> QED
    BY <2>1, VoiceFacts
<1>5. \A u \in Voice : pc[u] \in AfterSync
  <2> TAKE u \in Voice
  <2>1. CASE u # v
    BY <1>2, <1>4, <2>1 DEF RateInv
  <2>2. CASE u = v
    BY <1>2, <2>2 DEF AfterSync
  <2> QED
    BY <2>1, <2>2
<1>6. \A z \in Voice : /\ pc'[z] \in AfterRates <=> pc[z] \in AfterRates
                       /\ pc'[z] \in AfterBase <=> pc[z] \in AfterBase
                       /\ pc'[z] \in AfterSync <=> pc[z] \in AfterSync
  BY <1>2 DEF AfterRates, AfterBase, AfterSync
<1>7. ASSUME NEW x \in Voice, NEW y \in Voice PROVE Post(x, y)' = Post(x, y)
  <2>1. RateSent(x, y)' <=> RateSent(x, y)
    BY <1>3, <1>6 DEF RateSent
  <2>2. BaseSent(x, y)' <=> BaseSent(x, y)
    BY <1>6 DEF BaseSent
  <2>3. SyncSent(x, y)' <=> SyncSent(x, y)
    <3>1. CASE y # v
      <4>1. pc'[y] = pc[y] /\ ask'[y] = ask[y]
        BY <1>2, <1>3, <3>1
      <4> QED
        BY <1>6, <4>1 DEF SyncSent
    <3>2. CASE y = v
      BY <1>2, <1>4, <3>2 DEF SyncSent
    <3> QED
      BY <3>1, <3>2
  <2> QED
    BY <2>1, <2>2, <2>3 DEF Post, RatesMsg, BaseMsg, SyncMsg
<1>8. \A x, y \in Voice : x # y => Keeps(v, x, y)
  BY <1>3, <1>7 DEF Keeps
<1>9. ControlInv(F, rep)'
  BY <1>2, <1>3, <1>8, AfterControl DEF Connected
<1> QED
  BY <1>2, <1>5, <1>9 DEF Opened

-----------------------------------------------------------------------------
\* Types.  No step of a voice ends in an error.
Fine == Turning \cup Connected \cup {"deadlock"}

LEMMA PcNext ==
    ASSUME TypeOK, LookInv, RateInv, NEW F, NEW rep, ControlInv(F, rep), NEW v \in Voice,
           Step(v), pc \in [Voice -> Fine]
    PROVE  pc' \in [Voice -> Fine]
<1>1. \A x \in Fine : Set(pc, v, x) \in [Voice -> Fine]
  BY DEF Set
<1>2. {"pass", "look", "reply", "rates", "baserate", "sync", "synchronizing", "run",
       "deadlock"} \subseteq Fine
  BY DEF Fine, Turning, Connected
<1>3. CASE PassOver(v) \/ FindHere(v) \/ NotFound(v) \/ ServeFind(v)
  BY <1>3 DEF PassOver, FindHere, NotFound, ServeFind
<1>4. CASE BeginProcess(v)
  BY <1>1, <1>2, <1>4 DEF BeginProcess
<1>5. CASE Ask(v)
  BY <1>1, <1>2, <1>5 DEF Ask
<1>6. CASE Reply(v)
  <2>1. pc'[v] = "look" /\ \E x : pc' = Set(pc, v, x)
    <3>1. pc'[v] = "look"
      BY <1>6, ReplyIs
    <3> QED
      BY <1>6, <3>1 DEF Reply
  <2>2. pc' = Set(pc, v, "look")
    BY <2>1 DEF Set
  <2> QED
    BY <1>1, <1>2, <2>2
<1>7. CASE WaitForAll(v) \/ FireConnect(v)
  BY <1>1, <1>2, <1>7 DEF WaitForAll, FireConnect
<1>8. CASE EndPass(v) \/ ServeEndPhase(v)
  <2>1. \E x \in {"pass", "rates", "deadlock"} : pc' = Set(pc, v, x)
    BY <1>8 DEF EndPass, ServeEndPhase, EndTurn
  <2> QED
    BY <1>1, <1>2, <2>1
<1>9. CASE ServeAnnounce(v)
  BY <1>9, ServeAnnounceControl
<1>10. CASE PushRates(v) \/ Sync(v) \/ Opened(v)
  BY <1>1, <1>2, <1>10 DEF PushRates, Sync, Opened
<1>11. CASE TakeBaseRate(v)
  BY <1>1, <1>2, <1>11, TakeBaseRateControl
<1>12. CASE v = Master /\ CollectRates
  BY <1>12, CollectRatesControl
<1>13. CASE v = Master /\ PushBaseRate
  BY <1>1, <1>2, <1>13 DEF PushBaseRate
<1>14. CASE Synchronize(v)
  BY <1>14, SynchronizeControl
<1> QED
  BY <1>3, <1>4, <1>5, <1>6, <1>7, <1>8, <1>9, <1>10, <1>11, <1>12, <1>13, <1>14
  DEF Step, LocalPass, Serve, BaseRate, Barrier

\* The rest of the state of the passes.
LEMMA PassTypesNext ==
    ASSUME TypeOK, LookInv, RateInv, NEW F, NEW rep, ControlInv(F, rep), NEW v \in Voice,
           Step(v), pc \in [Voice -> Fine]
    PROVE  PassTypes' /\ sys' = sys
<1>0. /\ PassTypes /\ sys \in Systems
      /\ Len(sys.home) \in Nat /\ Process(sys) = 1 .. Len(sys.home)
  BY SystemFacts DEF TypeOK
<1>1. sys' = sys
  BY DEF Step, LocalPass, Serve, BaseRate, Barrier, PassOver, BeginProcess, FindHere, Ask,
         NotFound, Reply, WaitForAll, FireConnect, EndPass, ServeEndPhase, ServeAnnounce,
         ServeFind, PushRates, TakeBaseRate, CollectRates, PushBaseRate, Sync, Synchronize,
         Opened
<1>2. pc' \in [Voice -> Turning \cup Connected \cup {"deadlock", "error"}]
  BY PcNext DEF Fine
<1>3. CASE UNCHANGED passVars
  BY <1>0, <1>1, <1>2, <1>3 DEF PassTypes, passVars
<1>4. CASE PassOver(v)
  <2>1. at[v] + 1 \in 1 .. Len(sys.home) + 1
    BY <1>0, <1>4 DEF PassOver
  <2>2. at' \in [Voice -> 1 .. Len(sys.home) + 1]
    BY <1>0, <1>4, <2>1 DEF PassOver, Set, PassTypes
  <2> QED
    BY <1>0, <1>1, <1>2, <1>4, <2>2 DEF PassTypes, PassOver
<1>5. CASE WaitForAll(v) \/ FireConnect(v)
  <2>1. at[v] + 1 \in 1 .. Len(sys.home) + 1
    <3>1. at[v] \in Process(sys)
      BY <1>5 DEF WaitForAll, FireConnect, LookInv, LookAt, Local
    <3> QED
      BY <1>0, <3>1
  <2>2. at' \in [Voice -> 1 .. Len(sys.home) + 1]
    <3>1. at' = Set(at, v, at[v] + 1)
      BY <1>5 DEF WaitForAll, FireConnect
    <3> QED
      BY <1>0, <2>1, <3>1 DEF Set, PassTypes
  <2>3. myFinished' \in [Voice -> BOOLEAN]
    BY <1>0, <1>5 DEF WaitForAll, FireConnect, Set, PassTypes
  <2>4. myProgress' \in [Voice -> BOOLEAN]
    BY <1>0, <1>5 DEF WaitForAll, FireConnect, Set, PassTypes
  <2>5. UNCHANGED <<pass, finished, progress>>
    BY <1>5 DEF WaitForAll, FireConnect
  <2> QED
    BY <1>0, <1>1, <1>2, <2>2, <2>3, <2>4, <2>5 DEF PassTypes
<1>6. CASE EndPass(v)
  BY <1>1, <1>6, EndPassEffect
<1>7. CASE ServeEndPhase(v)
  BY <1>1, <1>7, ServeEndPhaseFacts
<1>8. UNCHANGED passVars \/ PassOver(v) \/ WaitForAll(v) \/ FireConnect(v) \/ EndPass(v)
        \/ ServeEndPhase(v)
  BY DEF Step, LocalPass, Serve, BaseRate, Barrier, BeginProcess, FindHere, Ask,
         NotFound, Reply, ServeAnnounce, ServeFind, PushRates, TakeBaseRate, CollectRates,
         PushBaseRate, Sync, Synchronize, Opened
<1> QED
  BY <1>1, <1>3, <1>4, <1>5, <1>6, <1>7, <1>8

\* What is looked for.
LEMMA LookTypesNext ==
    ASSUME TypeOK, LookInv, RateInv, NEW F, NEW rep, ControlInv(F, rep), NEW v \in Voice,
           Step(v), pc \in [Voice -> Fine]
    PROVE  LookTypes'
<1>0. /\ PassTypes /\ LookTypes /\ PortTypes /\ sys \in Systems
      /\ \A q \in Process(sys) : sys.needs[q] \subseteq Output(sys)
  BY SystemFacts DEF TypeOK
<1>1. sys' = sys
  BY PassTypesNext
<1>2. CASE UNCHANGED lookVars
  BY <1>0, <1>1, <1>2 DEF LookTypes, lookVars
<1>3. CASE BeginProcess(v)
  <2>1. Unseen(at[v]) \subseteq Output(sys)
    BY <1>0, <1>3 DEF BeginProcess, Local, Unseen
  <2> QED
    BY <1>0, <1>1, <1>3, <2>1 DEF BeginProcess, LookTypes, Set
<1>4. CASE FindHere(v)
  <2>1. PICK o : Connect(v, o)
    BY <1>4 DEF FindHere
  <2> QED
    BY <1>0, <1>1, <1>4, <2>1 DEF FindHere, Connect, LookTypes, Set
<1>5. CASE Ask(v)
  <2>1. Lowest(Askable(v, Lowest(todo[v]))) \in Nat
    <3>1. Lowest(Askable(v, Lowest(todo[v]))) \in Askable(v, Lowest(todo[v]))
      BY <1>0, <1>5, AskableIs DEF Ask
    <3> QED
      BY <3>1, VoiceFacts DEF Askable
  <2>2. ask' \in [Voice -> Nat]
    BY <1>0, <1>5, <2>1 DEF Ask, LookTypes, Set
  <2> QED
    BY <1>0, <1>1, <1>5, <2>2 DEF Ask, LookTypes
<1>6. CASE NotFound(v)
  <2>1. Lowest(todo[v]) \in Output(sys)
    BY <1>0, <1>6, SoughtIs DEF NotFound
  <2>2. PICK o \in Output(sys) : /\ todo' = Set(todo, v, todo[v] \ {o})
                                 /\ missing' = Set(missing, v, missing[v] \cup {o})
    BY <1>6, <2>1 DEF NotFound
  <2>3. ask' \in [Voice -> Nat]
    BY <1>0, <1>6 DEF NotFound, LookTypes, Set
  <2> QED
    BY <1>0, <1>1, <2>2, <2>3 DEF LookTypes, Set
<1>7. CASE Reply(v)
  <2>1. PICK o : Connect(v, o)
    BY <1>7, ReplyIs DEF Found
  <2> QED
    BY <1>0, <1>1, <1>7, <2>1 DEF Reply, Connect, LookTypes, Set
<1>8. CASE Sync(v) \/ Synchronize(v)
  <2>1. ask' \in [Voice -> Nat]
    BY <1>0, <1>8 DEF Sync, Synchronize, LookTypes, Set
  <2> QED
    BY <1>0, <1>1, <1>8, <2>1 DEF Sync, Synchronize, LookTypes
<1>9. \/ UNCHANGED lookVars \/ BeginProcess(v) \/ FindHere(v) \/ Ask(v) \/ NotFound(v)
      \/ Reply(v) \/ Sync(v) \/ Synchronize(v)
  BY DEF Step, LocalPass, Serve, BaseRate, Barrier, PassOver, WaitForAll, FireConnect,
         EndPass, ServeEndPhase, ServeAnnounce, ServeFind, PushRates, TakeBaseRate,
         CollectRates, PushBaseRate, Opened
<1> QED
  BY <1>2, <1>3, <1>4, <1>5, <1>6, <1>7, <1>8, <1>9

\* Ports, streams and what voices know of them.
LEMMA PortTypesNext ==
    ASSUME TypeOK, LookInv, RateInv, NEW F, NEW rep, ControlInv(F, rep), NEW v \in Voice,
           Step(v), pc \in [Voice -> Fine]
    PROVE  PortTypes' /\ created \subseteq created'
<1>0. /\ PassTypes /\ LookTypes /\ PortTypes /\ sys \in Systems
  BY DEF TypeOK
<1>1. sys' = sys
  BY PassTypesNext
<1>2. CASE UNCHANGED portVars
  BY <1>0, <1>1, <1>2 DEF PortTypes, portVars, Entry, Route
<1>3. CASE FindHere(v) \/ Reply(v)
  <2>1. PICK o \in Output(sys) : Connect(v, o)
    <3>1. CASE FindHere(v)
      <4>1. Lowest(todo[v]) \in Output(sys) /\ Connect(v, Lowest(todo[v]))
        BY <1>0, <3>1, SoughtIs DEF FindHere
      <4> QED
        BY <4>1
    <3>2. CASE Reply(v)
      BY <3>2, ReplyIs DEF Found
    <3> QED
      BY <1>3, <3>1, <3>2
  <2>2. at[v] \in Process(sys)
    BY <1>3 DEF LookInv, LookAt, FindHere, Reply, Local
  <2>3. seen' \in [Process(sys) -> SUBSET Output(sys)]
    BY <1>0, <2>1, <2>2 DEF Connect, Set, PortTypes
  <2>4. routes' \in [Voice -> SUBSET Route(sys)]
    <3>1. CASE FindHere(v)
      BY <1>0, <3>1 DEF FindHere, PortTypes
    <3>2. CASE Reply(v)
      <4>1. PICK w \in Voice, x \in Output(sys) :
                   \E i \in DOMAIN inputRemotes[w] : Found(v, w, x, i)
        BY <3>2, ReplyIs
      <4>2. PICK i \in DOMAIN inputRemotes[w] : Found(v, w, x, i)
        BY <4>1
      <4>3. inputRemotes[w][i] \in Entry(sys)
        BY <1>0, <4>2 DEF PortTypes
      <4> DEFINE r == [name |-> x, from |-> w, stream |-> inputRemotes[w][i].stream]
      <4>4. r \in Route(sys)
        BY <4>3 DEF Entry, Route
      <4>5. routes' = Set(routes, v, routes[v] \cup {r})
        BY <4>2 DEF Found
      <4> HIDE DEF r
      <4> QED
        BY <1>0, <4>4, <4>5 DEF Set, PortTypes
    <3> QED
      BY <1>3, <3>1, <3>2
  <2>5. UNCHANGED <<called, created, announced, inputRemotes>>
    BY <1>3 DEF FindHere, Reply
  <2> QED
    BY <1>0, <1>1, <2>3, <2>4, <2>5 DEF PortTypes, Entry, Route
<1>4. CASE FireConnect(v)
  <2>1. at[v] \in Process(sys)
    BY <1>4 DEF LookInv, LookAt, FireConnect, Local
  <2>2. /\ created' \subseteq Output(sys) /\ called' \subseteq Process(sys)
        /\ created \subseteq created'
    BY <1>0, <1>4, <2>1 DEF FireConnect, Creates, PortTypes
  <2>3. UNCHANGED <<seen, announced, inputRemotes, routes>>
    BY <1>4 DEF FireConnect
  <2> QED
    BY <1>0, <1>1, <2>2, <2>3 DEF PortTypes, Entry, Route
<1>5. CASE ServeAnnounce(v)
  <2>1. /\ pass[v] \in Voice /\ Message(v, pass[v]) \in Anns(pass[v])
        /\ announced' = [announced EXCEPT ![v][pass[v]] = @ \cup {Message(v, pass[v]).name}]
    BY <1>0, <1>5, ServeAnnounceControl DEF PassTypes
  <2>2. Message(v, pass[v]).name \in Output(sys)
    BY <1>0, <2>1, AnnFacts DEF Owned, PortTypes
  <2>3. announced' \in [Voice -> [Voice -> SUBSET Output(sys)]]
    BY <1>0, <2>1, <2>2 DEF PortTypes
  <2>4. UNCHANGED <<seen, called, created, inputRemotes, routes>>
    BY <1>5 DEF ServeAnnounce
  <2> QED
    BY <1>0, <1>1, <2>3, <2>4 DEF PortTypes, Entry, Route
<1>6. CASE ServeFind(v)
  <2>1. PICK u \in Voice, o \in Output(sys) : Finds(F, v, u, o)
    BY <1>6, ServeFindIs
  <2>2. /\ NewEntry(v, o, u) \in Entry(sys)
        /\ inputRemotes' = Set(inputRemotes, v, Append(inputRemotes[v], NewEntry(v, o, u)))
    BY <1>0, <2>1, NewEntryType DEF Finds
  <2>3. Append(inputRemotes[v], NewEntry(v, o, u)) \in Seq(Entry(sys))
    BY <1>0, <2>2, AppendProperties DEF PortTypes
  <2>4. inputRemotes' \in [Voice -> Seq(Entry(sys))]
    BY <1>0, <2>2, <2>3 DEF Set, PortTypes
  <2>5. UNCHANGED <<seen, called, created, announced, routes>>
    BY <1>6 DEF ServeFind
  <2> QED
    BY <1>0, <1>1, <2>4, <2>5 DEF PortTypes, Entry, Route
<1>7. \/ UNCHANGED portVars \/ FindHere(v) \/ Reply(v) \/ FireConnect(v) \/ ServeAnnounce(v)
      \/ ServeFind(v)
  BY DEF Step, LocalPass, Serve, BaseRate, Barrier, PassOver, BeginProcess, Ask, NotFound,
         WaitForAll, EndPass, ServeEndPhase, PushRates, TakeBaseRate, CollectRates,
         PushBaseRate, Sync, Synchronize, Opened
<1> QED
  BY <1>2, <1>3, <1>4, <1>5, <1>6, <1>7

\* The channels.
LEMMA ChanTypesNext ==
    ASSUME TypeOK, LookInv, RateInv, NEW F, NEW rep, ControlInv(F, rep), NEW v \in Voice,
           Step(v), pc \in [Voice -> Fine]
    PROVE  ChanTypes'
<1>0. /\ PassTypes /\ LookTypes /\ PortTypes /\ ChanTypes /\ sys \in Systems
      /\ Master \in Voice /\ F \in 0 .. Voices
  BY VoiceFacts DEF TypeOK, ControlInv
<1>1. sys' = sys
  BY PassTypesNext
<1>2. ASSUME NEW w \in Voice, Arrived(v, w), Pulled(v, w) PROVE ChanTypes'
  BY <1>0, <1>1, <1>2, PulledEffect
<1>3. ASSUME NEW ms \in Seq(Msg(sys)), Broadcast(v, ms) PROVE ChanTypes'
  BY <1>0, <1>1, <1>3, BroadcastEffect
<1>4. ASSUME NEW w \in Voice, NEW m \in Msg(sys), Send(v, w, m) PROVE ChanTypes'
  BY <1>0, <1>1, <1>4, SendEffect
<1>5. CASE UNCHANGED chan
  BY <1>0, <1>1, <1>5 DEF ChanTypes, Msg, Report
<1>6. CASE Ask(v)
  <2>1. Lowest(todo[v]) \in Output(sys)
    BY <1>0, <1>6, SoughtIs DEF Ask
  <2>2. Lowest(Askable(v, Lowest(todo[v]))) \in Voice
    <3>1. Lowest(Askable(v, Lowest(todo[v]))) \in Askable(v, Lowest(todo[v]))
      BY <1>0, <1>6, AskableIs DEF Ask
    <3> QED
      BY <3>1 DEF Askable
  <2>3. Send(v, Lowest(Askable(v, Lowest(todo[v]))), FindMsg(Lowest(todo[v])))
    BY <1>6 DEF Ask, FindMsg
  <2>4. FindMsg(Lowest(todo[v])) \in Msg(sys)
    BY <2>1, MsgFacts
  <2> QED
    BY <1>4, <2>2, <2>3, <2>4
<1>7. CASE Reply(v)
  <2>1. ask[v] \in Voice
    BY <1>7 DEF LookInv, LookAt, Reply
  <2> QED
    BY <1>2, <1>7, <2>1 DEF Reply
<1>8. CASE FireConnect(v)
  <2>1. at[v] \in Process(sys)
    BY <1>8 DEF LookInv, LookAt, FireConnect, Local
  <2>2. PICK ms : /\ ms = InSomeOrder(Tagged("ANNOUNCEOUTPUT", Announces(at[v])))
                  /\ Broadcast(v, ms)
    BY <1>8 DEF FireConnect
  <2>3. ms \in Seq(Msg(sys))
    BY <2>1, <2>2, NewsIs
  <2> QED
    BY <1>3, <2>2, <2>3
<1>9. CASE EndPass(v)
  <2>1. Broadcast(v, <<ReportOf(v)>>)
    BY <1>9 DEF EndPass, ReportOf
  <2>2. ReportOf(v) \in Msg(sys)
    BY <1>0, MsgFacts DEF ReportOf, Report, PassTypes
  <2>3. <<ReportOf(v)>> \in Seq(Msg(sys))
    BY <2>2, OneMessage
  <2> QED
    BY <1>3, <2>1, <2>3
<1>10. CASE ServeEndPhase(v) \/ ServeAnnounce(v)
  <2>1. Arrived(v, pass[v]) /\ Pulled(v, pass[v]) /\ pass[v] \in Voice
    BY <1>0, <1>10 DEF ServeEndPhase, ServeAnnounce, Serves, PassTypes
  <2> QED
    BY <1>2, <2>1
<1>11. CASE ServeFind(v)
  BY <1>11, ServeFindIs
<1>12. CASE PushRates(v)
  <2>1. Send(v, Master, RatesMsg) /\ RatesMsg \in Msg(sys)
    BY <1>12, MsgFacts DEF PushRates, RatesMsg
  <2> QED
    BY <1>0, <1>4, <2>1
<1>13. CASE TakeBaseRate(v)
  BY <1>0, <1>2, <1>13 DEF TakeBaseRate, Expect
<1>14. CASE v = Master /\ CollectRates
  <2>1. \E w \in Voice : Arrived(v, w) /\ Pulled(v, w)
    BY <1>14 DEF CollectRates, Expect
  <2> QED
    BY <1>2, <2>1
<1>15. CASE v = Master /\ PushBaseRate
  <2>1. Broadcast(v, <<BaseMsg>>) /\ <<BaseMsg>> \in Seq(Msg(sys))
    BY <1>15, MsgFacts, OneMessage DEF PushBaseRate, BaseMsg
  <2> QED
    BY <1>3, <2>1
<1>16. CASE Sync(v)
  <2>1. Broadcast(v, <<SyncMsg>>) /\ <<SyncMsg>> \in Seq(Msg(sys))
    BY <1>16, MsgFacts, OneMessage DEF Sync, SyncMsg
  <2> QED
    BY <1>3, <2>1
<1>17. CASE Synchronize(v)
  <2>1. UNCHANGED chan \/ (ask[v] \in Voice /\ Arrived(v, ask[v]) /\ Pulled(v, ask[v]))
    BY <1>17 DEF Synchronize, Expect
  <2> QED
    BY <1>2, <1>5, <2>1
<1>18. CASE PassOver(v) \/ BeginProcess(v) \/ FindHere(v) \/ NotFound(v) \/ WaitForAll(v)
            \/ Opened(v)
  BY <1>5, <1>18 DEF PassOver, BeginProcess, FindHere, NotFound, WaitForAll, Opened
<1> QED
  BY <1>6, <1>7, <1>8, <1>9, <1>10, <1>11, <1>12, <1>13, <1>14, <1>15, <1>16, <1>17, <1>18
  DEF Step, LocalPass, Serve, BaseRate, Barrier

LEMMA TypesNext ==
    ASSUME TypeOK, LookInv, RateInv, NEW F, NEW rep, ControlInv(F, rep), NEW v \in Voice,
           Step(v), pc \in [Voice -> Fine]
    PROVE  TypeOK'
<1>1. sys' = sys /\ PassTypes' /\ LookTypes' /\ PortTypes' /\ ChanTypes'
  BY PassTypesNext, LookTypesNext, PortTypesNext, ChanTypesNext
<1>2. rates \in [Voice -> SUBSET Voice] /\ sys \in Systems
  BY DEF TypeOK
<1>3. rates' \in [Voice -> SUBSET Voice]
  <2>1. CASE UNCHANGED rates
    BY <1>2, <2>1
  <2>2. CASE TakeBaseRate(v)
    BY <1>2, <2>2, TakeBaseRateControl DEF Set
  <2>3. CASE v = Master /\ CollectRates
    <3>1. \E w \in Voice : rates' = Set(rates, Master, rates[Master] \cup {w})
      BY <2>3, CollectRatesControl
    <3> QED
      BY <1>2, <2>3, <3>1 DEF Set
  <2>4. CASE v = Master /\ PushBaseRate
    BY <1>2, <2>4 DEF PushBaseRate, Set
  <2> QED
    BY <2>1, <2>2, <2>3, <2>4
    DEF Step, LocalPass, Serve, BaseRate, Barrier, PassOver, BeginProcess, FindHere, Ask,
        NotFound, Reply, WaitForAll, FireConnect, EndPass, ServeEndPhase, ServeAnnounce,
        ServeFind, PushRates, Sync, Synchronize, Opened
<1> QED
  BY <1>1, <1>2, <1>3 DEF TypeOK

-----------------------------------------------------------------------------
\* The rates and the barrier.
LEMMA RateNext ==
    ASSUME TypeOK, LookInv, RateInv, NEW F, NEW rep, ControlInv(F, rep), NEW v \in Voice,
           Step(v), pc \in [Voice -> Fine]
    PROVE  RateInv'
<1>0. /\ PassTypes /\ LookTypes /\ rates \in [Voice -> SUBSET Voice]
      /\ Master \in Voice /\ Master = 0 /\ Voices \in Nat /\ Voices >= 1
      /\ \A w \in Voice : w \in Nat /\ w < Voices
  BY VoiceFacts DEF TypeOK
<1>1. CASE /\ pc[v] \in Turning /\ pc'[v] \in Turning \cup {"rates", "deadlock"}
           /\ \A w \in Voice : w # v => pc'[w] = pc[w] /\ ask'[w] = ask[w]
           /\ UNCHANGED rates
  <2>1. /\ pc[v] \notin AfterRates /\ pc[v] \notin AfterBase /\ pc[v] \notin AfterSync
        /\ pc[v] \notin Connected
        /\ pc'[v] \notin {"baserate", "synchronizing", "run"}
        /\ pc'[v] \notin AfterRates /\ pc'[v] \notin AfterBase /\ pc'[v] \notin AfterSync
    BY <1>1 DEF Turning, AfterRates, AfterBase, AfterSync, Connected
  <2>2. pc'[Master] # "baserate"
    BY <1>0, <1>1, <2>1 DEF RateInv
  <2>3. pc'[Master] = "rates" => \E k \in 0 .. Voices - 1 : rates'[Master] = 1 .. k
    <3>1. CASE v # Master
      BY <1>0, <1>1, <3>1 DEF RateInv
    <3>2. CASE v = Master
      <4>1. rates'[Master] = 1 .. 0
        BY <1>0, <1>1, <2>1, <3>2 DEF RateInv
      <4> QED
        BY <1>0, <4>1
    <3> QED
      BY <3>1, <3>2
  <2>4. pc'[Master] \notin Connected => rates'[Master] = {}
    BY <1>0, <1>1, <2>1 DEF RateInv
  <2>5. ASSUME NEW w \in Voice
        PROVE  /\ pc'[w] \in AfterBase => rates'[w] = Voice /\ pc'[Master] \in AfterBase
               /\ w # Master /\ w \in rates'[Master] => pc'[w] \in AfterRates
    BY <1>0, <1>1, <2>1 DEF RateInv
  <2>6. ASSUME NEW w \in Voice, pc'[w] = "synchronizing"
        PROVE  /\ ask'[w] <= Voices
               /\ \A u \in Voice : u # w /\ u < ask'[w] => pc'[u] \in AfterSync
    BY <1>0, <1>1, <2>1, <2>6 DEF RateInv
  <2>7. ASSUME NEW w \in Voice, pc'[w] = "run"
        PROVE  \A u \in Voice : pc'[u] \in AfterSync
    BY <1>0, <1>1, <2>1, <2>7 DEF RateInv
  <2> QED
    BY <2>2, <2>3, <2>4, <2>5, <2>6, <2>7 DEF RateInv
<1>2. CASE PushRates(v)
  <2>1. /\ pc[v] = "rates" /\ v # Master /\ pc'[v] = "baserate"
        /\ \A w \in Voice : w # v => pc'[w] = pc[w]
        /\ UNCHANGED rates /\ UNCHANGED ask
    BY <1>0, <1>2 DEF PushRates, Set, PassTypes, lookVars
  <2>2. \A w \in Voice : /\ pc'[w] \in AfterBase <=> pc[w] \in AfterBase
                         /\ pc'[w] \in AfterSync <=> pc[w] \in AfterSync
                         /\ pc[w] \in AfterRates => pc'[w] \in AfterRates
                         /\ pc'[w] = "synchronizing" <=> pc[w] = "synchronizing"
                         /\ pc'[w] = "run" <=> pc[w] = "run"
    BY <2>1 DEF AfterRates, AfterBase, AfterSync
  <2> QED
    BY <1>0, <2>1, <2>2 DEF RateInv
<1>3. CASE v = Master /\ CollectRates
  <2>1. PICK w \in Voice : /\ w # Master /\ pc[w] \in AfterRates /\ rates[Master] = 1 .. w - 1
                           /\ rates' = Set(rates, Master, rates[Master] \cup {w})
    BY <1>3, CollectRatesControl
  <2>2. pc' = pc /\ UNCHANGED ask /\ pc[Master] = "rates"
    BY <1>3, CollectRatesControl DEF CollectRates, lookVars
  <2>3. /\ rates'[Master] = 1 .. w
        /\ \A x \in Voice : x # Master => rates'[x] = rates[x]
    <3>1. (1 .. w - 1) \cup {w} = 1 .. w
      BY <1>0, <2>1
    <3> QED
      BY <1>0, <2>1, <3>1 DEF Set
  <2>4. \A x \in Voice : pc[x] \notin AfterBase
    BY <2>2 DEF RateInv, AfterBase
  <2>5. \E k \in 0 .. Voices - 1 : rates'[Master] = 1 .. k
    BY <1>0, <2>3
  <2>6. \A x \in Voice : x # Master /\ x \in rates'[Master] => pc[x] \in AfterRates
    <3>1. \A x : x \in 1 .. w <=> x \in rates[Master] \/ x = w
      BY <1>0, <2>1
    <3> QED
      BY <2>1, <2>3, <3>1 DEF RateInv
  <2>7. \A x \in Voice : pc[x] # "synchronizing" /\ pc[x] # "run"
    BY <2>4 DEF AfterBase
  <2>8. pc[Master] \in Connected
    BY <2>2 DEF Connected
  <2> QED
    BY <2>2, <2>4, <2>5, <2>6, <2>7, <2>8 DEF RateInv
<1>4. CASE v = Master /\ PushBaseRate
  <2>1. /\ pc[Master] = "rates" /\ pc'[Master] = "sync"
        /\ \A w \in Voice : w # Master => pc'[w] = pc[w] /\ rates'[w] = rates[w]
        /\ rates[Master] = Voice \ {Master} /\ rates'[Master] = Voice
    BY <1>0, <1>4 DEF PushBaseRate, Set, PassTypes
  <2>2. \A x \in Voice : pc[x] \notin AfterBase /\ pc[x] # "synchronizing" /\ pc[x] # "run"
    BY <2>1 DEF RateInv, AfterBase
  <2>3. pc'[Master] \in AfterBase /\ pc'[Master] \in Connected
    BY <2>1 DEF AfterBase, Connected
  <2>4. \A x \in Voice : pc'[x] # "synchronizing" /\ pc'[x] # "run"
    BY <2>1, <2>2
  <2>5. \A x \in Voice : x # Master /\ x \in rates'[Master] => pc'[x] \in AfterRates
    BY <2>1 DEF RateInv
  <2>6. \A x \in Voice : pc'[x] \in AfterBase => rates'[x] = Voice
    BY <2>1, <2>2
  <2> QED
    BY <2>1, <2>3, <2>4, <2>5, <2>6 DEF RateInv
<1>5. CASE TakeBaseRate(v)
  <2>1. /\ pc[v] = "baserate" /\ v # Master /\ pc[Master] \in AfterBase
        /\ pc'[v] = "sync" /\ rates'[v] = Voice
        /\ \A w \in Voice : w # v => pc'[w] = pc[w] /\ rates'[w] = rates[w]
    <3>1. /\ pc[v] = "baserate" /\ v # Master /\ pc[Master] \in AfterBase
          /\ pc' = Set(pc, v, "sync") /\ rates' = Set(rates, v, Voice)
      BY <1>5, TakeBaseRateControl
    <3> QED
      BY <1>0, <3>1 DEF Set, PassTypes
  <2>2. UNCHANGED ask
    BY <1>5 DEF TakeBaseRate, lookVars
  <2>3. \A w \in Voice : /\ pc'[w] \in AfterSync <=> pc[w] \in AfterSync
                         /\ pc[w] \in AfterRates => pc'[w] \in AfterRates
                         /\ pc'[w] = "synchronizing" <=> pc[w] = "synchronizing"
                         /\ pc'[w] = "run" <=> pc[w] = "run"
    BY <2>1 DEF AfterRates, AfterSync
  <2> QED
    BY <1>0, <2>1, <2>2, <2>3 DEF RateInv
<1>6. CASE Sync(v)
  <2>1. /\ pc[v] = "sync" /\ pc'[v] = "synchronizing" /\ ask'[v] = 0
        /\ \A w \in Voice : w # v => pc'[w] = pc[w] /\ ask'[w] = ask[w]
        /\ UNCHANGED rates
    BY <1>0, <1>6 DEF Sync, Set, PassTypes, LookTypes
  <2>2. \A w \in Voice : /\ pc'[w] \in AfterBase <=> pc[w] \in AfterBase
                         /\ pc[w] \in AfterSync => pc'[w] \in AfterSync
                         /\ pc[w] \in AfterRates => pc'[w] \in AfterRates
                         /\ pc'[w] = "run" <=> pc[w] = "run"
                         /\ pc'[w] = "rates" <=> pc[w] = "rates"
                         /\ pc'[w] = "baserate" <=> pc[w] = "baserate"
                         /\ pc'[w] \in Connected <=> pc[w] \in Connected
    BY <2>1 DEF AfterRates, AfterBase, AfterSync, Connected
  <2>3. ASSUME NEW w \in Voice, pc'[w] = "synchronizing"
        PROVE  /\ ask'[w] <= Voices
               /\ \A u \in Voice : u # w /\ u < ask'[w] => pc'[u] \in AfterSync
    <3>1. CASE w = v
      BY <1>0, <2>1, <3>1
    <3>2. CASE w # v
      BY <2>1, <2>2, <2>3, <3>2 DEF RateInv
    <3> QED
      BY <3>1, <3>2
  <2> QED
    BY <1>0, <2>1, <2>2, <2>3 DEF RateInv
<1>7. CASE Synchronize(v)
  <2>1. /\ pc' = pc /\ pc[v] = "synchronizing" /\ UNCHANGED rates /\ ask[v] \in Voice
        /\ ask'[v] = ask[v] + 1 /\ \A w \in Voice : w # v => ask'[w] = ask[w]
        /\ ask[v] # v => pc[ask[v]] \in AfterSync
    <3>1. pc' = pc /\ (ask[v] # v => pc[ask[v]] \in AfterSync)
      BY <1>7, SynchronizeControl
    <3> QED
      BY <1>0, <1>7, <3>1 DEF Synchronize, Set, LookTypes
  <2>2. /\ ask'[v] <= Voices
        /\ \A u \in Voice : u # v /\ u < ask'[v] => pc'[u] \in AfterSync
    <3>1. ask[v] \in Nat /\ ask[v] < Voices
      BY <1>0, <2>1
    <3>2. \A u \in Voice : u < ask'[v] => u < ask[v] \/ u = ask[v]
      BY <1>0, <2>1, <3>1
    <3>3. ask'[v] <= Voices
      BY <1>0, <2>1, <3>1
    <3> QED
      BY <2>1, <3>2, <3>3 DEF RateInv
  <2>3. ASSUME NEW w \in Voice, pc'[w] = "synchronizing"
        PROVE  /\ ask'[w] <= Voices
               /\ \A u \in Voice : u # w /\ u < ask'[w] => pc'[u] \in AfterSync
    BY <2>1, <2>2, <2>3 DEF RateInv
  <2> QED
    BY <2>1, <2>3 DEF RateInv
<1>8. CASE Opened(v)
  <2>1. /\ pc[v] = "synchronizing" /\ pc'[v] = "run"
        /\ \A w \in Voice : w # v => pc'[w] = pc[w]
        /\ \A u \in Voice : pc[u] \in AfterSync
    <3>1. /\ pc[v] = "synchronizing" /\ pc' = Set(pc, v, "run")
          /\ \A u \in Voice : pc[u] \in AfterSync
      BY <1>8, OpenedControl
    <3> QED
      BY <1>0, <3>1 DEF Set, PassTypes
  <2>2. UNCHANGED rates /\ UNCHANGED ask
    BY <1>8 DEF Opened, lookVars
  <2>3. \A w \in Voice : /\ pc'[w] \in AfterSync
                         /\ pc'[w] \in AfterBase <=> pc[w] \in AfterBase
                         /\ pc'[w] \in AfterRates <=> pc[w] \in AfterRates
                         /\ pc'[w] \in Connected <=> pc[w] \in Connected
                         /\ pc'[w] = "synchronizing" => pc[w] = "synchronizing"
                         /\ pc'[w] # "rates" /\ pc'[w] # "baserate"
    BY <2>1 DEF AfterRates, AfterBase, AfterSync, Connected
  <2> QED
    BY <1>0, <2>2, <2>3 DEF RateInv
<1>9. CASE LocalPass(v) \/ Serve(v)
  <2>1. pc[v] \in Turning /\ UNCHANGED rates /\ \A w \in Voice : w # v => ask'[w] = ask[w]
    BY <1>0, <1>9 DEF LocalPass, Serve, PassOver, BeginProcess, FindHere, Ask, NotFound,
       Reply, WaitForAll, FireConnect, EndPass, ServeEndPhase, ServeAnnounce, ServeFind,
       Serves, Passing, Turning, Set, LookTypes, lookVars, Connect
  <2>2. pc'[v] \in Turning \cup {"rates", "deadlock"} /\ \A w \in Voice : w # v => pc'[w] = pc[w]
    <3>1. pc'[v] \in Fine
      BY PcNext
    <3>2. pc' = pc \/ \E x \in Turning \cup {"rates", "deadlock", "error"} : pc' = Set(pc, v, x)
      BY <1>9 DEF LocalPass, Serve, PassOver, BeginProcess, FindHere, Ask, NotFound,
         Reply, WaitForAll, FireConnect, EndPass, ServeEndPhase, ServeAnnounce, ServeFind,
         EndTurn, Turning
    <3>3. "error" \notin Fine
      BY DEF Fine, Turning, Connected
    <3> QED
      BY <1>0, <2>1, <3>1, <3>2, <3>3 DEF Set, PassTypes
  <2> QED
    BY <1>1, <2>1, <2>2
<1> QED
  BY <1>2, <1>3, <1>4, <1>5, <1>6, <1>7, <1>8, <1>9 DEF Step, BaseRate, Barrier

-----------------------------------------------------------------------------
\* Looking for inputs.

\* What a voice has found stays so while it does not move on itself.
LEMMA LookKept ==
    ASSUME LookInv, NEW w \in Voice, sys' = sys,
           pc'[w] \in {"look", "reply"} =>
               /\ pc'[w] = pc[w] /\ at'[w] = at[w] /\ todo'[w] = todo[w]
               /\ missing'[w] = missing[w] /\ ask'[w] = ask[w]
               /\ UNCHANGED <<created, seen, routes>>
    PROVE  LookAt(w)'
<1> SUFFICES ASSUME pc'[w] \in {"look", "reply"} PROVE LookAt(w)'
  BY DEF LookAt
<1>1. LookAt(w)
  BY DEF LookInv
<1>2. \A u \in Voice : Owned(u)' = Owned(u)
  BY DEF Owned
<1>3. Unseen(at[w])' = Unseen(at[w]) /\ Local(w)' = Local(w)
  BY DEF Unseen, Local, Process
<1>4. NotHere(w, Lowest(todo[w]))' <=> NotHere(w, Lowest(todo[w]))
  BY DEF NotHere, Lowest
<1>5. Lowest(todo[w])' = Lowest(todo[w])
  BY DEF Lowest
<1> QED
  BY <1>1, <1>2, <1>3, <1>4, <1>5 DEF LookAt

\* An input that is connected is not looked for any more.
LEMMA ConnectLook ==
    ASSUME TypeOK, LookInv, NEW v \in Voice, pc[v] \in {"look", "reply"}, pc'[v] = "look",
           NEW o \in todo[v], Connect(v, o), UNCHANGED <<sys, at, missing, created>>
    PROVE  LookAt(v)'
<1>1. /\ at[v] \in Local(v) /\ Unseen(at[v]) = todo[v] \cup missing[v]
      /\ todo[v] \cap missing[v] = {} /\ missing[v] \cap created = {}
  BY DEF LookInv, LookAt
<1>2. /\ seen'[at[v]] = seen[at[v]] \cup {o} /\ todo'[v] = todo[v] \ {o} /\ ask'[v] = 0
  BY <1>1 DEF Connect, Set, TypeOK, LookTypes, PortTypes, Local
<1>3. Unseen(at[v])' = Unseen(at[v]) \ {o} /\ Local(v)' = Local(v)
  BY <1>2 DEF Unseen, Local, Process
<1>4. \A u \in Voice : ~ (u < ask'[v])
  BY <1>2, VoiceFacts
<1> QED
  BY <1>1, <1>2, <1>3, <1>4 DEF LookAt

\* The voice whose turn it is has been told of every output of the others.
LEMMA Known ==
    ASSUME TypeOK, AnnounceInv, NEW F, NEW rep, ControlInv(F, rep), NEW v \in Voice,
           pc[v] = "look", NEW u \in Voice, u # v, NEW o \in Owned(u)
    PROVE  o \in announced[v][u]
<1>1. /\ PassTypes /\ F \in 0 .. Voices /\ WhereInv(F, rep) /\ LeadInv(F)
      /\ VerdictInv(F, rep) /\ ChanInv(F, rep)
  BY DEF TypeOK, ControlInv
<1>2. v = F /\ ~ Pending(F, u, v) /\ pc[u] = "pass"
  BY <1>1, LeaderIs
<1>3. chan[u][v] = Post(u, v)
  BY <1>1, <1>2 DEF ChanInv, Link, Asks
<1>4. Post(u, v) = <<>>
  BY <1>2, NoPost DEF AfterRates
<1>5. Announced(u, v, o)
  BY DEF AnnounceInv
<1> QED
  BY <1>3, <1>4, <1>5 DEF Announced

LEMMA AskLook ==
    ASSUME TypeOK, LookInv, AnnounceInv, NEW F, NEW rep, ControlInv(F, rep),
           NEW v \in Voice, Ask(v)
    PROVE  LookAt(v)'
<1>1. PassTypes /\ LookTypes /\ sys \in Systems
  BY DEF TypeOK
<1>2. PICK o : o = Lowest(todo[v])
  OBVIOUS
<1>3. PICK w : w = Lowest(Askable(v, o))
  OBVIOUS
<1>4. /\ pc[v] = "look" /\ todo[v] # {} /\ NotHere(v, o) /\ Askable(v, o) # {}
      /\ ask'[v] = w /\ pc'[v] = "reply"
      /\ UNCHANGED <<sys, at, todo, missing, seen, created, routes>>
  BY <1>1, <1>2, <1>3 DEF Ask, Set, PassTypes, LookTypes, passVars, portVars
<1>5. w \in Askable(v, o) /\ \A y \in Askable(v, o) : w <= y
  BY <1>1, <1>3, <1>4, AskableIs
<1>6. w \in Voice \ {v} /\ o \in Owned(w)
  BY <1>5 DEF Askable, AnnounceInv
<1>7. ASSUME NEW u \in Voice \ {v}, u < w PROVE o \notin Owned(u)
  <2>1. CASE u < ask[v]
    BY <1>2, <1>4, <2>1 DEF LookInv, LookAt
  <2>2. CASE ~ (u < ask[v])
    <3>1. u \in Nat /\ w \in Nat /\ ask[v] \in Nat
      BY <1>1, <1>6, VoiceFacts DEF LookTypes
    <3>2. u >= ask[v] /\ ~ (w <= u)
      BY <1>7, <2>2, <3>1
    <3>3. o \notin announced[v][u]
      BY <1>5, <3>2 DEF Askable
    <3> QED
      BY <1>4, <3>3, Known
  <2> QED
    BY <2>1, <2>2
<1>8. /\ Unseen(at[v])' = Unseen(at[v]) /\ Local(v)' = Local(v) /\ Lowest(todo[v])' = o
      /\ \A u \in Voice : Owned(u)' = Owned(u)
  BY <1>2, <1>4 DEF Unseen, Local, Process, Lowest, Owned
<1>9. NotHere(v, o)'
  BY <1>4 DEF NotHere
<1>10. /\ at[v] \in Local(v) /\ Unseen(at[v]) = todo[v] \cup missing[v]
       /\ todo[v] \cap missing[v] = {} /\ missing[v] \cap created = {}
  BY <1>4 DEF LookInv, LookAt
<1> QED
  BY <1>2, <1>4, <1>6, <1>7, <1>8, <1>9, <1>10 DEF LookAt

LEMMA NotFoundLook ==
    ASSUME TypeOK, LookInv, AnnounceInv, NEW F, NEW rep, ControlInv(F, rep),
           NEW v \in Voice, NotFound(v)
    PROVE  LookAt(v)'
<1>1. PassTypes /\ LookTypes /\ PortTypes /\ sys \in Systems
  BY DEF TypeOK
<1>2. PICK o : o = Lowest(todo[v])
  OBVIOUS
<1>3. /\ pc[v] = "look" /\ todo[v] # {} /\ NotHere(v, o) /\ Askable(v, o) = {}
      /\ todo'[v] = todo[v] \ {o} /\ missing'[v] = missing[v] \cup {o}
      /\ ask'[v] = 0 /\ pc'[v] = "look"
      /\ UNCHANGED <<sys, at, seen, created>>
  BY <1>1, <1>2 DEF NotFound, Set, PassTypes, LookTypes, passVars, portVars
<1>4. o \in todo[v] /\ o \in Output(sys)
  BY <1>1, <1>2, <1>3, SoughtIs
<1>5. o \notin created
  <2> SUFFICES ASSUME o \in created PROVE FALSE
    OBVIOUS
  <2>1. PICK h \in Voice : h = sys.home[sys.owner[o]]
    BY <1>1, <1>4, SystemFacts
  <2>2. h # v /\ o \in Owned(h)
    BY <1>3, <2>1 DEF NotHere, Owned
  <2>3. o \in announced[v][h]
    BY <1>3, <2>2, Known
  <2>4. ~ (h >= ask[v])
    BY <1>3, <2>2, <2>3 DEF Askable
  <2>5. h < ask[v]
    BY <1>1, <2>4, VoiceFacts DEF LookTypes
  <2> QED
    BY <1>2, <1>3, <2>2, <2>5 DEF LookInv, LookAt
<1>6. Unseen(at[v])' = Unseen(at[v]) /\ Local(v)' = Local(v)
  BY <1>3 DEF Unseen, Local, Process
<1>7. /\ at[v] \in Local(v) /\ Unseen(at[v]) = todo[v] \cup missing[v]
      /\ todo[v] \cap missing[v] = {} /\ missing[v] \cap created = {}
  BY <1>3 DEF LookInv, LookAt
<1>8. \A u \in Voice : ~ (u < ask'[v])
  BY <1>3, VoiceFacts
<1> QED
  BY <1>3, <1>4, <1>5, <1>6, <1>7, <1>8 DEF LookAt

\* While one voice looks, the others do nothing that it could notice.
LEMMA LookNext ==
    ASSUME TypeOK, LookInv, RateInv, AnnounceInv, NEW F, NEW rep, ControlInv(F, rep),
           NEW v \in Voice, Step(v), pc \in [Voice -> Fine]
    PROVE  LookInv'
<1>0. PassTypes /\ LookTypes /\ PortTypes /\ sys \in Systems
  BY DEF TypeOK
<1>1. sys' = sys
  BY PassTypesNext
<1>2. CASE FindHere(v)
  <2>1. PICK o : o = Lowest(todo[v])
    OBVIOUS
  <2>2. Connect(v, o) /\ pc[v] = "look" /\ pc'[v] = "look" /\ o \in todo[v]
    BY <1>0, <1>2, <2>1, SoughtIs DEF FindHere
  <2>3. UNCHANGED <<sys, pc, at, missing, created, routes>>
    BY <1>2 DEF FindHere, passVars
  <2>4. LookAt(v)'
    BY <2>2, <2>3, ConnectLook
  <2>5. ASSUME NEW w \in Voice, w # v PROVE LookAt(w)'
    <3>1. pc[w] \notin {"look", "reply"}
      BY <1>0, <2>2, <2>5, LeaderIs DEF ControlInv
    <3> QED
      BY <1>1, <2>3, <3>1, LookKept
  <2> QED
    BY <2>4, <2>5 DEF LookInv
<1>3. CASE Reply(v)
  <2>1. PICK w \in Voice, o \in Output(sys) : o \in todo[v] /\ Connect(v, o)
    BY <1>3, ReplyIs DEF Found
  <2>2. pc[v] = "reply" /\ pc'[v] = "look"
    BY <1>3, ReplyIs
  <2>3. /\ UNCHANGED <<sys, at, missing, created>>
        /\ \A x \in Voice : x # v => pc'[x] = pc[x]
    BY <1>0, <1>3 DEF Reply, passVars, Set, PassTypes
  <2>4. LookAt(v)'
    BY <2>1, <2>2, <2>3, ConnectLook
  <2>5. ASSUME NEW x \in Voice, x # v PROVE LookAt(x)'
    <3>1. pc[x] \notin {"look", "reply"}
      BY <1>0, <2>2, <2>5, LeaderIs DEF ControlInv
    <3> QED
      BY <1>1, <2>3, <2>5, <3>1, LookKept
  <2> QED
    BY <2>4, <2>5 DEF LookInv
<1>4. CASE BeginProcess(v) \/ Ask(v) \/ NotFound(v)
  <2>1. Passing(v) \/ pc[v] = "look"
    BY <1>4 DEF BeginProcess, Ask, NotFound
  <2>2. \A x \in Voice : x # v => pc'[x] = pc[x]
    BY <1>0, <1>4 DEF BeginProcess, Ask, NotFound, Set, PassTypes
  <2>3. ASSUME NEW x \in Voice, x # v PROVE LookAt(x)'
    <3>1. pc[x] \notin {"look", "reply"}
      BY <1>0, <2>1, <2>3, LeaderIs DEF ControlInv
    <3> QED
      BY <1>1, <2>2, <2>3, <3>1, LookKept
  <2>4. CASE BeginProcess(v)
    <3>1. /\ at[v] \in Local(v) /\ pc'[v] = "look" /\ todo'[v] = Unseen(at[v])
          /\ missing'[v] = {} /\ ask'[v] = 0 /\ UNCHANGED <<sys, at, seen>>
      BY <1>0, <2>4 DEF BeginProcess, Set, PassTypes, LookTypes, passVars, portVars
    <3>2. Unseen(at[v])' = Unseen(at[v]) /\ Local(v)' = Local(v)
      BY <3>1 DEF Unseen, Local, Process
    <3>3. \A u \in Voice : ~ (u < ask'[v])
      BY <3>1, VoiceFacts
    <3>4. LookAt(v)'
      BY <3>1, <3>2, <3>3 DEF LookAt
    <3> QED
      BY <2>3, <3>4 DEF LookInv
  <2> QED
    BY <1>4, <2>3, <2>4, AskLook, NotFoundLook DEF LookInv
<1>5. CASE FireConnect(v) \/ WaitForAll(v)
  <2>1. pc[v] = "look" /\ pc'[v] = "pass" /\ \A x \in Voice : x # v => pc'[x] = pc[x]
    BY <1>0, <1>5 DEF FireConnect, WaitForAll, Set, PassTypes
  <2>2. ASSUME NEW x \in Voice PROVE pc'[x] \notin {"look", "reply"}
    BY <1>0, <2>1, LeaderIs DEF ControlInv
  <2>3. \A x \in Voice : LookAt(x)'
    BY <1>1, <2>2, LookKept
  <2> QED
    BY <2>3 DEF LookInv
<1>6. CASE EndPass(v) \/ ServeEndPhase(v)
  <2>1. /\ UNCHANGED <<sys, todo, missing, ask, seen, created, routes>>
        /\ \A x \in Voice : x # v => at'[x] = at[x]
    BY <1>0, <1>6 DEF EndPass, ServeEndPhase, lookVars, portVars, Set, PassTypes
  <2>2. pc'[v] \notin {"look", "reply"} /\ \A x \in Voice : x # v => pc'[x] = pc[x]
    BY <1>0, <1>6 DEF EndPass, ServeEndPhase, EndTurn, Set, PassTypes
  <2>3. \A x \in Voice : LookAt(x)'
    BY <1>1, <2>1, <2>2, LookKept
  <2> QED
    BY <2>3 DEF LookInv
<1>7. CASE PassOver(v) \/ ServeAnnounce(v) \/ ServeFind(v)
  <2>1. /\ UNCHANGED <<sys, pc, todo, missing, ask, seen, created, routes>>
        /\ \A x \in Voice : pc[x] # "pass" => at'[x] = at[x]
    <3>1. UNCHANGED pc
      BY <1>7, ServeAnnounceControl DEF PassOver, ServeFind
    <3> QED
      BY <1>0, <1>7, <3>1 DEF PassOver, Passing, ServeAnnounce, ServeFind, lookVars, portVars,
         passVars, Set, PassTypes
  <2>2. \A x \in Voice : LookAt(x)'
    BY <1>1, <2>1, LookKept
  <2> QED
    BY <2>2 DEF LookInv
<1>8. CASE BaseRate(v) \/ Barrier(v)
  <2>1. /\ UNCHANGED <<sys, at, todo, missing, seen, created, routes>>
        /\ \A x \in Voice : x # v => ask'[x] = ask[x]
    BY <1>0, <1>8 DEF BaseRate, Barrier, PushRates, TakeBaseRate, CollectRates, PushBaseRate,
       Sync, Synchronize, Opened, lookVars, portVars, passVars, Set, LookTypes
  <2>2. pc'[v] \notin {"look", "reply"} /\ \A x \in Voice : x # v => pc'[x] = pc[x]
    BY <1>0, <1>8 DEF BaseRate, Barrier, PushRates, TakeBaseRate, CollectRates, PushBaseRate,
       Sync, Synchronize, Opened, Expect, Set, PassTypes
  <2>3. \A x \in Voice : LookAt(x)'
    BY <1>1, <2>1, <2>2, LookKept
  <2> QED
    BY <2>3 DEF LookInv
<1> QED
  BY <1>2, <1>3, <1>4, <1>5, <1>6, <1>7, <1>8 DEF Step, LocalPass, Serve

-----------------------------------------------------------------------------
\* Outputs.
LEMMA PortKept ==
    ASSUME PortInv, UNCHANGED <<sys, seen, called, created>>,
           \A q \in Process(sys) : q \in called /\ Looking(q) /\ seen[q] = sys.needs[q] =>
               Looking(q)',
           called \subseteq Process(sys)
    PROVE  PortInv'
<1>1. \A S : Stable(S)' <=> Stable(S)
  BY DEF Stable, Output
<1>2. \A q : AllOut(q)' <=> AllOut(q)
  BY DEF AllOut, Output
<1>3. ASSUME NEW q \in called', (seen[q] = sys.needs[q] /\ ~ Looking(q))' PROVE AllOut(q)'
  BY <1>2, <1>3 DEF PortInv
<1>4. \A S \in SUBSET Output(sys)' : Stable(S)' => created' \subseteq S
  BY <1>1 DEF PortInv, Output
<1>5. \A q \in Process(sys)' : seen'[q] \subseteq created' /\ seen'[q] \subseteq sys'.needs[q]
  BY DEF PortInv, Process
<1> QED
  BY <1>3, <1>4, <1>5 DEF PortInv

\* An input that is found is one of the process, and its output exists.
LEMMA ConnectPort ==
    ASSUME TypeOK, LookInv, PortInv, NEW v \in Voice, pc[v] \in {"look", "reply"},
           pc'[v] = "look", NEW o \in todo[v], o \in created, Connect(v, o),
           UNCHANGED <<sys, at, called, created>>, \A w \in Voice : w # v => pc'[w] = pc[w]
    PROVE  PortInv'
<1>1. PICK p \in Process(sys) : p = at[v] /\ sys.home[p] = v /\ Unseen(p) = todo[v] \cup missing[v]
  BY DEF LookInv, LookAt, Local
<1>2. /\ seen'[p] = seen[p] \cup {o} /\ \A q \in Process(sys) : q # p => seen'[q] = seen[q]
  BY <1>1 DEF Connect, Set, TypeOK, PortTypes
<1>3. o \in sys.needs[p]
  BY <1>1 DEF Unseen
<1>4. \A S : Stable(S)' <=> Stable(S)
  BY DEF Stable, Output
<1>5. \A q : AllOut(q)' <=> AllOut(q)
  BY DEF AllOut, Output
<1>6. \A q \in Process(sys) : sys.home[q] \in Voice
  BY SystemFacts DEF TypeOK
<1>7. Looking(p)' /\ \A q \in Process(sys) : Looking(q) => Looking(q)'
  BY <1>1, <1>6 DEF Looking
<1>8. ASSUME NEW q \in called', (seen[q] = sys.needs[q] /\ ~ Looking(q))' PROVE AllOut(q)'
  <2>1. q \in Process(sys) /\ q # p /\ q \in called
    BY <1>7, <1>8 DEF TypeOK, PortTypes
  <2> QED
    BY <1>2, <1>5, <1>7, <1>8, <2>1 DEF PortInv
<1>9. \A S \in SUBSET Output(sys)' : Stable(S)' => created' \subseteq S
  BY <1>4 DEF PortInv, Output
<1>10. \A q \in Process(sys)' : seen'[q] \subseteq created' /\ seen'[q] \subseteq sys'.needs[q]
  <2> SUFFICES ASSUME NEW q \in Process(sys)
               PROVE  seen'[q] \subseteq created /\ seen'[q] \subseteq sys.needs[q]
    BY DEF Process
  <2> QED
    BY <1>2, <1>3 DEF PortInv
<1> QED
  BY <1>8, <1>9, <1>10 DEF PortInv

\* A process creates only what can be created, and all it ever will once it has seen all
\* its inputs.
LEMMA FireConnectPort ==
    ASSUME TypeOK, LookInv, PortInv, NEW F, NEW rep, ControlInv(F, rep), NEW v \in Voice,
           FireConnect(v)
    PROVE  PortInv'
<1>0. PassTypes /\ PortTypes /\ sys \in Systems /\ pc[v] = "look"
  BY DEF TypeOK, FireConnect
<1>1. PICK p \in Process(sys) : p = at[v] /\ sys.home[p] = v /\ Unseen(p) = todo[v] \cup missing[v]
  BY <1>0 DEF LookInv, LookAt, Local
<1>2. /\ todo[v] = {} /\ ~ (p \in sys.all /\ missing[v] # {})
      /\ created' = created \cup Creates(p) /\ called' = called \cup {p}
      /\ UNCHANGED <<sys, seen>>
  BY <1>1 DEF FireConnect
<1>3. p \in sys.all => sys.needs[p] \subseteq seen[p]
  BY <1>1, <1>2 DEF Unseen
<1>4. /\ \A o \in Output(sys) : sys.after[o] \subseteq sys.needs[sys.owner[o]]
      /\ \A q \in Process(sys) : sys.home[q] \in Voice
  BY <1>0, SystemFacts
<1>5. \A S : Stable(S)' <=> Stable(S)
  BY <1>2 DEF Stable, Output
<1>6. ASSUME NEW S \in SUBSET Output(sys), Stable(S) PROVE created' \subseteq S
  <2>1. created \subseteq S /\ seen[p] \subseteq created
    BY <1>6 DEF PortInv
  <2>2. ASSUME NEW o \in Creates(p) PROVE o \in S
    <3>1. o \in Output(sys) /\ sys.owner[o] = p /\ sys.after[o] \subseteq S
      BY <2>1 DEF Creates
    <3>2. p \in sys.all => sys.needs[p] \subseteq S
      BY <1>3, <2>1
    <3> QED
      BY <1>6, <3>1, <3>2 DEF Stable
  <2> QED
    BY <1>2, <2>1, <2>2
<1>7. ASSUME seen[p] = sys.needs[p] PROVE AllOut(p)'
  <2> SUFFICES ASSUME NEW o \in Output(sys), sys.owner[o] = p PROVE o \in created'
    BY <1>2 DEF AllOut, Output
  <2>1. sys.after[o] \subseteq seen[p]
    BY <1>4, <1>7
  <2> QED
    BY <1>2, <2>1 DEF Creates
<1>8. ASSUME NEW q \in called', (seen[q] = sys.needs[q] /\ ~ Looking(q))' PROVE AllOut(q)'
  <2>1. CASE q = p
    BY <1>2, <1>7, <1>8, <2>1
  <2>2. CASE q # p
    <3>1. q \in called /\ q \in Process(sys)
      BY <1>0, <1>2, <1>8, <2>2 DEF PortTypes
    <3>2. ~ Looking(q)
      <4>1. sys.home[q] = v \/ pc[sys.home[q]] = "pass"
        BY <1>0, <1>4, <3>1, LeaderIs DEF ControlInv
      <4> QED
        BY <1>1, <2>2, <4>1 DEF Looking
    <3>3. AllOut(q)
      BY <1>2, <1>8, <3>1, <3>2 DEF PortInv
    <3> QED
      BY <1>2, <3>3 DEF AllOut, Output
  <2> QED
    BY <2>1, <2>2
<1>9. \A S \in SUBSET Output(sys)' : Stable(S)' => created' \subseteq S
  BY <1>2, <1>5, <1>6 DEF Output
<1>10. \A q \in Process(sys)' : seen'[q] \subseteq created' /\ seen'[q] \subseteq sys'.needs[q]
  BY <1>2 DEF PortInv, Process
<1> QED
  BY <1>8, <1>9, <1>10 DEF PortInv

LEMMA PortNext ==
    ASSUME TypeOK, LookInv, RateInv, PortInv, StreamInv, NEW F, NEW rep, ControlInv(F, rep),
           NEW v \in Voice, Step(v), pc \in [Voice -> Fine]
    PROVE  PortInv'
<1>0. PassTypes /\ LookTypes /\ PortTypes /\ sys \in Systems
  BY DEF TypeOK
<1>1. called \subseteq Process(sys) /\ \A q \in Process(sys) : sys.home[q] \in Voice
  BY <1>0, SystemFacts DEF PortTypes
<1>2. CASE FireConnect(v)
  BY <1>2, FireConnectPort
<1>3. CASE FindHere(v)
  <2>1. PICK o : o = Lowest(todo[v])
    OBVIOUS
  <2>2. /\ pc[v] = "look" /\ Connect(v, o) /\ o \in todo[v]
        /\ UNCHANGED <<sys, pc, at, called, created>>
    BY <1>0, <1>3, <2>1, SoughtIs DEF FindHere, passVars
  <2>3. o \in created
    <3>1. CASE \E r \in routes[v] : r.name = o
      <4>1. PICK r \in routes[v] : r.name = o
        BY <3>1
      <4>2. r.name \in Owned(r.from)
        BY DEF StreamInv, RouteInv
      <4> QED
        BY <4>1, <4>2 DEF Owned
    <3> QED
      BY <1>3, <2>1, <3>1 DEF FindHere
  <2> QED
    BY <2>2, <2>3, ConnectPort
<1>4. CASE Reply(v)
  <2>1. PICK w \in Voice, o \in Output(sys) : o \in todo[v] /\ o \in Owned(w) /\ Connect(v, o)
    BY <1>4, ReplyIs DEF Found
  <2>2. pc[v] = "reply" /\ pc'[v] = "look"
    BY <1>4, ReplyIs
  <2>3. /\ UNCHANGED <<sys, at, called, created>> /\ \A x \in Voice : x # v => pc'[x] = pc[x]
    BY <1>0, <1>4 DEF Reply, passVars, Set, PassTypes
  <2>4. o \in created
    BY <2>1 DEF Owned
  <2> QED
    BY <2>1, <2>2, <2>3, <2>4, ConnectPort
<1>5. CASE WaitForAll(v)
  <2>1. PICK p \in Process(sys) : p = at[v] /\ sys.home[p] = v /\ missing[v] \subseteq Unseen(p)
    BY <1>5 DEF WaitForAll, LookInv, LookAt, Local
  <2>2. /\ pc[v] = "look" /\ missing[v] # {} /\ UNCHANGED <<sys, seen, called, created>>
    BY <1>5 DEF WaitForAll, portVars
  <2>3. seen[p] # sys.needs[p]
    BY <2>1, <2>2 DEF Unseen
  <2>4. ASSUME NEW q \in Process(sys), Looking(q), seen[q] = sys.needs[q] PROVE FALSE
    <3>1. sys.home[q] = v \/ pc[sys.home[q]] = "pass"
      BY <1>0, <1>1, <2>2, LeaderIs DEF ControlInv
    <3> QED
      BY <2>1, <2>3, <2>4, <3>1 DEF Looking
  <2> QED
    BY <1>1, <2>2, <2>4, PortKept
<1>6. CASE BeginProcess(v)
  <2>1. /\ Passing(v) /\ UNCHANGED <<sys, seen, called, created>>
    BY <1>6 DEF BeginProcess, portVars
  <2>2. \A w \in Voice : pc[w] = "pass"
    BY <1>0, <2>1, LeaderIs DEF ControlInv, Passing
  <2>3. \A q \in Process(sys) : ~ Looking(q)
    BY <1>1, <2>2 DEF Looking
  <2> QED
    BY <1>1, <2>1, <2>3, PortKept
<1>7. CASE Ask(v) \/ NotFound(v)
  <2>1. /\ UNCHANGED <<sys, at, seen, called, created>> /\ pc'[v] \in {"look", "reply"}
        /\ \A x \in Voice : x # v => pc'[x] = pc[x]
    BY <1>0, <1>7 DEF Ask, NotFound, passVars, portVars, Set, PassTypes
  <2>2. \A q \in Process(sys) : Looking(q) => Looking(q)'
    BY <1>1, <2>1 DEF Looking
  <2> QED
    BY <1>1, <2>1, <2>2, PortKept
<1>8. CASE PassOver(v) \/ EndPass(v) \/ Serve(v)
  <2>1. /\ UNCHANGED <<sys, seen, called, created>> /\ pc[v] = "pass"
        /\ \A x \in Voice : x # v => pc'[x] = pc[x] /\ at'[x] = at[x]
    BY <1>0, <1>8 DEF PassOver, EndPass, Serve, ServeEndPhase, ServeAnnounce, ServeFind,
       Serves, EndTurn, Passing, passVars, portVars, Set, PassTypes
  <2>2. \A q \in Process(sys) : Looking(q) => Looking(q)'
    BY <1>1, <2>1 DEF Looking
  <2> QED
    BY <1>1, <2>1, <2>2, PortKept
<1>9. CASE BaseRate(v) \/ Barrier(v)
  <2>1. /\ UNCHANGED <<sys, at, seen, called, created>> /\ pc[v] \notin {"look", "reply"}
        /\ \A x \in Voice : x # v => pc'[x] = pc[x]
    BY <1>0, <1>9 DEF BaseRate, Barrier, PushRates, TakeBaseRate, CollectRates, PushBaseRate,
       Sync, Synchronize, Opened, Expect, portVars, passVars, Set, PassTypes
  <2>2. \A q \in Process(sys) : Looking(q) => Looking(q)'
    BY <1>1, <2>1 DEF Looking
  <2> QED
    BY <1>1, <2>1, <2>2, PortKept
<1> QED
  BY <1>2, <1>3, <1>4, <1>5, <1>6, <1>7, <1>8, <1>9 DEF Step, LocalPass

-----------------------------------------------------------------------------
\* Announcements.
Hears(s, o) == \E i \in 1 .. Len(s) : s[i] = AnnMsg(o)

LEMMA HearsLeft ==
    ASSUME NEW T, NEW s \in Seq(T), NEW t \in Seq(T), NEW o, Hears(s, o)
    PROVE  Hears(s \o t, o)
<1>1. PICK i \in 1 .. Len(s) : s[i] = AnnMsg(o)
  BY DEF Hears
<1>2. i \in 1 .. Len(s \o t) /\ (s \o t)[i] = AnnMsg(o)
  BY <1>1, Concat
<1> QED
  BY <1>2 DEF Hears

LEMMA HearsRight ==
    ASSUME NEW T, NEW s \in Seq(T), NEW t \in Seq(T), NEW o, Hears(t, o)
    PROVE  Hears(s \o t, o)
<1>1. PICK i \in 1 .. Len(t) : t[i] = AnnMsg(o)
  BY DEF Hears
<1>2. Len(s) + i \in 1 .. Len(s \o t) /\ (s \o t)[Len(s) + i] = AnnMsg(o)
  BY <1>1, Concat
<1> QED
  BY <1>2 DEF Hears

LEMMA HearsAppend ==
    ASSUME NEW T, NEW s \in Seq(T), NEW m \in T, NEW o, Hears(s, o)
    PROVE  Hears(Append(s, m), o)
<1>1. Append(s, m) = s \o <<m>> /\ <<m>> \in Seq(T)
  BY AppendIsConcat, OneMessage
<1> QED
  BY <1>1, HearsLeft

LEMMA HearsTail ==
    ASSUME NEW T, NEW s \in Seq(T), s # <<>>, NEW o, Hears(s, o)
    PROVE  Head(s) = AnnMsg(o) \/ Hears(Tail(s), o)
<1>1. /\ Len(s) \in Nat /\ Head(s) = s[1] /\ Len(Tail(s)) = Len(s) - 1
      /\ \A i \in 1 .. Len(s) - 1 : Tail(s)[i] = s[i + 1]
  BY HeadTail
<1>2. PICK i \in 1 .. Len(s) : s[i] = AnnMsg(o)
  BY DEF Hears
<1>3. CASE i = 1
  BY <1>1, <1>2, <1>3
<1>4. CASE i # 1
  <2>1. i - 1 \in 1 .. Len(Tail(s)) /\ Tail(s)[i - 1] = AnnMsg(o)
    BY <1>1, <1>2, <1>4
  <2> QED
    BY <2>1 DEF Hears
<1> QED
  BY <1>3, <1>4

\* No announcement is lost by a step that pulls none.
LEMMA AnnounceKept ==
    ASSUME AnnounceInv, UNCHANGED <<sys, created, announced>>,
           \A u, w \in Voice : u # w => \A o : Hears(chan[u][w], o) => Hears(chan'[u][w], o)
    PROVE  AnnounceInv'
<1>1. \A u : Owned(u)' = Owned(u)
  BY DEF Owned
<1>2. ASSUME NEW u \in Voice, NEW w \in Voice, u # w, NEW o \in Owned(u)
      PROVE  Announced(u, w, o)'
  <2>1. o \in announced[w][u] \/ Hears(chan[u][w], o)
    BY <1>2 DEF AnnounceInv, Announced, Hears
  <2>2. o \in announced'[w][u] \/ Hears(chan'[u][w], o)
    BY <1>2, <2>1
  <2> QED
    BY <2>2 DEF Announced, Hears, AnnMsg
<1> QED
  BY <1>1, <1>2 DEF AnnounceInv

LEMMA PulledKept ==
    ASSUME TypeOK, AnnounceInv, NEW v \in Voice, NEW w \in Voice, Arrived(v, w), Pulled(v, w),
           Message(v, w).tag # "ANNOUNCEOUTPUT", UNCHANGED <<sys, created, announced>>
    PROVE  AnnounceInv'
<1>1. /\ chan'[w][v] = Tail(chan[w][v])
      /\ chan[w][v] \in Seq(Msg(sys)) /\ chan[w][v] # <<>>
      /\ Message(v, w) = Head(chan[w][v])
      /\ \A x, y \in Voice : x # w \/ y # v => chan'[x][y] = chan[x][y]
  BY PulledEffect DEF TypeOK
<1>2. ASSUME NEW o, Hears(chan[w][v], o) PROVE Hears(chan'[w][v], o)
  <2>1. Head(chan[w][v]) # AnnMsg(o)
    BY <1>1, MsgTags
  <2> QED
    BY <1>1, <1>2, <2>1, HearsTail
<1>3. \A x, y \in Voice : x # y => \A o : Hears(chan[x][y], o) => Hears(chan'[x][y], o)
  BY <1>1, <1>2
<1> QED
  BY <1>3, AnnounceKept

LEMMA BroadcastKept ==
    ASSUME TypeOK, AnnounceInv, NEW v \in Voice, NEW ms \in Seq(Msg(sys)), Broadcast(v, ms),
           UNCHANGED <<sys, created, announced>>
    PROVE  AnnounceInv'
<1>1. /\ \A w \in Voice : w # v => chan'[v][w] = chan[v][w] \o ms
      /\ \A x, y \in Voice : x # v => chan'[x][y] = chan[x][y]
      /\ \A x, y \in Voice : chan[x][y] \in Seq(Msg(sys))
  <2>1. ChanTypes
    BY DEF TypeOK
  <2>2. \A x, y \in Voice : chan[x][y] \in Seq(Msg(sys))
    BY <2>1 DEF ChanTypes
  <2> QED
    BY <2>1, <2>2, BroadcastEffect
<1>2. ASSUME NEW x \in Voice, NEW y \in Voice, x # y, NEW o, Hears(chan[x][y], o)
      PROVE  Hears(chan'[x][y], o)
  <2>1. CASE x = v
    <3>1. chan'[x][y] = chan[x][y] \o ms /\ chan[x][y] \in Seq(Msg(sys))
      BY <1>1, <1>2, <2>1
    <3> QED
      BY <1>2, <3>1, HearsLeft
  <2>2. CASE x # v
    BY <1>1, <1>2, <2>2
  <2> QED
    BY <2>1, <2>2
<1> QED
  BY <1>2, AnnounceKept

LEMMA SendKept ==
    ASSUME TypeOK, AnnounceInv, NEW v \in Voice, NEW w \in Voice, NEW m \in Msg(sys),
           Send(v, w, m), UNCHANGED <<sys, created, announced>>
    PROVE  AnnounceInv'
<1>1. /\ chan'[v][w] = Append(chan[v][w], m)
      /\ \A x, y \in Voice : x # v \/ y # w => chan'[x][y] = chan[x][y]
      /\ \A x, y \in Voice : chan[x][y] \in Seq(Msg(sys))
  <2>1. ChanTypes
    BY DEF TypeOK
  <2>2. \A x, y \in Voice : chan[x][y] \in Seq(Msg(sys))
    BY <2>1 DEF ChanTypes
  <2> QED
    BY <2>1, <2>2, SendEffect
<1>2. ASSUME NEW x \in Voice, NEW y \in Voice, x # y, NEW o, Hears(chan[x][y], o)
      PROVE  Hears(chan'[x][y], o)
  <2>1. CASE x = v /\ y = w
    <3>1. chan'[x][y] = Append(chan[x][y], m) /\ chan[x][y] \in Seq(Msg(sys))
      BY <1>1, <2>1
    <3> QED
      BY <1>2, <3>1, HearsAppend
  <2>2. CASE ~ (x = v /\ y = w)
    BY <1>1, <1>2, <2>2
  <2> QED
    BY <2>1, <2>2
<1> QED
  BY <1>2, AnnounceKept

\* All new outputs are announced to all.
LEMMA FireConnectAnnounce ==
    ASSUME TypeOK, LookInv, AnnounceInv, NEW v \in Voice, FireConnect(v)
    PROVE  AnnounceInv'
<1>1. PICK p \in Process(sys) : p = at[v] /\ sys.home[p] = v
  BY DEF FireConnect, LookInv, LookAt, Local
<1>2. PICK ms : /\ ms = InSomeOrder(Tagged("ANNOUNCEOUTPUT", Announces(p)))
                /\ Broadcast(v, ms)
  BY <1>1 DEF FireConnect
<1>3. /\ ms \in Seq(Msg(sys))
      /\ \A o \in Announces(p) : \E i \in 1 .. Len(ms) : ms[i] = AnnMsg(o)
  BY <1>2, NewsIs
<1>4. created' = created \cup Creates(p) /\ UNCHANGED <<sys, announced>>
  BY <1>1 DEF FireConnect
<1>5. /\ \A w \in Voice : w # v => chan'[v][w] = chan[v][w] \o ms
      /\ \A x, y \in Voice : x # v => chan'[x][y] = chan[x][y]
      /\ \A x, y \in Voice : chan[x][y] \in Seq(Msg(sys))
  BY <1>2, <1>3, <1>4, BroadcastEffect DEF TypeOK, ChanTypes
<1>6. /\ \A u : Owned(u) \subseteq Owned(u)'
      /\ \A u : u # v => Owned(u)' = Owned(u)
      /\ \A o \in Owned(v)' : o \in Owned(v) \/ o \in Creates(p)
  BY <1>1, <1>4 DEF Owned, Creates
<1>7. Creates(p) \subseteq Announces(p)
  BY DEF Announces, Creates
<1>8. ASSUME NEW u \in Voice, NEW w \in Voice, u # w, NEW o \in Owned(u)'
      PROVE  Announced(u, w, o)'
  <2>1. CASE o \in Owned(u)
    <3>1. o \in announced[w][u] \/ Hears(chan[u][w], o)
      BY <1>8, <2>1 DEF AnnounceInv, Announced, Hears
    <3>2. ASSUME Hears(chan[u][w], o) PROVE Hears(chan'[u][w], o)
      <4>1. CASE u = v
        <5>1. chan'[u][w] = chan[u][w] \o ms /\ chan[u][w] \in Seq(Msg(sys))
          BY <1>5, <1>8, <4>1
        <5> QED
          BY <1>3, <3>2, <5>1, HearsLeft
      <4>2. CASE u # v
        BY <1>5, <3>2, <4>2
      <4> QED
        BY <4>1, <4>2
    <3> QED
      BY <1>4, <3>1, <3>2 DEF Announced, Hears, AnnMsg
  <2>2. CASE o \notin Owned(u)
    <3>1. u = v /\ o \in Announces(p)
      BY <1>6, <1>7, <1>8, <2>2
    <3>2. Hears(ms, o)
      BY <1>3, <3>1 DEF Hears
    <3>3. Hears(chan'[u][w], o)
      <4>1. chan'[u][w] = chan[u][w] \o ms /\ chan[u][w] \in Seq(Msg(sys))
        BY <1>5, <1>8, <3>1
      <4> QED
        BY <1>3, <3>2, <4>1, HearsRight
    <3> QED
      BY <3>3 DEF Announced, Hears, AnnMsg
  <2> QED
    BY <2>1, <2>2
<1>9. \A x, y \in Voice : announced'[x][y] \subseteq Owned(y)'
  BY <1>4, <1>6 DEF AnnounceInv
<1> QED
  BY <1>8, <1>9 DEF AnnounceInv

\* An announcement that is taken is kept.
LEMMA ServeAnnounceKept ==
    ASSUME TypeOK, AnnounceInv, NEW F, NEW rep, ControlInv(F, rep), NEW v \in Voice,
           ServeAnnounce(v)
    PROVE  AnnounceInv'
<1>1. PICK u \in Voice : u = pass[v]
  BY DEF TypeOK, PassTypes
<1>2. PICK m : m = Message(v, u)
  OBVIOUS
<1>3. /\ m \in Anns(u) /\ announced' = [announced EXCEPT ![v][u] = @ \cup {m.name}]
  BY <1>1, <1>2, ServeAnnounceControl
<1>4. Arrived(v, u) /\ Pulled(v, u) /\ UNCHANGED <<sys, created>>
  BY <1>1 DEF ServeAnnounce
<1>5. /\ chan'[u][v] = Tail(chan[u][v])
      /\ chan[u][v] \in Seq(Msg(sys)) /\ chan[u][v] # <<>> /\ m = Head(chan[u][v])
      /\ \A x, y \in Voice : x # u \/ y # v => chan'[x][y] = chan[x][y]
  BY <1>2, <1>4, PulledEffect DEF TypeOK
<1>6. m.name \in Owned(u)
  BY <1>3, AnnFacts
<1>7. /\ announced'[v][u] = announced[v][u] \cup {m.name}
      /\ \A x, y \in Voice : x # v \/ y # u => announced'[x][y] = announced[x][y]
  BY <1>3 DEF TypeOK, PortTypes
<1>8. \A x : Owned(x)' = Owned(x)
  BY <1>4 DEF Owned
<1>9. \A x, y \in Voice : announced'[x][y] \subseteq Owned(y)'
  BY <1>6, <1>7, <1>8 DEF AnnounceInv
<1>10. ASSUME NEW x \in Voice, NEW y \in Voice, x # y, NEW o \in Owned(x)
       PROVE  Announced(x, y, o)'
  <2>1. o \in announced[y][x] \/ Hears(chan[x][y], o)
    BY <1>10 DEF AnnounceInv, Announced, Hears
  <2>2. o \in announced'[y][x] \/ Hears(chan'[x][y], o)
    <3>1. CASE x = u /\ y = v
      <4>1. Head(chan[u][v]) = AnnMsg(o) => m.name = o
        BY <1>5, MsgTags
      <4>2. Hears(chan[u][v], o) => Head(chan[u][v]) = AnnMsg(o) \/ Hears(Tail(chan[u][v]), o)
        BY <1>5, HearsTail
      <4> QED
        BY <1>5, <1>7, <2>1, <3>1, <4>1, <4>2
    <3>2. CASE ~ (x = u /\ y = v)
      BY <1>5, <1>7, <2>1, <3>2
    <3> QED
      BY <3>1, <3>2
  <2> QED
    BY <2>2 DEF Announced, Hears, AnnMsg
<1> QED
  BY <1>8, <1>9, <1>10 DEF AnnounceInv

LEMMA AnnounceNext ==
    ASSUME TypeOK, LookInv, RateInv, AnnounceInv, NEW F, NEW rep, ControlInv(F, rep),
           NEW v \in Voice, Step(v), pc \in [Voice -> Fine]
    PROVE  AnnounceInv'
<1>0. /\ PassTypes /\ LookTypes /\ PortTypes /\ ChanTypes /\ sys \in Systems /\ Master \in Voice
  BY VoiceFacts DEF TypeOK
<1>1. sys' = sys /\ pc'[v] # "error"
  <2>1. "error" \notin Fine
    BY DEF Fine, Turning, Connected
  <2> QED
    BY <2>1, PassTypesNext, PcNext
<1>2. CASE FireConnect(v)
  BY <1>2, FireConnectAnnounce
<1>3. CASE ServeAnnounce(v)
  BY <1>3, ServeAnnounceKept
<1>4. CASE UNCHANGED <<chan, created, announced>>
  BY <1>1, <1>4, AnnounceKept
<1>5. CASE Ask(v)
  <2>1. Lowest(todo[v]) \in Output(sys)
    BY <1>0, <1>5, SoughtIs DEF Ask
  <2>2. Lowest(Askable(v, Lowest(todo[v]))) \in Voice
    <3>1. Lowest(Askable(v, Lowest(todo[v]))) \in Askable(v, Lowest(todo[v]))
      BY <1>0, <1>5, AskableIs DEF Ask
    <3> QED
      BY <3>1 DEF Askable
  <2>3. Send(v, Lowest(Askable(v, Lowest(todo[v]))), FindMsg(Lowest(todo[v])))
    BY <1>5 DEF Ask, FindMsg
  <2>4. FindMsg(Lowest(todo[v])) \in Msg(sys) /\ UNCHANGED <<created, announced>>
    BY <1>5, <2>1, MsgFacts DEF Ask, portVars
  <2> QED
    BY <1>1, <2>2, <2>3, <2>4, SendKept
<1>6. CASE Reply(v)
  <2>1. PICK w \in Voice : w = ask[v] /\ \E n : chan[w][v] = <<FoundMsg(n)>>
    <3>1. PICK w \in Voice, o \in Output(sys) : \E i \in DOMAIN inputRemotes[w] : Found(v, w, o, i)
      BY <1>6, ReplyIs
    <3>2. w = ask[v] /\ \E n : chan[w][v] = <<FoundMsg(n)>>
      BY <3>1 DEF Found
    <3> QED
      BY <3>2
  <2>2. Arrived(v, w) /\ Pulled(v, w) /\ UNCHANGED <<created, announced>>
    BY <1>6, <2>1 DEF Reply
  <2>3. Message(v, w).tag # "ANNOUNCEOUTPUT"
    <3>1. PICK n : chan[w][v] = <<FoundMsg(n)>>
      BY <2>1
    <3>2. Head(<<FoundMsg(n)>>) = FoundMsg(n)
      OBVIOUS
    <3> QED
      BY <3>1, <3>2, MsgTags DEF Message
  <2> QED
    BY <1>1, <2>2, <2>3, PulledKept
<1>7. CASE EndPass(v)
  <2>1. Broadcast(v, <<ReportOf(v)>>)
    BY <1>7 DEF EndPass, ReportOf
  <2>2. ReportOf(v) \in Msg(sys)
    BY <1>0, MsgFacts DEF ReportOf, Report, PassTypes
  <2>3. <<ReportOf(v)>> \in Seq(Msg(sys)) /\ UNCHANGED <<created, announced>>
    BY <1>7, <2>2, OneMessage DEF EndPass, portVars
  <2> QED
    BY <1>1, <2>1, <2>3, BroadcastKept
<1>8. CASE ServeEndPhase(v)
  <2>1. PICK u \in Voice : u = pass[v]
    BY <1>0 DEF PassTypes
  <2>2. /\ Arrived(v, u) /\ Pulled(v, u) /\ Message(v, u).tag = "ENDPHASE"
        /\ UNCHANGED <<created, announced>>
    BY <1>8, <2>1 DEF ServeEndPhase, Serves, portVars
  <2> QED
    BY <1>1, <2>2, PulledKept
<1>9. CASE ServeFind(v)
  <2>1. PICK u \in Voice, o \in Output(sys) : Finds(F, v, u, o)
    BY <1>9, ServeFindIs
  <2>2. /\ u # v /\ u = pass[v] /\ chan[v][u] = <<>>
        /\ chan'[v][u] = <<FoundMsg(MsgStreamID(v, o))>>
        /\ chan'[u][v] = <<>>
        /\ \A x, y \in Voice : (x # u \/ y # v) /\ (x # v \/ y # u) => chan'[x][y] = chan[x][y]
    BY <2>1 DEF Finds
  <2>3. Serves(v, "FINDOUTPUT") /\ UNCHANGED <<created, announced>>
    BY <1>9 DEF ServeFind
  <2>4. chan[u][v] # <<>> /\ Head(chan[u][v]).tag = "FINDOUTPUT" /\ chan[u][v] \in Seq(Msg(sys))
    BY <1>0, <2>2, <2>3 DEF Serves, Arrived, Message, ChanTypes
  <2>5. Tail(chan[u][v]) = <<>>
    <3>1. Message(v, u).tag = "FINDOUTPUT" /\ pc[v] = "pass" /\ pass[v] # v /\ Arrived(v, u)
      BY <2>2, <2>3 DEF Serves
    <3> QED
      BY <2>2, <3>1, ServedTags DEF Questions
  <2>6. \A n : ~ Hears(<<>>, n)
    BY DEF Hears
  <2>7. ASSUME NEW n, Hears(chan[u][v], n) PROVE FALSE
    <3>1. Head(chan[u][v]) # AnnMsg(n)
      BY <2>4, MsgTags
    <3>2. Hears(Tail(chan[u][v]), n)
      BY <2>4, <2>7, <3>1, HearsTail
    <3> QED
      BY <2>5, <2>6, <3>2
  <2>8. \A x, y \in Voice : x # y => \A n : Hears(chan[x][y], n) => Hears(chan'[x][y], n)
    BY <2>2, <2>7, <2>6
  <2> QED
    BY <1>1, <2>3, <2>8, AnnounceKept
<1>10. CASE PushRates(v)
  <2>1. /\ Send(v, Master, RatesMsg) /\ RatesMsg \in Msg(sys)
        /\ UNCHANGED <<created, announced>>
    BY <1>10, MsgFacts DEF PushRates, RatesMsg, portVars
  <2> QED
    BY <1>0, <1>1, <2>1, SendKept
<1>11. ASSUME NEW ms \in {BaseMsg, SyncMsg}, Broadcast(v, <<ms>>), UNCHANGED <<created, announced>>
       PROVE  AnnounceInv'
  <2>1. <<ms>> \in Seq(Msg(sys))
    BY <1>11, MsgFacts, OneMessage
  <2> QED
    BY <1>1, <1>11, <2>1, BroadcastKept
<1>12. CASE (v = Master /\ PushBaseRate) \/ Sync(v)
  BY <1>11, <1>12 DEF PushBaseRate, Sync, BaseMsg, SyncMsg, portVars
<1>13. ASSUME NEW w \in Voice, NEW tag \in {"PUSHRATES", "PUSHBASERATE", "SYNC"}, NEW then,
              Expect(v, w, tag, then), UNCHANGED <<created, announced>>
       PROVE  AnnounceInv'
  <2>1. Message(v, w).tag = tag
    BY <1>0, <1>1, <1>13 DEF Expect, Set, PassTypes
  <2> QED
    BY <1>1, <1>13, <2>1, PulledKept DEF Expect
<1>14. CASE TakeBaseRate(v)
  BY <1>0, <1>13, <1>14 DEF TakeBaseRate, portVars
<1>15. CASE v = Master /\ CollectRates
  BY <1>13, <1>15 DEF CollectRates, portVars
<1>16. CASE Synchronize(v)
  BY <1>4, <1>13, <1>16 DEF Synchronize, portVars
<1>17. CASE PassOver(v) \/ BeginProcess(v) \/ FindHere(v) \/ NotFound(v) \/ WaitForAll(v)
            \/ Opened(v)
  BY <1>4, <1>17 DEF PassOver, BeginProcess, FindHere, NotFound, WaitForAll, Opened, portVars
<1> QED
  BY <1>2, <1>3, <1>5, <1>6, <1>7, <1>8, <1>9, <1>10, <1>12, <1>14, <1>15, <1>16, <1>17
  DEF Step, LocalPass, Serve, BaseRate, Barrier

-----------------------------------------------------------------------------
\* Streams.
LEMMA EntryTypes ==
    ASSUME PortTypes, NEW v \in Voice, NEW i \in DOMAIN inputRemotes[v]
    PROVE  LET e == inputRemotes[v][i]
           IN /\ e \in Entry(sys) /\ e.stream \in Nat /\ e.to \in Voice
              /\ e = [name |-> e.name, stream |-> e.stream, to |-> e.to]
<1>1. inputRemotes[v] \in Seq(Entry(sys))
  BY DEF PortTypes
<1>2. inputRemotes[v][i] \in Entry(sys)
  BY <1>1
<1> QED
  BY <1>2 DEF Entry

LEMMA StreamKept ==
    ASSUME StreamInv, PortTypes, UNCHANGED <<sys, inputRemotes, routes>>,
           created \subseteq created',
           \A x, y \in Voice : Asks(x, y) => Asks(x, y)' /\ todo'[x] = todo[x]
    PROVE  StreamInv'
<1>1. \A u : Owned(u) \subseteq Owned(u)'
  BY OwnedGrow
<1>2. ASSUME NEW v \in Voice, NEW i \in DOMAIN inputRemotes[v] PROVE EntryInv(v, i)'
  <2>1. EntryInv(v, i)
    BY DEF StreamInv
  <2>2. inputRemotes[v][i].to \in Voice
    BY EntryTypes
  <2> QED
    BY <1>1, <2>1, <2>2 DEF EntryInv, Lowest
<1>3. ASSUME NEW v \in Voice, NEW r \in routes[v] PROVE RouteInv(v, r)'
  <2>1. RouteInv(v, r)
    BY DEF StreamInv
  <2> QED
    BY <1>1, <2>1 DEF RouteInv
<1>4. ASSUME NEW v \in Voice, NEW i \in DOMAIN inputRemotes[v], NEW j \in DOMAIN inputRemotes[v]
      PROVE  PairInv(v, i, j)'
  <2>1. PairInv(v, i, j)
    BY DEF StreamInv
  <2> QED
    BY <2>1 DEF PairInv
<1> QED
  BY <1>2, <1>3, <1>4 DEF StreamInv

\* The answer adds the routing entry that the stream was waiting for.
LEMMA ReplyStream ==
    ASSUME TypeOK, LookInv, StreamInv, NEW F, NEW rep, ControlInv(F, rep), NEW v \in Voice,
           Reply(v)
    PROVE  StreamInv'
<1>0. PassTypes /\ LookTypes /\ PortTypes /\ pc[v] = "reply"
  BY DEF TypeOK, Reply
<1>1. PICK w \in Voice, o \in Output(sys) : \E i \in DOMAIN inputRemotes[w] : Found(v, w, o, i)
  BY ReplyIs
<1>2. PICK i \in DOMAIN inputRemotes[w] : Found(v, w, o, i)
  BY <1>1
<1>3. PICK n \in Nat : n = inputRemotes[w][i].stream
  BY <1>0, EntryTypes
<1>4. /\ w = ask[v] /\ w # v /\ o = Lowest(todo[v]) /\ o \in Owned(w)
      /\ inputRemotes[w][i].name = o /\ inputRemotes[w][i].to = v
      /\ routes' = Set(routes, v, routes[v] \cup {[name |-> o, from |-> w, stream |-> n]})
  BY <1>2, <1>3 DEF Found, Streams
<1>5. /\ UNCHANGED <<sys, created, inputRemotes>>
      /\ \A x \in Voice : x # v => pc'[x] = pc[x] /\ ask'[x] = ask[x] /\ todo'[x] = todo[x]
  BY <1>0, <1>2 DEF Found, Connect, Reply, Set, PassTypes, LookTypes
<1>6. /\ routes'[v] = routes[v] \cup {[name |-> o, from |-> w, stream |-> n]}
      /\ \A x \in Voice : x # v => routes'[x] = routes[x]
  BY <1>0, <1>4 DEF Set, PortTypes
<1>7. \A u : Owned(u)' = Owned(u)
  BY <1>5 DEF Owned
<1>8. ASSUME NEW x \in Voice, NEW k \in DOMAIN inputRemotes[x] PROVE EntryInv(x, k)'
  <2>1. EntryInv(x, k) /\ inputRemotes[x][k].to \in Voice
    BY <1>0, EntryTypes DEF StreamInv
  <2> DEFINE e == inputRemotes[x][k]
  <2>2. CASE [name |-> e.name, from |-> x, stream |-> e.stream] \in routes[e.to]
    <3>1. [name |-> e.name, from |-> x, stream |-> e.stream] \in routes'[e.to]
      BY <1>6, <2>1, <2>2
    <3> QED
      BY <1>5, <1>7, <2>1, <3>1 DEF EntryInv
  <2>3. CASE Asks(e.to, x) /\ e.name = Lowest(todo[e.to]) /\ e.to # v
    <3>1. Asks(e.to, x)' /\ e.name = Lowest(todo'[e.to])
      BY <1>5, <2>1, <2>3 DEF Asks
    <3> QED
      BY <1>5, <1>7, <2>1, <3>1 DEF EntryInv, Lowest
  <2>4. CASE Asks(e.to, x) /\ e.name = Lowest(todo[e.to]) /\ e.to = v
    <3>1. x = w /\ e.name = o
      BY <1>4, <2>4 DEF Asks
    <3>2. e.stream = n
      <4>1. PairInv(w, k, i)
        BY <3>1 DEF StreamInv
      <4> QED
        BY <1>3, <1>4, <3>1, <4>1 DEF PairInv
    <3>3. [name |-> e.name, from |-> x, stream |-> e.stream] \in routes'[e.to]
      BY <1>6, <2>4, <3>1, <3>2
    <3> QED
      BY <1>5, <1>7, <2>1, <3>3 DEF EntryInv
  <2> QED
    BY <2>1, <2>2, <2>3, <2>4 DEF EntryInv
<1>9. ASSUME NEW x \in Voice, NEW r \in routes'[x] PROVE RouteInv(x, r)'
  <2>1. CASE r \in routes[x]
    <3>1. RouteInv(x, r)
      BY <2>1 DEF StreamInv
    <3> QED
      BY <1>5, <1>7, <3>1 DEF RouteInv
  <2>2. CASE r \notin routes[x]
    <3>1. x = v /\ r = [name |-> o, from |-> w, stream |-> n]
      BY <1>6, <1>9, <2>2
    <3>2. inputRemotes[w][i] = [name |-> o, stream |-> n, to |-> v]
      BY <1>0, <1>3, <1>4, EntryTypes
    <3>3. r.from = w /\ r.name = o /\ r.stream = n
      BY <3>1
    <3>4. \E j \in DOMAIN inputRemotes'[r.from] :
              inputRemotes'[r.from][j] = [name |-> r.name, stream |-> r.stream, to |-> x]
      BY <1>5, <3>1, <3>2, <3>3
    <3> QED
      BY <1>4, <1>7, <3>1, <3>3, <3>4 DEF RouteInv
  <2> QED
    BY <2>1, <2>2
<1>10. ASSUME NEW x \in Voice, NEW k \in DOMAIN inputRemotes[x], NEW j \in DOMAIN inputRemotes[x]
       PROVE  PairInv(x, k, j)'
  <2>1. PairInv(x, k, j)
    BY DEF StreamInv
  <2> QED
    BY <1>5, <2>1 DEF PairInv
<1> QED
  BY <1>5, <1>8, <1>9, <1>10 DEF StreamInv

\* A stream of its own, or that of the same output to another voice.
LEMMA ServeFindStream ==
    ASSUME TypeOK, LookInv, StreamInv, NEW F, NEW rep, ControlInv(F, rep), NEW v \in Voice,
           ServeFind(v)
    PROVE  StreamInv'
<1>0. PassTypes /\ LookTypes /\ PortTypes /\ ChanInv(F, rep)
  BY DEF TypeOK, ControlInv
<1>1. PICK u \in Voice, o \in Output(sys) : Finds(F, v, u, o)
  BY ServeFindIs
<1>2. /\ u # v /\ Asks(u, v) /\ o = Lowest(todo[u]) /\ o \in Owned(v) /\ u = pass[v]
      /\ inputRemotes' = Set(inputRemotes, v, Append(inputRemotes[v], NewEntry(v, o, u)))
  BY <1>1 DEF Finds
<1>3. UNCHANGED <<sys, pc, created, routes, todo, ask>>
  BY DEF ServeFind, lookVars
<1>4. \A i \in DOMAIN inputRemotes[v] : ~ Streams(v, i, o, u)
  <2>1. chan[u][v] # <<>>
    BY <1>2 DEF ServeFind, Serves, Arrived
  <2>2. Link(F, rep, u, v)
    BY <1>0, <1>2 DEF ChanInv
  <2> QED
    BY <1>2, <2>1, <2>2 DEF Link, Asked, Answered
<1>5. PICK s \in Seq(Entry(sys)) : s = inputRemotes[v]
  BY <1>0 DEF PortTypes
<1>6. PICK e \in Entry(sys) : e = NewEntry(v, o, u)
  BY <1>0, NewEntryType
<1>7. e.name = o /\ e.to = u /\ e.stream = MsgStreamID(v, o)
  BY <1>6 DEF NewEntry
<1>8. PICK n \in Nat : n = Len(s)
  OBVIOUS
<1>9. /\ DOMAIN inputRemotes[v] = 1 .. n /\ DOMAIN inputRemotes'[v] = 1 .. n + 1
      /\ inputRemotes'[v][n + 1] = e /\ \A i \in 1 .. n : inputRemotes'[v][i] = inputRemotes[v][i]
      /\ \A x \in Voice : x # v => inputRemotes'[x] = inputRemotes[x]
  <2>1. /\ inputRemotes'[v] = Append(s, e)
        /\ \A x \in Voice : x # v => inputRemotes'[x] = inputRemotes[x]
    BY <1>0, <1>2, <1>5, <1>6 DEF Set, PortTypes
  <2> QED
    BY <1>5, <1>8, <2>1
<1>10. \A i \in 1 .. n : inputRemotes[v][i].stream \in Nat /\ inputRemotes[v][i].stream < i
  BY <1>0, <1>9, EntryTypes DEF StreamInv, EntryInv
<1>11. \/ \E i \in 1 .. n : inputRemotes[v][i].name = o /\ e.stream = inputRemotes[v][i].stream
       \/ /\ \A i \in 1 .. n : inputRemotes[v][i].name # o
          /\ e.stream = n
  BY <1>0, <1>5, <1>7, <1>8, <1>9, StreamIdIs
<1>12. \A x : Owned(x)' = Owned(x)
  BY <1>3 DEF Owned
<1>13. ASSUME NEW x \in Voice, NEW k \in DOMAIN inputRemotes[x], x # v \/ k \in 1 .. n
       PROVE  EntryInv(x, k)'
  <2>1. EntryInv(x, k) /\ inputRemotes'[x][k] = inputRemotes[x][k]
    BY <1>9, <1>13 DEF StreamInv
  <2> QED
    BY <1>3, <1>12, <2>1 DEF EntryInv, Asks, Lowest
<1>14. EntryInv(v, n + 1)'
  <2>1. e.stream < n + 1
    BY <1>10, <1>11
  <2>2. Asks(u, v)' /\ Lowest(todo[u])' = o
    BY <1>2, <1>3 DEF Asks, Lowest
  <2> QED
    BY <1>2, <1>7, <1>9, <1>12, <2>1, <2>2 DEF EntryInv
<1>15. ASSUME NEW x \in Voice, NEW r \in routes[x] PROVE RouteInv(x, r)'
  <2>1. RouteInv(x, r) /\ r.from \in Voice
    BY <1>0 DEF StreamInv, PortTypes, Route
  <2>2. PICK i \in DOMAIN inputRemotes[r.from] :
            inputRemotes[r.from][i] = [name |-> r.name, stream |-> r.stream, to |-> x]
    BY <2>1 DEF RouteInv
  <2>3. i \in DOMAIN inputRemotes'[r.from] /\ inputRemotes'[r.from][i] = inputRemotes[r.from][i]
    BY <1>9, <2>1
  <2>4. r.from # x /\ r.name \in Owned(r.from)'
    BY <1>12, <2>1 DEF RouteInv
  <2> QED
    BY <2>2, <2>3, <2>4 DEF RouteInv
<1>16. ASSUME NEW k \in 1 .. n
       PROVE  /\ inputRemotes[v][k].name = o <=> inputRemotes[v][k].stream = e.stream
              /\ inputRemotes[v][k] # e
  <2>1. inputRemotes[v][k] # e
    BY <1>4, <1>7, <1>9 DEF Streams
  <2>2. CASE \E i \in 1 .. n : inputRemotes[v][i].name = o /\ e.stream = inputRemotes[v][i].stream
    <3>1. PICK i \in 1 .. n : inputRemotes[v][i].name = o /\ e.stream = inputRemotes[v][i].stream
      BY <2>2
    <3>2. PairInv(v, k, i)
      BY <1>9 DEF StreamInv
    <3> QED
      BY <2>1, <3>1, <3>2 DEF PairInv
  <2>3. CASE (\A i \in 1 .. n : inputRemotes[v][i].name # o) /\ e.stream = n
    <3>1. inputRemotes[v][k].stream \in Nat /\ inputRemotes[v][k].stream < k
      BY <1>10
    <3>2. inputRemotes[v][k].stream # e.stream
      BY <2>3, <3>1
    <3> QED
      BY <2>1, <2>3, <3>2
  <2> QED
    BY <1>11, <2>2, <2>3
<1>17. ASSUME NEW x \in Voice, NEW i \in DOMAIN inputRemotes'[x], NEW j \in DOMAIN inputRemotes'[x]
       PROVE  PairInv(x, i, j)'
  <2>1. CASE i \in DOMAIN inputRemotes[x] /\ j \in DOMAIN inputRemotes[x]
    <3>1. PairInv(x, i, j)
      BY <2>1 DEF StreamInv
    <3>2. inputRemotes'[x][i] = inputRemotes[x][i] /\ inputRemotes'[x][j] = inputRemotes[x][j]
      BY <1>9, <2>1
    <3> QED
      BY <3>1, <3>2 DEF PairInv
  <2>2. CASE x = v /\ i \in 1 .. n /\ j = n + 1
    <3>1. inputRemotes'[v][i] = inputRemotes[v][i] /\ inputRemotes'[v][j] = e
      BY <1>9, <2>2
    <3> QED
      BY <1>7, <1>16, <2>2, <3>1 DEF PairInv
  <2>3. CASE x = v /\ i = n + 1 /\ j \in 1 .. n
    <3>1. inputRemotes'[v][j] = inputRemotes[v][j] /\ inputRemotes'[v][i] = e
      BY <1>9, <2>3
    <3>2. /\ e.name = inputRemotes[v][j].name <=> e.stream = inputRemotes[v][j].stream
          /\ e # inputRemotes[v][j]
      BY <1>7, <1>16, <2>3
    <3> QED
      BY <2>3, <3>1, <3>2 DEF PairInv
  <2>4. CASE x = v /\ i = n + 1 /\ j = n + 1
    BY <2>4 DEF PairInv
  <2> QED
    BY <1>9, <1>17, <2>1, <2>2, <2>3, <2>4
<1>18. \A x \in Voice : \A k \in DOMAIN inputRemotes'[x] : EntryInv(x, k)'
  BY <1>9, <1>13, <1>14
<1> QED
  BY <1>3, <1>15, <1>17, <1>18 DEF StreamInv

LEMMA StreamNext ==
    ASSUME TypeOK, LookInv, RateInv, StreamInv, NEW F, NEW rep, ControlInv(F, rep),
           NEW v \in Voice, Step(v), pc \in [Voice -> Fine]
    PROVE  StreamInv'
<1>0. PassTypes /\ LookTypes /\ PortTypes
  BY DEF TypeOK
<1>1. CASE Reply(v)
  BY <1>1, ReplyStream
<1>2. CASE ServeFind(v)
  BY <1>2, ServeFindStream
<1>3. CASE /\ LocalPass(v) \/ Serve(v) \/ BaseRate(v) \/ Barrier(v)
           /\ ~ Reply(v) /\ ~ ServeFind(v) /\ ~ FindHere(v)
  <2>1. UNCHANGED <<sys, inputRemotes, routes>> /\ created \subseteq created'
    BY <1>3 DEF LocalPass, Serve, BaseRate, Barrier, PassOver, BeginProcess, Ask,
       NotFound, WaitForAll, FireConnect, EndPass, ServeEndPhase, ServeAnnounce, PushRates,
       TakeBaseRate, CollectRates, PushBaseRate, Sync, Synchronize, Opened, portVars
  <2>2. /\ pc[v] # "reply"
        /\ \A x \in Voice : x # v => pc'[x] = pc[x] /\ ask'[x] = ask[x] /\ todo'[x] = todo[x]
    BY <1>0, <1>3 DEF LocalPass, Serve, BaseRate, Barrier, PassOver, BeginProcess, Ask,
       NotFound, WaitForAll, FireConnect, EndPass, ServeEndPhase, ServeAnnounce, PushRates,
       TakeBaseRate, CollectRates, PushBaseRate, Sync, Synchronize, Opened, lookVars,
       Passing, Serves, EndTurn, Expect, Set, PassTypes, LookTypes
  <2>3. \A x, y \in Voice : Asks(x, y) => Asks(x, y)' /\ todo'[x] = todo[x]
    BY <2>2 DEF Asks
  <2> QED
    BY <1>0, <2>1, <2>3, StreamKept
<1>4. CASE FindHere(v)
  <2>1. /\ UNCHANGED <<sys, inputRemotes, routes, created, pc>> /\ pc[v] # "reply"
        /\ \A x \in Voice : x # v => ask'[x] = ask[x] /\ todo'[x] = todo[x]
    BY <1>0, <1>4 DEF FindHere, Connect, Set, LookTypes
  <2>2. \A x, y \in Voice : Asks(x, y) => Asks(x, y)' /\ todo'[x] = todo[x]
    BY <2>1 DEF Asks
  <2> QED
    BY <1>0, <2>1, <2>2, StreamKept
<1> QED
  BY <1>1, <1>2, <1>3, <1>4 DEF Step

-----------------------------------------------------------------------------
\* What the reports say.
LEMMA TallyTypes ==
    ASSUME TypeOK, NEW F, NEW rep, ControlInv(F, rep)
    PROVE  /\ F \in 0 .. Voices /\ Voices \in Nat /\ F \in Nat
           /\ F < Voices => F \in Voice
           /\ \A q \in Process(sys) : sys.home[q] \in Voice /\ sys.home[q] < Voices
                                       /\ sys.home[q] \in Nat /\ q \in Nat /\ q >= 1
           /\ \A u \in 0 .. F - 1 : u \in Voice
           /\ rep \in [Voice -> Report]
           /\ \A v \in Voice : at[v] \in Nat /\ v \in Nat /\ v < Voices
<1>1. PassTypes /\ sys \in Systems /\ F \in 0 .. Voices /\ rep \in [Voice -> Report]
  BY DEF TypeOK, ControlInv
<1>2. /\ Len(sys.home) \in Nat /\ Process(sys) = 1 .. Len(sys.home)
      /\ \A q \in Process(sys) : sys.home[q] \in Voice
  BY <1>1, SystemFacts
<1>3. \A v \in Voice : at[v] \in Nat
  BY <1>1, <1>2 DEF PassTypes
<1>4. /\ Voices \in Nat /\ F \in Nat
      /\ F < Voices => F \in Voice
      /\ \A u \in 0 .. F - 1 : u \in Voice
  BY <1>1, VoiceFacts
<1>5. \A q \in Process(sys) : sys.home[q] \in Voice /\ sys.home[q] < Voices
                              /\ sys.home[q] \in Nat /\ q \in Nat /\ q >= 1
  <2> TAKE q \in Process(sys)
  <2>1. q \in Nat /\ q >= 1 /\ sys.home[q] \in Voice
    BY <1>2
  <2> QED
    BY <2>1, VoiceFacts
<1> QED
  BY <1>1, <1>3, <1>4, <1>5, VoiceFacts

LEMMA TallyKept ==
    ASSUME TypeOK, NEW F, NEW rep, ControlInv(F, rep), TallyInv(F, rep),
           UNCHANGED <<sys, created>>,
           F < Voices => /\ at'[F] = at[F] /\ myFinished'[F] = myFinished[F]
                         /\ myProgress'[F] = myProgress[F],
           \A q \in Process(sys) : seen[q] = sys.needs[q] => seen'[q] = seen[q]
    PROVE  TallyInv(F, rep)'
<1>1. /\ F \in Nat /\ Voices \in Nat
      /\ \A q \in Process(sys) : sys.home[q] < Voices /\ sys.home[q] \in Nat
  BY TallyTypes
<1>2. /\ Process(sys)' = Process(sys) /\ \A u : Local(u)' = Local(u)
      /\ \A q \in Process(sys) : Full(q) => Full(q)'
      /\ \A q : Settled(q)' <=> Settled(q)
      /\ \A q : Lacking(q)' <=> Lacking(q)
  BY DEF Process, Local, Full, AllOut, Settled, Lacking, Output
<1>3. NoProgress(F, rep)' <=> NoProgress(F, rep)
  BY DEF NoProgress
<1>4. \A q \in Process(sys) : Passed(F, q)' <=> Passed(F, q)
  BY <1>1 DEF Passed
<1>5. \A u : Local(u) \subseteq Process(sys)
  BY DEF Local
<1>6. \A u \in 0 .. F - 1 : rep[u].finished => \A q \in Local(u)' : Full(q)'
  BY <1>2, <1>5 DEF TallyInv
<1>7. F < Voices /\ myFinished'[F] => \A q \in Local(F)' : q < at'[F] => Full(q)'
  BY <1>2, <1>5 DEF TallyInv
<1>8. ASSUME NoProgress(F, rep)'
      PROVE  /\ \A q \in Process(sys)' : Passed(F, q)' => Settled(q)'
             /\ \A u \in 0 .. F - 1 : ~ rep[u].finished => \E q \in Local(u)' : Lacking(q)'
             /\ F < Voices /\ ~ myFinished'[F] => \E q \in Local(F)' : Lacking(q)'
  BY <1>2, <1>3, <1>4, <1>8 DEF TallyInv
<1> QED
  BY <1>6, <1>7, <1>8 DEF TallyInv

\* One step on in a pass: process p, which the voice was at, is dealt with.
LEMMA TallyAdvance ==
    ASSUME TypeOK, NEW F, NEW rep, ControlInv(F, rep), TallyInv(F, rep),
           F < Voices, NEW p, p = at[F], UNCHANGED <<sys, seen>>,
           at'[F] = p + 1, created \subseteq created',
           myFinished'[F] => myFinished[F],
           myFinished'[F] /\ p \in Local(F) => Full(p)',
           ~ myProgress'[F] => /\ ~ myProgress[F] /\ created' = created
                               /\ p \in Local(F) => Settled(p)
                               /\ ~ myFinished'[F] /\ myFinished[F] =>
                                      p \in Local(F) /\ Lacking(p)
    PROVE  TallyInv(F, rep)'
<1>1. /\ F \in Nat /\ Voices \in Nat /\ p \in Nat
      /\ \A q \in Process(sys) : sys.home[q] < Voices /\ sys.home[q] \in Nat /\ q \in Nat
  BY TallyTypes
<1>2. /\ Process(sys)' = Process(sys) /\ \A u : Local(u)' = Local(u)
      /\ \A u : Local(u) \subseteq Process(sys)
      /\ \A q : Full(q) => Full(q)'
  BY DEF Process, Local, Full, AllOut, Output
<1>3. \A q \in Process(sys) : q < p + 1 <=> q < p \/ q = p
  BY <1>1
<1>4. \A u \in 0 .. F - 1 : rep[u].finished => \A q \in Local(u)' : Full(q)'
  BY <1>2 DEF TallyInv
<1>5. ASSUME myFinished'[F], NEW q \in Local(F), q < p + 1 PROVE Full(q)'
  <2>1. CASE q < p
    BY <1>2, <1>5, <2>1 DEF TallyInv
  <2>2. CASE q = p
    BY <1>5, <2>2
  <2> QED
    BY <1>2, <1>3, <1>5, <2>1, <2>2
<1>6. ASSUME NoProgress(F, rep)'
      PROVE  /\ \A q \in Process(sys)' : Passed(F, q)' => Settled(q)'
             /\ \A u \in 0 .. F - 1 : ~ rep[u].finished => \E q \in Local(u)' : Lacking(q)'
             /\ F < Voices /\ ~ myFinished'[F] => \E q \in Local(F)' : Lacking(q)'
  <2>1. NoProgress(F, rep) /\ ~ myProgress'[F] /\ created' = created
    BY <1>6 DEF NoProgress
  <2>2. /\ \A q : Settled(q)' <=> Settled(q)
        /\ \A q : Lacking(q)' <=> Lacking(q)
    BY <2>1 DEF Settled, Lacking, Output
  <2>3. ASSUME NEW q \in Process(sys), Passed(F, q)' PROVE Settled(q)
    <3>1. Passed(F, q) \/ (q = p /\ q \in Local(F))
      BY <1>3, <2>3 DEF Passed, Local
    <3> QED
      BY <2>1, <3>1 DEF TallyInv
  <2>4. F < Voices /\ ~ myFinished'[F] => \E q \in Local(F)' : Lacking(q)'
    BY <1>2, <2>1, <2>2 DEF TallyInv
  <2>5. \A u \in 0 .. F - 1 : ~ rep[u].finished => \E q \in Local(u)' : Lacking(q)'
    BY <1>2, <2>1, <2>2 DEF TallyInv
  <2> QED
    BY <1>2, <2>2, <2>3, <2>4, <2>5
<1> QED
  BY <1>2, <1>4, <1>5, <1>6 DEF TallyInv

\* A process that is passed over has created all it can.
LEMMA PassOverTally ==
    ASSUME TypeOK, PortInv, NEW F, NEW rep, ControlInv(F, rep), TallyInv(F, rep),
           NEW v \in Voice, PassOver(v)
    PROVE  TallyInv(F, rep)'
<1>1. v = F /\ F < Voices /\ pc[v] = "pass"
  BY LeaderIs DEF TypeOK, ControlInv, PassOver, Passing
<1>2. PICK p \in Process(sys) : p = at[F]
  BY <1>1 DEF PassOver
<1>3. /\ p \notin Local(F) \/ (Unseen(p) = {} /\ p \in called)
      /\ at'[F] = p + 1
      /\ UNCHANGED <<sys, seen, created, myFinished, myProgress>>
  BY <1>1, <1>2 DEF PassOver, portVars, Set, TypeOK, PassTypes
<1>4. ASSUME p \in Local(F) PROVE Full(p)
  <2>1. seen[p] = sys.needs[p] /\ p \in called
    BY <1>3, <1>4 DEF Unseen, PortInv
  <2>2. ~ Looking(p)
    BY <1>1, <1>4 DEF Looking, Local
  <2> QED
    BY <2>1, <2>2 DEF PortInv, Full
<1>5. Full(p) => Full(p)' /\ Settled(p)
  BY <1>3 DEF Full, AllOut, Settled, Output
<1> QED
  BY <1>1, <1>2, <1>3, <1>4, <1>5, TallyAdvance

\* A process that waits for all its inputs lacks one that does not exist.
LEMMA WaitForAllTally ==
    ASSUME TypeOK, LookInv, NEW F, NEW rep, ControlInv(F, rep), TallyInv(F, rep),
           NEW v \in Voice, WaitForAll(v)
    PROVE  TallyInv(F, rep)'
<1>1. v = F /\ F < Voices /\ pc[v] = "look"
  BY LeaderIs DEF TypeOK, ControlInv, WaitForAll
<1>2. PICK p \in Local(F) : p = at[F]
  BY <1>1 DEF LookInv, LookAt
<1>3. /\ p \in sys.all /\ missing[F] # {} /\ ~ myFinished'[F] /\ at'[F] = p + 1
      /\ UNCHANGED <<sys, seen, created, myProgress>>
  BY <1>1, <1>2 DEF WaitForAll, portVars, Set, TypeOK, PassTypes
<1>4. missing[F] \subseteq sys.needs[p] /\ missing[F] \cap created = {}
  BY <1>1, <1>2 DEF LookInv, LookAt, Unseen
<1>5. Lacking(p)
  BY <1>3, <1>4 DEF Lacking
<1>6. Settled(p)
  BY <1>3, <1>5 DEF Settled, Lacking
<1> QED
  BY <1>1, <1>2, <1>3, <1>5, <1>6, TallyAdvance

\* A process that is called creates what it can with what exists.
LEMMA FireConnectTally ==
    ASSUME TypeOK, LookInv, PortInv, PortInv', NEW F, NEW rep, ControlInv(F, rep),
           TallyInv(F, rep), NEW v \in Voice, FireConnect(v)
    PROVE  TallyInv(F, rep)'
<1>1. v = F /\ F < Voices /\ pc[v] = "look"
  BY LeaderIs DEF TypeOK, ControlInv, FireConnect
<1>2. PICK p \in Local(F) : p = at[F] /\ Unseen(p) = todo[F] \cup missing[F]
                            /\ missing[F] \cap created = {}
  BY <1>1 DEF LookInv, LookAt
<1>3. /\ todo[F] = {} /\ at'[F] = p + 1 /\ UNCHANGED <<sys, seen>> /\ pc'[F] = "pass"
      /\ created' = created \cup Creates(p) /\ called' = called \cup {p}
      /\ myFinished'[F] <=> myFinished[F] /\ missing[F] = {}
      /\ myProgress'[F] <=> myProgress[F] \/ Creates(p) # {}
  BY <1>1, <1>2 DEF FireConnect, Set, TypeOK, PassTypes
<1>4. p \in Process(sys) /\ sys.home[p] = F
  BY <1>2 DEF Local
<1>5. ASSUME missing[F] = {} PROVE Full(p)'
  <2>1. seen'[p] = sys'.needs[p]
    <3>1. seen[p] \subseteq sys.needs[p]
      BY <1>4 DEF PortInv
    <3>2. sys.needs[p] \ seen[p] = {}
      BY <1>2, <1>3, <1>5 DEF Unseen
    <3>3. seen' = seen /\ sys' = sys
      BY <1>3
    <3>4. seen[p] = sys.needs[p]
      BY <3>1, <3>2
    <3> QED
      BY <3>3, <3>4
  <2>2. ~ Looking(p)'
    BY <1>3, <1>4 DEF Looking
  <2> QED
    BY <1>3, <2>1, <2>2 DEF PortInv, Full
<1>6. ASSUME missing[F] # {} PROVE Lacking(p)
  BY <1>2, <1>6 DEF Lacking, Unseen
<1>7. ASSUME Creates(p) = {} PROVE Settled(p)
  <2> SUFFICES ASSUME NEW o \in Output(sys), sys.owner[o] = p, sys.after[o] \subseteq created
               PROVE  o \in created
    BY DEF Settled
  <2>1. sys.after[o] \subseteq sys.needs[p]
    BY SystemFacts DEF TypeOK
  <2>2. sys.after[o] \subseteq seen[p]
    BY <1>2, <1>3, <2>1 DEF Unseen
  <2> QED
    BY <1>7, <2>2 DEF Creates
<1>8. ~ myProgress'[F] => ~ myProgress[F] /\ created' = created /\ Settled(p)
  BY <1>3, <1>7
<1>9. /\ myFinished'[F] => myFinished[F] /\ Full(p)'
      /\ ~ myFinished'[F] /\ myFinished[F] => Lacking(p)
  BY <1>3, <1>5, <1>6
<1>10. created \subseteq created'
  BY <1>3
<1> QED
  BY <1>1, <1>2, <1>3, <1>8, <1>9, <1>10, TallyAdvance

\* The turn is over, and the report says what the pass has found.
LEMMA EndPassReport ==
    ASSUME TypeOK, NEW F, NEW rep, ControlInv(F, rep), TallyInv(F, rep), NEW v \in Voice,
           EndPass(v), NEW r, Reported(v, rep, r)
    PROVE  /\ \A u \in 0 .. v : r[u].finished => \A q \in Local(u) : Full(q)
           /\ (\A u \in 0 .. v : ~ r[u].progress) =>
                /\ \A q \in Process(sys) : sys.home[q] <= v => Settled(q)
                /\ \A u \in 0 .. v : ~ r[u].finished => \E q \in Local(u) : Lacking(q)
<1>1. /\ v = F /\ F < Voices /\ r \in [Voice -> Report] /\ r[v] = ReportOf(v)
      /\ \A u \in Voice : u # v => r[u] = rep[u]
  BY EndPassFacts, TallyTypes
<1>2. /\ r[v].finished = myFinished[v] /\ r[v].progress = myProgress[v]
  BY <1>1 DEF ReportOf
<1>3. /\ v \in Nat /\ \A u \in 0 .. v : u = v \/ u \in 0 .. F - 1
      /\ \A u \in 0 .. F - 1 : u \in Voice /\ u # v /\ u \in 0 .. v
      /\ \A q \in Process(sys) : sys.home[q] \in Nat
  BY <1>1, TallyTypes
<1>4. \A q \in Process(sys) : q < at[v]
  <2>1. /\ Len(sys.home) \in Nat /\ Process(sys) = 1 .. Len(sys.home)
        /\ at[v] \in 1 .. Len(sys.home) + 1
    BY SystemFacts DEF TypeOK, PassTypes
  <2>2. at[v] \notin Process(sys)
    BY DEF EndPass
  <2> QED
    BY <2>1, <2>2
<1>5. ASSUME NEW u \in 0 .. v, r[u].finished, NEW q \in Local(u) PROVE Full(q)
  <2>1. CASE u = v
    BY <1>1, <1>2, <1>4, <1>5, <2>1 DEF TallyInv, Local
  <2>2. CASE u \in 0 .. F - 1
    BY <1>1, <1>3, <1>5, <2>2 DEF TallyInv
  <2> QED
    BY <1>3, <2>1, <2>2
<1>6. ASSUME \A u \in 0 .. v : ~ r[u].progress
      PROVE  /\ \A q \in Process(sys) : sys.home[q] <= v => Settled(q)
             /\ \A u \in 0 .. v : ~ r[u].finished => \E q \in Local(u) : Lacking(q)
  <2>1. NoProgress(F, rep)
    BY <1>1, <1>2, <1>3, <1>6 DEF NoProgress
  <2>2. ASSUME NEW q \in Process(sys), sys.home[q] <= v PROVE Settled(q)
    <3>1. Passed(F, q)
      BY <1>1, <1>3, <1>4, <2>2 DEF Passed
    <3> QED
      BY <2>1, <3>1 DEF TallyInv
  <2>3. ASSUME NEW u \in 0 .. v, ~ r[u].finished PROVE \E q \in Local(u) : Lacking(q)
    <3>1. CASE u = v
      BY <1>1, <1>2, <2>1, <2>3, <3>1 DEF TallyInv
    <3>2. CASE u \in 0 .. F - 1
      BY <1>1, <1>3, <2>1, <2>3, <3>2 DEF TallyInv
    <3> QED
      BY <1>3, <3>1, <3>2
  <2> QED
    BY <2>2, <2>3
<1> QED
  BY <1>5, <1>6

LEMMA EndPassNext ==
    ASSUME TypeOK, NEW F, NEW rep, ControlInv(F, rep), TallyInv(F, rep), NEW v \in Voice,
           EndPass(v), NEW r, Reported(v, rep, r), NEW G, G = NextFront(v, r)
    PROVE  TallyInv(G, r)'
<1>1. /\ v = F /\ F < Voices
      /\ \A w \in Voice : w # v => ~ Leads(F, w)
  BY EndPassFacts, TallyTypes DEF Leads
<1>2. UNCHANGED <<sys, created, seen>>
  BY DEF EndPass, portVars
<1>3. \A w \in Voice : at'[w] = 1 /\ myFinished'[w]
  BY <1>1, EndPassEffect DEF ControlInv, LeadInv
<1>4. /\ Voices \in Nat /\ v \in Nat /\ v < Voices
      /\ \A q \in Process(sys) : sys.home[q] \in Nat /\ sys.home[q] < Voices /\ q \in Nat /\ q >= 1
      /\ \A x \in Nat : x < Voices => x \in Voice
  BY TallyTypes, VoiceFacts
<1>5. G = 0 \/ G = v + 1
  BY <1>4 DEF NextFront
<1>6. /\ Process(sys)' = Process(sys) /\ \A u : Local(u)' = Local(u)
      /\ \A q : Full(q)' <=> Full(q)
      /\ \A q : Settled(q)' <=> Settled(q)
      /\ \A q : Lacking(q)' <=> Lacking(q)
  BY <1>2 DEF Process, Local, Full, AllOut, Settled, Lacking, Output
<1>7. /\ G \in Nat
      /\ G < Voices => G \in Voice /\ at'[G] = 1 /\ myFinished'[G]
      /\ \A u \in 0 .. G - 1 : u \in 0 .. v
      /\ G # 0 => 0 .. G - 1 = 0 .. v
  BY <1>3, <1>4, <1>5
<1>8. \A q \in Process(sys) : Passed(G, q)' => G # 0 /\ sys.home[q] <= v
  <2> TAKE q \in Process(sys)
  <2> HAVE Passed(G, q)'
  <2>1. sys.home[q] < G
    BY <1>2, <1>4, <1>7 DEF Passed
  <2> QED
    BY <1>4, <1>5, <2>1
<1>9. \A u \in 0 .. G - 1 : r[u].finished => \A q \in Local(u)' : Full(q)'
  BY <1>6, <1>7, EndPassReport
<1>10. G < Voices /\ myFinished'[G] => \A q \in Local(G)' : q < at'[G] => Full(q)'
  BY <1>4, <1>6, <1>7 DEF Local
<1>11. ASSUME NoProgress(G, r)'
       PROVE  /\ \A q \in Process(sys)' : Passed(G, q)' => Settled(q)'
              /\ \A u \in 0 .. G - 1 : ~ r[u].finished => \E q \in Local(u)' : Lacking(q)'
  <2>1. CASE G = 0
    BY <1>6, <1>8, <2>1
  <2>2. CASE G # 0
    <3>1. \A u \in 0 .. v : ~ r[u].progress
      BY <1>7, <1>11, <2>2 DEF NoProgress
    <3>2. /\ \A q \in Process(sys) : sys.home[q] <= v => Settled(q)
          /\ \A u \in 0 .. v : ~ r[u].finished => \E q \in Local(u) : Lacking(q)
      BY <3>1, EndPassReport
    <3> QED
      BY <1>6, <1>7, <1>8, <3>2
  <2> QED
    BY <2>1, <2>2
<1> QED
  BY <1>7, <1>9, <1>10, <1>11 DEF TallyInv

LEMMA TallyNext ==
    ASSUME TypeOK, LookInv, RateInv, PortInv, PortInv', NEW F, NEW rep, ControlInv(F, rep),
           TallyInv(F, rep), NEW v \in Voice, Step(v), pc \in [Voice -> Fine], ~ EndPass(v)
    PROVE  TallyInv(F, rep)'
<1>0. PassTypes /\ LookTypes /\ PortTypes
  BY DEF TypeOK
<1>1. CASE PassOver(v)
  BY <1>1, PassOverTally
<1>2. CASE WaitForAll(v)
  BY <1>2, WaitForAllTally
<1>3. CASE FireConnect(v)
  BY <1>3, FireConnectTally
<1>4. CASE FindHere(v) \/ Reply(v)
  <2>1. /\ UNCHANGED <<sys, created, at, myFinished, myProgress>>
        /\ pc[v] \in {"look", "reply"}
    BY <1>4 DEF FindHere, Reply, passVars
  <2>2. \E o \in todo[v] : Connect(v, o)
    <3>1. CASE FindHere(v)
      BY <3>1, SoughtIs DEF FindHere, TypeOK
    <3>2. CASE Reply(v)
      BY <3>2, ReplyIs DEF Found
    <3> QED
      BY <1>4, <3>1, <3>2
  <2>3. PICK o \in todo[v] : Connect(v, o)
    BY <2>2
  <2>4. PICK p \in Process(sys) : p = at[v] /\ Unseen(p) = todo[v] \cup missing[v]
    BY <2>1 DEF LookInv, LookAt, Local
  <2>5. seen[p] # sys.needs[p] /\ \A q \in Process(sys) : q # p => seen'[q] = seen[q]
    BY <1>0, <2>3, <2>4 DEF Unseen, Connect, Set, PortTypes
  <2>6. \A q \in Process(sys) : seen[q] = sys.needs[q] => seen'[q] = seen[q]
    BY <2>5
  <2> QED
    BY <2>1, <2>6, TallyKept
<1>5. CASE /\ Step(v) /\ ~ EndPass(v) /\ ~ PassOver(v) /\ ~ WaitForAll(v) /\ ~ FireConnect(v)
           /\ ~ FindHere(v) /\ ~ Reply(v)
  <2>1. UNCHANGED <<sys, created, seen, at, myFinished, myProgress>>
    BY <1>5 DEF Step, LocalPass, Serve, BaseRate, Barrier, BeginProcess, Ask, NotFound,
       ServeEndPhase, ServeAnnounce, ServeFind, PushRates, TakeBaseRate, CollectRates,
       PushBaseRate, Sync, Synchronize, Opened, passVars, portVars
  <2> QED
    BY <2>1, TallyKept
<1> QED
  BY <1>1, <1>2, <1>3, <1>4, <1>5

-----------------------------------------------------------------------------
\* No voice sends itself a message, so it never pulls one from itself.
LEMMA SelfPulled ==
    ASSUME TypeOK, SelfInv, sys' = sys, NEW v \in Voice, NEW w \in Voice, Arrived(v, w),
           Pulled(v, w)
    PROVE  SelfInv'
<1>1. \A x, y \in Voice : x # w \/ y # v => chan'[x][y] = chan[x][y]
  BY PulledEffect DEF TypeOK
<1>2. w # v
  BY DEF SelfInv, Arrived
<1> QED
  BY <1>1, <1>2 DEF SelfInv

LEMMA SelfBroadcast ==
    ASSUME TypeOK, SelfInv, sys' = sys, NEW v \in Voice, NEW ms, Broadcast(v, ms)
    PROVE  SelfInv'
<1>1. chan'[v][v] = <<>> /\ \A x \in Voice : x # v => chan'[x] = chan[x]
  BY DEF Broadcast, TypeOK, ChanTypes
<1> QED
  BY <1>1 DEF SelfInv

LEMMA SelfSend ==
    ASSUME TypeOK, SelfInv, sys' = sys, NEW v \in Voice, NEW w \in Voice, w # v,
           NEW m \in Msg(sys), Send(v, w, m)
    PROVE  SelfInv'
<1>1. \A x, y \in Voice : x # v \/ y # w => chan'[x][y] = chan[x][y]
  BY SendEffect DEF TypeOK
<1> QED
  BY <1>1 DEF SelfInv

LEMMA SelfNext ==
    ASSUME TypeOK, LookInv, RateInv, SelfInv, NEW F, NEW rep, ControlInv(F, rep),
           NEW v \in Voice, Step(v), pc \in [Voice -> Fine]
    PROVE  SelfInv'
<1>0. PassTypes /\ LookTypes /\ sys \in Systems /\ Master \in Voice
  BY VoiceFacts DEF TypeOK
<1>1. sys' = sys
  BY PassTypesNext
<1>2. CASE UNCHANGED chan
  BY <1>2 DEF SelfInv
<1>3. CASE Ask(v)
  <2>1. Lowest(todo[v]) \in Output(sys)
    BY <1>0, <1>3, SoughtIs DEF Ask
  <2>2. Lowest(Askable(v, Lowest(todo[v]))) \in Voice \ {v}
    <3>1. Lowest(Askable(v, Lowest(todo[v]))) \in Askable(v, Lowest(todo[v]))
      BY <1>0, <1>3, AskableIs DEF Ask
    <3> QED
      BY <3>1 DEF Askable
  <2>3. Send(v, Lowest(Askable(v, Lowest(todo[v]))), FindMsg(Lowest(todo[v])))
    BY <1>3 DEF Ask, FindMsg
  <2>4. FindMsg(Lowest(todo[v])) \in Msg(sys)
    BY <2>1, MsgFacts
  <2> QED
    BY <1>1, <2>2, <2>3, <2>4, SelfSend
<1>4. CASE Reply(v)
  <2>1. ask[v] \in Voice
    BY <1>4 DEF Reply, LookInv, LookAt
  <2> QED
    BY <1>1, <1>4, <2>1, SelfPulled DEF Reply
<1>5. CASE FireConnect(v) \/ EndPass(v) \/ Sync(v) \/ (v = Master /\ PushBaseRate)
  <2>1. \E ms : Broadcast(v, ms)
    BY <1>5 DEF FireConnect, EndPass, Sync, PushBaseRate
  <2> QED
    BY <1>1, <2>1, SelfBroadcast
<1>6. CASE ServeEndPhase(v) \/ ServeAnnounce(v)
  <2>1. Arrived(v, pass[v]) /\ Pulled(v, pass[v]) /\ pass[v] \in Voice
    BY <1>0, <1>6 DEF ServeEndPhase, ServeAnnounce, Serves, PassTypes
  <2> QED
    BY <1>1, <2>1, SelfPulled
<1>7. CASE ServeFind(v)
  <2>1. \E u \in Voice : /\ u # v
                         /\ \A x, y \in Voice : (x # u \/ y # v) /\ (x # v \/ y # u) =>
                                chan'[x][y] = chan[x][y]
    BY <1>7, ServeFindIs DEF Finds
  <2> QED
    BY <2>1 DEF SelfInv
<1>8. CASE PushRates(v)
  <2>1. Send(v, Master, RatesMsg) /\ RatesMsg \in Msg(sys) /\ v # Master
    BY <1>8, MsgFacts DEF PushRates, RatesMsg
  <2> QED
    BY <1>0, <1>1, <2>1, SelfSend
<1>9. ASSUME NEW w \in Voice, NEW tag, NEW then, Expect(v, w, tag, then) PROVE SelfInv'
  BY <1>1, <1>9, SelfPulled DEF Expect
<1>10. CASE TakeBaseRate(v)
  BY <1>0, <1>9, <1>10 DEF TakeBaseRate
<1>11. CASE v = Master /\ CollectRates
  BY <1>9, <1>11 DEF CollectRates
<1>12. CASE Synchronize(v)
  BY <1>2, <1>9, <1>12 DEF Synchronize
<1>13. CASE PassOver(v) \/ BeginProcess(v) \/ FindHere(v) \/ NotFound(v) \/ WaitForAll(v)
            \/ Opened(v)
  BY <1>2, <1>13 DEF PassOver, BeginProcess, FindHere, NotFound, WaitForAll, Opened
<1> QED
  BY <1>3, <1>4, <1>5, <1>6, <1>7, <1>8, <1>10, <1>11, <1>12, <1>13
  DEF Step, LocalPass, Serve, BaseRate, Barrier

-----------------------------------------------------------------------------
\* The invariant holds at the start, and every step of a voice preserves it.
LEMMA ConnectInit == Init => ConnectInv
<1> SUFFICES ASSUME Init PROVE ConnectInv
  OBVIOUS
<1>1. /\ Master \in Voice /\ Voices \in Nat /\ Voices >= 1 /\ 0 \in Voice
      /\ \A v \in Voice : v \in Nat /\ v < Voices
  BY VoiceFacts
<1>2. /\ sys \in Systems /\ Len(sys.home) \in Nat /\ Process(sys) = 1 .. Len(sys.home)
      /\ \A q \in Process(sys) : sys.home[q] \in Voice /\ q >= 1
  BY SystemFacts DEF Init
<1>3. \A v \in Voice : /\ pc[v] = "pass" /\ pass[v] = 0 /\ at[v] = 1 /\ finished[v] /\ ~ progress[v]
                       /\ myFinished[v] /\ ~ myProgress[v] /\ rates[v] = {}
                       /\ inputRemotes[v] = <<>> /\ routes[v] = {}
                       /\ \A w \in Voice : chan[v][w] = <<>> /\ announced[v][w] = {}
  BY DEF Init
<1>4. TypeOK
  <2>1. PassTypes
    BY <1>1, <1>2 DEF Init, PassTypes, Turning
  <2>2. LookTypes /\ PortTypes /\ ChanTypes /\ rates \in [Voice -> SUBSET Voice]
    BY DEF Init, LookTypes, PortTypes, ChanTypes
  <2> QED
    BY <1>2, <2>1, <2>2 DEF TypeOK
<1>5. LookInv /\ RateInv /\ SelfInv /\ \A v \in Voice : pc[v] # "error"
  BY <1>1, <1>3 DEF LookInv, LookAt, RateInv, SelfInv, Connected, AfterBase
<1>6. PortInv /\ AnnounceInv
  <2>1. created = {} /\ called = {} /\ \A q \in Process(sys) : seen[q] = {}
    BY DEF Init
  <2> QED
    BY <1>3, <2>1 DEF PortInv, AnnounceInv, Owned
<1>7. StreamInv
  BY <1>3 DEF StreamInv
<1> DEFINE rep == [v \in Voice |-> [tag |-> "ENDPHASE", finished |-> TRUE, progress |-> FALSE]]
<1>8. rep \in [Voice -> Report]
  BY DEF Report
<1> HIDE DEF rep
<1>9. \A w \in Voice : Pos(w) = 0 /\ ~ Old(0, w) /\ \A u \in Voice : ~ Pending(0, u, w)
  BY <1>1, <1>3 DEF Pos, Old, Pending, Turning
<1>10. WhereInv(0, rep) /\ LeadInv(0) /\ VerdictInv(0, rep)
  <2>1. 0 .. 0 - 1 = {} /\ 0 # Voices
    BY <1>1
  <2> QED
    BY <1>1, <1>3, <1>9, <2>1 DEF WhereInv, InTime, LeadInv, VerdictInv, Turning
<1>11. ChanInv(0, rep)
  <2> SUFFICES ASSUME NEW u \in Voice, NEW w \in Voice PROVE Link(0, rep, u, w)
    BY DEF ChanInv
  <2>1. chan[u][w] = <<>> /\ ~ Pending(0, u, w) /\ ~ Asks(u, w)
    BY <1>3, <1>9 DEF Asks
  <2>2. Post(u, w) = <<>>
    BY <1>3, NoPost DEF AfterRates
  <2> QED
    BY <2>1, <2>2, AllInEmpty DEF Link
<1>12. TallyInv(0, rep)
  <2>1. 0 .. 0 - 1 = {} /\ \A q \in Process(sys) : ~ Passed(0, q) /\ ~ (q < at[0])
    BY <1>1, <1>2, <1>3 DEF Passed
  <2> QED
    BY <1>1, <1>3, <2>1 DEF TallyInv, Local
<1>13. InvAt(0, rep) /\ 0 \in 0 .. Voices
  BY <1>1, <1>8, <1>10, <1>11, <1>12 DEF InvAt, ControlInv
<1> QED
  BY <1>4, <1>5, <1>6, <1>7, <1>8, <1>13 DEF ConnectInv

LEMMA ConnectStep ==
    ASSUME ConnectInv, NEW v \in Voice, Step(v)
    PROVE  ConnectInv'
<1>1. /\ TypeOK /\ LookInv /\ RateInv /\ PortInv /\ AnnounceInv /\ StreamInv /\ SelfInv
      /\ \A w \in Voice : pc[w] # "error"
  BY DEF ConnectInv
<1>2. PICK F \in 0 .. Voices, rep \in [Voice -> Report] : ControlInv(F, rep) /\ TallyInv(F, rep)
  BY DEF ConnectInv, InvAt
<1>3. pc \in [Voice -> Fine]
  <2>1. pc \in [Voice -> Turning \cup Connected \cup {"deadlock", "error"}]
    BY <1>1 DEF TypeOK, PassTypes
  <2>2. \A w \in Voice : pc[w] \in Fine
    BY <1>1, <2>1 DEF Fine
  <2> QED
    BY <2>1, <2>2
<1>4. TypeOK' /\ RateInv' /\ SelfInv'
  BY <1>1, <1>2, <1>3, TypesNext, RateNext, SelfNext
<1>5. LookInv' /\ AnnounceInv' /\ StreamInv'
  BY <1>1, <1>2, <1>3, LookNext, AnnounceNext, StreamNext
<1>6. PortInv'
  BY <1>1, <1>2, <1>3, PortNext
<1>7. \A w \in Voice : pc'[w] # "error"
  <2>1. pc' \in [Voice -> Fine] /\ "error" \notin Fine
    BY <1>1, <1>2, <1>3, PcNext DEF Fine, Turning, Connected
  <2> QED
    BY <2>1
<1>8. \E G \in 0 .. Voices, r \in [Voice -> Report] : ControlInv(G, r)' /\ TallyInv(G, r)'
  <2>1. CASE EndPass(v)
    <3>1. PICK r : Reported(v, rep, r)
      BY DEF Reported
    <3>2. PICK G : G = NextFront(v, r)
      OBVIOUS
    <3>3. ControlInv(G, r)'
      BY <1>1, <1>2, <2>1, <3>1, <3>2, EndPassControl
    <3>4. TallyInv(G, r)'
      BY <1>1, <1>2, <2>1, <3>1, <3>2, EndPassNext
    <3>5. G \in 0 .. Voices /\ r \in [Voice -> Report]
      BY <3>3 DEF ControlInv
    <3> QED
      BY <3>3, <3>4, <3>5
  <2>2. CASE ~ EndPass(v)
    <3>1. TallyInv(F, rep)'
      BY <1>1, <1>2, <1>3, <1>6, <2>2, TallyNext
    <3>2. ControlInv(F, rep)'
      <4>1. CASE PassOver(v) \/ BeginProcess(v) \/ FindHere(v) \/ NotFound(v) \/ WaitForAll(v)
        BY <1>1, <1>2, <4>1, PassingControl
      <4>2. CASE Ask(v) \/ Reply(v) \/ FireConnect(v)
        BY <1>1, <1>2, <4>2, AskControl, ReplyControl, FireConnectControl
      <4>3. CASE Serve(v)
        BY <1>1, <1>2, <4>3, ServeEndPhaseControl, ServeAnnounceControl, ServeFindControl
        DEF Serve
      <4>4. CASE BaseRate(v)
        BY <1>1, <1>2, <4>4, PushRatesControl, TakeBaseRateControl, CollectRatesControl,
           PushBaseRateControl DEF BaseRate
      <4>5. CASE Barrier(v)
        BY <1>1, <1>2, <4>5, SyncControl, SynchronizeControl, OpenedControl DEF Barrier
      <4> QED
        BY <2>2, <4>1, <4>2, <4>3, <4>4, <4>5 DEF Step, LocalPass
    <3> QED
      BY <1>2, <3>1, <3>2
  <2> QED
    BY <2>1, <2>2
<1> QED
  BY <1>4, <1>5, <1>6, <1>7, <1>8 DEF ConnectInv, InvAt, Report

LEMMA ConnectStutter == ConnectInv /\ UNCHANGED vars => ConnectInv'
<1> SUFFICES ASSUME ConnectInv, UNCHANGED vars PROVE ConnectInv'
  OBVIOUS
<1>1. UNCHANGED <<sys, pc, pass, finished, progress, myFinished, myProgress, at, todo, missing,
                  ask, seen, called, created, announced, inputRemotes, routes, chan, rates>>
  BY DEF vars, passVars, lookVars, portVars
<1>2. TypeOK' /\ \A v \in Voice : pc'[v] # "error"
  BY <1>1 DEF ConnectInv, TypeOK, PassTypes, LookTypes, PortTypes, ChanTypes, Msg, Report,
     Entry, Route, Process, Output
<1>3. LookInv' /\ RateInv' /\ SelfInv'
  BY <1>1 DEF ConnectInv, LookInv, LookAt, RateInv, SelfInv, Local, Unseen, Owned, NotHere,
     Process, Lowest
<1>4. PortInv' /\ AnnounceInv'
  BY <1>1 DEF ConnectInv, PortInv, AnnounceInv, Stable, AllOut, Looking, Announced, Owned,
     AnnMsg, Process, Output
<1>5. StreamInv'
  <2>1. \A x, y \in Voice : Asks(x, y) => Asks(x, y)'
    BY <1>1 DEF Asks
  <2> QED
    BY <1>1, <2>1, StreamKept DEF ConnectInv, TypeOK
<1>6. PICK F \in 0 .. Voices, rep \in [Voice -> Report] : ControlInv(F, rep) /\ TallyInv(F, rep)
  BY DEF ConnectInv, InvAt
<1>7. TallyInv(F, rep)'
  BY <1>1, <1>6, TallyKept DEF ConnectInv
<1>8. WhereInv(F, rep)' /\ LeadInv(F)' /\ VerdictInv(F, rep)'
  BY <1>1, <1>6 DEF ControlInv, WhereInv, LeadInv, VerdictInv, Late, InTime, Old, Leads, Pos
<1>9. ChanInv(F, rep)'
  <2> SUFFICES ASSUME NEW u \in Voice, NEW w \in Voice, u # w PROVE Link(F, rep, u, w)'
    BY DEF ChanInv
  <2>1. Link(F, rep, u, w)
    BY <1>6 DEF ControlInv, ChanInv
  <2>2. /\ Pending(F, u, w)' <=> Pending(F, u, w)
        /\ Asks(u, w)' <=> Asks(u, w)
        /\ Asks(w, u)' <=> Asks(w, u)
    BY <1>1 DEF Pending, Old, Pos, Asks
  <2>3. Post(u, w)' = Post(u, w)
    BY <1>1 DEF Post, RateSent, BaseSent, SyncSent, RatesMsg, BaseMsg, SyncMsg
  <2> QED
    BY <1>1, <2>1, <2>2, <2>3, LinkSame
<1> QED
  BY <1>2, <1>3, <1>4, <1>5, <1>6, <1>7, <1>8, <1>9 DEF ConnectInv, InvAt, ControlInv, Report

-----------------------------------------------------------------------------
\* The state of Engine::open in all voices, the messages on their way between them and
\* what each has counted are consistent: at any time one voice's turn it is, all others
\* are told of it by the messages they have yet to take, and the reports that were made
\* say what the processes have seen and created.
THEOREM ConnectInvariant == Spec => []ConnectInv
<1>1. ConnectInv /\ [Next]_vars => ConnectInv'
  BY ConnectStep, ConnectStutter DEF Next
<1> QED
  BY <1>1, ConnectInit, PTL DEF Spec

\* No message but those of the protocol is ever on its way.
LEMMA MessagesFine ==
    ASSUME ConnectInv, NEW u \in Voice, NEW w \in Voice, NEW i \in DOMAIN chan[u][w]
    PROVE  chan[u][w][i].tag # "OUTPUTNOTFOUND"
<1>1. /\ TypeOK /\ SelfInv /\ ChanTypes
  BY DEF ConnectInv, TypeOK
<1>2. PICK F \in 0 .. Voices, rep \in [Voice -> Report] : ChanInv(F, rep)
  BY DEF ConnectInv, InvAt, ControlInv
<1>3. u # w
  <2>1. DOMAIN chan[u][w] # {}
    OBVIOUS
  <2>2. DOMAIN <<>> = {}
    OBVIOUS
  <2> QED
    BY <1>1, <2>1, <2>2 DEF SelfInv
<1>4. Link(F, rep, u, w) /\ Link(F, rep, w, u)
  BY <1>2, <1>3 DEF ChanInv
<1>5. PICK c \in Seq(Msg(sys)) : c = chan[u][w]
  BY <1>1 DEF ChanTypes
<1>6. PICK p \in Seq(Msg(sys)) : p = Post(u, w)
  BY PostType
<1>7. \A k \in 1 .. Len(p) : p[k] \in {RatesMsg, BaseMsg, SyncMsg}
  <2>1. \A x : /\ Len(<<x>>) = 1 /\ <<x>>[1] = x
               /\ Len(<<BaseMsg, SyncMsg>>) = 2 /\ <<BaseMsg, SyncMsg>>[1] = BaseMsg
               /\ <<BaseMsg, SyncMsg>>[2] = SyncMsg /\ Len(<<>>) = 0
    OBVIOUS
  <2>2. p \in {<<>>, <<RatesMsg>>, <<BaseMsg>>, <<SyncMsg>>, <<BaseMsg, SyncMsg>>}
    <3>1. ~ (RateSent(u, w) /\ SyncSent(u, w))
      <4>1. pc[u] \in AfterSync => rates[Master] = Voice
        BY VoiceFacts DEF ConnectInv, RateInv, AfterSync, AfterBase
      <4> QED
        BY <4>1 DEF RateSent, SyncSent
    <3>2. RateSent(u, w) \/ BaseSent(u, w) \/ (~ RateSent(u, w) /\ ~ BaseSent(u, w))
      OBVIOUS
    <3> QED
      BY <1>6, <3>1, <3>2, PostCases
  <2> QED
    BY <2>1, <2>2
<1> DEFINE Good == Anns(u) \cup Report \cup {RatesMsg, BaseMsg, SyncMsg}
                     \cup {m \in Msg(sys) : m.tag \in {"FINDOUTPUT", "OUTPUTFOUND"}}
<1>8. \A m \in Good : m.tag # "OUTPUTNOTFOUND"
  BY AnnFacts, MsgFacts, MsgTags
<1>9. ASSUME NEW s \in Seq(Msg(sys)), NEW e \in Msg(sys), EndsWith(s, Anns(u), e)
      PROVE  \A k \in 1 .. Len(s) : s[k] \in Anns(u) \cup {e}
  <2>1. Len(s) \in Nat /\ \A k \in 1 .. Len(s) : k = Len(s) \/ k \in 1 .. Len(s) - 1
    OBVIOUS
  <2> QED
    BY <1>9, <2>1 DEF EndsWith
<1>10. i \in 1 .. Len(c) /\ Len(c) \in Nat
  BY <1>5
<1>11. c[i] \in Good
  <2>1. CASE Pending(F, u, w)
    <3>1. PICK s \in Seq(Msg(sys)) : EndsWith(s, Anns(u), rep[u]) /\ c = s \o p
      BY <1>4, <1>5, <1>6, <2>1 DEF Link
    <3>2. \A k \in 1 .. Len(s) : s[k] \in Anns(u) \cup Report
      <4>1. rep[u] \in Msg(sys) /\ rep[u] \in Report
        BY MsgFacts
      <4> QED
        BY <1>9, <3>1, <4>1
    <3>3. /\ Len(c) = Len(s) + Len(p) /\ Len(s) \in Nat /\ Len(p) \in Nat
          /\ \A k \in 1 .. Len(s) : c[k] = s[k]
          /\ \A k \in 1 .. Len(p) : c[Len(s) + k] = p[k]
      BY <3>1, Concat
    <3>4. CASE i <= Len(s)
      BY <1>10, <3>2, <3>3, <3>4
    <3>5. CASE i > Len(s)
      <4>1. i - Len(s) \in 1 .. Len(p) /\ i = Len(s) + (i - Len(s))
        BY <1>10, <3>3, <3>5
      <4>2. c[i] = p[i - Len(s)]
        BY <3>3, <4>1
      <4> QED
        BY <1>7, <4>1, <4>2
    <3> QED
      BY <1>10, <3>3, <3>4, <3>5
  <2>2. CASE Asks(u, w) \/ Asks(w, u)
    <3>1. ASSUME NEW x \in Voice, NEW y \in Voice, Asks(x, y)
          PROVE  Lowest(todo[x]) \in Output(sys)
      <4>1. pc[x] = "reply" /\ todo[x] # {}
        BY <3>1 DEF Asks, ConnectInv, LookInv, LookAt
      <4> QED
        BY <1>1, <4>1, SoughtIs DEF TypeOK
    <3>2. CASE Asks(u, w) /\ c # <<>>
      <4>1. EndsWith(c, Anns(u), FindMsg(Lowest(todo[u])))
        BY <1>4, <1>5, <3>2 DEF Link, Asked, Answered
      <4>2. FindMsg(Lowest(todo[u])) \in Msg(sys)
        BY <3>1, <3>2, MsgFacts
      <4>3. FindMsg(Lowest(todo[u])) \in Good
        BY <4>2, MsgTags
      <4> QED
        BY <1>9, <1>10, <4>1, <4>2, <4>3
    <3>3. CASE Asks(w, u) /\ c # <<>>
      <4>1. PICK k \in DOMAIN inputRemotes[u] : c = <<FoundMsg(inputRemotes[u][k].stream)>>
        BY <1>4, <1>5, <3>3 DEF Link, Asked, Answered
      <4>2. FoundMsg(inputRemotes[u][k].stream) \in Good
        BY <1>1, EntryTypes, MsgFacts, MsgTags DEF TypeOK
      <4>3. i = 1
        BY <1>10, <4>1
      <4> QED
        BY <4>1, <4>2, <4>3
    <3>4. c # <<>>
      BY <1>10
    <3> QED
      BY <2>2, <3>2, <3>3, <3>4
  <2>3. CASE ~ Pending(F, u, w) /\ ~ Asks(u, w) /\ ~ Asks(w, u)
    <3>1. CASE u = F
      BY <1>4, <1>5, <1>10, <2>3, <3>1 DEF Link, AllIn
    <3>2. CASE u # F
      <4>1. c = p
        BY <1>4, <1>5, <1>6, <2>3, <3>2 DEF Link
      <4> QED
        BY <1>7, <1>10, <4>1
    <3> QED
      BY <3>1, <3>2
  <2> QED
    BY <2>1, <2>2, <2>3
<1> QED
  BY <1>5, <1>8, <1>11

\* No voice fails because of a message that is out of place, and no voice is told that an
\* output which was announced does not exist (System::connectPhaseServe, findOutput,
\* Comms::synchronize and the pulls of the base rate in Engine::open).
THEOREM ConnectNeverConfused == Spec => []NeverConfused
<1>1. ConnectInv => NeverConfused
  BY MessagesFine DEF ConnectInv, NeverConfused
<1> QED
  BY <1>1, ConnectInvariant, PTL

\* The two ends of every stream agree, and an id means one output
\* (System::connectPhaseServe's MsgStreamID, Comms::addRoutingEntry).
THEOREM ConnectStreamsAgree == Spec => []StreamsAgree
<1>1. ConnectInv => StreamsAgree
  BY DEF ConnectInv, StreamInv, RouteInv, PairInv, StreamsAgree
<1> QED
  BY <1>1, ConnectInvariant, PTL

\* No voice runs before all of them have sent their last message of the initialisation
\* and know the base rate (Comms::synchronize).
THEOREM ConnectRunAfterAllOpened == Spec => []RunAfterAllOpened
<1>1. ConnectInv => RunAfterAllOpened
  BY DEF ConnectInv, RateInv, RunAfterAllOpened, AfterSync, AfterBase
<1> QED
  BY <1>1, ConnectInvariant, PTL

\* Once the last pass is over the outputs that exist are those that can, and a process
\* lacks an input only if no order of calls would give it one.
LEMMA VerdictIs ==
    ASSUME ConnectInv, NEW v \in Voice
    PROVE  /\ pc[v] = "deadlock" => ~ Connectable
           /\ pc[v] \in Connected => /\ created = Creatable
                                     /\ \A p \in Process(sys) : seen[p] = sys.needs[p]
<1>1. TypeOK /\ PortInv /\ created \subseteq Output(sys) /\ sys \in Systems
  BY DEF ConnectInv, TypeOK, PortTypes
<1>2. PICK F \in 0 .. Voices, rep \in [Voice -> Report] : ControlInv(F, rep) /\ TallyInv(F, rep)
  BY DEF ConnectInv, InvAt
<1>3. /\ Voices \in Nat /\ \A u \in 0 .. Voices - 1 : u \in Voice
      /\ \A q \in Process(sys) : sys.home[q] \in Voice /\ sys.home[q] \in 0 .. Voices - 1
                                 /\ sys.home[q] < Voices
      /\ \A o \in Output(sys) : sys.owner[o] \in Process(sys)
      /\ \A q \in Process(sys) : sys.needs[q] \subseteq Output(sys)
  BY <1>1, SystemFacts, VoiceFacts DEF Voice
<1>4. created \subseteq Creatable
  BY <1>1 DEF PortInv, Creatable
<1>5. ASSUME pc[v] \notin Turning
      PROVE  /\ F = Voices
             /\ pc[v] \in Connected => \A u \in Voice : rep[u].finished
             /\ pc[v] = "deadlock" => /\ \A u \in Voice : ~ rep[u].progress
                                      /\ \E u \in Voice : ~ rep[u].finished
  <2>1. F = Voices
    BY <1>2, <1>3, <1>5 DEF ControlInv, VerdictInv
  <2> QED
    BY <1>2, <2>1 DEF ControlInv, VerdictInv
<1>6. ASSUME pc[v] = "deadlock" PROVE ~ Connectable
  <2>1. /\ F = Voices /\ \A u \in Voice : ~ rep[u].progress
        /\ \E u \in Voice : ~ rep[u].finished
    BY <1>5, <1>6 DEF Turning
  <2>2. NoProgress(F, rep)
    BY <1>3, <2>1 DEF NoProgress
  <2>3. \A q \in Process(sys) : Settled(q)
    BY <1>2, <1>3, <2>1, <2>2 DEF TallyInv, Passed
  <2>4. Stable(created)
    BY <1>3, <2>3 DEF Stable, Settled
  <2>5. Creatable \subseteq created
    BY <1>1, <2>4 DEF Creatable
  <2>6. \E q \in Process(sys) : Lacking(q)
    <3>1. PICK u \in Voice : ~ rep[u].finished
      BY <2>1
    <3>2. u \in 0 .. F - 1
      BY <2>1 DEF Voice
    <3> QED
      BY <1>2, <2>2, <3>1, <3>2 DEF TallyInv, Local
  <2> QED
    BY <2>5, <2>6 DEF Connectable, Lacking
<1>7. ASSUME pc[v] \in Connected
      PROVE  created = Creatable /\ \A p \in Process(sys) : seen[p] = sys.needs[p]
  <2>1. F = Voices /\ \A u \in Voice : rep[u].finished
    BY <1>5, <1>7 DEF Turning, Connected
  <2>2. \A q \in Process(sys) : Full(q)
    BY <1>2, <1>3, <2>1 DEF TallyInv, Local
  <2>3. created = Output(sys)
    BY <1>1, <1>3, <2>2 DEF Full, AllOut
  <2>4. Creatable \subseteq Output(sys)
    BY DEF Creatable
  <2> QED
    BY <1>4, <2>2, <2>3, <2>4 DEF Full
<1> QED
  BY <1>6, <1>7

\* Every voice comes to the right verdict: E_DEADLOCK only for a system that cannot be
\* connected, and otherwise every input connected and every output created that can be
\* (System::localPass, connectPhaseServe and the loop of global passes in Engine::open).
THEOREM ConnectVerdictRight == Spec => []VerdictRight
<1>1. ConnectInv => VerdictRight
  BY VerdictIs DEF VerdictRight
<1> QED
  BY <1>1, ConnectInvariant, PTL
=============================================================================
