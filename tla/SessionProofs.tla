---------------------------- MODULE SessionProofs ----------------------------
(***************************************************************************)
(* Proofs about Session, for every number of voices, whatever fails where: *)
(* synchronize is a barrier, nothing is under way when the closing barrier *)
(* has been passed, and errors have a cause.                               *)
(*                                                                         *)
(* The argument counts SYNC messages.  Those that voice v has pulled from  *)
(* voice w, that wait in its queue and that are still in the channel are   *)
(* never more than w has sent; so v, which pulls one for each round it     *)
(* passes, cannot get ahead of w.                                          *)
(***************************************************************************)
EXTENDS Session, TLAPS, FiniteSetTheorems, FunctionTheorems, SequenceTheorems, WellFoundedInduction

\* The SYNC messages in a sequence of messages.
Syncs(s) == {i \in 1 .. Len(s) : s[i] = "SYNC"}
Count(s) == Cardinality(Syncs(s))

\* Every sample in a channel is followed by a SYNC.
SyncLast(s) ==
    \A i \in 1 .. Len(s) : s[i] = "PUSHDATA" => \E j \in i + 1 .. Len(s) : s[j] = "SYNC"

\* What is sent besides samples and SYNC.
Quiet   == {"ERROR", "CANCEL", "GOODBYE"}
Message == Quiet \cup {"SYNC", "PUSHDATA"}

Place == {"open", "pull", "timeout", "run", "wait", "close", "parting", "gone", "crashed"}

TypeInv ==
    /\ pc \in [Voice -> Place]
    /\ entered \in [Voice -> 0 .. Rounds]
    /\ passed \in [Voice -> 0 .. Rounds]
    /\ chan \in [Voice -> [Voice -> Seq(Message)]]
    /\ DOMAIN engine = Voice
    /\ \A v \in Voice :
         /\ {"next", "worker", "queue"} \subseteq DOMAIN engine[v]
         /\ engine[v].next \in 0 .. Voices
         /\ engine[v].queue \in [Voice -> Seq(Message)]

\* Where a voice is tells which rounds it has entered and passed.
ControlInv(v) ==
    /\ pc[v] = "open" => entered[v] = 0 /\ passed[v] = 0
    /\ pc[v] \in {"run", "wait"} => entered[v] = 1 /\ passed[v] = 1
    /\ pc[v] = "close" => entered[v] = 2 /\ passed[v] = 2
    /\ pc[v] \in {"pull", "timeout"} => entered[v] = passed[v] + 1
    /\ engine[v].worker = "run" => pc[v] \in {"run", "wait"}
    /\ passed[v] <= entered[v]

\* Voice v has pulled the SYNC of voice w in the round it is in.
Pulled(v, w) == IF pc[v] \in {"pull", "timeout"} /\ w < engine[v].next THEN 1 ELSE 0

\* What voice v has and will get from voice w.
LinkInv(v, w) ==
    /\ passed[v] <= entered[w]
    /\ Open(v) => passed[v] + Pulled(v, w) + Count(engine[v].queue[w]) + Count(chan[w][v])
                      <= entered[w]
    /\ ~ Open(v) => chan[w][v] = <<>>
    /\ entered[w] = Rounds => SyncLast(chan[w][v])

SessionInv ==
    /\ TypeInv
    /\ \A v \in Voice : ControlInv(v)
    /\ \A v \in Voice : \A w \in Peer(v) : LinkInv(v, w)

-----------------------------------------------------------------------------
(* Counting.                                                               *)

LEMMA SyncsFinite ==
    ASSUME NEW s \in Seq(Message)
    PROVE  IsFiniteSet(Syncs(s)) /\ Count(s) \in Nat
<1>1. IsFiniteSet(1 .. Len(s))
  BY FS_Interval
<1>2. Syncs(s) \in SUBSET (1 .. Len(s))
  BY DEF Syncs
<1>3. IsFiniteSet(Syncs(s))
  BY <1>1, <1>2, FS_Subset
<1> QED
  BY <1>3, FS_CardinalityType DEF Count

LEMMA CountConcat ==
    ASSUME NEW s \in Seq(Message), NEW t \in Seq(Message)
    PROVE  Count(s \o t) = Count(s) + Count(t)
<1> DEFINE Shift == [i \in Syncs(t) |-> i + Len(s)]
           Moved == {j \in Len(s) + 1 .. Len(s) + Len(t) : t[j - Len(s)] = "SYNC"}
<1>1. /\ Len(s) \in Nat /\ Len(t) \in Nat /\ Len(s \o t) = Len(s) + Len(t)
      /\ \A i \in 1 .. Len(s) : (s \o t)[i] = s[i]
      /\ \A i \in Len(s) + 1 .. Len(s) + Len(t) : (s \o t)[i] = t[i - Len(s)]
  OBVIOUS
<1>2. Syncs(s \o t) = Syncs(s) \cup Moved
  BY <1>1 DEF Syncs
<1>3. Shift \in Bijection(Syncs(t), Moved)
  <2>1. Shift \in [Syncs(t) -> Moved]
    BY <1>1 DEF Syncs
  <2>2. \A i, j \in Syncs(t) : Shift[i] = Shift[j] => i = j
    BY <1>1 DEF Syncs
  <2>3. ASSUME NEW j \in Moved PROVE \E i \in Syncs(t) : Shift[i] = j
    <3>1. j - Len(s) \in Syncs(t)
      BY <1>1 DEF Syncs
    <3>2. Shift[j - Len(s)] = j
      BY <1>1, <3>1
    <3> QED
      BY <3>1, <3>2
  <2> HIDE DEF Shift, Moved
  <2> QED
    BY <2>1, <2>2, <2>3, Fun_IsBij
<1>4. IsFiniteSet(Moved) /\ Cardinality(Moved) = Count(t)
  <2>1. ExistsBijection(Syncs(t), Moved)
    BY <1>3 DEF ExistsBijection
  <2> HIDE DEF Moved
  <2> QED
    BY <2>1, SyncsFinite, FS_Bijection DEF Count
<1>5. Syncs(s) \cap Moved = {}
  BY <1>1 DEF Syncs
<1>6. Cardinality(Syncs(s) \cup Moved) = Count(s) + Count(t) - Cardinality({})
  <2> HIDE DEF Moved
  <2> QED
    BY <1>4, <1>5, SyncsFinite, FS_Union DEF Count
<1>7. Count(s) \in Nat /\ Count(t) \in Nat
  BY SyncsFinite
<1> QED
  BY <1>2, <1>6, <1>7, FS_EmptySet DEF Count

LEMMA CountOne ==
    /\ Count(<<>>) = 0
    /\ \A m \in Message : Count(<<m>>) = IF m = "SYNC" THEN 1 ELSE 0
<1>1. Syncs(<<>>) = {}
  BY DEF Syncs
<1>2. ASSUME NEW m \in Message PROVE Syncs(<<m>>) = IF m = "SYNC" THEN {1} ELSE {}
  BY DEF Syncs
<1> QED
  BY <1>1, <1>2, FS_EmptySet, FS_Singleton DEF Count

LEMMA OneMessage == ASSUME NEW S, NEW m \in S PROVE <<m>> \in Seq(S)
OBVIOUS

LEMMA CountAppend ==
    ASSUME NEW s \in Seq(Message), NEW m \in Message
    PROVE  Count(Append(s, m)) = Count(s) + IF m = "SYNC" THEN 1 ELSE 0
<1>1. <<m>> \in Seq(Message)
  BY OneMessage
<1>2. Append(s, m) = s \o <<m>>
  BY AppendIsConcat
<1>3. Count(<<m>>) = IF m = "SYNC" THEN 1 ELSE 0
  BY CountOne
<1> QED
  BY <1>1, <1>2, <1>3, CountConcat

LEMMA CountTail ==
    ASSUME NEW s \in Seq(Message), s # <<>>
    PROVE  /\ Head(s) \in Message /\ Tail(s) \in Seq(Message)
           /\ Count(s) = Count(Tail(s)) + IF Head(s) = "SYNC" THEN 1 ELSE 0
<1>1. /\ Head(s) \in Message /\ Tail(s) \in Seq(Message) /\ <<Head(s)>> \in Seq(Message)
  OBVIOUS
<1>2. s = <<Head(s)>> \o Tail(s)
  <2>1. /\ Len(s) \in Nat \ {0} /\ Len(Tail(s)) = Len(s) - 1 /\ Head(s) = s[1]
        /\ \A i \in 1 .. Len(Tail(s)) : Tail(s)[i] = s[i + 1]
    OBVIOUS
  <2>2. /\ <<Head(s)>> \o Tail(s) \in Seq(Message)
        /\ Len(<<Head(s)>> \o Tail(s)) = 1 + Len(Tail(s))
        /\ \A i \in 1 .. 1 + Len(Tail(s)) :
              (<<Head(s)>> \o Tail(s))[i] = IF i <= 1 THEN Head(s) ELSE Tail(s)[i - 1]
    BY <1>1
  <2>3. \A i \in 1 .. Len(s) : s[i] = (<<Head(s)>> \o Tail(s))[i]
    BY <2>1, <2>2
  <2> QED
    BY <2>1, <2>2, <2>3, SeqEqual
<1>3. Count(s) = Count(<<Head(s)>>) + Count(Tail(s))
  BY <1>1, <1>2, CountConcat
<1>4. Count(<<Head(s)>>) \in Nat /\ Count(Tail(s)) \in Nat
  BY <1>1, SyncsFinite
<1>5. Count(<<Head(s)>>) = IF Head(s) = "SYNC" THEN 1 ELSE 0
  BY <1>1, CountOne
<1> QED
  BY <1>1, <1>3, <1>4, <1>5

\* Signals and GOODBYE change neither the count nor what a sample is followed by.
LEMMA QuietConcat ==
    ASSUME NEW s \in Seq(Message), NEW ms \in Seq(Quiet)
    PROVE  /\ s \o ms \in Seq(Message) /\ Count(s \o ms) = Count(s)
           /\ SyncLast(s) => SyncLast(s \o ms)
<1>1. ms \in Seq(Message) /\ \A i \in 1 .. Len(ms) : ms[i] \in Quiet
  <2>1. Quiet \subseteq Message
    BY DEF Message
  <2>2. ms \in Seq(Message)
    BY <2>1, SeqMonotonic
  <2> QED
    BY <2>2, ElementOfSeq
<1>2. Syncs(ms) = {}
  BY <1>1 DEF Syncs, Quiet
<1>3. Count(ms) = 0 /\ Count(s) \in Nat
  BY <1>2, FS_EmptySet, SyncsFinite DEF Count
<1>4. Count(s \o ms) = Count(s)
  BY <1>1, <1>3, CountConcat
<1>5. ASSUME SyncLast(s) PROVE SyncLast(s \o ms)
  <2>1. /\ Len(s) \in Nat /\ Len(ms) \in Nat /\ Len(s \o ms) = Len(s) + Len(ms)
        /\ \A i \in 1 .. Len(s) : (s \o ms)[i] = s[i]
        /\ \A i \in Len(s) + 1 .. Len(s) + Len(ms) : (s \o ms)[i] = ms[i - Len(s)]
    BY <1>1
  <2> SUFFICES ASSUME NEW i \in 1 .. Len(s \o ms), (s \o ms)[i] = "PUSHDATA"
               PROVE  \E j \in i + 1 .. Len(s \o ms) : (s \o ms)[j] = "SYNC"
    BY DEF SyncLast
  <2>2. i \in 1 .. Len(s) /\ s[i] = "PUSHDATA"
    BY <1>1, <2>1 DEF Quiet
  <2>3. PICK j \in i + 1 .. Len(s) : s[j] = "SYNC"
    BY <1>5, <2>2 DEF SyncLast
  <2> QED
    BY <2>1, <2>2, <2>3
<1> QED
  BY <1>1, <1>4, <1>5

LEMMA SyncLastTail ==
    ASSUME NEW s \in Seq(Message), s # <<>>, SyncLast(s)
    PROVE  SyncLast(Tail(s))
<1>1. /\ Len(s) \in Nat /\ Len(Tail(s)) = Len(s) - 1
      /\ \A i \in 1 .. Len(Tail(s)) : Tail(s)[i] = s[i + 1]
  OBVIOUS
<1> SUFFICES ASSUME NEW i \in 1 .. Len(Tail(s)), Tail(s)[i] = "PUSHDATA"
             PROVE  \E j \in i + 1 .. Len(Tail(s)) : Tail(s)[j] = "SYNC"
  BY DEF SyncLast
<1>2. i + 1 \in 1 .. Len(s) /\ s[i + 1] = "PUSHDATA"
  BY <1>1
<1>3. PICK j \in (i + 1) + 1 .. Len(s) : s[j] = "SYNC"
  BY <1>2 DEF SyncLast
<1>4. j - 1 \in i + 1 .. Len(Tail(s)) /\ Tail(s)[j - 1] = "SYNC"
  BY <1>1, <1>3
<1> QED
  BY <1>4

\* A SYNC at the end follows every sample.
LEMMA SyncLastAppend ==
    ASSUME NEW s \in Seq(Message) PROVE SyncLast(s \o <<"SYNC">>)
<1>1. /\ Len(s) \in Nat /\ Len(s \o <<"SYNC">>) = Len(s) + 1
      /\ (s \o <<"SYNC">>)[Len(s) + 1] = "SYNC"
  OBVIOUS
<1> QED
  BY <1>1 DEF SyncLast

LEMMA SyncLastEmpty == SyncLast(<<>>)
BY DEF SyncLast

\* The first of some voices is one of them and none comes before it.
LEMMA FirstOf ==
    ASSUME NEW peers \in SUBSET Voice
    PROVE  /\ First(peers) \in peers \cup {Voices}
           /\ \A u \in peers : First(peers) <= u
<1>1. Voices \in Nat
  BY SessionAssumption
<1>2. \E w \in peers \cup {Voices} : \A u \in peers : w <= u
  <2>1. CASE peers = {}
    BY <2>1
  <2>2. CASE peers # {}
    <3>1. peers \subseteq Nat
      BY <1>1 DEF Voice
    <3>2. PICK w \in peers : \A u \in peers : ~ (<<u, w>> \in OpToRel(<, Nat))
      BY <2>2, <3>1, NatLessThanWellFounded, WFMin
    <3>3. ASSUME NEW u \in peers PROVE w <= u
      <4>1. u \in Nat /\ w \in Nat /\ ~ (<<u, w>> \in OpToRel(<, Nat))
        BY <3>1, <3>2
      <4> QED
        BY <4>1 DEF OpToRel
    <3> QED
      BY <3>3
  <2> QED
    BY <2>1, <2>2
<1> QED
  BY <1>2 DEF First

-----------------------------------------------------------------------------
(* What the steps have in common.                                          *)

Channels == [Voice -> [Voice -> Seq(Message)]]

\* Nothing but signals and GOODBYE has been sent.
Grown(channels) ==
    \A v, w \in Voice :
        \/ channels[w][v] = chan[w][v]
        \/ Open(v) /\ \E ms \in Seq(Quiet) : channels[w][v] = chan[w][v] \o ms

\* No voice has got or pulled anything, and no worker has begun to run.
SameMail ==
    /\ DOMAIN engine' = Voice
    /\ \A u \in Voice :
         /\ {"next", "worker", "queue"} \subseteq DOMAIN engine'[u]
         /\ engine'[u].next = engine[u].next
         /\ engine'[u].queue = engine[u].queue
         /\ engine'[u].worker = engine[u].worker \/ engine'[u].worker # "run"

LEMMA SentIs ==
    ASSUME TypeInv, NEW v \in Voice, NEW peers, NEW ms \in Seq(Message)
    PROVE  /\ Sent(v, peers, ms) \in Channels
           /\ \A a, b \in Voice : Sent(v, peers, ms)[a][b] =
                IF a = v /\ b \in peers /\ Open(b) THEN chan[a][b] \o ms ELSE chan[a][b]
<1>1. \A a, b \in Voice : chan[a][b] \in Seq(Message) /\ chan[a][b] \o ms \in Seq(Message)
  BY DEF TypeInv
<1>2. DOMAIN chan = Voice
  BY DEF TypeInv
<1> QED
  BY <1>1, <1>2 DEF Sent, Channels, TypeInv

LEMMA SentQuiet ==
    ASSUME TypeInv, NEW v \in Voice, NEW peers, NEW ms \in Seq(Quiet)
    PROVE  Sent(v, peers, ms) \in Channels /\ Grown(Sent(v, peers, ms))
<1>1. ms \in Seq(Message)
  <2>1. Quiet \subseteq Message
    BY DEF Message
  <2> QED
    BY <2>1, SeqMonotonic
<1>2. Sent(v, peers, ms) \in Channels
  BY <1>1, SentIs
<1>3. ASSUME NEW a \in Voice, NEW b \in Voice
      PROVE  \/ Sent(v, peers, ms)[a][b] = chan[a][b]
             \/ Open(b) /\ Sent(v, peers, ms)[a][b] = chan[a][b] \o ms
  <2>1. Sent(v, peers, ms)[a][b] =
            IF a = v /\ b \in peers /\ Open(b) THEN chan[a][b] \o ms ELSE chan[a][b]
    BY <1>1, SentIs
  <2> QED
    BY <2>1
<1> QED
  BY <1>2, <1>3 DEF Grown

\* The signals, and what a voice sends when it goes down.
LEMMA QuietMessages ==
    ASSUME NEW v
    PROVE  /\ <<>> \in Seq(Quiet)
           /\ \A m \in {"ERROR", "CANCEL"} : Signal(v, m) \in Seq(Quiet)
           /\ \A failed \in BOOLEAN :
                (IF failed THEN Signal(v, "ERROR") ELSE <<>>) \o <<"GOODBYE">> \in Seq(Quiet)
<1>1. "ERROR" \in Quiet /\ "CANCEL" \in Quiet /\ "GOODBYE" \in Quiet
  BY DEF Quiet
<1>2. <<>> \in Seq(Quiet) /\ <<"GOODBYE">> \in Seq(Quiet)
      /\ \A m \in {"ERROR", "CANCEL"} : <<m>> \in Seq(Quiet)
  BY <1>1, OneMessage, EmptySeq
<1>3. \A m \in {"ERROR", "CANCEL"} : Signal(v, m) \in Seq(Quiet)
  BY <1>2 DEF Signal
<1> QED
  BY <1>2, <1>3, ConcatProperties

\* A link whose voices stay in their rounds and where nothing is pulled or got.
LEMMA LinkKept ==
    ASSUME TypeInv, NEW v \in Voice, NEW w \in Voice, LinkInv(v, w),
           UNCHANGED <<entered, passed, Open(v), Pulled(v, w), engine[v].queue[w]>>,
           \/ chan'[w][v] = chan[w][v]
           \/ Open(v) /\ \E ms \in Seq(Quiet) : chan'[w][v] = chan[w][v] \o ms
    PROVE  LinkInv(v, w)'
<1>1. chan[w][v] \in Seq(Message)
  BY DEF TypeInv
<1>2. Count(chan'[w][v]) = Count(chan[w][v]) /\ (SyncLast(chan[w][v]) => SyncLast(chan'[w][v]))
  BY <1>1, QuietConcat
<1>3. Open(v)' = Open(v) /\ (~ Open(v) => chan'[w][v] = chan[w][v])
  OBVIOUS
<1>4. (Count(chan[w][v]))' = Count(chan'[w][v]) /\ (Count(engine[v].queue[w]))' = Count(engine[v].queue[w])
  BY DEF Count, Syncs
<1>5. SyncLast(chan[w][v])' = SyncLast(chan'[w][v])
  BY DEF SyncLast
<1> QED
  BY <1>2, <1>3, <1>4, <1>5 DEF LinkInv

\* A voice that closes its channels, or is killed.
LEMMA EndsInv ==
    ASSUME SessionInv, NEW v \in Voice, NEW where \in {"parting", "crashed"},
           NEW channels \in Channels, Grown(channels),
           Ends(v, where, channels), UNCHANGED <<entered, passed>>
    PROVE  SessionInv'
<1> USE DEF SessionInv
<1>1. /\ pc' \in [Voice -> Place] /\ pc'[v] = where
      /\ \A u \in Voice : u # v => pc'[u] = pc[u]
  BY DEF Ends, Set, TypeInv, Place
<1>2. /\ DOMAIN engine' = Voice /\ engine'[v] = New(v)
      /\ \A u \in Voice : u # v => engine'[u] = engine[u]
  BY DEF Ends, Set, TypeInv
<1>3. /\ chan' \in Channels
      /\ \A w \in Voice : chan'[w][v] = <<>>
      /\ \A w, u \in Voice : u # v => chan'[w][u] = channels[w][u]
  <2>1. \A w \in Voice : channels[w] \in [Voice -> Seq(Message)] /\ <<>> \in Seq(Message)
    BY EmptySeq DEF Channels
  <2> QED
    BY <2>1 DEF Ends, Set, Channels
<1>4. /\ {"next", "worker", "queue"} \subseteq DOMAIN New(v)
      /\ New(v).next = 0 /\ New(v).worker = "idle"
      /\ New(v).queue \in [Voice -> Seq(Message)]
  BY EmptySeq DEF New
<1>5. TypeInv'
  <2>1. 0 \in 0 .. Voices
    BY SessionAssumption
  <2>2. ASSUME NEW u \in Voice
        PROVE  /\ {"next", "worker", "queue"} \subseteq DOMAIN engine'[u]
               /\ engine'[u].next \in 0 .. Voices
               /\ engine'[u].queue \in [Voice -> Seq(Message)]
    BY <1>2, <1>4, <2>1 DEF TypeInv
  <2>3. UNCHANGED <<entered, passed>>
    OBVIOUS
  <2> QED
    BY <1>1, <1>2, <1>3, <2>2, <2>3 DEF TypeInv, Channels
<1>6. ASSUME NEW u \in Voice PROVE ControlInv(u)'
  <2>1. CASE u = v
    BY <1>1, <1>2, <1>4, <2>1 DEF ControlInv
  <2>2. CASE u # v
    BY <1>1, <1>2, <2>2 DEF ControlInv
  <2> QED
    BY <2>1, <2>2
<1>7. ASSUME NEW u \in Voice, NEW w \in Peer(u) PROVE LinkInv(u, w)'
  <2>0. w \in Voice
    BY DEF Peer
  <2>1. CASE u = v
    <3>1. ~ Open(u)' /\ chan'[w][u] = <<>>
      BY <1>1, <1>3, <2>0, <2>1 DEF Open
    <3> QED
      BY <3>1, SyncLastEmpty DEF LinkInv
  <2>2. CASE u # v
    <3>1. UNCHANGED <<Open(u), Pulled(u, w), engine[u].queue[w]>>
      BY <1>1, <1>2, <2>2 DEF Open, Pulled
    <3>2. \/ chan'[w][u] = chan[w][u]
          \/ Open(u) /\ \E ms \in Seq(Quiet) : chan'[w][u] = chan[w][u] \o ms
      <4>1. \/ channels[w][u] = chan[w][u]
            \/ Open(u) /\ \E ms \in Seq(Quiet) : channels[w][u] = chan[w][u] \o ms
        BY <2>0 DEF Grown
      <4> QED
        BY <1>3, <2>0, <2>2, <4>1
    <3> QED
      BY <2>0, <3>1, <3>2, LinkKept
  <2> QED
    BY <2>1, <2>2
<1> QED
  BY <1>5, <1>6, <1>7

\* Moves of one voice that change neither its round nor the SYNC messages.
Moves == {<<"pull", "timeout">>, <<"timeout", "pull">>, <<"run", "wait">>,
          <<"parting", "gone">>}

LEMMA MoveInv ==
    ASSUME SessionInv, NEW v \in Voice, NEW where, pc' = Set(pc, v, where),
           pc[v] = where \/ <<pc[v], where>> \in Moves,
           UNCHANGED <<entered, passed>>, SameMail, chan' \in Channels, Grown(chan')
    PROVE  SessionInv'
<1> USE DEF SessionInv
<1>1. /\ pc' \in [Voice -> Place] /\ pc'[v] = where
      /\ \A u \in Voice : u # v => pc'[u] = pc[u]
  BY DEF Set, TypeInv, Place, Moves
<1>2. \A u \in Voice : Open(u)' = Open(u)
  BY <1>1 DEF Open, Moves
<1>3. \A u, w \in Voice : Pulled(u, w)' = Pulled(u, w)
  BY <1>1 DEF Pulled, Moves, SameMail
<1>4. TypeInv'
  <2>1. UNCHANGED <<entered, passed>>
    OBVIOUS
  <2> QED
    BY <1>1, <2>1 DEF TypeInv, SameMail, Channels
<1>5. ASSUME NEW u \in Voice PROVE ControlInv(u)'
  <2>1. ControlInv(u) /\ (engine'[u].worker = "run" => engine[u].worker = "run")
    BY DEF SameMail
  <2>2. CASE u = v
    BY <1>1, <2>1, <2>2 DEF ControlInv, Moves
  <2>3. CASE u # v
    BY <1>1, <2>1, <2>3 DEF ControlInv
  <2> QED
    BY <2>2, <2>3
<1>6. ASSUME NEW u \in Voice, NEW w \in Peer(u) PROVE LinkInv(u, w)'
  <2>1. w \in Voice
    BY DEF Peer
  <2>2. UNCHANGED <<Open(u), Pulled(u, w), engine[u].queue[w]>>
    BY <1>2, <1>3, <2>1 DEF SameMail
  <2>3. \/ chan'[w][u] = chan[w][u]
        \/ Open(u) /\ \E ms \in Seq(Quiet) : chan'[w][u] = chan[w][u] \o ms
    BY <2>1 DEF Grown
  <2> QED
    BY <2>1, <2>2, <2>3, LinkKept
<1> QED
  BY <1>4, <1>5, <1>6

LEMMA SameChannels == ASSUME TypeInv PROVE chan \in Channels /\ Grown(chan)
BY DEF TypeInv, Channels, Grown

-----------------------------------------------------------------------------
(* The steps.                                                              *)

LEMMA InitSessionInv == Init => SessionInv
<1> SUFFICES ASSUME Init PROVE SessionInv
  OBVIOUS
<1>1. \A v \in Voice : /\ pc[v] = "open" /\ entered[v] = 0 /\ passed[v] = 0
                       /\ engine[v] = New(v)
                       /\ \A w \in Voice : chan[w][v] = <<>>
  BY DEF Init
<1>2. \A v \in Voice : /\ {"next", "worker", "queue"} \subseteq DOMAIN New(v)
                       /\ New(v).next = 0 /\ New(v).worker = "idle"
                       /\ New(v).queue = [w \in Voice |-> <<>>]
  BY DEF New
<1>3. TypeInv
  <2>1. 0 \in 0 .. Voices /\ 0 \in 0 .. Rounds /\ <<>> \in Seq(Message) /\ "open" \in Place
    BY SessionAssumption, EmptySeq DEF Rounds, Place
  <2>2. /\ pc \in [Voice -> Place] /\ entered \in [Voice -> 0 .. Rounds]
        /\ passed \in [Voice -> 0 .. Rounds]
        /\ DOMAIN engine = Voice
    BY <2>1 DEF Init
  <2>3. chan \in [Voice -> [Voice -> Seq(Message)]]
    BY <2>1 DEF Init
  <2>4. ASSUME NEW v \in Voice
        PROVE  /\ {"next", "worker", "queue"} \subseteq DOMAIN engine[v]
               /\ engine[v].next \in 0 .. Voices
               /\ engine[v].queue \in [Voice -> Seq(Message)]
    <3>1. engine[v] = New(v)
      BY <1>1
    <3>2. [w \in Voice |-> <<>>] \in [Voice -> Seq(Message)]
      BY <2>1
    <3> QED
      BY <1>2, <2>1, <3>1, <3>2
  <2> QED
    BY <2>2, <2>3, <2>4 DEF TypeInv
<1>4. \A v \in Voice : ControlInv(v)
  BY <1>1, <1>2 DEF ControlInv
<1>5. ASSUME NEW v \in Voice, NEW w \in Peer(v) PROVE LinkInv(v, w)
  <2>1. w \in Voice
    BY DEF Peer
  <2>2. /\ Pulled(v, w) = 0 /\ engine[v].queue[w] = <<>> /\ chan[w][v] = <<>> /\ Open(v)
    BY <1>1, <1>2, <2>1 DEF Pulled, Open
  <2> QED
    BY <1>1, <2>1, <2>2, CountOne, SyncLastEmpty DEF LinkInv
<1> QED
  BY <1>3, <1>4, <1>5 DEF SessionInv

\* Engine::down, after an error or without one.
LEMMA DownInv ==
    ASSUME SessionInv, NEW v \in Voice, NEW failed \in BOOLEAN, Down(v, failed),
           UNCHANGED <<entered, passed>>
    PROVE  SessionInv'
<1> DEFINE farewell == (IF failed THEN Signal(v, "ERROR") ELSE <<>>) \o <<"GOODBYE">>
<1>1. farewell \in Seq(Quiet)
  BY QuietMessages
<1>2. Ends(v, "parting", Sent(v, Peer(v), farewell))
  BY DEF Down
<1> HIDE DEF farewell
<1>3. Sent(v, Peer(v), farewell) \in Channels /\ Grown(Sent(v, Peer(v), farewell))
  BY <1>1, SentQuiet DEF SessionInv
<1> QED
  BY <1>2, <1>3, EndsInv

LEMMA ThrowsInv ==
    ASSUME SessionInv, NEW v \in Voice,
           EnterThrows(v) \/ PullError(v) \/ WorkersThrow(v) \/ Close(v) \/ MainThrows(v)
    PROVE  SessionInv'
<1>1. UNCHANGED <<entered, passed>> /\ \E failed \in BOOLEAN : Down(v, failed)
  BY DEF EnterThrows, PullError, WorkersThrow, Close, MainThrows, Throw
<1> QED
  BY <1>1, DownInv

LEMMA CrashInv == ASSUME SessionInv, NEW v \in Voice, Crash(v) PROVE SessionInv'
<1>1. Ends(v, "crashed", chan) /\ UNCHANGED <<entered, passed>>
  BY DEF Crash
<1> QED
  BY <1>1, SameChannels, EndsInv DEF SessionInv

LEMMA QuietMovesInv ==
    ASSUME SessionInv, NEW v \in Voice,
           \/ PullTimesOut(v) \/ PullAgain(v) \/ LeaveLoop(v) \/ Part(v)
           \/ GoIdle(v) \/ WorkerThrows(v) \/ Cancel(v)
    PROVE  SessionInv'
<1>1. TypeInv /\ chan \in Channels /\ Grown(chan)
  BY SameChannels DEF SessionInv
<1>2. pc = Set(pc, v, pc[v])
  BY <1>1 DEF TypeInv, Set
<1>3. CASE PullTimesOut(v)
  <2>1. SameMail
    BY <1>1, <1>3 DEF PullTimesOut, SameMail, TypeInv
  <2>2. pc[v] = "pull" /\ pc' = Set(pc, v, "timeout") /\ UNCHANGED <<entered, passed, chan>>
    BY <1>3 DEF PullTimesOut, Pulling
  <2> QED
    BY <1>1, <2>1, <2>2, MoveInv DEF Moves
<1>4. CASE PullAgain(v)
  <2>1. CASE engine[v].next \in engine[v].receiving
    <3>1. SameMail
      BY <1>1, <1>4, <2>1 DEF PullAgain, SameMail, TypeInv
    <3>2. pc[v] = "timeout" /\ pc' = Set(pc, v, "pull") /\ UNCHANGED <<entered, passed, chan>>
      BY <1>4, <2>1 DEF PullAgain
    <3> QED
      BY <1>1, <3>1, <3>2, MoveInv DEF Moves
  <2>2. CASE engine[v].next \notin engine[v].receiving
    <3>1. Down(v, TRUE) /\ UNCHANGED <<entered, passed>>
      BY <1>4, <2>2 DEF PullAgain, Throw
    <3> QED
      BY <3>1, DownInv
  <2> QED
    BY <2>1, <2>2
<1>5. CASE LeaveLoop(v)
  <2>1. SameMail
    <3>1. CASE engine' = engine
      BY <1>1, <3>1 DEF SameMail, TypeInv
    <3>2. CASE engine' = [engine EXCEPT ![v].signalled = TRUE]
      BY <1>1, <3>2 DEF SameMail, TypeInv
    <3> QED
      BY <1>5, <3>1, <3>2 DEF LeaveLoop
  <2>2. pc[v] = "run" /\ pc' = Set(pc, v, "wait") /\ UNCHANGED <<entered, passed>>
    BY <1>5 DEF LeaveLoop
  <2>3. chan' = chan \/ \E m \in {"ERROR", "CANCEL"} : chan' = Sent(v, Peer(v), Signal(v, m))
    BY <1>5 DEF LeaveLoop, Send
  <2>4. chan' \in Channels /\ Grown(chan')
    BY <1>1, <2>3, QuietMessages, SentQuiet
  <2> QED
    BY <2>1, <2>2, <2>4, MoveInv DEF Moves
<1>6. CASE Part(v)
  <2>1. SameMail
    BY <1>1, <1>6 DEF Part, SameMail, TypeInv
  <2>2. pc[v] = "parting" /\ pc' = Set(pc, v, "gone") /\ UNCHANGED <<entered, passed, chan>>
    BY <1>6 DEF Part
  <2> QED
    BY <1>1, <2>1, <2>2, MoveInv DEF Moves
<1>7. CASE GoIdle(v) \/ WorkerThrows(v) \/ Cancel(v)
  <2>1. SameMail
    <3>1. CASE engine' = [engine EXCEPT ![v].worker = "idle"]
      BY <1>1, <3>1 DEF SameMail, TypeInv
    <3>2. CASE engine' = [engine EXCEPT ![v].worker = "failed", ![v].ended = TRUE]
      BY <1>1, <3>2 DEF SameMail, TypeInv
    <3>3. CASE engine' = [engine EXCEPT ![v].cancelled = TRUE, ![v].ended = TRUE]
      BY <1>1, <3>3 DEF SameMail, TypeInv
    <3> QED
      BY <1>7, <3>1, <3>2, <3>3 DEF GoIdle, WorkerThrows, Cancel
  <2>2. pc' = pc /\ UNCHANGED <<entered, passed, chan>>
    BY <1>7 DEF GoIdle, WorkerThrows, Cancel
  <2> QED
    BY <1>1, <1>2, <2>1, <2>2, MoveInv
<1> QED
  BY <1>3, <1>4, <1>5, <1>6, <1>7

\* A voice sends its SYNCs, behind all its samples: its workers are idle.
LEMMA EnterInv == ASSUME SessionInv, NEW v \in Voice, Enter(v) PROVE SessionInv'
<1> USE DEF SessionInv
<1>1. /\ pc' \in [Voice -> Place] /\ pc'[v] = "pull"
      /\ \A u \in Voice : u # v => pc'[u] = pc[u]
  BY DEF Enter, Set, TypeInv, Place
<1>2. /\ Synchronizes(v) /\ entered[v] = passed[v] /\ entered[v] \in {0, 1}
      /\ engine[v].worker # "run"
  BY DEF Enter, Synchronizes, ControlInv
<1>3. /\ entered' \in [Voice -> 0 .. Rounds] /\ entered'[v] = entered[v] + 1
      /\ \A u \in Voice : u # v => entered'[u] = entered[u]
      /\ passed' = passed
  BY <1>2 DEF Enter, Set, TypeInv, Rounds
<1>4. First(Peer(v)) \in 0 .. Voices /\ \A w \in Peer(v) : First(Peer(v)) <= w
  <2>1. Peer(v) \in SUBSET Voice
    BY DEF Peer
  <2> QED
    BY <2>1, FirstOf, SessionAssumption DEF Voice
<1>5. /\ DOMAIN engine' = Voice
      /\ \A u \in Voice : u # v => engine'[u] = engine[u]
      /\ engine'[v] = [engine[v] EXCEPT !.next = First(Peer(v))]
  BY DEF Enter, TypeInv
<1>6. /\ DOMAIN engine'[v] = DOMAIN engine[v]
      /\ engine'[v].next = First(Peer(v))
      /\ engine'[v].queue = engine[v].queue /\ engine'[v].worker = engine[v].worker
  BY <1>5 DEF TypeInv
<1>7. /\ chan' \in Channels
      /\ \A a, b \in Voice : chan'[a][b] =
            IF a = v /\ b \in Peer(v) /\ Open(b) THEN chan[a][b] \o <<"SYNC">> ELSE chan[a][b]
  <2> DEFINE ms == <<"SYNC">>
  <2>1. ms \in Seq(Message)
    BY OneMessage DEF Message
  <2>2. chan' = Sent(v, Peer(v), ms)
    BY DEF Enter, Send
  <2> HIDE DEF ms
  <2>3. /\ chan' \in Channels
        /\ \A a, b \in Voice : chan'[a][b] =
              IF a = v /\ b \in Peer(v) /\ Open(b) THEN chan[a][b] \o ms ELSE chan[a][b]
    BY <2>1, <2>2, SentIs
  <2> QED
    BY <2>3 DEF ms
<1>8. TypeInv'
  BY ZenonT(30), <1>1, <1>3, <1>4, <1>5, <1>6, <1>7 DEF TypeInv, Channels
<1>9. ASSUME NEW u \in Voice PROVE ControlInv(u)'
  <2>1. CASE u = v
    BY <1>1, <1>2, <1>3, <1>6, <2>1 DEF ControlInv, TypeInv, Rounds
  <2>2. CASE u # v
    BY <1>1, <1>3, <1>5, <2>2 DEF ControlInv
  <2> QED
    BY <2>1, <2>2
<1>10. \A u \in Voice : Open(u)' = Open(u)
  BY <1>1, <1>2 DEF Open, Synchronizes
<1>11. ASSUME NEW u \in Voice, NEW w \in Peer(u) PROVE LinkInv(u, w)'
  <2>1. w \in Voice /\ w # u /\ LinkInv(u, w)
    BY DEF Peer
  <2>2. CASE w = v
    <3>1. /\ passed'[u] = passed[u] /\ Pulled(u, w)' = Pulled(u, w)
          /\ engine'[u] = engine[u] /\ entered'[w] = entered[w] + 1
      BY <1>1, <1>3, <1>5, <2>1, <2>2 DEF Pulled
    <3>2. passed[u] \in Nat /\ entered[w] \in Nat
      BY <2>1 DEF TypeInv
    <3>3. CASE Open(u)
      <4>1. chan[w][u] \in Seq(Message) /\ chan'[w][u] = chan[w][u] \o <<"SYNC">>
        <5>1. u \in Peer(v) /\ chan[v][u] \in Seq(Message)
          BY <2>1, <2>2 DEF TypeInv, Peer
        <5> QED
          BY <1>7, <2>2, <3>3, <5>1
      <4>2. Count(chan'[w][u]) = Count(chan[w][u]) + 1 /\ SyncLast(chan'[w][u])
        <5>1. <<"SYNC">> \in Seq(Message) /\ Count(<<"SYNC">>) = 1
          BY OneMessage, CountOne DEF Message
        <5> QED
          BY <4>1, <5>1, CountConcat, SyncLastAppend
      <4>3. Count(engine[u].queue[w]) \in Nat /\ Count(chan[w][u]) \in Nat /\ Pulled(u, w) \in Nat
        BY <2>1, <4>1, SyncsFinite DEF TypeInv, Pulled
      <4>4. passed[u] + Pulled(u, w) + Count(engine[u].queue[w]) + Count(chan[w][u])
                <= entered[w]
        BY <2>1, <3>3 DEF LinkInv
      <4>5. passed'[u] + Pulled(u, w)' + Count(engine'[u].queue[w]) + Count(chan'[w][u])
                <= entered'[w]
        BY <3>1, <3>2, <4>2, <4>3, <4>4
      <4>6. passed'[u] <= entered'[w]
        BY <2>1, <3>1, <3>2 DEF LinkInv
      <4>7. (Count(chan[w][u]))' = Count(chan'[w][u])
            /\ (Count(engine[u].queue[w]))' = Count(engine'[u].queue[w])
            /\ SyncLast(chan[w][u])' = SyncLast(chan'[w][u])
        BY DEF Count, Syncs, SyncLast
      <4>8. Open(u)' = TRUE
        BY <1>10, <3>3
      <4> QED
        BY <4>2, <4>5, <4>6, <4>7, <4>8 DEF LinkInv
    <3>4. CASE ~ Open(u)
      <4>1. chan'[w][u] = <<>>
        BY <1>7, <2>1, <3>4 DEF LinkInv
      <4>2. passed'[u] <= entered'[w]
        BY <2>1, <3>1, <3>2 DEF LinkInv
      <4>3. ~ Open(u)'
        BY <1>10, <3>4
      <4>4. SyncLast(chan[w][u])'
        BY <4>1, SyncLastEmpty
      <4> QED
        BY <4>1, <4>2, <4>3, <4>4 DEF LinkInv
    <3> QED
      BY <3>3, <3>4
  <2>3. CASE w # v
    <3>1. chan'[w][u] = chan[w][u] /\ entered'[w] = entered[w] /\ passed' = passed
      BY <1>3, <1>7, <2>1, <2>3
    <3>2. Open(u)' = Open(u)
      BY <1>10
    <3>3. engine'[u].queue[w] = engine[u].queue[w]
      BY <1>5, <1>6
    <3>4. Pulled(u, w)' = Pulled(u, w)
      <4>1. CASE u = v
        <5>1. pc[u] \notin {"pull", "timeout"}
          BY <1>2, <4>1 DEF Synchronizes
        <5>2. ~ (w < engine'[u].next)
          BY <1>4, <1>6, <2>1, <4>1, SessionAssumption DEF Voice
        <5> QED
          BY <5>1, <5>2 DEF Pulled
      <4>2. CASE u # v
        BY <1>1, <1>5, <4>2 DEF Pulled
      <4> QED
        BY <4>1, <4>2
    <3> QED
      BY <2>1, <3>1, <3>2, <3>3, <3>4 DEF LinkInv, Count, Syncs, SyncLast
  <2> QED
    BY <2>2, <2>3
<1> QED
  BY <1>8, <1>9, <1>11

\* A sample is sent only before the closing barrier is entered.
LEMMA ProduceInv == ASSUME SessionInv, NEW v \in Voice, Produce(v) PROVE SessionInv'
<1> USE DEF SessionInv
<1> DEFINE ms == <<"PUSHDATA">>
<1>1. /\ engine[v].worker = "run" /\ UNCHANGED <<pc, entered, passed>>
      /\ engine' = [engine EXCEPT ![v].produced = @ + 1]
      /\ chan' = Sent(v, Feeds[v], ms)
  BY DEF Produce, Send
<1>2. ms \in Seq(Message) /\ Count(ms) = 0
  BY OneMessage, CountOne DEF Message
<1> HIDE DEF ms
<1>3. /\ chan' \in Channels
      /\ \A a, b \in Voice : chan'[a][b] =
            IF a = v /\ b \in Feeds[v] /\ Open(b) THEN chan[a][b] \o ms ELSE chan[a][b]
  BY <1>1, <1>2, SentIs
<1>4. SameMail
  BY <1>1 DEF SameMail, TypeInv
<1>5. TypeInv'
  BY <1>1, <1>3, <1>4 DEF TypeInv, SameMail, Channels
<1>6. \A u \in Voice : ControlInv(u)'
  BY <1>1, <1>4 DEF ControlInv, SameMail
<1>7. ASSUME NEW u \in Voice, NEW w \in Peer(u) PROVE LinkInv(u, w)'
  <2>1. w \in Voice /\ LinkInv(u, w) /\ chan[w][u] \in Seq(Message)
    BY DEF Peer, TypeInv
  <2>2. UNCHANGED <<Open(u), Pulled(u, w), engine[u].queue[w]>>
    BY <1>1, <1>4 DEF Open, Pulled, SameMail
  <2>3. CASE chan'[w][u] = chan[w][u]
    BY <1>1, <2>1, <2>2, <2>3, LinkKept
  <2>4. CASE chan'[w][u] # chan[w][u]
    <3>1. w = v /\ Open(u) /\ chan'[w][u] = chan[w][u] \o ms
      BY <1>3, <2>1, <2>4
    <3>2. entered[w] # Rounds
      BY <1>1, <3>1 DEF ControlInv, Rounds
    <3>3. Count(chan'[w][u]) = Count(chan[w][u])
      <4>1. Count(chan[w][u]) \in Nat
        BY <2>1, SyncsFinite
      <4> QED
        BY <1>2, <2>1, <3>1, <4>1, CountConcat
    <3>4. (Count(chan[w][u]))' = Count(chan'[w][u])
          /\ (Count(engine[u].queue[w]))' = Count(engine[u].queue[w])
      BY <2>2 DEF Count, Syncs
    <3>5. Open(u)' = Open(u) /\ entered' = entered /\ passed' = passed
      BY <1>1, <2>2
    <3> QED
      BY <2>1, <2>2, <3>1, <3>2, <3>3, <3>4, <3>5 DEF LinkInv
  <2> QED
    BY <2>3, <2>4
<1> QED
  BY <1>5, <1>6, <1>7

\* One SYNC less in the queue, and one more pulled.
LEMMA PullSyncInv == ASSUME SessionInv, NEW v \in Voice, PullSync(v) PROVE SessionInv'
<1> USE DEF SessionInv
<1>p. PICK n : n = engine[v].next
  OBVIOUS
<1> DEFINE q == engine[v].queue[n]
           later == {w \in Peer(v) : w > n}
<1>1. /\ pc[v] = "pull" /\ n \in Voice /\ q # <<>> /\ Head(q) = "SYNC"
      /\ engine' = [engine EXCEPT ![v].queue[n] = Tail(@), ![v].next = First(later)]
      /\ UNCHANGED <<pc, entered, passed, chan>>
  BY <1>p DEF PullSync, Pulling, From
<1>2. /\ First(later) \in 0 .. Voices /\ n < First(later)
      /\ \A w \in Peer(v) : w > n => First(later) <= w
  <2>1. later \in SUBSET Voice /\ Voices \in Nat
    BY SessionAssumption DEF Peer
  <2>2. First(later) \in later \cup {Voices} /\ \A u \in later : First(later) <= u
    BY <2>1, FirstOf
  <2> QED
    BY <1>1, <2>1, <2>2 DEF Voice
<1>3. q \in Seq(Message)
  BY <1>1 DEF TypeInv
<1>4. Tail(q) \in Seq(Message) /\ Count(q) = Count(Tail(q)) + 1
  BY <1>1, <1>3, CountTail
<1>5. /\ DOMAIN engine' = Voice
      /\ \A u \in Voice : u # v => engine'[u] = engine[u]
      /\ DOMAIN engine'[v] = DOMAIN engine[v]
      /\ engine'[v].next = First(later)
      /\ engine'[v].worker = engine[v].worker
      /\ engine'[v].queue = [engine[v].queue EXCEPT ![n] = Tail(q)]
  <2> HIDE DEF later
  <2> QED
    BY <1>1 DEF TypeInv
<1>6. /\ engine'[v].queue \in [Voice -> Seq(Message)]
      /\ engine'[v].queue[n] = Tail(q)
      /\ \A w \in Voice : w # n => engine'[v].queue[w] = engine[v].queue[w]
  BY <1>1, <1>4, <1>5 DEF TypeInv
<1>7. TypeInv'
  <2> HIDE DEF later
  <2> QED
    BY <1>1, <1>2, <1>5, <1>6 DEF TypeInv
<1>8. \A u \in Voice : ControlInv(u)'
  BY <1>1, <1>5 DEF ControlInv
<1>9. ASSUME NEW u \in Voice, NEW w \in Peer(u) PROVE LinkInv(u, w)'
  <2>1. w \in Voice /\ w # u /\ LinkInv(u, w) /\ w \in Int /\ n \in Int
    BY <1>1 DEF Peer, Voice
  <2>2. Open(u)' = Open(u) /\ chan' = chan /\ entered' = entered /\ passed' = passed
    BY <1>1 DEF Open
  <2>3. CASE u = v /\ w = n
    <3>1. Pulled(u, w) = 0 /\ Pulled(u, w)' = 1
      BY <1>1, <1>2, <1>5, <1>p, <2>1, <2>3 DEF Pulled
    <3>2. Count(engine[u].queue[w]) = Count(engine'[u].queue[w]) + 1
      BY <1>4, <1>6, <2>3
    <3>3. /\ Count(engine'[u].queue[w]) \in Nat /\ Count(chan[w][u]) \in Nat
          /\ passed[u] \in Nat /\ entered[w] \in Nat
      <4>1. /\ engine'[u].queue[w] \in Seq(Message) /\ chan[w][u] \in Seq(Message)
            /\ passed[u] \in Nat /\ entered[w] \in Nat
        BY <1>6, <2>1, <2>3 DEF TypeInv
      <4> QED
        BY <4>1, SyncsFinite
    <3>4. (Count(chan[w][u]))' = Count(chan[w][u])
          /\ (Count(engine[u].queue[w]))' = Count(engine'[u].queue[w])
      BY <2>2 DEF Count, Syncs
    <3>5. passed[u] + 1 + Count(engine'[u].queue[w]) + Count(chan[w][u]) <= entered[w]
      <4>1. passed[u] + 0 + (Count(engine'[u].queue[w]) + 1) + Count(chan[w][u]) <= entered[w]
        <5>1. Open(u)
          BY <1>1, <2>3 DEF Open
        <5> QED
          BY <2>1, <3>1, <3>2, <5>1 DEF LinkInv
      <4> QED
        BY <3>3, <4>1
    <3>6. SyncLast(chan[w][u])' = SyncLast(chan[w][u])
      BY <2>2 DEF SyncLast
    <3> QED
      BY <2>1, <2>2, <3>1, <3>4, <3>5, <3>6 DEF LinkInv
  <2>4. CASE ~ (u = v /\ w = n)
    <3>1. engine'[u].queue[w] = engine[u].queue[w]
      BY <1>5, <1>6, <2>1, <2>4
    <3>2. Pulled(u, w)' = Pulled(u, w)
      <4>1. CASE u = v
        <5>1. w # n /\ (w > n => First(later) <= w) /\ First(later) \in Int
          BY <1>2, <2>4, <4>1
        <5>2. w < engine'[v].next <=> w < engine[v].next
          <6> HIDE DEF later
          <6> QED
            BY <1>2, <1>5, <1>p, <2>1, <5>1
        <5> QED
          BY <1>1, <4>1, <5>2 DEF Pulled
      <4>2. CASE u # v
        BY <1>1, <1>5, <4>2 DEF Pulled
      <4> QED
        BY <4>1, <4>2
    <3> QED
      BY <2>1, <2>2, <3>1, <3>2, LinkKept
  <2> QED
    BY <2>3, <2>4
<1> QED
  BY <1>7, <1>8, <1>9

\* When all SYNCs are pulled, all peers have sent them.
LEMMA AllEntered ==
    ASSUME SessionInv, NEW v \in Voice, Pass(v)
    PROVE  \A w \in Voice : entered[w] >= passed[v] + 1
<1> SUFFICES ASSUME NEW w \in Voice PROVE entered[w] >= passed[v] + 1
  OBVIOUS
<1>1. /\ pc[v] = "pull" /\ engine[v].next \notin Voice
      /\ TypeInv /\ ControlInv(v) /\ engine[v].next \in 0 .. Voices
  BY DEF Pass, SessionInv, TypeInv
<1>2. entered[v] = passed[v] + 1 /\ passed[v] \in Nat
  BY <1>1 DEF ControlInv, TypeInv
<1>3. CASE w = v
  BY <1>2, <1>3
<1>4. CASE w # v
  <2>1. w \in Peer(v)
    BY <1>4 DEF Peer
  <2>2. Pulled(v, w) = 1 /\ Open(v)
    BY <1>1, SessionAssumption DEF Pulled, Open, Voice
  <2>3. Count(engine[v].queue[w]) \in Nat /\ Count(chan[w][v]) \in Nat /\ entered[w] \in Nat
    <3>1. /\ engine[v].queue[w] \in Seq(Message) /\ chan[w][v] \in Seq(Message)
          /\ entered[w] \in Nat
      BY <1>1 DEF TypeInv
    <3> QED
      BY <3>1, SyncsFinite
  <2>4. passed[v] + 1 + Count(engine[v].queue[w]) + Count(chan[w][v]) <= entered[w]
    BY <2>1, <2>2 DEF SessionInv, LinkInv
  <2> QED
    BY <1>2, <2>3, <2>4
<1> QED
  BY <1>3, <1>4

LEMMA PassInv == ASSUME SessionInv, NEW v \in Voice, Pass(v) PROVE SessionInv'
<1> USE DEF SessionInv
<1>p. PICK where : where = IF entered[v] = 1 THEN "run" ELSE "close"
  OBVIOUS
<1>1. /\ pc[v] = "pull" /\ entered[v] = passed[v] + 1 /\ engine[v].next \notin Voice
      /\ entered[v] \in 1 .. 2 /\ passed[v] \in 0 .. 1 /\ engine[v].worker # "run"
  BY DEF Pass, ControlInv, TypeInv, Rounds
<1>2. /\ pc' \in [Voice -> Place] /\ pc'[v] = where
      /\ \A u \in Voice : u # v => pc'[u] = pc[u]
  BY <1>p DEF Pass, Return, Set, TypeInv, Place
<1>3. /\ passed' \in [Voice -> 0 .. Rounds] /\ passed'[v] = passed[v] + 1
      /\ \A u \in Voice : u # v => passed'[u] = passed[u]
      /\ UNCHANGED <<entered, chan>>
  BY <1>1 DEF Pass, Return, Set, TypeInv, Rounds
<1>4. /\ DOMAIN engine' = Voice
      /\ \A u \in Voice : u # v => engine'[u] = engine[u]
      /\ DOMAIN engine'[v] = DOMAIN engine[v]
      /\ engine'[v].next = engine[v].next
      /\ engine'[v].queue = engine[v].queue
      /\ engine'[v].worker = "run" => where = "run"
  <2>1. CASE entered[v] = 1
    <3>1. engine' = [engine EXCEPT ![v].worker = "run"]
      BY <2>1 DEF Pass, Return
    <3> QED
      BY <1>p, <2>1, <3>1 DEF TypeInv
  <2>2. CASE entered[v] # 1
    <3>1. engine' = engine
      BY <2>2 DEF Pass, Return
    <3> QED
      BY <1>1, <3>1 DEF TypeInv
  <2> QED
    BY <2>1, <2>2
<1>5. TypeInv'
  BY <1>2, <1>3, <1>4 DEF TypeInv
<1>6. ASSUME NEW u \in Voice PROVE ControlInv(u)'
  <2>1. CASE u = v
    BY <1>p, <1>1, <1>2, <1>3, <1>4, <2>1 DEF ControlInv
  <2>2. CASE u # v
    BY <1>2, <1>3, <1>4, <2>2 DEF ControlInv
  <2> QED
    BY <2>1, <2>2
<1>7. ASSUME NEW u \in Voice, NEW w \in Peer(u) PROVE LinkInv(u, w)'
  <2>1. w \in Voice /\ LinkInv(u, w)
    BY DEF Peer
  <2>2. Open(u)' = Open(u)
    BY <1>p, <1>1, <1>2 DEF Open
  <2>3. UNCHANGED <<engine[u].queue[w], chan, entered>>
    BY <1>3, <1>4
  <2>4. CASE u = v
    <3>1. Pulled(u, w) = 1 /\ Pulled(u, w)' = 0
      <4>1. w < engine[v].next
        <5>1. engine[v].next \in 0 .. Voices /\ Voices \in Nat
          BY SessionAssumption DEF TypeInv
        <5> QED
          BY <1>1, <2>1, <5>1 DEF Voice
      <4> QED
        BY <1>p, <1>1, <1>2, <2>4, <4>1 DEF Pulled
    <3>2. Open(u) /\ passed'[u] = passed[u] + 1 /\ passed[u] \in Nat
      BY <1>1, <1>3, <2>4 DEF Open
    <3>3. passed'[u] <= entered[w]
      BY SMTT(30), <2>1, <2>4, <3>2, AllEntered DEF TypeInv
    <3>4. Count(engine[u].queue[w])' = Count(engine[u].queue[w])
          /\ Count(chan[w][u])' = Count(chan[w][u])
          /\ SyncLast(chan[w][u])' = SyncLast(chan[w][u])
      BY <2>3 DEF Count, Syncs, SyncLast
    <3>5. passed[u] + 1 + Count(engine[u].queue[w]) + Count(chan[w][u]) <= entered[w]
      BY <2>1, <3>1, <3>2 DEF LinkInv
    <3>6. Count(engine[u].queue[w]) \in Nat /\ Count(chan[w][u]) \in Nat
      <4>1. engine[u].queue[w] \in Seq(Message) /\ chan[w][u] \in Seq(Message)
        BY <2>1 DEF TypeInv
      <4> QED
        BY <4>1, SyncsFinite
    <3>7. passed'[u] + 0 + Count(engine[u].queue[w]) + Count(chan[w][u]) <= entered[w]
      BY <3>2, <3>5, <3>6
    <3> QED
      BY <2>1, <2>2, <2>3, <3>1, <3>2, <3>3, <3>4, <3>7 DEF LinkInv
  <2>5. CASE u # v
    <3>1. Pulled(u, w)' = Pulled(u, w) /\ passed'[u] = passed[u]
      BY <1>2, <1>3, <1>4, <2>5 DEF Pulled
    <3> QED
      BY <2>1, <2>2, <2>3, <3>1 DEF LinkInv, Count, Syncs, SyncLast
  <2> QED
    BY <2>4, <2>5
<1> QED
  BY <1>5, <1>6, <1>7

\* A message moves from the channel to the queue, or is dealt with.
LEMMA ReceiveInv ==
    ASSUME SessionInv, NEW v \in Voice, NEW w \in Peer(v), Receive(v, w)
    PROVE  SessionInv'
<1> USE DEF SessionInv
<1> DEFINE c == chan[w][v]
           q == engine[v].queue[w]
           m == Head(c)
<1>1. /\ w \in Voice /\ w # v /\ Open(v) /\ c # <<>> /\ UNCHANGED <<pc, entered, passed>>
      /\ chan' = [chan EXCEPT ![w][v] = Tail(@)] /\ Handle(v, w, m)
  BY DEF Receive, Peer
<1>2. c \in Seq(Message) /\ q \in Seq(Message)
  BY <1>1 DEF TypeInv
<1>3. /\ m \in Message /\ Tail(c) \in Seq(Message)
      /\ Count(c) = Count(Tail(c)) + IF m = "SYNC" THEN 1 ELSE 0
      /\ SyncLast(c) => SyncLast(Tail(c))
  BY <1>1, <1>2, CountTail, SyncLastTail
<1>4. /\ DOMAIN engine' = Voice
      /\ \A u \in Voice : u # v => engine'[u] = engine[u]
      /\ DOMAIN engine'[v] = DOMAIN engine[v]
      /\ engine'[v].next = engine[v].next
      /\ engine'[v].worker = engine[v].worker
      /\ engine'[v].queue = [engine[v].queue EXCEPT
              ![w] = IF m \in {"SYNC", "ERROR"} THEN Append(@, m) ELSE @]
  <2> HIDE DEF m
  <2> QED
    BY <1>1 DEF TypeInv, Handle
<1>5. /\ engine'[v].queue \in [Voice -> Seq(Message)]
      /\ engine'[v].queue[w] = IF m \in {"SYNC", "ERROR"} THEN Append(q, m) ELSE q
      /\ \A x \in Voice : x # w => engine'[v].queue[x] = engine[v].queue[x]
  <2>1. Append(q, m) \in Seq(Message)
    BY <1>2, <1>3, AppendProperties
  <2> HIDE DEF m
  <2> QED
    BY SMTT(30), <1>1, <1>2, <1>4, <2>1 DEF TypeInv
<1>6. /\ chan' \in Channels /\ chan'[w][v] = Tail(c)
      /\ \A a, b \in Voice : ~ (a = w /\ b = v) => chan'[a][b] = chan[a][b]
  BY <1>1, <1>3 DEF Channels, TypeInv
<1>7. Count(engine'[v].queue[w]) + Count(Tail(c)) = Count(q) + Count(c)
  <2>1. Count(q) \in Nat /\ Count(Tail(c)) \in Nat
    BY <1>2, <1>3, SyncsFinite
  <2>2. Count(Append(q, m)) = Count(q) + IF m = "SYNC" THEN 1 ELSE 0
    BY <1>2, <1>3, CountAppend
  <2> HIDE DEF c, q, m
  <2> QED
    BY <1>3, <1>5, <2>1, <2>2
<1>8. TypeInv'
  <2>1. ASSUME NEW u \in Voice
        PROVE  /\ {"next", "worker", "queue"} \subseteq DOMAIN engine'[u]
               /\ engine'[u].next \in 0 .. Voices
               /\ engine'[u].queue \in [Voice -> Seq(Message)]
    <3>1. CASE u = v
      <4>1. engine'[v].queue \in [Voice -> Seq(Message)] /\ engine'[v].next = engine[v].next
            /\ DOMAIN engine'[v] = DOMAIN engine[v]
        BY <1>4, <1>5
      <4> QED
        BY <3>1, <4>1 DEF TypeInv
    <3>2. CASE u # v
      <4>1. engine'[u] = engine[u]
        BY <1>4, <3>2
      <4> QED
        BY <4>1 DEF TypeInv
    <3> QED
      BY <3>1, <3>2
  <2> QED
    BY <1>1, <1>4, <1>6, <2>1 DEF TypeInv, Channels
<1>9. \A u \in Voice : ControlInv(u)'
  BY <1>1, <1>4 DEF ControlInv
<1>10. ASSUME NEW a \in Voice, NEW b \in Peer(a) PROVE LinkInv(a, b)'
  <2>1. b \in Voice /\ LinkInv(a, b)
    BY DEF Peer
  <2>2. Open(a)' = Open(a) /\ Pulled(a, b)' = Pulled(a, b)
    BY <1>1, <1>4 DEF Open, Pulled
  <2>3. CASE a = v /\ b = w
    <3>1. passed[a] + Pulled(a, b) + Count(q) + Count(c) <= entered[b]
      BY <1>1, <2>1, <2>3 DEF LinkInv
    <3>2. /\ Count(q) \in Nat /\ Count(c) \in Nat
          /\ Count(engine'[v].queue[w]) \in Nat /\ Count(Tail(c)) \in Nat
      <4>1. engine'[v].queue[w] \in Seq(Message)
        BY <1>1, <1>5
      <4> QED
        BY <1>2, <1>3, <4>1, SyncsFinite
    <3>3. passed[a] \in Nat /\ entered[b] \in Nat /\ Pulled(a, b) \in Nat
      BY <2>1 DEF TypeInv, Pulled
    <3>4. passed[a] + Pulled(a, b) + Count(engine'[v].queue[w]) + Count(Tail(c))
              <= entered[b]
      <4> HIDE DEF c, q
      <4> QED
        BY <1>7, <3>1, <3>2, <3>3
    <3>5. (Count(engine[a].queue[b]))' = Count(engine'[v].queue[w])
          /\ (Count(chan[b][a]))' = Count(Tail(c))
          /\ SyncLast(chan[b][a])' = SyncLast(Tail(c))
      <4>1. chan'[b][a] = Tail(c) /\ engine'[a].queue[b] = engine'[v].queue[w]
        BY <1>6, <2>3
      <4> HIDE DEF c
      <4> QED
        BY <4>1 DEF Count, Syncs, SyncLast
    <3> QED
      BY <1>1, <1>3, <2>1, <2>2, <2>3, <3>4, <3>5 DEF LinkInv
  <2>4. CASE ~ (a = v /\ b = w)
    <3>1. engine'[a].queue[b] = engine[a].queue[b] /\ chan'[b][a] = chan[b][a]
      BY <1>4, <1>5, <1>6, <2>1, <2>4
    <3> QED
      BY <1>1, <2>1, <2>2, <3>1, LinkKept
  <2> QED
    BY <2>3, <2>4
<1> QED
  BY <1>8, <1>9, <1>10

\* What a broken connection loses was not counted on.
LEMMA ReceiveFailsInv ==
    ASSUME SessionInv, NEW v \in Voice, NEW w \in Peer(v), ReceiveFails(v, w)
    PROVE  SessionInv'
<1> USE DEF SessionInv
<1>1. /\ w \in Voice /\ w # v /\ UNCHANGED <<pc, entered, passed>>
      /\ chan' = [chan EXCEPT ![w][v] = <<>>]
      /\ engine' = [engine EXCEPT ![v].ended = TRUE, ![v].receiving = @ \ {w}]
  BY DEF ReceiveFails, Peer
<1>2. SameMail
  BY <1>1 DEF SameMail, TypeInv
<1>3. /\ chan' \in Channels /\ chan'[w][v] = <<>>
      /\ \A a, b \in Voice : ~ (a = w /\ b = v) => chan'[a][b] = chan[a][b]
  BY <1>1, EmptySeq DEF Channels, TypeInv
<1>4. TypeInv'
  BY <1>1, <1>2, <1>3 DEF TypeInv, SameMail, Channels
<1>5. \A u \in Voice : ControlInv(u)'
  BY <1>1, <1>2 DEF ControlInv, SameMail
<1>6. ASSUME NEW a \in Voice, NEW b \in Peer(a) PROVE LinkInv(a, b)'
  <2>1. b \in Voice /\ LinkInv(a, b)
    BY DEF Peer
  <2>2. UNCHANGED <<Open(a), Pulled(a, b), engine[a].queue[b], entered, passed>>
    BY <1>1, <1>2, <2>1 DEF Open, Pulled, SameMail
  <2>3. CASE a = v /\ b = w
    <3>1. /\ Count(engine[a].queue[b]) \in Nat /\ Count(chan[b][a]) \in Nat
          /\ passed[a] \in Nat /\ entered[b] \in Nat /\ Pulled(a, b) \in Nat
      <4>1. engine[a].queue[b] \in Seq(Message) /\ chan[b][a] \in Seq(Message)
        BY <2>1 DEF TypeInv
      <4> QED
        <5>1. passed[a] \in Nat /\ entered[b] \in Nat /\ Pulled(a, b) \in Nat
          BY <2>1 DEF TypeInv, Pulled
        <5> QED
          BY <4>1, <5>1, SyncsFinite
    <3>2. chan'[b][a] = <<>> /\ Count(chan'[b][a]) = 0 /\ SyncLast(chan'[b][a])
      BY <1>3, <2>3, CountOne, SyncLastEmpty
    <3>3. (Count(engine[a].queue[b]))' = Count(engine[a].queue[b])
          /\ (Count(chan[b][a]))' = Count(chan'[b][a])
          /\ SyncLast(chan[b][a])' = SyncLast(chan'[b][a])
      BY <2>2 DEF Count, Syncs, SyncLast
    <3>4. Open(a) => passed[a] + Pulled(a, b) + Count(engine[a].queue[b]) + 0 <= entered[b]
      BY <2>1, <3>1 DEF LinkInv
    <3> QED
      BY <2>1, <2>2, <3>2, <3>3, <3>4 DEF LinkInv
  <2>4. CASE ~ (a = v /\ b = w)
    <3>1. chan'[b][a] = chan[b][a]
      BY <1>3, <2>1, <2>4
    <3> QED
      BY <2>1, <2>2, <3>1, LinkKept
  <2> QED
    BY <2>3, <2>4
<1> QED
  BY <1>4, <1>5, <1>6

-----------------------------------------------------------------------------
\* The account of the SYNC messages is kept by every step, of any voice and whatever fails.
THEOREM SessionInvariant == Spec => []SessionInv
<1>1. ASSUME SessionInv, [Next]_vars PROVE SessionInv'
  <2>1. CASE UNCHANGED vars
    <3>1. UNCHANGED <<pc, entered, passed, engine, chan>>
      BY <2>1 DEF vars
    <3>2. TypeInv'
      BY <1>1, <3>1 DEF SessionInv, TypeInv
    <3>3. \A v \in Voice : ControlInv(v)'
      BY <1>1, <3>1 DEF SessionInv, ControlInv
    <3>4. ASSUME NEW v \in Voice, NEW w \in Peer(v) PROVE LinkInv(v, w)'
      <4>1. w \in Voice /\ TypeInv /\ LinkInv(v, w)
        BY <1>1 DEF SessionInv, Peer
      <4>2. UNCHANGED <<Open(v), Pulled(v, w), engine[v].queue[w]>>
        BY <3>1 DEF Open, Pulled
      <4> QED
        BY <3>1, <4>1, <4>2, LinkKept
    <3> QED
      BY <3>2, <3>3, <3>4 DEF SessionInv
  <2>2. ASSUME NEW v \in Voice, Main(v) \/ Work(v) \/ Troubled(v) PROVE SessionInv'
    BY <1>1, <2>2, EnterInv, ThrowsInv, PullSyncInv, QuietMovesInv, PassInv, ProduceInv, CrashInv
       DEF Main, Synchronize, Work, Troubled
  <2>3. ASSUME NEW v \in Voice, NEW w \in Peer(v), Receive(v, w) \/ ReceiveFails(v, w)
        PROVE  SessionInv'
    BY <1>1, <2>3, ReceiveInv, ReceiveFailsInv
  <2> QED
    BY <1>1, <2>1, <2>2, <2>3 DEF Next
<1> QED
  BY <1>1, InitSessionInv, PTL DEF Spec

\* A voice that has passed the closing barrier gets no sample any more and no peer of it has
\* workers that run: its deliverers can be stopped.
THEOREM SessionNothingUnderWay == Spec => []NothingUnderWay
<1>1. ASSUME SessionInv PROVE NothingUnderWay
  <2> SUFFICES ASSUME NEW v \in Voice, passed[v] = Rounds, NEW w \in Peer(v)
               PROVE  /\ engine[w].worker # "run"
                      /\ \A i \in DOMAIN chan[w][v] : chan[w][v][i] # "PUSHDATA"
    BY DEF NothingUnderWay
  <2>1. /\ TypeInv /\ w \in Voice /\ ControlInv(w) /\ LinkInv(v, w)
        /\ chan[w][v] \in Seq(Message)
    BY <1>1 DEF SessionInv, Peer, TypeInv
  <2>2. entered[w] = Rounds
    <3>1. passed[v] <= entered[w] /\ entered[w] \in 0 .. Rounds
      BY <2>1 DEF LinkInv, TypeInv
    <3> QED
      BY <3>1 DEF Rounds
  <2>3. engine[w].worker # "run"
    BY <2>1, <2>2 DEF ControlInv, Rounds
  <2>4. Count(chan[w][v]) = 0
    <3>1. CASE Open(v)
      <4>1. engine[v].queue[w] \in Seq(Message)
        BY <2>1 DEF TypeInv
      <4>2. Count(engine[v].queue[w]) \in Nat /\ Count(chan[w][v]) \in Nat
        BY <2>1, <4>1, SyncsFinite
      <4>3. passed[v] + Pulled(v, w) + Count(engine[v].queue[w]) + Count(chan[w][v]) <= Rounds
        BY <2>1, <2>2, <3>1 DEF LinkInv
      <4> QED
        BY <4>2, <4>3 DEF Pulled, Rounds
    <3>2. CASE ~ Open(v)
      BY <2>1, <3>2, CountOne DEF LinkInv
    <3> QED
      BY <3>1, <3>2
  <2>5. Syncs(chan[w][v]) = {}
    BY <2>1, <2>4, SyncsFinite, FS_EmptySet DEF Count
  <2>6. \A i \in 1 .. Len(chan[w][v]) : chan[w][v][i] # "PUSHDATA"
    <3>1. SyncLast(chan[w][v])
      BY <2>1, <2>2 DEF LinkInv
    <3>2. Len(chan[w][v]) \in Nat
      BY <2>1
    <3> QED
      BY <2>5, <3>1, <3>2 DEF SyncLast, Syncs
  <2> QED
    BY <2>1, <2>3, <2>6
<1> QED
  BY <1>1, SessionInvariant, PTL

\* Every call of synchronize is a round of one barrier: a step of a session is a step of it,
\* or leaves the rounds alone.
THEOREM SessionImplementsBarrier == Spec => ImplementsBarrier
<1>1. Init => Barrier!Init
  BY DEF Init, Barrier!Init
<1>2. ASSUME SessionInv, [Next]_vars PROVE [Barrier!Next]_(Barrier!vars)
  <2>1. CASE \E v \in Voice : Enter(v)
    <3>1. PICK v \in Voice : Enter(v)
      BY <2>1
    <3>2. entered[v] = passed[v] /\ entered[v] < Rounds
      BY <1>2, <3>1 DEF SessionInv, ControlInv, Enter, Synchronizes, Rounds
    <3>3. Barrier!Enter(v)
      BY <3>1, <3>2 DEF Enter, Set, Barrier!Enter
    <3> QED
      BY <3>3 DEF Barrier!Next
  <2>2. CASE \E v \in Voice : Pass(v)
    <3>1. PICK v \in Voice : Pass(v)
      BY <2>2
    <3>2. \A w \in Voice : entered[w] >= passed[v] + 1
      BY <1>2, <3>1, AllEntered
    <3>3. ASSUME NEW w \in Voice PROVE entered[w] > passed[v] /\ passed[v] < entered[w]
      <4>1. entered[w] >= passed[v] + 1
        BY <3>2
      <4>2. entered[w] \in 0 .. Rounds /\ passed[v] \in 0 .. Rounds
        BY <1>2 DEF SessionInv, TypeInv
      <4> QED
        BY <4>1, <4>2 DEF Rounds
    <3>4. Barrier!Pass(v)
      BY <3>1, <3>3 DEF Pass, Return, Set, Barrier!Pass
    <3> QED
      BY <3>4 DEF Barrier!Next
  <2>3. CASE UNCHANGED <<entered, passed>>
    BY <2>3 DEF Barrier!vars
  <2> QED
    BY ZenonT(30), <1>2, <2>1, <2>2, <2>3
       DEF Next, vars, Main, Synchronize, Work, Troubled, EnterThrows, PullSync, PullError,
           PullTimesOut, PullAgain, LeaveLoop, WorkersThrow, Close, Part, Produce, GoIdle,
           WorkerThrows, Cancel, MainThrows, Crash, Receive, ReceiveFails
<1> QED
  BY <1>1, <1>2, SessionInvariant, PTL DEF Spec, ImplementsBarrier, Barrier!Spec

-----------------------------------------------------------------------------
(* Causes.                                                                 *)

\* Some voice has an error of its own, was killed, or overlooked a message.
Guilty == \E w \in Voice : cause[w] \in {"own", "overlooked"} \/ pc[w] = "crashed"

\* Without that a voice has no error, leaves only when both rounds have been entered,
\* and pulls from its peers.
CleanVoice(v) ==
    /\ cause[v] = "none"
    /\ engine[v].worker # "failed"
    /\ ~ Open(v) => entered[v] = Rounds
    /\ pc[v] = "pull" => engine[v].next \in Peer(v) \cup {Voices}
    /\ pc[v] = "timeout" => engine[v].next \in Peer(v)

\* And on the way from voice w to voice v no SYNC is lost, an ERROR is never sent, and GOODBYE
\* is the last message.
CleanLink(v, w) ==
    Open(v) =>
        /\ \A i \in 1 .. Len(engine[v].queue[w]) : engine[v].queue[w][i] = "SYNC"
        /\ \A i \in 1 .. Len(chan[w][v]) :
             /\ chan[w][v][i] # "ERROR"
             /\ chan[w][v][i] = "GOODBYE" => i = Len(chan[w][v]) /\ ~ Open(w)
        /\ passed[v] + Pulled(v, w) + Count(engine[v].queue[w]) + Count(chan[w][v])
               = entered[w]
        /\ w \notin engine[v].receiving => ~ Open(w) /\ chan[w][v] = <<>>

Clean ==
    /\ \A v \in Voice : CleanVoice(v)
    /\ \A v \in Voice : \A w \in Peer(v) : CleanLink(v, w)

CauseInv ==
    /\ DOMAIN cause = Voice
    /\ \A v \in Voice : "receiving" \in DOMAIN engine[v]
    /\ Guilty \/ Clean

LEMMA InitCause == Init => CauseInv
<1> SUFFICES ASSUME Init PROVE CauseInv
  OBVIOUS
<1>1. \A v \in Voice : /\ pc[v] = "open" /\ entered[v] = 0 /\ passed[v] = 0
                       /\ cause[v] = "none" /\ engine[v] = New(v)
                       /\ \A w \in Voice : chan[w][v] = <<>>
  BY DEF Init
<1>2. \A v \in Voice : /\ "receiving" \in DOMAIN New(v)
                       /\ New(v).worker = "idle" /\ New(v).receiving = Peer(v)
                       /\ New(v).queue = [w \in Voice |-> <<>>]
  BY DEF New
<1>3. \A v \in Voice : CleanVoice(v)
  BY <1>1, <1>2 DEF CleanVoice, Open
<1>4. ASSUME NEW v \in Voice, NEW w \in Peer(v) PROVE CleanLink(v, w)
  <2>1. w \in Voice
    BY DEF Peer
  <2>2. /\ Pulled(v, w) = 0 /\ engine[v].queue[w] = <<>> /\ chan[w][v] = <<>>
        /\ w \in engine[v].receiving
    BY <1>1, <1>2, <2>1 DEF Pulled
  <2>3. Count(<<>>) = 0 /\ Len(<<>>) = 0
    BY CountOne
  <2> QED
    BY <1>1, <2>1, <2>2, <2>3 DEF CleanLink
<1>5. DOMAIN cause = Voice /\ \A v \in Voice : "receiving" \in DOMAIN engine[v]
  BY <1>1, <1>2 DEF Init
<1> QED
  BY <1>3, <1>4, <1>5 DEF CauseInv, Clean

\* What every step leaves: a guilty voice stays guilty.
LEMMA GuiltStays ==
    ASSUME SessionInv, CauseInv, [Next]_vars
    PROVE  /\ DOMAIN cause' = Voice
           /\ \A v \in Voice : "receiving" \in DOMAIN engine'[v]
           /\ Guilty => Guilty'
<1> USE DEF SessionInv
<1>1. DOMAIN cause = Voice /\ DOMAIN pc = Voice /\ DOMAIN engine = Voice
      /\ \A u \in Voice : "receiving" \in DOMAIN engine[u]
  BY DEF CauseInv, TypeInv
<1>2. CASE UNCHANGED vars
  BY <1>1, <1>2 DEF vars, Guilty
<1>3. ASSUME NEW v \in Voice,
             \/ Main(v) \/ Work(v) \/ Troubled(v)
             \/ \E w \in Peer(v) : Receive(v, w) \/ ReceiveFails(v, w)
      PROVE  /\ DOMAIN cause' = Voice
             /\ \A u \in Voice : "receiving" \in DOMAIN engine'[u]
             /\ Guilty => Guilty'
  <2>1. \/ cause' = cause
        \/ \E e : StoreError(v, e)
    <3>1. CASE Main(v)
      BY <3>1 DEF Main, Synchronize, Enter, EnterThrows, PullSync, PullError, PullTimesOut,
         PullAgain, Pass, Return, LeaveLoop, WorkersThrow, Close, Part, Throw
    <3>2. CASE Work(v) \/ Troubled(v)
      BY <3>2 DEF Work, Produce, GoIdle, Troubled, WorkerThrows, Cancel, MainThrows, Crash, Throw
    <3>3. CASE \E w \in Peer(v) : Receive(v, w) \/ ReceiveFails(v, w)
      BY <3>3 DEF Receive, ReceiveFails
    <3> QED
      BY <1>3, <3>1, <3>2, <3>3
  <2>2. /\ DOMAIN cause' = Voice
        /\ \A u \in Voice : cause[u] # "none" => cause'[u] = cause[u]
    BY <1>1, <2>1 DEF StoreError, Set
  <2>3. pc' = pc \/ (pc[v] # "crashed" /\ \E where : pc' = Set(pc, v, where))
    <3>1. CASE Main(v)
      BY <3>1 DEF Main, Synchronize, Enter, EnterThrows, PullSync, PullError, PullTimesOut,
         PullAgain, Pass, Return, LeaveLoop, WorkersThrow, Close, Part, Throw, Down, Ends,
         Synchronizes, Pulling
    <3>2. CASE Work(v) \/ Troubled(v)
      BY <3>2 DEF Work, Produce, GoIdle, Troubled, WorkerThrows, Cancel, MainThrows, Crash,
         Throw, Down, Ends, Open
    <3>3. CASE \E w \in Peer(v) : Receive(v, w) \/ ReceiveFails(v, w)
      BY <3>3 DEF Receive, ReceiveFails
    <3> QED
      BY <1>3, <3>1, <3>2, <3>3
  <2>4. \A u \in Voice : pc[u] = "crashed" => pc'[u] = "crashed"
    BY <1>1, <2>3 DEF Set
  <2>5. Guilty => Guilty'
    BY <2>2, <2>4 DEF Guilty
  <2>6. "receiving" \in DOMAIN New(v)
    BY DEF New
  <2>7. ASSUME NEW u \in Voice PROVE "receiving" \in DOMAIN engine'[u]
    <3>1. CASE Synchronize(v)
      BY <1>1, <2>6, <3>1 DEF Synchronize, Enter, EnterThrows, PullSync, PullError,
         PullTimesOut, PullAgain, Pass, Return, Throw, Down, Ends, Set
    <3>2. CASE LeaveLoop(v) \/ WorkersThrow(v) \/ Close(v) \/ Part(v)
      BY <1>1, <2>6, <3>2 DEF LeaveLoop, WorkersThrow, Close, Part, Throw, Down, Ends, Set
    <3>3. CASE Work(v) \/ Troubled(v)
      BY <1>1, <2>6, <3>3 DEF Work, Produce, GoIdle, Troubled, WorkerThrows, Cancel,
         MainThrows, Crash, Throw, Down, Ends, Set
    <3>4. CASE \E w \in Peer(v) : Receive(v, w) \/ ReceiveFails(v, w)
      <4>1. PICK w \in Peer(v) : Receive(v, w) \/ ReceiveFails(v, w)
        BY <3>4
      <4>2. CASE Receive(v, w)
        <5>1. Handle(v, w, Head(chan[w][v]))
          BY <4>2 DEF Receive
        <5> QED
          BY <1>1, <5>1 DEF Handle
      <4>3. CASE ReceiveFails(v, w)
        <5>1. engine' = [engine EXCEPT ![v].ended = TRUE, ![v].receiving = @ \ {w}]
          BY <4>3 DEF ReceiveFails
        <5> QED
          BY <1>1, <5>1
      <4> QED
        BY <4>1, <4>2, <4>3
    <3> QED
      BY <1>3, <3>1, <3>2, <3>3, <3>4 DEF Main
  <2> QED
    BY <2>2, <2>5, <2>7
<1> QED
  BY <1>2, <1>3 DEF Next

\* A link where nothing is got or pulled stays clean: voice w, whose channels are open, may
\* send a sample or CANCEL, SYNC when it enters a round, and GOODBYE when it leaves.
LEMMA CleanKept ==
    ASSUME TypeInv, NEW v \in Voice, NEW w \in Voice, CleanLink(v, w),
           UNCHANGED <<passed[v], Pulled(v, w), engine[v].queue[w],
                       w \in engine[v].receiving>>,
           Open(v)' => Open(v), Open(w)' => Open(w),
           \/ chan'[w][v] = chan[w][v] /\ entered'[w] = entered[w]
           \/ /\ Open(w)
              /\ \E m \in Message \ {"ERROR"} :
                    /\ m = "GOODBYE" => ~ Open(w)'
                    /\ chan'[w][v] = Append(chan[w][v], m)
                    /\ entered'[w] = entered[w] + IF m = "SYNC" THEN 1 ELSE 0
    PROVE  CleanLink(v, w)'
<1> SUFFICES ASSUME Open(v), Open(v)' PROVE CleanLink(v, w)'
  BY DEF CleanLink
<1> DEFINE q == engine[v].queue[w]
           c == chan[w][v]
           d == chan'[w][v]
<1>1. c \in Seq(Message) /\ Len(c) \in Nat /\ engine'[v].queue[w] = q
  BY DEF TypeInv
<1>2. /\ \A i \in 1 .. Len(q) : q[i] = "SYNC"
      /\ \A i \in 1 .. Len(c) : c[i] # "ERROR" /\ (c[i] = "GOODBYE" => i = Len(c) /\ ~ Open(w))
      /\ passed[v] + Pulled(v, w) + Count(q) + Count(c) = entered[w]
      /\ w \notin engine[v].receiving => ~ Open(w) /\ c = <<>>
  BY DEF CleanLink
<1>p. /\ passed[v] \in Nat /\ Pulled(v, w) \in Nat /\ entered[w] \in Nat
      /\ Count(q) \in Nat /\ Count(c) \in Nat
  <2>1. passed[v] \in Nat /\ Pulled(v, w) \in Nat /\ entered[w] \in Nat /\ q \in Seq(Message)
    BY DEF TypeInv, Pulled
  <2> HIDE DEF c, q
  <2> QED
    BY <1>1, <2>1, SyncsFinite
<1>3. /\ \A i \in 1 .. Len(d) : d[i] # "ERROR" /\ (d[i] = "GOODBYE" => i = Len(d) /\ ~ Open(w)')
      /\ \E n \in {0, 1} : Count(d) = Count(c) + n /\ entered'[w] = entered[w] + n
      /\ w \notin engine[v].receiving => ~ Open(w)' /\ d = <<>>
  <2>1. CASE d = c
    <3>1. \A m : Append(c, m) # c
      <4> HIDE DEF c
      <4>1. \A m : Len(Append(c, m)) = Len(c) + 1
        BY <1>1
      <4> QED
        BY <1>1, <4>1
    <3>2. entered'[w] = entered[w]
      BY <2>1, <3>1
    <3>3. Count(d) = Count(c) + 0 /\ entered'[w] = entered[w] + 0
      BY <1>p, <2>1, <3>2
    <3> QED
      BY <1>2, <2>1, <3>3
  <2>2. CASE d # c
    <3>1. PICK m \in Message \ {"ERROR"} :
                 /\ m = "GOODBYE" => ~ Open(w)'
                 /\ d = Append(c, m)
                 /\ entered'[w] = entered[w] + IF m = "SYNC" THEN 1 ELSE 0
      BY <2>2
    <3>2. Open(w) /\ w \in engine[v].receiving
      BY <1>2, <2>2
    <3> HIDE DEF c, d
    <3>3. /\ Len(d) = Len(c) + 1 /\ d[Len(c) + 1] = m
          /\ \A i \in 1 .. Len(c) : d[i] = c[i]
      BY <1>1, <3>1
    <3>4. \E n \in {0, 1} : Count(d) = Count(c) + n /\ entered'[w] = entered[w] + n
      <4>1. Count(d) = Count(c) + IF m = "SYNC" THEN 1 ELSE 0
        BY <1>1, <3>1, CountAppend
      <4> QED
        BY <3>1, <4>1
    <3>5. ASSUME NEW i \in 1 .. Len(d)
          PROVE  d[i] # "ERROR" /\ (d[i] = "GOODBYE" => i = Len(d) /\ ~ Open(w)')
      <4>1. CASE i \in 1 .. Len(c)
        BY <1>2, <3>2, <3>3, <4>1
      <4>2. CASE i = Len(c) + 1
        BY <3>1, <3>3, <4>2
      <4> QED
        BY <1>1, <3>3, <4>1, <4>2
    <3> QED
      BY <3>2, <3>4, <3>5
  <2> QED
    BY <2>1, <2>2
<1>4. (Count(chan[w][v]))' = Count(d) /\ (Count(engine[v].queue[w]))' = Count(q)
  BY <1>1 DEF Count, Syncs
<1>5. passed'[v] + Pulled(v, w)' + (Count(engine[v].queue[w]))' + (Count(chan[w][v]))'
          = entered'[w]
  <2>1. PICK n \in {0, 1} : Count(d) = Count(c) + n /\ entered'[w] = entered[w] + n
    BY <1>3
  <2>2. passed[v] + Pulled(v, w) + Count(q) + Count(d) = entered'[w]
    <3> HIDE DEF c, d, q
    <3> QED
      BY <1>2, <1>p, <2>1
  <2> QED
    BY <1>4, <2>2
<1>6. /\ \A i \in 1 .. Len(engine'[v].queue[w]) : engine'[v].queue[w][i] = "SYNC"
      /\ w \notin engine'[v].receiving => ~ Open(w)' /\ chan'[w][v] = <<>>
  BY <1>1, <1>2, <1>3, <1>4
<1> HIDE DEF q, c
<1> QED
  BY <1>3, <1>5, <1>6 DEF CleanLink

\* Steps that neither enter nor pass a round, nor get or pull a message.
CleanMoves == Moves \cup {<<"close", "parting">>}

LEMMA CleanMove ==
    ASSUME SessionInv, Clean, ~ Guilty, NEW v \in Voice, NEW where,
           pc' = Set(pc, v, where), pc[v] = where \/ <<pc[v], where>> \in CleanMoves,
           UNCHANGED <<entered, passed, cause>>, DOMAIN engine' = Voice,
           \A u \in Voice :
               \/ ~ Open(u)'
               \/ /\ engine'[u].next = engine[u].next
                  /\ engine'[u].queue = engine[u].queue
                  /\ engine'[u].receiving = engine[u].receiving,
           engine'[v].worker # "failed", \A u \in Voice \ {v} : engine'[u] = engine[u],
           where = "timeout" => engine[v].next \in Peer(v),
           \A w, u \in Voice : w # v => chan'[w][u] = chan[w][u] \/ ~ Open(u)',
           \A u \in Peer(v) :
               \/ chan'[v][u] = chan[v][u]
               \/ /\ Open(v)
                  /\ \E m \in {"PUSHDATA", "CANCEL", "GOODBYE"} :
                        /\ m = "GOODBYE" => ~ Open(v)'
                        /\ chan'[v][u] = Append(chan[v][u], m)
    PROVE  Clean'
<1>1. /\ pc'[v] = where /\ \A u \in Voice : u # v => pc'[u] = pc[u]
  BY DEF Set, SessionInv, TypeInv
<1>2. \A u \in Voice : Open(u)' => Open(u)
  BY <1>1 DEF Open, CleanMoves, Moves
<1>3. ASSUME NEW u \in Voice PROVE CleanVoice(u)'
  <2>1. CleanVoice(u)
    BY DEF Clean
  <2>2. CASE u # v
    BY <1>1, <2>1, <2>2 DEF CleanVoice, Open
  <2>3. CASE u = v
    <3>1. cause'[v] = "none" /\ engine'[v].worker # "failed"
      BY <2>1, <2>3 DEF CleanVoice
    <3>2. ~ Open(v)' => entered'[v] = Rounds
      <4>1. CASE pc[v] = "close"
        BY <4>1 DEF SessionInv, ControlInv, Rounds
      <4>2. CASE pc[v] # "close"
        <5>1. ~ Open(v)' => ~ Open(v)
          BY <1>1, <4>2 DEF Open, CleanMoves, Moves
        <5> QED
          BY <2>1, <2>3, <5>1 DEF CleanVoice
      <4> QED
        BY <4>1, <4>2
    <3>3. Open(v)' => engine'[v].next = engine[v].next
      OBVIOUS
    <3>4. pc'[v] = "pull" => engine'[v].next \in Peer(v) \cup {Voices}
      BY <1>1, <2>1, <2>3, <3>3 DEF CleanVoice, CleanMoves, Moves, Open
    <3>5. pc'[v] = "timeout" => engine'[v].next \in Peer(v)
      BY <1>1, <2>1, <2>3, <3>3 DEF CleanVoice, CleanMoves, Moves, Open
    <3> QED
      BY <2>3, <3>1, <3>2, <3>4, <3>5 DEF CleanVoice, Peer
  <2> QED
    BY <2>2, <2>3
<1>4. ASSUME NEW u \in Voice, NEW w \in Peer(u) PROVE CleanLink(u, w)'
  <2>1. w \in Voice /\ w # u /\ CleanLink(u, w)
    BY DEF Peer, Clean
  <2>2. CASE ~ Open(u)'
    BY <2>2 DEF CleanLink
  <2>3. CASE Open(u)'
    <3>1. UNCHANGED <<entered[w], passed[u], engine[u].queue[w], w \in engine[u].receiving>>
      BY <2>3
    <3>2. Pulled(u, w)' = Pulled(u, w)
      BY <1>1, <2>3 DEF Pulled, CleanMoves, Moves
    <3>3. CASE w # v
      <4>1. chan'[w][u] = chan[w][u]
        BY <2>1, <2>3, <3>3
      <4> QED
        BY <1>2, <2>1, <3>1, <3>2, <4>1, CleanKept DEF SessionInv
    <3>4. CASE w = v
      <4>1. u \in Peer(v)
        BY <2>1, <3>4 DEF Peer
      <4>2. \/ chan'[w][u] = chan[w][u]
            \/ /\ Open(w)
               /\ \E m \in {"PUSHDATA", "CANCEL", "GOODBYE"} :
                     /\ m = "GOODBYE" => ~ Open(w)'
                     /\ chan'[w][u] = Append(chan[w][u], m)
        BY <3>4, <4>1
      <4>3. entered'[w] = entered[w] /\ entered[w] = entered[w] + 0
        BY <2>1 DEF SessionInv, TypeInv
      <4>4. \/ chan'[w][u] = chan[w][u]
            \/ /\ Open(w)
               /\ \E m \in Message \ {"ERROR"} :
                     /\ m = "GOODBYE" => ~ Open(w)'
                     /\ chan'[w][u] = Append(chan[w][u], m)
                     /\ entered'[w] = entered[w] + IF m = "SYNC" THEN 1 ELSE 0
        BY <4>2, <4>3 DEF Message, Quiet
      <4> QED
        BY <1>2, <2>1, <3>1, <3>2, <4>3, <4>4, CleanKept DEF SessionInv
    <3> QED
      BY <3>3, <3>4
  <2> QED
    BY <2>2, <2>3
<1> QED
  BY <1>3, <1>4 DEF Clean

LEMMA SentOne ==
    ASSUME TypeInv, NEW v \in Voice, NEW peers, NEW m \in Message
    PROVE  /\ Sent(v, peers, <<m>>) \in Channels
           /\ \A a, b \in Voice : Sent(v, peers, <<m>>)[a][b] =
                IF a = v /\ b \in peers /\ Open(b) THEN Append(chan[a][b], m) ELSE chan[a][b]
<1> DEFINE ms == <<m>>
<1>1. ms \in Seq(Message)
  BY OneMessage
<1>2. ASSUME NEW s \in Seq(Message) PROVE s \o ms = Append(s, m)
  BY AppendIsConcat
<1>3. ASSUME NEW a \in Voice, NEW b \in Voice PROVE chan[a][b] \o ms = Append(chan[a][b], m)
  <2>1. chan[a][b] \in Seq(Message)
    BY DEF TypeInv
  <2> HIDE DEF ms
  <2> QED
    BY <1>2, <2>1
<1> HIDE DEF ms
<1>4. /\ Sent(v, peers, ms) \in Channels
      /\ \A a, b \in Voice : Sent(v, peers, ms)[a][b] =
           IF a = v /\ b \in peers /\ Open(b) THEN chan[a][b] \o ms ELSE chan[a][b]
  BY <1>1, SentIs
<1> QED
  BY <1>3, <1>4 DEF ms

LEMMA CleanQuiet ==
    ASSUME SessionInv, CauseInv, ~ Guilty, NEW v \in Voice,
           \/ PullTimesOut(v) \/ LeaveLoop(v) \/ Part(v) \/ Produce(v) \/ GoIdle(v)
           \/ Cancel(v) \/ Close(v)
    PROVE  Clean'
<1>1. /\ Clean /\ TypeInv /\ DOMAIN engine = Voice
      /\ \A u \in Voice : "receiving" \in DOMAIN engine[u]
      /\ pc = Set(pc, v, pc[v])
  BY DEF CauseInv, SessionInv, TypeInv, Set
<1>2. /\ CleanVoice(v) /\ cause[v] = "none" /\ engine[v].worker # "failed"
      /\ \A u \in Voice : u # v => engine[u].worker # "failed"
  BY <1>1 DEF Clean, CleanVoice
<1>3. CASE PullTimesOut(v)
  <2>1. /\ pc[v] = "pull" /\ pc' = Set(pc, v, "timeout")
        /\ UNCHANGED <<entered, passed, cause, engine, chan>> /\ engine[v].next \in Voice
    BY <1>3 DEF PullTimesOut, Pulling
  <2>2. engine[v].next \in Peer(v)
    BY <1>2, <2>1, SessionAssumption DEF CleanVoice, Voice
  <2>3. <<pc[v], "timeout">> \in CleanMoves
    BY <2>1 DEF CleanMoves, Moves
  <2> QED
    BY <1>1, <1>2, <2>1, <2>2, <2>3, CleanMove
<1>4. CASE LeaveLoop(v)
  <2>1. /\ pc[v] = "run" /\ pc' = Set(pc, v, "wait") /\ UNCHANGED <<entered, passed, cause>>
        /\ engine' = engine \/ engine' = [engine EXCEPT ![v].signalled = TRUE]
        /\ chan' = chan \/ chan' = Sent(v, Peer(v), Signal(v, "CANCEL"))
    BY <1>2, <1>4 DEF LeaveLoop, Send
  <2>2. <<pc[v], "wait">> \in CleanMoves /\ Open(v)
    BY <2>1 DEF CleanMoves, Moves, Open
  <2>3. /\ DOMAIN engine' = Voice /\ engine'[v].worker # "failed"
        /\ \A u \in Voice : /\ engine'[u].next = engine[u].next
                            /\ engine'[u].queue = engine[u].queue
                            /\ engine'[u].receiving = engine[u].receiving
                            /\ u # v => engine'[u] = engine[u]
    <3>1. CASE engine' = engine
      BY <1>1, <1>2, <3>1
    <3>2. CASE engine' = [engine EXCEPT ![v].signalled = TRUE]
      BY <1>1, <1>2, <3>2
    <3> QED
      BY <2>1, <3>1, <3>2
  <2>4. ASSUME NEW a \in Voice, NEW b \in Voice
        PROVE  \/ chan'[a][b] = chan[a][b]
               \/ (a = v /\ chan'[a][b] = Append(chan[a][b], "CANCEL"))
    <3>1. CASE chan' = chan
      BY <3>1
    <3>2. CASE chan' = Sent(v, Peer(v), <<>>)
      <4> DEFINE ms == <<>>
      <4>1. ms \in Seq(Message)
        BY EmptySeq
      <4>2. chan[a][b] \o ms = chan[a][b]
        BY <1>1 DEF TypeInv
      <4> HIDE DEF ms
      <4>3. Sent(v, Peer(v), ms)[a][b] =
                IF a = v /\ b \in Peer(v) /\ Open(b) THEN chan[a][b] \o ms ELSE chan[a][b]
        BY <1>1, <4>1, SentIs
      <4> QED
        BY <3>2, <4>2, <4>3 DEF ms
    <3>3. CASE chan' = Sent(v, Peer(v), <<"CANCEL">>)
      <4>1. "CANCEL" \in Message
        BY DEF Message, Quiet
      <4>2. Sent(v, Peer(v), <<"CANCEL">>)[a][b] =
                IF a = v /\ b \in Peer(v) /\ Open(b)
                THEN Append(chan[a][b], "CANCEL") ELSE chan[a][b]
        BY <1>1, <4>1, SentOne
      <4> QED
        BY <3>3, <4>2
    <3> QED
      BY <2>1, <3>1, <3>2, <3>3 DEF Signal
  <2>5. \A u \in Peer(v) :
            \/ chan'[v][u] = chan[v][u]
            \/ Open(v) /\ chan'[v][u] = Append(chan[v][u], "CANCEL")
    BY <2>2, <2>4 DEF Peer
  <2>6. \A w, u \in Voice : w # v => chan'[w][u] = chan[w][u]
    BY <2>4
  <2> QED
    BY <1>1, <2>1, <2>2, <2>3, <2>5, <2>6, CleanMove
<1>5. CASE Part(v)
  <2>1. /\ pc[v] = "parting" /\ pc' = Set(pc, v, "gone")
        /\ UNCHANGED <<entered, passed, cause, engine, chan>>
    <3>1. ~ \E w \in Peer(v) : pc[w] = "crashed"
      BY DEF Guilty, Peer
    <3> QED
      BY <1>5, <3>1 DEF Part
  <2>2. <<pc[v], "gone">> \in CleanMoves
    BY <2>1 DEF CleanMoves, Moves
  <2> QED
    BY <1>1, <1>2, <2>1, <2>2, CleanMove
<1>6. CASE GoIdle(v) \/ Cancel(v)
  <2>1. UNCHANGED <<pc, entered, passed, cause, chan>>
    BY <1>6 DEF GoIdle, Cancel
  <2>2. /\ DOMAIN engine' = Voice /\ engine'[v].worker # "failed"
        /\ \A u \in Voice : /\ engine'[u].next = engine[u].next
                            /\ engine'[u].queue = engine[u].queue
                            /\ engine'[u].receiving = engine[u].receiving
                            /\ u # v => engine'[u] = engine[u]
    <3>1. CASE engine' = [engine EXCEPT ![v].worker = "idle"]
      BY <1>1, <1>2, <3>1 DEF TypeInv
    <3>2. CASE engine' = [engine EXCEPT ![v].cancelled = TRUE, ![v].ended = TRUE]
      BY <1>1, <1>2, <3>2
    <3> QED
      BY <1>6, <3>1, <3>2 DEF GoIdle, Cancel
  <2>3. pc[v] = "timeout" => engine[v].next \in Peer(v)
    BY <1>2 DEF CleanVoice
  <2> QED
    BY <1>1, <2>1, <2>2, <2>3, CleanMove
<1>7. CASE Produce(v)
  <2>1. /\ UNCHANGED <<pc, entered, passed, cause>> /\ engine[v].worker = "run"
        /\ engine' = [engine EXCEPT ![v].produced = @ + 1]
        /\ chan' = Sent(v, Feeds[v], <<"PUSHDATA">>)
    BY <1>7 DEF Produce, Send
  <2>2. Open(v) /\ (pc[v] = "timeout" => engine[v].next \in Peer(v))
    BY <2>1 DEF Open, SessionInv, ControlInv
  <2>3. /\ DOMAIN engine' = Voice /\ engine'[v].worker # "failed"
        /\ \A u \in Voice : /\ engine'[u].next = engine[u].next
                            /\ engine'[u].queue = engine[u].queue
                            /\ engine'[u].receiving = engine[u].receiving
                            /\ u # v => engine'[u] = engine[u]
    BY <1>1, <1>2, <2>1
  <2>4. ASSUME NEW a \in Voice, NEW b \in Voice
        PROVE  \/ chan'[a][b] = chan[a][b]
               \/ (a = v /\ chan'[a][b] = Append(chan[a][b], "PUSHDATA"))
    <3>1. "PUSHDATA" \in Message
      BY DEF Message
    <3>2. Sent(v, Feeds[v], <<"PUSHDATA">>)[a][b] =
              IF a = v /\ b \in Feeds[v] /\ Open(b)
              THEN Append(chan[a][b], "PUSHDATA") ELSE chan[a][b]
      BY <1>1, <3>1, SentOne
    <3> QED
      BY <2>1, <3>2
  <2>5. \A u \in Peer(v) :
            \/ chan'[v][u] = chan[v][u]
            \/ Open(v) /\ chan'[v][u] = Append(chan[v][u], "PUSHDATA")
    BY <2>2, <2>4 DEF Peer
  <2>6. \A w, u \in Voice : w # v => chan'[w][u] = chan[w][u]
    BY <2>4
  <2>7. pc' = Set(pc, v, pc[v])
    BY <1>1, <2>1
  <2>8. UNCHANGED <<entered, passed, cause>>
    BY <2>1
  <2> QED
    BY <1>1, <2>2, <2>3, <2>5, <2>6, <2>7, <2>8, CleanMove
<1>8. CASE Close(v)
  <2> DEFINE sent == Sent(v, Peer(v), <<"GOODBYE">>)
  <2>1. <<>> \o <<"GOODBYE">> = <<"GOODBYE">>
    OBVIOUS
  <2>2. pc[v] = "close" /\ Ends(v, "parting", sent) /\ UNCHANGED <<entered, passed, cause>>
    <3>1. (IF cause[v] # "none" THEN Signal(v, "ERROR") ELSE <<>>) \o <<"GOODBYE">>
              = <<"GOODBYE">>
      BY <1>2, <2>1
    <3> QED
      BY <1>8, <3>1 DEF Close, Down
  <2>3. /\ pc' = Set(pc, v, "parting") /\ <<pc[v], "parting">> \in CleanMoves
        /\ Open(v) /\ ~ Open(v)'
    BY <1>1, <2>2 DEF Ends, CleanMoves, Open, Set, TypeInv
  <2>4. /\ DOMAIN engine' = Voice /\ engine'[v].worker # "failed"
        /\ \A u \in Voice : u # v => engine'[u] = engine[u]
    <3>1. New(v).worker = "idle"
      BY DEF New
    <3> QED
      BY <1>1, <2>2, <3>1 DEF Ends, Set
  <2>5. ASSUME NEW a \in Voice, NEW b \in Voice, b # v
        PROVE  \/ chan'[a][b] = chan[a][b]
               \/ (a = v /\ chan'[a][b] = Append(chan[a][b], "GOODBYE"))
    <3>1. "GOODBYE" \in Message
      BY DEF Message, Quiet
    <3>2. chan'[a][b] = sent[a][b]
      <4>1. sent \in Channels
        BY <1>1, <3>1, SentOne
      <4> HIDE DEF sent
      <4> QED
        BY <2>2, <2>5, <4>1 DEF Ends, Set, Channels
    <3>3. sent[a][b] = IF a = v /\ b \in Peer(v) /\ Open(b)
                       THEN Append(chan[a][b], "GOODBYE") ELSE chan[a][b]
      BY <1>1, <3>1, SentOne
    <3> HIDE DEF sent
    <3> QED
      BY <3>2, <3>3
  <2>6. \A u \in Peer(v) :
            \/ chan'[v][u] = chan[v][u]
            \/ Open(v) /\ ~ Open(v)' /\ chan'[v][u] = Append(chan[v][u], "GOODBYE")
    BY <2>3, <2>5 DEF Peer
  <2>7. \A w, u \in Voice : w # v => chan'[w][u] = chan[w][u] \/ ~ Open(u)'
    BY <2>3, <2>5
  <2>8. \A u \in Voice : u # v => /\ engine'[u].next = engine[u].next
                                  /\ engine'[u].queue = engine[u].queue
                                  /\ engine'[u].receiving = engine[u].receiving
    BY <2>4
  <2> HIDE DEF sent
  <2> QED
    BY <1>1, <2>2, <2>3, <2>4, <2>6, <2>7, <2>8, CleanMove
<1> QED
  BY <1>3, <1>4, <1>5, <1>6, <1>7, <1>8

LEMMA CleanEnter ==
    ASSUME SessionInv, CauseInv, ~ Guilty, NEW v \in Voice, Enter(v)
    PROVE  Clean'
<1>1. /\ Clean /\ TypeInv /\ CleanVoice(v) /\ v \in Voice
      /\ \A u \in Voice : "receiving" \in DOMAIN engine[u]
  BY DEF CauseInv, SessionInv, Clean
<1>2. /\ pc'[v] = "pull" /\ \A u \in Voice : u # v => pc'[u] = pc[u]
  BY <1>1 DEF Enter, Set, TypeInv
<1>3. /\ Synchronizes(v) /\ Open(v) /\ pc[v] \notin {"pull", "timeout"}
      /\ UNCHANGED <<passed, cause>>
  BY DEF Enter, Synchronizes, Open
<1>4. entered'[v] = entered[v] + 1 /\ \A u \in Voice : u # v => entered'[u] = entered[u]
  BY <1>1 DEF Enter, Set, TypeInv
<1>5. /\ First(Peer(v)) \in Peer(v) \cup {Voices}
      /\ \A w \in Peer(v) : First(Peer(v)) <= w
  BY FirstOf DEF Peer
<1>6. /\ \A u \in Voice : u # v => engine'[u] = engine[u]
      /\ engine'[v].next = First(Peer(v))
      /\ engine'[v].queue = engine[v].queue /\ engine'[v].worker = engine[v].worker
      /\ engine'[v].receiving = engine[v].receiving
  BY <1>1 DEF Enter, TypeInv
<1>7. /\ chan' \in Channels
      /\ \A a, b \in Voice : chan'[a][b] =
            IF a = v /\ b \in Peer(v) /\ Open(b) THEN Append(chan[a][b], "SYNC") ELSE chan[a][b]
  <2>1. "SYNC" \in Message
    BY DEF Message
  <2>2. chan' = Sent(v, Peer(v), <<"SYNC">>)
    BY DEF Enter, Send
  <2> QED
    BY <1>1, <2>1, <2>2, SentOne
<1>8. \A u \in Voice : Open(u)' = Open(u)
  BY <1>2, <1>3 DEF Open
<1>9. ASSUME NEW u \in Voice PROVE CleanVoice(u)'
  <2>1. CASE u = v
    BY <1>1, <1>2, <1>3, <1>5, <1>6, <1>8, <2>1 DEF CleanVoice, Peer
  <2>2. CASE u # v
    <3>1. CleanVoice(u)
      BY <1>1 DEF Clean
    <3> QED
      BY <1>2, <1>3, <1>4, <1>6, <1>8, <2>2, <3>1 DEF CleanVoice, Peer
  <2> QED
    BY <2>1, <2>2
<1>10. ASSUME NEW u \in Voice, NEW w \in Peer(u) PROVE CleanLink(u, w)'
  <2>1. w \in Voice /\ w # u /\ CleanLink(u, w)
    BY <1>1 DEF Peer, Clean
  <2>2. CASE ~ Open(u)
    BY <1>8, <2>2 DEF CleanLink
  <2>3. CASE Open(u)
    <3>1. Pulled(u, w)' = Pulled(u, w)
      <4>1. CASE u = v
        <5>1. w \in Int /\ First(Peer(v)) \in Int /\ First(Peer(v)) <= w
          <6>1. \A x \in Voice : x \in Int
            BY DEF Voice
          <6>2. Peer(v) \subseteq Voice /\ Voices \in Int /\ w \in Peer(v)
            BY <4>1, SessionAssumption DEF Peer
          <6> QED
            BY <1>5, <6>1, <6>2
        <5>2. ~ (w < engine'[v].next)
          BY <1>6, <5>1
        <5> QED
          BY <1>3, <4>1, <5>2 DEF Pulled
      <4>2. CASE u # v
        BY <1>2, <1>6, <4>2 DEF Pulled
      <4> QED
        BY <4>1, <4>2
    <3>2. UNCHANGED <<passed[u], engine[u].queue[w], w \in engine[u].receiving>>
      BY <1>3, <1>6
    <3>3. Open(u)' = Open(u) /\ Open(w)' = Open(w)
      BY <1>8, <2>1
    <3>4. CASE w = v
      <4>1. /\ chan'[w][u] = Append(chan[w][u], "SYNC") /\ Open(w)
            /\ entered'[w] = entered[w] + 1 /\ "SYNC" \in Message \ {"ERROR"}
        <5>1. u \in Peer(v)
          BY <2>1, <3>4 DEF Peer
        <5> QED
          BY <1>3, <1>4, <1>7, <2>3, <3>4, <5>1 DEF Message
      <4> QED
        BY <1>1, <2>1, <3>1, <3>2, <3>3, <4>1, CleanKept
    <3>5. CASE w # v
      <4>1. chan'[w][u] = chan[w][u] /\ entered'[w] = entered[w]
        BY <1>4, <1>7, <2>1, <3>5
      <4> QED
        BY <1>1, <2>1, <3>1, <3>2, <3>3, <4>1, CleanKept
    <3> QED
      BY <3>4, <3>5
  <2> QED
    BY <2>2, <2>3
<1> QED
  BY <1>9, <1>10 DEF Clean

LEMMA CleanPullSync ==
    ASSUME SessionInv, CauseInv, ~ Guilty, NEW v \in Voice, PullSync(v)
    PROVE  Clean'
<1>p. PICK n : n = engine[v].next
  OBVIOUS
<1> DEFINE q == engine[v].queue[n]
           later == {w \in Peer(v) : w > n}
<1>0. /\ Clean /\ TypeInv /\ CleanVoice(v)
      /\ \A u \in Voice : "receiving" \in DOMAIN engine[u]
  BY DEF CauseInv, SessionInv, Clean
<1>1. /\ pc[v] = "pull" /\ n \in Voice /\ q # <<>> /\ Head(q) = "SYNC"
      /\ engine' = [engine EXCEPT ![v].queue[n] = Tail(@), ![v].next = First(later)]
      /\ UNCHANGED <<pc, entered, passed, cause, chan>>
  BY <1>p DEF PullSync, Pulling, From
<1>2. /\ First(later) \in Peer(v) \cup {Voices} /\ n < First(later)
      /\ \A w \in Peer(v) : w > n => First(later) <= w
  <2>1. later \in SUBSET Voice /\ Voices \in Nat
    BY SessionAssumption DEF Peer
  <2>2. First(later) \in later \cup {Voices} /\ \A u \in later : First(later) <= u
    BY <2>1, FirstOf
  <2> QED
    BY <1>1, <2>1, <2>2 DEF Voice
<1>3. q \in Seq(Message)
  BY <1>0, <1>1 DEF TypeInv
<1>4. /\ Tail(q) \in Seq(Message) /\ Count(q) = Count(Tail(q)) + 1
      /\ \A i \in 1 .. Len(Tail(q)) : i + 1 \in 1 .. Len(q) /\ Tail(q)[i] = q[i + 1]
  <2>1. Tail(q) \in Seq(Message) /\ Count(q) = Count(Tail(q)) + 1
    BY <1>1, <1>3, CountTail
  <2>2. \A i \in 1 .. Len(Tail(q)) : i + 1 \in 1 .. Len(q) /\ Tail(q)[i] = q[i + 1]
    <3> HIDE DEF q
    <3> QED
      BY <1>1, <1>3
  <2> QED
    BY <2>1, <2>2
<1>5. /\ \A u \in Voice : u # v => engine'[u] = engine[u]
      /\ engine'[v].next = First(later)
      /\ engine'[v].worker = engine[v].worker
      /\ engine'[v].receiving = engine[v].receiving
      /\ engine'[v].queue = [engine[v].queue EXCEPT ![n] = Tail(q)]
  <2> HIDE DEF later
  <2> QED
    BY <1>0, <1>1 DEF TypeInv
<1>6. /\ engine'[v].queue[n] = Tail(q)
      /\ \A w \in Voice : w # n => engine'[v].queue[w] = engine[v].queue[w]
  BY <1>0, <1>1, <1>5 DEF TypeInv
<1>7. \A u \in Voice : Open(u)' = Open(u)
  BY <1>1 DEF Open
<1>8. ASSUME NEW u \in Voice PROVE CleanVoice(u)'
  <2>1. CleanVoice(u)
    BY <1>0 DEF Clean
  <2>2. CASE u = v
    <3> HIDE DEF later, q
    <3> QED
      BY <1>1, <1>2, <1>5, <1>7, <2>1, <2>2 DEF CleanVoice, Peer
  <2>3. CASE u # v
    BY <1>1, <1>5, <1>7, <2>1, <2>3 DEF CleanVoice, Peer
  <2> QED
    BY <2>2, <2>3
<1>9. ASSUME NEW u \in Voice, NEW w \in Peer(u) PROVE CleanLink(u, w)'
  <2>1. /\ w \in Voice /\ w # u /\ CleanLink(u, w) /\ w \in Int /\ n \in Int
        /\ First(later) \in Int
    BY <1>0, <1>1, <1>2, SessionAssumption DEF Peer, Voice, Clean
  <2>2. /\ passed'[u] = passed[u] /\ entered'[w] = entered[w] /\ chan'[w][u] = chan[w][u]
        /\ engine'[u].receiving = engine[u].receiving
    BY <1>1, <1>5
  <2>3. CASE u = v /\ w = n
    <3>1. Pulled(u, w) = 0 /\ Pulled(u, w)' = 1
      <4> HIDE DEF later
      <4> QED
        BY <1>1, <1>2, <1>5, <1>p, <2>1, <2>3 DEF Pulled
    <3>2. /\ passed[u] + 0 + Count(q) + Count(chan[w][u]) = entered[w]
          /\ \A i \in 1 .. Len(q) : q[i] = "SYNC"
      <4>1. Open(u)
        BY <1>1, <2>3 DEF Open
      <4> QED
        BY <2>1, <2>3, <3>1, <4>1 DEF CleanLink
    <3>3. /\ Count(Tail(q)) \in Nat /\ Count(chan[w][u]) \in Nat
          /\ passed[u] \in Nat /\ entered[w] \in Nat
      <4>1. /\ chan[w][u] \in Seq(Message) /\ passed[u] \in Nat /\ entered[w] \in Nat
        BY <1>0, <2>1 DEF TypeInv
      <4> QED
        BY <1>4, <4>1, SyncsFinite
    <3>4. passed[u] + 1 + Count(Tail(q)) + Count(chan[w][u]) = entered[w]
      <4>1. Count(q) = Count(Tail(q)) + 1
        BY <1>4
      <4>2. passed[u] + 0 + Count(q) + Count(chan[w][u]) = entered[w]
        BY <3>2
      <4> HIDE DEF q
      <4> QED
        BY <3>3, <4>1, <4>2
    <3>5. (Count(chan[w][u]))' = Count(chan[w][u])
          /\ (Count(engine[u].queue[w]))' = Count(Tail(q))
      <4>1. engine'[u].queue[w] = Tail(q)
        BY <1>6, <2>3
      <4> HIDE DEF q
      <4> QED
        BY <2>2, <4>1 DEF Count, Syncs
    <3>6. \A i \in 1 .. Len(engine'[u].queue[w]) : engine'[u].queue[w][i] = "SYNC"
      <4>1. engine'[u].queue[w] = Tail(q)
        BY <1>6, <2>3
      <4> HIDE DEF q
      <4> QED
        BY <1>4, <3>2, <4>1
    <3>7. passed'[u] + Pulled(u, w)' + (Count(engine[u].queue[w]))' + (Count(chan[w][u]))'
              = entered'[w]
      BY <2>2, <3>1, <3>4, <3>5
    <3> HIDE DEF q, later
    <3> QED
      BY <1>7, <2>1, <2>2, <3>6, <3>7 DEF CleanLink
  <2>4. CASE ~ (u = v /\ w = n)
    <3>1. engine'[u].queue[w] = engine[u].queue[w]
      BY <1>5, <1>6, <2>1, <2>4
    <3>2. Pulled(u, w)' = Pulled(u, w)
      <4>1. CASE u = v
        <5>1. w # n /\ (w > n => First(later) <= w)
          BY <1>2, <2>4, <4>1
        <5>2. w < engine'[v].next <=> w < engine[v].next
          <6> HIDE DEF later
          <6> QED
            BY <1>2, <1>5, <1>p, <2>1, <5>1
        <5> QED
          BY <1>1, <4>1, <5>2 DEF Pulled
      <4>2. CASE u # v
        BY <1>1, <1>5, <4>2 DEF Pulled
      <4> QED
        BY <4>1, <4>2
    <3>3. Open(u)' = Open(u) /\ Open(w)' = Open(w)
      BY <1>7, <2>1
    <3> QED
      BY <1>0, <2>1, <2>2, <3>1, <3>2, <3>3, CleanKept
  <2> QED
    BY <2>3, <2>4
<1> QED
  BY <1>8, <1>9 DEF Clean

LEMMA CleanPass ==
    ASSUME SessionInv, CauseInv, ~ Guilty, NEW v \in Voice, Pass(v)
    PROVE  Clean'
<1>1. /\ Clean /\ TypeInv /\ CleanVoice(v)
      /\ \A u \in Voice : "receiving" \in DOMAIN engine[u]
  BY DEF CauseInv, SessionInv, Clean
<1>2. /\ pc[v] = "pull" /\ engine[v].next \notin Voice /\ UNCHANGED <<entered, cause, chan>>
      /\ passed'[v] = passed[v] + 1 /\ \A u \in Voice : u # v => passed'[u] = passed[u]
      /\ pc'[v] \in {"run", "close"} /\ \A u \in Voice : u # v => pc'[u] = pc[u]
  BY <1>1 DEF Pass, Return, Set, TypeInv
<1>3. /\ \A u \in Voice : u # v => engine'[u] = engine[u]
      /\ engine'[v].queue = engine[v].queue
      /\ engine'[v].receiving = engine[v].receiving
      /\ engine'[v].worker # "failed"
  <2>1. CASE engine' = [engine EXCEPT ![v].worker = "run"]
    BY <1>1, <2>1 DEF TypeInv
  <2>2. CASE engine' = engine
    BY <1>1, <2>2 DEF CleanVoice
  <2> QED
    BY <2>1, <2>2 DEF Pass, Return
<1>4. \A u \in Voice : Open(u)' = Open(u)
  BY <1>2 DEF Open
<1>5. ASSUME NEW u \in Voice PROVE CleanVoice(u)'
  <2>1. CleanVoice(u)
    BY <1>1 DEF Clean
  <2>2. CASE u = v
    BY <1>2, <1>3, <1>4, <2>1, <2>2 DEF CleanVoice
  <2>3. CASE u # v
    BY <1>2, <1>3, <1>4, <2>1, <2>3 DEF CleanVoice, Peer
  <2> QED
    BY <2>2, <2>3
<1>6. ASSUME NEW u \in Voice, NEW w \in Peer(u) PROVE CleanLink(u, w)'
  <2>1. w \in Voice /\ CleanLink(u, w)
    BY <1>1 DEF Peer, Clean
  <2>2. /\ entered'[w] = entered[w] /\ chan'[w][u] = chan[w][u]
        /\ engine'[u].queue[w] = engine[u].queue[w]
        /\ engine'[u].receiving = engine[u].receiving
    BY <1>2, <1>3
  <2>3. Open(u)' = Open(u) /\ Open(w)' = Open(w)
    BY <1>4, <2>1
  <2>4. CASE u = v
    <3>1. Pulled(u, w) = 1 /\ Pulled(u, w)' = 0
      <4>1. w < engine[v].next
        <5>1. engine[v].next \in 0 .. Voices /\ Voices \in Nat
          BY <1>1, SessionAssumption DEF TypeInv
        <5> QED
          BY <1>2, <2>1, <5>1 DEF Voice
      <4> QED
        BY <1>2, <2>4, <4>1 DEF Pulled
    <3>2. (Count(engine[u].queue[w]))' = Count(engine[u].queue[w])
          /\ (Count(chan[w][u]))' = Count(chan[w][u])
      BY <2>2 DEF Count, Syncs
    <3>3. /\ passed[u] + 1 + Count(engine[u].queue[w]) + Count(chan[w][u]) = entered[w]
          /\ passed[u] \in Nat /\ passed'[u] = passed[u] + 1
      <4>1. Open(u)
        BY <1>2, <2>4 DEF Open
      <4> QED
        BY <1>1, <1>2, <2>1, <2>4, <3>1, <4>1 DEF CleanLink, TypeInv
    <3>4. Count(engine[u].queue[w]) \in Nat /\ Count(chan[w][u]) \in Nat
      <4>1. engine[u].queue[w] \in Seq(Message) /\ chan[w][u] \in Seq(Message)
        BY <1>1, <2>1 DEF TypeInv
      <4> QED
        BY <4>1, SyncsFinite
    <3>5. passed'[u] + Pulled(u, w)' + (Count(engine[u].queue[w]))' + (Count(chan[w][u]))'
              = entered'[w]
      BY <2>2, <3>1, <3>2, <3>3, <3>4
    <3> QED
      BY <2>1, <2>2, <2>3, <3>5 DEF CleanLink
  <2>5. CASE u # v
    <3>1. Pulled(u, w)' = Pulled(u, w) /\ passed'[u] = passed[u]
      BY <1>2, <1>3, <2>5 DEF Pulled
    <3> QED
      BY <1>1, <2>1, <2>2, <2>3, <3>1, CleanKept
  <2> QED
    BY <2>4, <2>5
<1> QED
  BY <1>5, <1>6 DEF Clean

LEMMA CleanReceive ==
    ASSUME SessionInv, CauseInv, ~ Guilty, NEW v \in Voice, NEW w \in Peer(v), Receive(v, w)
    PROVE  Clean'
<1> DEFINE c == chan[w][v]
           q == engine[v].queue[w]
           m == Head(c)
<1>0. /\ Clean /\ TypeInv /\ \A u \in Voice : "receiving" \in DOMAIN engine[u]
  BY DEF CauseInv, SessionInv
<1>1. /\ w \in Voice /\ w # v /\ Open(v) /\ c # <<>> /\ w \in engine[v].receiving
      /\ UNCHANGED <<pc, entered, passed, cause>>
      /\ chan' = [chan EXCEPT ![w][v] = Tail(@)] /\ Handle(v, w, m)
  BY DEF Receive, Peer
<1>2. c \in Seq(Message) /\ q \in Seq(Message)
  BY <1>0, <1>1 DEF TypeInv
<1>3. /\ \A i \in 1 .. Len(q) : q[i] = "SYNC"
      /\ \A i \in 1 .. Len(c) : c[i] # "ERROR" /\ (c[i] = "GOODBYE" => i = Len(c) /\ ~ Open(w))
      /\ passed[v] + Pulled(v, w) + Count(q) + Count(c) = entered[w]
  BY <1>0, <1>1 DEF Clean, CleanLink
<1>4. /\ m \in Message /\ Tail(c) \in Seq(Message)
      /\ Count(c) = Count(Tail(c)) + IF m = "SYNC" THEN 1 ELSE 0
  BY <1>1, <1>2, CountTail
<1>5. /\ Len(c) \in Nat \ {0} /\ Len(Tail(c)) = Len(c) - 1 /\ m = c[1]
      /\ \A i \in 1 .. Len(Tail(c)) : i + 1 \in 1 .. Len(c) /\ Tail(c)[i] = c[i + 1]
  <2> HIDE DEF c
  <2> QED
    BY <1>1, <1>2
<1>f. \A i \in 1 .. Len(c) : c[i] # "ERROR" /\ (c[i] = "GOODBYE" => i = Len(c) /\ ~ Open(w))
  BY <1>3
<1>g. passed[v] + Pulled(v, w) + Count(q) + Count(c) = entered[w]
  BY <1>3
<1>6. /\ m # "ERROR"
      /\ m = "GOODBYE" => Tail(c) = <<>> /\ ~ Open(w)
      /\ \A i \in 1 .. Len(Tail(c)) :
            /\ Tail(c)[i] # "ERROR"
            /\ Tail(c)[i] = "GOODBYE" => i = Len(Tail(c)) /\ ~ Open(w)
  <2>1. m # "ERROR" /\ (m = "GOODBYE" => Len(c) = 1 /\ ~ Open(w))
    <3>1. 1 \in 1 .. Len(c) /\ m = c[1]
      BY <1>5
    <3> HIDE DEF c, m
    <3> QED
      BY <1>f, <3>1
  <2>2. Len(c) = 1 => Tail(c) = <<>>
    <3> HIDE DEF c
    <3> QED
      BY <1>4, <1>5
  <2>3. ASSUME NEW i \in 1 .. Len(Tail(c))
        PROVE  /\ Tail(c)[i] # "ERROR"
               /\ Tail(c)[i] = "GOODBYE" => i = Len(Tail(c)) /\ ~ Open(w)
    <3>1. /\ Len(c) \in Nat /\ Len(Tail(c)) = Len(c) - 1
          /\ i + 1 \in 1 .. Len(c) /\ Tail(c)[i] = c[i + 1]
      BY <1>5
    <3>2. c[i + 1] # "ERROR" /\ (c[i + 1] = "GOODBYE" => i + 1 = Len(c) /\ ~ Open(w))
      BY <1>f, <3>1
    <3> HIDE DEF c, m
    <3> QED
      BY <3>1, <3>2
  <2> QED
    BY <2>1, <2>2, <2>3
<1>7. /\ \A u \in Voice : u # v => engine'[u] = engine[u]
      /\ engine'[v].next = engine[v].next /\ engine'[v].worker = engine[v].worker
      /\ engine'[v].receiving =
            IF m = "GOODBYE" THEN engine[v].receiving \ {w} ELSE engine[v].receiving
      /\ engine'[v].queue = [engine[v].queue EXCEPT
              ![w] = IF m \in {"SYNC", "ERROR"} THEN Append(@, m) ELSE @]
  <2> HIDE DEF m
  <2> QED
    BY <1>0, <1>1 DEF TypeInv, Handle
<1>8. /\ engine'[v].queue[w] = IF m = "SYNC" THEN Append(q, m) ELSE q
      /\ \A x \in Voice : x # w => engine'[v].queue[x] = engine[v].queue[x]
  <2> HIDE DEF m
  <2> QED
    BY <1>0, <1>1, <1>6, <1>7 DEF TypeInv
<1>9. /\ chan'[w][v] = Tail(c)
      /\ \A a, b \in Voice : ~ (a = w /\ b = v) => chan'[a][b] = chan[a][b]
  BY <1>0, <1>1 DEF TypeInv
<1>10. \A u \in Voice : Open(u)' = Open(u)
  BY <1>1 DEF Open
<1>11. ASSUME NEW u \in Voice PROVE CleanVoice(u)'
  <2>1. CleanVoice(u)
    BY <1>0 DEF Clean
  <2>2. engine'[u].next = engine[u].next /\ engine'[u].worker = engine[u].worker
    BY <1>7
  <2> QED
    BY <1>1, <1>10, <2>1, <2>2 DEF CleanVoice, Peer
<1>12. CleanLink(v, w)'
  <2>1. /\ Count(q) \in Nat /\ Count(Tail(c)) \in Nat
        /\ Count(Append(q, m)) = Count(q) + IF m = "SYNC" THEN 1 ELSE 0
    BY <1>2, <1>4, SyncsFinite, CountAppend
  <2>2. passed[v] \in Nat /\ Pulled(v, w) \in Nat /\ Pulled(v, w)' = Pulled(v, w)
    BY <1>0, <1>1, <1>7 DEF TypeInv, Pulled
  <2>3. Count(engine'[v].queue[w]) + Count(Tail(c)) = Count(q) + Count(c)
    <3> HIDE DEF c, q, m
    <3> QED
      BY <1>4, <1>8, <2>1
  <2>4. (Count(engine[v].queue[w]))' = Count(engine'[v].queue[w])
        /\ (Count(chan[w][v]))' = Count(Tail(c))
    <3> HIDE DEF c
    <3> QED
      BY <1>9 DEF Count, Syncs
  <2>5. Count(engine'[v].queue[w]) \in Nat /\ Count(c) \in Nat
    <3> HIDE DEF c, q, m
    <3> QED
      BY <1>4, <1>8, <2>1
  <2>6. passed[v] + Pulled(v, w) + Count(engine'[v].queue[w]) + Count(Tail(c)) = entered[w]
    <3> HIDE DEF c, q, m
    <3> QED
      BY <1>g, <2>1, <2>2, <2>3, <2>5
  <2>7. \A i \in 1 .. Len(engine'[v].queue[w]) : engine'[v].queue[w][i] = "SYNC"
    <3>1. m = "SYNC" => \A i \in 1 .. Len(Append(q, m)) : Append(q, m)[i] = "SYNC"
      <4> HIDE DEF q, m
      <4> QED
        BY <1>2, <1>3, <1>4
    <3> HIDE DEF q, m
    <3> QED
      BY <1>3, <1>8, <3>1
  <2>8. /\ w \notin engine'[v].receiving => ~ Open(w)' /\ chan'[w][v] = <<>>
        /\ \A i \in 1 .. Len(chan'[w][v]) :
              /\ chan'[w][v][i] # "ERROR"
              /\ chan'[w][v][i] = "GOODBYE" => i = Len(chan'[w][v]) /\ ~ Open(w)'
    <3> HIDE DEF c, m
    <3> QED
      BY <1>1, <1>6, <1>7, <1>9, <1>10
  <2> HIDE DEF c, q, m
  <2>9. passed'[v] + Pulled(v, w)' + (Count(engine[v].queue[w]))' + (Count(chan[w][v]))'
            = entered'[w]
    BY <1>1, <2>2, <2>4, <2>6
  <2> QED
    BY <2>7, <2>8, <2>9 DEF CleanLink
<1>13. ASSUME NEW a \in Voice, NEW b \in Peer(a) PROVE CleanLink(a, b)'
  <2>1. b \in Voice /\ CleanLink(a, b)
    BY <1>0 DEF Peer, Clean
  <2>2. CASE a = v /\ b = w
    BY <1>12, <2>2
  <2>3. CASE ~ (a = v /\ b = w)
    <3>1. chan'[b][a] = chan[b][a] /\ engine'[a].queue[b] = engine[a].queue[b]
      BY <1>7, <1>8, <1>9, <2>1, <2>3
    <3>2. (b \in engine[a].receiving)' = (b \in engine[a].receiving)
      BY <1>7, <2>3
    <3>3. Open(a)' = Open(a) /\ Open(b)' = Open(b) /\ Pulled(a, b)' = Pulled(a, b)
      BY <1>1, <1>7, <1>10, <2>1 DEF Pulled
    <3>4. passed'[a] = passed[a] /\ entered'[b] = entered[b]
      BY <1>1
    <3> QED
      BY <1>0, <2>1, <3>1, <3>2, <3>3, <3>4, CleanKept
  <2> QED
    BY <2>2, <2>3
<1> QED
  BY <1>11, <1>13 DEF Clean

\* When a receiver thread has ended without a crash, its GOODBYE came behind all SYNCs: a
\* voice that waits for one has overlooked it.
LEMMA CleanPullAgain ==
    ASSUME SessionInv, CauseInv, ~ Guilty, NEW v \in Voice, PullAgain(v)
    PROVE  Clean' \/ Guilty'
<1>1. /\ Clean /\ TypeInv /\ CleanVoice(v) /\ DOMAIN cause = Voice
      /\ \A u \in Voice : "receiving" \in DOMAIN engine[u]
  BY DEF CauseInv, SessionInv, Clean
<1>p. PICK n : n = engine[v].next
  OBVIOUS
<1>2. /\ pc[v] = "timeout" /\ n \in Peer(v) /\ UNCHANGED <<entered, passed>>
  BY <1>1, <1>p DEF PullAgain, CleanVoice
<1>3. CASE n \in engine[v].receiving
  <2>1. pc' = Set(pc, v, "pull") /\ UNCHANGED <<entered, passed, cause, engine, chan>>
    BY <1>3, <1>p DEF PullAgain
  <2>2. <<pc[v], "pull">> \in CleanMoves /\ DOMAIN engine' = Voice
    BY <1>1, <1>2, <2>1 DEF CleanMoves, Moves, TypeInv
  <2>3. engine'[v].worker # "failed"
    BY <1>1, <2>1 DEF CleanVoice
  <2> QED
    BY <1>1, <2>1, <2>2, <2>3, CleanMove
<1>4. CASE n \notin engine[v].receiving
  <2>1. /\ Open(v) /\ n \in Voice /\ CleanLink(v, n)
    BY <1>1, <1>2 DEF Open, Peer, Clean
  <2>2. /\ ~ Open(n) /\ chan[n][v] = <<>>
        /\ passed[v] + Pulled(v, n) + Count(engine[v].queue[n]) + Count(chan[n][v]) = entered[n]
    BY <1>4, <2>1 DEF CleanLink
  <2>3. entered[n] = 2 /\ passed[v] \in {0, 1}
    <3>1. entered[n] = 2
      BY <1>1, <2>1, <2>2 DEF Clean, CleanVoice, Rounds
    <3>2. entered[v] = passed[v] + 1 /\ entered[v] \in 0 .. 2 /\ passed[v] \in 0 .. 2
      BY <1>1, <1>2 DEF SessionInv, ControlInv, TypeInv, Rounds
    <3> QED
      BY <3>1, <3>2
  <2>4. Pulled(v, n) = 0
    <3>1. n \in Int
      BY <2>1 DEF Voice
    <3> QED
      BY <1>p, <3>1 DEF Pulled
  <2>5. Count(<<>>) = 0
    BY CountOne
  <2>6. engine[v].queue[n] # <<>>
    BY <2>2, <2>3, <2>4, <2>5
  <2>7. StoreError(v, "overlooked")
    BY <1>4, <1>p, <2>6 DEF PullAgain, From, Throw
  <2>8. cause'[v] = "overlooked"
    BY <1>1, <2>7 DEF StoreError, Set, CleanVoice
  <2> QED
    BY <2>8 DEF Guilty
<1> QED
  BY <1>3, <1>4

\* Errors of a voice's own and crashes make it guilty, and without them those of others cannot
\* happen.
LEMMA CleanThrows ==
    ASSUME SessionInv, CauseInv, ~ Guilty, NEW v \in Voice
    PROVE  /\ WorkerThrows(v) \/ MainThrows(v) \/ Crash(v) => Guilty'
           /\ ~ EnterThrows(v) /\ ~ PullError(v) /\ ~ WorkersThrow(v)
           /\ \A w \in Peer(v) : ~ ReceiveFails(v, w)
<1>1. /\ Clean /\ TypeInv /\ CleanVoice(v) /\ DOMAIN cause = Voice
      /\ \A u \in Voice : pc[u] # "crashed"
  BY DEF CauseInv, SessionInv, Clean, Guilty
<1>2. ASSUME WorkerThrows(v) \/ MainThrows(v) PROVE Guilty'
  <2>1. StoreError(v, "own")
    BY <1>2 DEF WorkerThrows, MainThrows, Throw
  <2>2. cause'[v] = "own"
    BY <1>1, <2>1 DEF StoreError, Set, CleanVoice
  <2> QED
    BY <2>2 DEF Guilty
<1>3. ASSUME Crash(v) PROVE Guilty'
  <2>1. pc' = Set(pc, v, "crashed")
    BY <1>3 DEF Crash, Ends
  <2>2. pc'[v] = "crashed"
    BY <1>1, <2>1 DEF Set, TypeInv
  <2> QED
    BY <2>2 DEF Guilty
<1>4. ~ EnterThrows(v) /\ \A w \in Peer(v) : ~ ReceiveFails(v, w)
  BY <1>1 DEF EnterThrows, ReceiveFails, Peer
<1>5. ~ WorkersThrow(v)
  BY <1>1 DEF WorkersThrow, CleanVoice
<1>6. ASSUME PullError(v) PROVE FALSE
  <2>p. PICK n : n = engine[v].next
    OBVIOUS
  <2>1. /\ pc[v] = "pull" /\ n \in Voice
        /\ engine[v].queue[n] # <<>> /\ Head(engine[v].queue[n]) # "SYNC"
    BY <1>6, <2>p DEF PullError, Pulling, From
  <2>2. n \in Peer(v) /\ Open(v)
    BY <1>1, <2>1, <2>p, SessionAssumption DEF CleanVoice, Voice, Open
  <2>3. \A i \in 1 .. Len(engine[v].queue[n]) : engine[v].queue[n][i] = "SYNC"
    BY <1>1, <2>2 DEF Clean, CleanLink
  <2>4. engine[v].queue[n] \in Seq(Message)
    BY <1>1, <2>1 DEF TypeInv
  <2>5. ASSUME NEW s \in Seq(Message), s # <<>> PROVE 1 \in 1 .. Len(s) /\ Head(s) = s[1]
    BY <2>5
  <2> QED
    BY <2>1, <2>3, <2>4, <2>5
<1> QED
  BY <1>2, <1>3, <1>4, <1>5, <1>6

\* No voice reports an error of a peer, a dropped channel or a broken connection unless some
\* voice had an error of its own, was killed, or overlooked a message.
THEOREM SessionErrorsHaveACause == Spec => []ErrorsHaveACause
<1>1. ASSUME SessionInv, CauseInv, [Next]_vars PROVE CauseInv'
  <2>1. /\ DOMAIN cause' = Voice /\ \A v \in Voice : "receiving" \in DOMAIN engine'[v]
        /\ Guilty => Guilty'
    BY <1>1, GuiltStays
  <2>2. ASSUME ~ Guilty PROVE Guilty' \/ Clean'
    <3>1. CASE UNCHANGED vars
      <4>1. Clean
        BY <1>1, <2>2 DEF CauseInv
      <4>2. \A v \in Voice : CleanVoice(v)'
        BY <3>1, <4>1 DEF vars, Clean, CleanVoice, Open, Peer
      <4>3. ASSUME NEW v \in Voice, NEW w \in Peer(v) PROVE CleanLink(v, w)'
        <5>1. /\ w \in Voice /\ CleanLink(v, w) /\ TypeInv
              /\ UNCHANGED <<pc, entered, passed, engine, chan>>
          BY <1>1, <3>1, <4>1 DEF vars, Clean, Peer, SessionInv
        <5>2. Open(v)' = Open(v) /\ Open(w)' = Open(w) /\ Pulled(v, w)' = Pulled(v, w)
          BY <5>1 DEF Open, Pulled
        <5> QED
          BY <5>1, <5>2, CleanKept
      <4> QED
        BY <4>2, <4>3 DEF Clean
    <3>2. ASSUME NEW v \in Voice, Main(v) \/ Work(v) \/ Troubled(v) PROVE Guilty' \/ Clean'
      BY <1>1, <2>2, <3>2, CleanQuiet, CleanEnter, CleanPullSync, CleanPass, CleanPullAgain,
         CleanThrows DEF Main, Synchronize, Work, Troubled
    <3>3. ASSUME NEW v \in Voice, NEW w \in Peer(v), Receive(v, w) \/ ReceiveFails(v, w)
          PROVE  Guilty' \/ Clean'
      BY <1>1, <2>2, <3>3, CleanReceive, CleanThrows
    <3> QED
      BY <1>1, <3>1, <3>2, <3>3 DEF Next
  <2> QED
    BY <2>1, <2>2 DEF CauseInv
<1>2. CauseInv => ErrorsHaveACause
  BY DEF CauseInv, Guilty, Clean, CleanVoice, ErrorsHaveACause
<1> QED
  BY <1>1, <1>2, InitCause, SessionInvariant, PTL DEF Spec
=============================================================================
