---------------------------- MODULE ChannelProofs ----------------------------
(***************************************************************************)
(* A reliable channel implements the delivery its mode promises, for every *)
(* width of the identifiers, while no more than half a cycle of messages   *)
(* is outstanding and no packet outlives half a cycle.                     *)
(*                                                                         *)
(* The receiver is at a position: the number that its pending identifier   *)
(* stands for, or one past the newest message a sequenced channel has      *)
(* seen.  Everything the receiver compares lies within half a cycle of it, *)
(* so identifiers name messages; below it nothing is missing, and above it *)
(* the sender holds what the receiver does not.                            *)
(*                                                                         *)
(* Transport: what an application hears of its messages is true, for any   *)
(* channels, message lengths, losses and acknowledgements.  A unit of an   *)
(* unreliable channel is in one packet at most, and once that packet is    *)
(* acknowledged or lost the unit is settled: nothing is heard of it again. *)
(* A tracker of fragments has seen every settled unit of its message       *)
(* acknowledged, so it completes with the last one; and a message is       *)
(* queued, sent or discarded as a whole.                                   *)
(***************************************************************************)
EXTENDS ReliableChannel, UnreliableChannel, Transport, CommonLemmas,
        FiniteSetTheorems, SequenceTheorems, WellFoundedInduction

\* Identifiers are unambiguous for as long as they are compared; and the fragments of
\* a superseded message, which a sequenced channel keeps, never meet a reused identifier.
ChannelWindow ==
    /\ MaxOutstanding <= MaxDiff + 1
    /\ MaxLifetime <= MaxDiff + 1
    /\ \A c \in Channels : c.mode = "SequencedReliable" => c.counts \subseteq {1} \/ c.messages <= IdModulus

\* Message m was completed, and is read or ready to be.
Read(m) == \E i \in DOMAIN delivered : delivered[i] = {m}
Ready(m) == \E i \in DOMAIN ready : ready[i].origin = {m}
Done(m) == Read(m) \/ Ready(m)

Known == unacked \cup wire \cup acks \cup partial

\* Fragment k of message m, which has c fragments.
Fragment(m, c, k) == [id |-> Wrap(m), count |-> c, frag |-> k, seq |-> m]

Numbered ==
    /\ channel \in Channels
    /\ sent \in 0 .. MaxMessages /\ nextId = Wrap(sent)
    /\ lastSent \subseteq unacked
    /\ \A u \in Known : \E m \in 0 .. (sent - 1), c \in FragmentCounts : \E k \in 1 .. c : u = Fragment(m, c, k)
    /\ \A u, v \in Known : u.seq = v.seq => u.count = v.count
    /\ \A f \in partial : f.count # 1
    /\ ready \in Seq({[id |-> Wrap(m), origin |-> {m}] : m \in 0 .. (sent - 1)})
    /\ delivered \in Seq({{m} : m \in 0 .. (sent - 1)})
    /\ pending \in WireId /\ received \subseteq WireId
    /\ newestSeen \in WireId \cup {NoMessage} /\ newestCompleted \in WireId \cup {NoMessage}

\* What the sender waits for was sent not long ago.
Outstanding ==
    /\ \A u \in unacked : sent - u.seq <= MaxOutstanding
    /\ Mode # "SequencedReliable" => \A m \in 0 .. (sent - 1) : ~ Read(m) => sent - m <= MaxOutstanding

\* The receiver of a channel that delivers every message has finished the first x.
StreamAt(x) ==
    /\ pending = Wrap(x) /\ ~ Read(x)
    /\ \A m \in 0 .. (x - 1) : Done(m)
    /\ \A f \in partial : ~ Done(f.seq)
    /\ \A i, j \in DOMAIN ready : ready[i].origin = ready[j].origin => i = j
    /\ \A m \in 0 .. (sent - 1) : ~ (Read(m) /\ Ready(m))
    /\ Mode = "OrderedReliable" => Len(delivered) = x /\ \A i \in 1 .. x : delivered[i] = {i - 1}
    /\ Mode = "UnorderedReliable" => received = {Wrap(m) : m \in {n \in x .. (sent - 1) : Done(n)}}

\* The receiver of a sequenced channel has seen one of the first x messages last, and
\* completed one of the first y last.
SequencedAt(x, y) ==
    /\ newestSeen = IF x = 0 THEN NoMessage ELSE Wrap(x - 1)
    /\ newestCompleted = IF y = 0 THEN NoMessage ELSE Wrap(y - 1)
    /\ y <= x
    /\ y = x /\ y # 0 => Done(y - 1)
    /\ FragmentCounts \subseteq {1} => y = x
    /\ \A f \in partial : f.seq < x
    /\ \A i \in DOMAIN delivered : \A m \in delivered[i] : m < y /\ (ready # <<>> => m < y - 1)
    /\ Len(ready) <= 1
    /\ \A i \in DOMAIN ready : ready[i].origin = {y - 1}

At(x) == IF Mode = "SequencedReliable" THEN \E y \in 0 .. sent : SequencedAt(x, y) ELSE StreamAt(x)

\* A newer message of a sequenced channel was seen.
Obsolete(m, x) == Mode = "SequencedReliable" /\ m + 1 < x

\* An acknowledged unit is with the receiver.
HeldAt(x) == \A u \in acks : u \in partial \/ Done(u.seq) \/ Obsolete(u.seq, x)

\* A message is with the receiver, or sender and receiver have all of it together,
\* and the receiver not everything.
KeptAt(x) ==
    \A m \in 0 .. (sent - 1) :
        \/ Done(m) \/ Obsolete(m, x)
        \/ \E c \in FragmentCounts : /\ \A k \in 1 .. c : Fragment(m, c, k) \in unacked \cup partial
                                     /\ \E k \in 1 .. c : Fragment(m, c, k) \notin partial

ChannelInv ==
    /\ Numbered /\ Outstanding
    /\ \E x \in 0 .. sent : At(x) /\ HeldAt(x) /\ KeptAt(x)

-----------------------------------------------------------------------------
(* Numbers and identifiers. *)

LEMMA Constants ==
    /\ MaxOutstanding \in Nat /\ MaxLifetime \in Nat
    /\ MaxDiff \in Nat /\ IdModulus \in Nat /\ MaxDiff + 1 < IdModulus
    /\ \A m \in Int : Wrap(m) \in WireId
    /\ NoMessage \notin WireId
BY ChannelAssumption, MaxDiffBound, IdModulusAssumption, WrapType

\* Within a cycle an identifier names one message.
LEMMA SameNumber ==
    ASSUME NEW m \in Int, NEW n \in Int, Wrap(m) = Wrap(n), m - n < IdModulus, n - m < IdModulus
    PROVE  m = n
BY WrapInjective

LEMMA WiderSeq ==
    ASSUME NEW S, NEW T, NEW s \in Seq(S), S \subseteq T
    PROVE  s \in Seq(T)
OBVIOUS

\* What the invariant says of units, messages that are ready and messages that were read.
LEMMA NumberedFacts ==
    ASSUME Numbered
    PROVE  /\ channel \in Channels /\ Mode \in Modes /\ FragmentCounts \subseteq Nat \ {0} /\ MaxMessages \in Nat
           /\ sent \in Nat /\ sent <= MaxMessages /\ nextId = Wrap(sent)
           /\ \A u \in Known : /\ u.seq \in 0 .. (sent - 1) /\ u.id = Wrap(u.seq)
                               /\ u.count \in FragmentCounts /\ u.frag \in 1 .. u.count
                               /\ u = Fragment(u.seq, u.count, u.frag)
           /\ \A u, v \in Known : u.seq = v.seq => u.count = v.count
           /\ \A i \in DOMAIN ready : \E m \in 0 .. (sent - 1) : ready[i] = [id |-> Wrap(m), origin |-> {m}]
           /\ \A i \in DOMAIN delivered : \E m \in 0 .. (sent - 1) : delivered[i] = {m}
<1>1. channel \in Channels
  BY DEF Numbered
<1>2. Mode \in Modes /\ FragmentCounts \subseteq Nat \ {0} /\ MaxMessages \in Nat
  BY <1>1, ChannelAssumption DEF Mode, FragmentCounts, MaxMessages
<1>3. sent \in Nat /\ sent <= MaxMessages /\ nextId = Wrap(sent)
  BY <1>2 DEF Numbered
<1>4. ASSUME NEW u \in Known
      PROVE  /\ u.seq \in 0 .. (sent - 1) /\ u.id = Wrap(u.seq)
             /\ u.count \in FragmentCounts /\ u.frag \in 1 .. u.count
             /\ u = Fragment(u.seq, u.count, u.frag)
  <2>1. PICK m \in 0 .. (sent - 1), c \in FragmentCounts : \E k \in 1 .. c : u = Fragment(m, c, k)
    BY DEF Numbered
  <2>2. PICK k \in 1 .. c : u = Fragment(m, c, k)
    BY <2>1
  <2>3. u.seq = m /\ u.id = Wrap(m) /\ u.count = c /\ u.frag = k
    BY <2>2 DEF Fragment
  <2> QED  BY <2>2, <2>3
<1>5. \A u, v \in Known : u.seq = v.seq => u.count = v.count
  BY DEF Numbered
<1>6. \A i \in DOMAIN ready : \E m \in 0 .. (sent - 1) : ready[i] = [id |-> Wrap(m), origin |-> {m}]
  <2> DEFINE R == {[id |-> Wrap(m), origin |-> {m}] : m \in 0 .. (sent - 1)}
  <2>1. ready \in Seq(R)
    BY DEF Numbered
  <2>2. \A r \in R : \E m \in 0 .. (sent - 1) : r = [id |-> Wrap(m), origin |-> {m}]
    OBVIOUS
  <2> HIDE DEF R
  <2>3. \A i \in DOMAIN ready : ready[i] \in R
    BY <2>1
  <2> QED  BY <2>2, <2>3
<1>7. \A i \in DOMAIN delivered : \E m \in 0 .. (sent - 1) : delivered[i] = {m}
  <2> DEFINE R == {{m} : m \in 0 .. (sent - 1)}
  <2>1. delivered \in Seq(R)
    BY DEF Numbered
  <2>2. \A r \in R : \E m \in 0 .. (sent - 1) : r = {m}
    OBVIOUS
  <2> HIDE DEF R
  <2>3. \A i \in DOMAIN delivered : delivered[i] \in R
    BY <2>1
  <2> QED  BY <2>2, <2>3
<1> QED  BY <1>1, <1>2, <1>3, <1>4, <1>5, <1>6, <1>7

\* No message that was sent is further than the window from the receiver's position.
LEMMA Slack ==
    ASSUME Numbered, Outstanding, NEW x \in 0 .. sent, At(x), KeptAt(x)
    PROVE  sent - x <= MaxOutstanding
<1>1. sent \in Nat
  BY NumberedFacts
<1>2. CASE x = sent
  BY <1>1, <1>2, Constants
<1>3. CASE x # sent /\ Mode # "SequencedReliable"
  <2>1. ~ Read(x)
    BY <1>3 DEF At, StreamAt
  <2> QED  BY <1>1, <1>3, <2>1 DEF Outstanding
<1>4. CASE x # sent /\ Mode = "SequencedReliable"
  <2>1. PICK y \in 0 .. sent : SequencedAt(x, y)
    BY <1>4 DEF At
  <2>2. ~ Done(x)
    <3>1. y <= x /\ (\A i \in DOMAIN delivered : \A m \in delivered[i] : m < y)
          /\ \A i \in DOMAIN ready : ready[i].origin = {y - 1}
      BY <2>1 DEF SequencedAt
    <3>2. x \in Nat /\ y \in Nat /\ ~ (x < y) /\ x # y - 1
      BY <1>1, <3>1
    <3>3. ~ Read(x)
      BY <3>1, <3>2 DEF Read
    <3>4. ~ Ready(x)
      <4>1. ASSUME NEW i \in DOMAIN ready, ready[i].origin = {x} PROVE FALSE
        BY <3>1, <3>2, <4>1
      <4> QED  BY <4>1 DEF Ready
    <3> QED  BY <3>3, <3>4 DEF Done
  <2>3. ~ Obsolete(x, x)
    BY <1>1 DEF Obsolete
  <2>4. x \in 0 .. (sent - 1)
    BY <1>1, <1>4
  <2>5. PICK c \in FragmentCounts : /\ \A k \in 1 .. c : Fragment(x, c, k) \in unacked \cup partial
                                    /\ \E k \in 1 .. c : Fragment(x, c, k) \notin partial
    BY <2>2, <2>3, <2>4 DEF KeptAt
  <2>6. PICK k \in 1 .. c : Fragment(x, c, k) \in unacked
    BY <2>5
  <2> QED  BY <2>6 DEF Outstanding, Fragment
<1> QED  BY <1>2, <1>3, <1>4

-----------------------------------------------------------------------------
(* The sender and the link. *)

\* The position of a receiver that does nothing, while nothing is sent.
LEMMA ReceiverStays ==
    ASSUME UNCHANGED <<channel, receiver, sent, delivered>>
    PROVE  /\ Mode' = Mode /\ FragmentCounts' = FragmentCounts /\ MaxMessages' = MaxMessages
           /\ \A m : (Read(m)' <=> Read(m)) /\ (Ready(m)' <=> Ready(m)) /\ (Done(m)' <=> Done(m))
           /\ \A x : At(x)' <=> At(x)
           /\ \A m, x : Obsolete(m, x)' <=> Obsolete(m, x)
<1>1. /\ channel' = channel /\ pending' = pending /\ received' = received /\ ready' = ready
      /\ newestSeen' = newestSeen /\ newestCompleted' = newestCompleted /\ partial' = partial
      /\ sent' = sent /\ delivered' = delivered
  BY DEF receiver
<1>2. Mode' = Mode /\ FragmentCounts' = FragmentCounts /\ MaxMessages' = MaxMessages
  BY <1>1 DEF Mode, FragmentCounts, MaxMessages
<1>3. \A m : (Read(m)' <=> Read(m)) /\ (Ready(m)' <=> Ready(m)) /\ (Done(m)' <=> Done(m))
  BY <1>1 DEF Read, Ready, Done
<1>4. \A x : StreamAt(x)' <=> StreamAt(x)
  BY <1>1, <1>2, <1>3 DEF StreamAt
<1>5. \A x, y : SequencedAt(x, y)' <=> SequencedAt(x, y)
  BY <1>1, <1>2, <1>3 DEF SequencedAt
<1>6. \A x : At(x)' <=> At(x)
  BY <1>1, <1>2, <1>4, <1>5 DEF At
<1>7. \A m, x : Obsolete(m, x)' <=> Obsolete(m, x)
  BY <1>2 DEF Obsolete
<1> QED  BY <1>2, <1>3, <1>6, <1>7

\* Units travel, arrive no more, or are acknowledged: the sender keeps what is not.
LEMMA LinkInv ==
    ASSUME ChannelInv, UNCHANGED <<channel, receiver, sent, delivered, nextId>>,
           unacked' \subseteq unacked, lastSent' \subseteq unacked',
           wire' \subseteq wire \cup unacked, acks' \subseteq acks,
           \A u \in unacked \ unacked' : u \in acks
    PROVE  ChannelInv'
<1>1. /\ Mode' = Mode /\ FragmentCounts' = FragmentCounts /\ MaxMessages' = MaxMessages
      /\ \A m : (Read(m)' <=> Read(m)) /\ (Ready(m)' <=> Ready(m)) /\ (Done(m)' <=> Done(m))
      /\ \A x : At(x)' <=> At(x)
      /\ \A m, x : Obsolete(m, x)' <=> Obsolete(m, x)
  BY ReceiverStays
<1>2. /\ channel' = channel /\ pending' = pending /\ received' = received /\ ready' = ready
      /\ newestSeen' = newestSeen /\ newestCompleted' = newestCompleted /\ partial' = partial
      /\ sent' = sent /\ delivered' = delivered /\ nextId' = nextId
  BY DEF receiver
<1>3. Known' \subseteq Known
  BY <1>2 DEF Known
<1>4. Numbered'
  BY <1>1, <1>2, <1>3 DEF ChannelInv, Numbered
<1>5. Outstanding'
  BY <1>1, <1>2 DEF ChannelInv, Outstanding
<1>6. PICK x \in 0 .. sent : At(x) /\ HeldAt(x) /\ KeptAt(x)
  BY DEF ChannelInv
<1>7. HeldAt(x)'
  BY <1>1, <1>2, <1>6 DEF HeldAt
<1>8. KeptAt(x)'
  <2> SUFFICES ASSUME NEW m \in 0 .. (sent - 1), ~ Done(m), ~ Obsolete(m, x)
               PROVE  \E c \in FragmentCounts : /\ \A k \in 1 .. c : Fragment(m, c, k) \in unacked' \cup partial
                                                /\ \E k \in 1 .. c : Fragment(m, c, k) \notin partial
    BY <1>1, <1>2 DEF KeptAt
  <2>1. PICK c \in FragmentCounts : /\ \A k \in 1 .. c : Fragment(m, c, k) \in unacked \cup partial
                                    /\ \E k \in 1 .. c : Fragment(m, c, k) \notin partial
    BY <1>6 DEF KeptAt
  <2>2. ASSUME NEW k \in 1 .. c, Fragment(m, c, k) \in acks PROVE Fragment(m, c, k) \in partial
    <3>1. Fragment(m, c, k).seq = m
      BY DEF Fragment
    <3> QED  BY <1>6, <2>2, <3>1 DEF HeldAt
  <2> QED  BY <2>1, <2>2
<1> QED  BY <1>1, <1>2, <1>4, <1>5, <1>6, <1>7, <1>8 DEF ChannelInv

LEMMA TransmitInv ==
    ASSUME ChannelInv, NEW u \in unacked, Transmit(u)
    PROVE  ChannelInv'
<1>1. lastSent \subseteq unacked
  BY DEF ChannelInv, Numbered
<1> QED  BY <1>1, LinkInv DEF Transmit

LEMMA LoseInv ==
    ASSUME ChannelInv, Lose
    PROVE  ChannelInv'
<1>1. lastSent \subseteq unacked
  BY DEF ChannelInv, Numbered
<1>2. /\ UNCHANGED <<channel, receiver, sent, delivered, nextId>> /\ unacked' = unacked /\ lastSent' = lastSent
      /\ wire' \subseteq wire /\ acks' \subseteq acks
  BY DEF Lose, sender
<1> QED  BY <1>1, <1>2, LinkInv

\* receive_ack finds the unit that was acknowledged and no other.
LEMMA ReceiveAckInv ==
    ASSUME ChannelWindow, ChannelInv, NEW u \in acks, ReceiveAck(u)
    PROVE  ChannelInv'
<1>1. /\ sent - u.seq <= MaxLifetime
      /\ unacked' = {w \in unacked : ~(w.id = u.id /\ w.frag = u.frag)}
      /\ lastSent' = lastSent \cap unacked' /\ acks' = acks \ {u}
      /\ UNCHANGED <<channel, receiver, sent, delivered, nextId>> /\ wire' = wire
  BY DEF ReceiveAck
<1>2. ASSUME NEW w \in unacked, w.id = u.id, w.frag = u.frag PROVE w = u
  <2>1. Numbered /\ w \in Known /\ u \in Known
    BY DEF ChannelInv, Known
  <2>2. sent \in Nat /\ w.seq \in 0 .. (sent - 1) /\ u.seq \in 0 .. (sent - 1)
        /\ w.id = Wrap(w.seq) /\ u.id = Wrap(u.seq)
    BY <2>1, NumberedFacts
  <2>3. sent - w.seq <= MaxOutstanding
    BY DEF ChannelInv, Outstanding
  <2>4. w.seq = u.seq
    <3>1. w.seq - u.seq < IdModulus /\ u.seq - w.seq < IdModulus
      BY <1>1, <2>2, <2>3, Constants DEF ChannelWindow
    <3>2. w.seq \in Int /\ u.seq \in Int
      BY <2>2
    <3>3. Wrap(w.seq) = Wrap(u.seq)
      BY <1>2, <2>2, Zenon
    <3> QED  BY <3>1, <3>2, <3>3, SameNumber
  <2>5. w.count = u.count
    BY <2>1, <2>4, NumberedFacts
  <2>6. w = Fragment(w.seq, w.count, w.frag) /\ u = Fragment(u.seq, u.count, u.frag)
    BY <2>1, NumberedFacts
  <2> QED  BY <1>2, <2>4, <2>5, <2>6
<1>3. \A w \in unacked \ unacked' : w \in acks
  BY <1>1, <1>2
<1> QED  BY <1>1, <1>3, LinkInv

\* Oldest is not newer than any message it is about.
LEMMA OldestIs ==
    ASSUME ChannelInv
    PROVE  /\ Oldest \in Nat /\ Oldest <= sent
           /\ \A u \in unacked : Oldest <= u.seq
           /\ Mode # "SequencedReliable" => \A m \in 0 .. (sent - 1) : ~ Read(m) => Oldest <= m
<1> DEFINE S == {sent} \cup {u.seq : u \in unacked}
                  \cup (IF Mode = "SequencedReliable" THEN {}
                       ELSE {m \in 0 .. (sent - 1) : \A i \in DOMAIN delivered : m \notin delivered[i]})
<1>1. Numbered /\ sent \in Nat /\ \A u \in unacked : u.seq \in 0 .. (sent - 1)
  BY NumberedFacts DEF ChannelInv, Known
<1>2. S \subseteq Nat /\ sent \in S
  BY <1>1
<1>3. \A u \in unacked : u.seq \in S
  OBVIOUS
<1>4. Mode # "SequencedReliable" => \A m \in 0 .. (sent - 1) : ~ Read(m) => m \in S
  <2>1. \A i \in DOMAIN delivered : \E n \in 0 .. (sent - 1) : delivered[i] = {n}
    BY <1>1, NumberedFacts
  <2> QED  BY <2>1 DEF Read
<1> HIDE DEF S
<1>5. \E o \in S : \A y \in S : o <= y
  BY <1>2, LeastOf
<1>6. Oldest = Min(S)
  BY DEF Oldest, S
<1>7. Oldest \in S /\ \A y \in S : Oldest <= y
  BY <1>5, <1>6 DEF Min
<1> QED  BY <1>2, <1>3, <1>4, <1>7

LEMMA BufferSendInv ==
    ASSUME ChannelWindow, ChannelInv, BufferSend
    PROVE  ChannelInv'
<1>1. /\ sent < MaxMessages /\ sent - Oldest < MaxOutstanding
      /\ lastSent' = lastSent \cap unacked' /\ nextId' = NextId(nextId) /\ sent' = sent + 1
      /\ channel' = channel /\ wire' = wire /\ acks' = acks /\ pending' = pending /\ received' = received
      /\ ready' = ready /\ newestSeen' = newestSeen /\ newestCompleted' = newestCompleted
      /\ partial' = partial /\ delivered' = delivered
  BY DEF BufferSend, receiver
<1>2. PICK c \in FragmentCounts : unacked' = {u \in unacked : u.id # nextId} \cup Units(nextId, c, sent)
  BY DEF BufferSend
<1>3. /\ Numbered /\ Outstanding
      /\ channel \in Channels /\ Mode \in Modes /\ FragmentCounts \subseteq Nat \ {0} /\ MaxMessages \in Nat
      /\ sent \in Nat /\ sent <= MaxMessages /\ nextId = Wrap(sent)
  BY NumberedFacts DEF ChannelInv
<1>4. \A u \in Known : /\ u.seq \in 0 .. (sent - 1) /\ u.id = Wrap(u.seq)
                       /\ u.count \in FragmentCounts /\ u.frag \in 1 .. u.count
                       /\ u = Fragment(u.seq, u.count, u.frag)
  BY <1>3, NumberedFacts
<1>5. /\ Oldest \in Nat /\ Oldest <= sent
      /\ \A u \in unacked : Oldest <= u.seq
      /\ Mode # "SequencedReliable" => \A m \in 0 .. (sent - 1) : ~ Read(m) => Oldest <= m
  BY OldestIs
<1>6. /\ Mode' = Mode /\ FragmentCounts' = FragmentCounts /\ MaxMessages' = MaxMessages
      /\ \A m : (Read(m)' <=> Read(m)) /\ (Ready(m)' <=> Ready(m)) /\ (Done(m)' <=> Done(m))
  BY <1>1 DEF Mode, FragmentCounts, MaxMessages, Read, Ready, Done
\* No identifier is taken over.
<1>7. unacked' = unacked \cup {Fragment(sent, c, k) : k \in 1 .. c}
  <2>1. ASSUME NEW u \in unacked PROVE u.id # nextId
    <3>1. u.seq \in 0 .. (sent - 1) /\ u.id = Wrap(u.seq) /\ sent - u.seq <= MaxOutstanding
      BY <1>3, <1>4 DEF Known, Outstanding
    <3> QED  BY <1>3, <3>1, SameNumber, Constants DEF ChannelWindow
  <2>2. Units(nextId, c, sent) = {Fragment(sent, c, k) : k \in 1 .. c}
    BY <1>3 DEF Units, Fragment
  <2> QED  BY <1>2, <2>1, <2>2
<1>8. \A u \in Known' : u \in Known \/ \E k \in 1 .. c : u = Fragment(sent, c, k)
  BY <1>1, <1>7 DEF Known
<1>9. Numbered'
  <2>1. nextId' = Wrap(sent')
    BY <1>1, <1>3, NextIdWrap
  <2>2. \A u \in Known' : \E m \in 0 .. (sent' - 1), d \in FragmentCounts : \E k \in 1 .. d : u = Fragment(m, d, k)
    <3> SUFFICES ASSUME NEW u \in Known'
                 PROVE  \E m \in 0 .. (sent' - 1), d \in FragmentCounts : \E k \in 1 .. d : u = Fragment(m, d, k)
      OBVIOUS
    <3>1. CASE u \in Known
      <4>1. u.seq \in 0 .. (sent' - 1) /\ u.count \in FragmentCounts /\ u.frag \in 1 .. u.count
            /\ u = Fragment(u.seq, u.count, u.frag)
        BY <1>1, <1>3, <1>4, <3>1
      <4> QED  BY <4>1
    <3>2. CASE \E k \in 1 .. c : u = Fragment(sent, c, k)
      <4>1. sent \in 0 .. (sent' - 1)
        BY <1>1, <1>3
      <4> QED  BY <3>2, <4>1
    <3> QED  BY <1>8, <3>1, <3>2
  <2>3. ASSUME NEW u \in Known', NEW v \in Known', u.seq = v.seq PROVE u.count = v.count
    <3>1. CASE u \in Known /\ v \in Known
      BY <1>3, <2>3, <3>1, NumberedFacts
    <3>2. \A w \in Known : w.seq # sent
      BY <1>3, <1>4
    <3>3. \A k : Fragment(sent, c, k).seq = sent /\ Fragment(sent, c, k).count = c
      BY DEF Fragment
    <3>4. CASE u \notin Known
      BY <1>8, <2>3, <3>2, <3>3, <3>4
    <3>5. CASE v \notin Known
      BY <1>8, <2>3, <3>2, <3>3, <3>5
    <3> QED  BY <3>1, <3>4, <3>5
  <2>4. ready' \in Seq({[id |-> Wrap(m), origin |-> {m}] : m \in 0 .. (sent' - 1)})
    <3> DEFINE R(n) == {[id |-> Wrap(m), origin |-> {m}] : m \in 0 .. (n - 1)}
    <3>1. ready \in Seq(R(sent))
      BY <1>3 DEF Numbered
    <3>2. R(sent) \subseteq R(sent + 1)
      BY <1>3
    <3> HIDE DEF R
    <3>3. ready \in Seq(R(sent + 1))
      BY <3>1, <3>2, WiderSeq
    <3> QED  BY <1>1, <3>3 DEF R
  <2>5. delivered' \in Seq({{m} : m \in 0 .. (sent' - 1)})
    <3> DEFINE R(n) == {{m} : m \in 0 .. (n - 1)}
    <3>1. delivered \in Seq(R(sent))
      BY <1>3 DEF Numbered
    <3>2. R(sent) \subseteq R(sent + 1)
      BY <1>3
    <3> HIDE DEF R
    <3>3. delivered \in Seq(R(sent + 1))
      BY <3>1, <3>2, WiderSeq
    <3> QED  BY <1>1, <3>3 DEF R
  <2>6. sent' \in 0 .. MaxMessages' /\ lastSent' \subseteq unacked' /\ channel' \in Channels
    BY <1>1, <1>3, <1>6
  <2>7. /\ \A f \in partial : f.count # 1
        /\ pending \in WireId /\ received \subseteq WireId
        /\ newestSeen \in WireId \cup {NoMessage} /\ newestCompleted \in WireId \cup {NoMessage}
    BY <1>3 DEF Numbered
  <2> QED  BY <1>1, <1>6, <2>1, <2>2, <2>3, <2>4, <2>5, <2>6, <2>7 DEF Numbered
<1>10. Outstanding'
  <2>1. \A u \in unacked' : sent' - u.seq <= MaxOutstanding
    <3>1. \A k : Fragment(sent, c, k).seq = sent
      BY DEF Fragment
    <3>2. \A u \in unacked : u.seq \in 0 .. (sent - 1)
      BY <1>4 DEF Known
    <3>3. \A u \in unacked : sent + 1 - u.seq <= MaxOutstanding
      BY <1>1, <1>3, <1>5, <3>2, Constants
    <3>4. sent + 1 - sent <= MaxOutstanding
      BY <1>1, <1>3, <1>5, Constants
    <3> SUFFICES ASSUME NEW u \in unacked' PROVE sent' - u.seq <= MaxOutstanding
      OBVIOUS
    <3>5. sent' = sent + 1 /\ sent \in Nat
      BY <1>1, <1>3
    <3>6. CASE u \in unacked
      BY <3>2, <3>3, <3>5, <3>6
    <3>7. CASE \E k \in 1 .. c : u = Fragment(sent, c, k)
      <4>1. u.seq = sent
        BY <3>1, <3>7
      <4> QED  BY <3>4, <3>5, <4>1
    <3> QED  BY <1>7, <3>6, <3>7
  <2>2. ASSUME Mode # "SequencedReliable", NEW m \in 0 .. (sent' - 1), ~ Read(m)
        PROVE  sent' - m <= MaxOutstanding
    <3>1. CASE m = sent
      BY <1>1, <1>3, <1>5, <3>1, Constants
    <3>2. CASE m # sent
      <4>1. m \in 0 .. (sent - 1)
        BY <1>1, <1>3, <3>2
      <4>2. Oldest <= m
        BY <1>5, <2>2, <4>1
      <4> QED  BY <1>1, <1>3, <1>5, <4>1, <4>2, Constants
    <3> QED  BY <3>1, <3>2
  <2> QED  BY <1>6, <2>1, <2>2 DEF Outstanding
<1>11. PICK x \in 0 .. sent : At(x) /\ HeldAt(x) /\ KeptAt(x)
  BY DEF ChannelInv
<1>12. ~ Read(sent) /\ ~ Ready(sent)
  <2>1. /\ \A i \in DOMAIN ready : \E m \in 0 .. (sent - 1) : ready[i] = [id |-> Wrap(m), origin |-> {m}]
        /\ \A i \in DOMAIN delivered : \E m \in 0 .. (sent - 1) : delivered[i] = {m}
    BY <1>3, NumberedFacts
  <2> QED  BY <1>3, <2>1 DEF Read, Ready
<1>13. At(x)'
  <2>1. ASSUME StreamAt(x), Mode # "SequencedReliable" PROVE StreamAt(x)'
    <3>1. \A m \in 0 .. (sent' - 1) : m \in 0 .. (sent - 1) \/ m = sent
      BY <1>1, <1>3
    <3>2. \A m \in 0 .. (sent' - 1) : ~ (Read(m) /\ Ready(m))
      BY <1>12, <2>1, <3>1 DEF StreamAt
    <3>3. {n \in x .. (sent' - 1) : Done(n)} = {n \in x .. (sent - 1) : Done(n)}
      BY <1>1, <1>3, <1>12 DEF Done
    <3> QED  BY <1>1, <1>6, <2>1, <3>2, <3>3 DEF StreamAt
  <2>2. ASSUME NEW y \in 0 .. sent, SequencedAt(x, y) PROVE y \in 0 .. sent' /\ SequencedAt(x, y)'
    BY <1>1, <1>3, <1>6, <2>2 DEF SequencedAt
  <2> QED  BY <1>6, <1>11, <2>1, <2>2 DEF At
<1>14. HeldAt(x)'
  BY <1>1, <1>6, <1>11 DEF HeldAt, Obsolete
<1>15. KeptAt(x)'
  <2> SUFFICES ASSUME NEW m \in 0 .. (sent' - 1), ~ Done(m), ~ Obsolete(m, x)
               PROVE  \E d \in FragmentCounts : /\ \A k \in 1 .. d : Fragment(m, d, k) \in unacked' \cup partial
                                                /\ \E k \in 1 .. d : Fragment(m, d, k) \notin partial
    BY <1>1, <1>6 DEF KeptAt, Obsolete
  <2>1. CASE m = sent
    <3>1. \A k \in 1 .. c : Fragment(sent, c, k) \in unacked'
      BY <1>7
    <3>2. Fragment(sent, c, 1) \notin partial
      <4>1. Fragment(sent, c, 1).seq = sent
        BY DEF Fragment
      <4> QED  BY <1>3, <1>4, <4>1 DEF Known
    <3>3. 1 \in 1 .. c
      BY <1>3
    <3> QED  BY <2>1, <3>1, <3>2, <3>3
  <2>2. CASE m # sent
    <3>1. m \in 0 .. (sent - 1)
      BY <1>1, <1>3, <2>2
    <3> QED  BY <1>7, <1>11, <3>1 DEF KeptAt
  <2> QED  BY <2>1, <2>2
<1>16. x \in 0 .. sent'
  BY <1>1, <1>3
<1> QED  BY <1>9, <1>10, <1>13, <1>14, <1>15, <1>16 DEF ChannelInv

-----------------------------------------------------------------------------
(* Reassembly. *)

Message(m) == [id |-> Wrap(m), origin |-> {m}]

LEMMA FragmentCount ==
    ASSUME NEW m, NEW c \in Nat
    PROVE  Cardinality({Fragment(m, c, k) : k \in 1 .. c}) = c
<1> DEFINE T == {Fragment(m, c, k) : k \in 1 .. c}
           f == [k \in 1 .. c |-> Fragment(m, c, k)]
<1>1. IsFiniteSet(1 .. c) /\ Cardinality(1 .. c) = c
  <2>1. Cardinality(1 .. c) = IF 1 > c THEN 0 ELSE c - 1 + 1
    BY FS_Interval
  <2> QED  BY <2>1, FS_Interval
<1>2. \A k, l \in 1 .. c : Fragment(m, c, k) = Fragment(m, c, l) => k = l
  BY DEF Fragment
<1>3. f \in [1 .. c -> T]
  OBVIOUS
<1>4. f \in Bijection(1 .. c, T)
  <2>1. f \in Injection(1 .. c, T)
    BY <1>2, <1>3 DEF Injection, IsInjective
  <2>2. f \in Surjection(1 .. c, T)
    BY <1>3 DEF Surjection
  <2> QED  BY <2>1, <2>2 DEF Bijection
<1>5. ExistsBijection(1 .. c, T)
  BY <1>4 DEF ExistsBijection
<1> QED  BY <1>1, <1>5, FS_Bijection

\* A unit completes its message, or some unit of the message is still missing.
TakesWhole(u) ==
    /\ partial' = {f \in partial : f.seq # u.seq}
    /\ ready' = IF Mode = "SequencedReliable" THEN <<Message(u.seq)>> ELSE Append(ready, Message(u.seq))
    /\ received' = IF Mode = "UnorderedReliable" THEN received \cup {u.id} ELSE received
    /\ newestCompleted' = IF Mode = "SequencedReliable" THEN u.id ELSE newestCompleted

TakesPart(u) ==
    /\ partial' = partial \cup {u} /\ u.count # 1
    /\ \E k \in 1 .. u.count : Fragment(u.seq, u.count, k) \notin partial'
    /\ ready' = ready \/ (ready' = <<>> /\ Supersedes(u.id))
    /\ received' = received /\ newestCompleted' = newestCompleted

TakesIn(u) ==
    /\ pending' = pending
    /\ newestSeen' = IF Mode = "SequencedReliable" THEN u.id ELSE newestSeen
    /\ TakesWhole(u) \/ TakesPart(u)

\* The fragments held under an identifier are of the message that the unit is of: then
\* the receiver puts together what belongs together.
LEMMA Reassembles ==
    ASSUME Numbered, NEW u \in wire, Accepts(u.id), BufferRecv(u),
           \A f \in partial : f.id = u.id => f.seq = u.seq
    PROVE  TakesIn(u)
<1>1. /\ u \in Known /\ \A f \in partial : f \in Known
      /\ u.seq \in 0 .. (sent - 1) /\ u.id = Wrap(u.seq) /\ u.count \in FragmentCounts /\ u.frag \in 1 .. u.count
      /\ u = Fragment(u.seq, u.count, u.frag)
  BY NumberedFacts DEF Known
<1>2. FragmentCounts \subseteq Nat \ {0}
  BY NumberedFacts
<1> DEFINE held == {f \in partial : f.seq = u.seq}
<1>3. {f \in partial : f.id = u.id} = held /\ {f \in partial : f.id # u.id} = {f \in partial : f.seq # u.seq}
  <2>1. \A f \in partial : f.id = Wrap(f.seq)
    BY <1>1, NumberedFacts
  <2>2. \A f \in partial : f.id = u.id <=> f.seq = u.seq
    BY <1>1, <2>1
  <2> QED  BY <2>2
<1>4. \A f \in held : f.count = u.count /\ (f.frag = u.frag => f = u)
  <2>1. \A f \in held : f.count = u.count
    BY <1>1, NumberedFacts
  <2>2. \A f \in held : f = Fragment(f.seq, f.count, f.frag)
    BY <1>1, NumberedFacts
  <2> QED  BY <1>1, <2>1, <2>2
<1>5. Gathered(u) = held \cup {u}
  BY <1>3, <1>4 DEF Gathered
<1>6. ~ Mismatch(u)
  BY <1>3, <1>4 DEF Mismatch
<1>7. Origin(u) = {u.seq}
  BY <1>5 DEF Origin
<1>8. u.count = 1 => held = {}
  BY <1>4 DEF Numbered
<1>9. /\ newestSeen' = IF Mode = "SequencedReliable" THEN u.id ELSE newestSeen
      /\ partial' = IF u.count = 1 THEN partial
                    ELSE {f \in partial : f.seq # u.seq} \cup (IF Completes(u) THEN {} ELSE held \cup {u})
      /\ pending' = pending
  BY <1>3, <1>5, <1>6 DEF BufferRecv
<1>10. CASE Completes(u)
  <2>1. partial' = {f \in partial : f.seq # u.seq}
    BY <1>8, <1>9, <1>10
  <2>2. Mode # "SequencedReliable" => ~ Supersedes(u.id)
    BY DEF Supersedes
  <2>3. Message(u.seq) = [id |-> u.id, origin |-> Origin(u)]
    BY <1>1, <1>7 DEF Message
  <2>4. /\ ready' = IF Mode = "SequencedReliable" THEN <<Message(u.seq)>> ELSE Append(ready, Message(u.seq))
        /\ received' = IF Mode = "UnorderedReliable" THEN received \cup {u.id} ELSE received
        /\ newestCompleted' = IF Mode = "SequencedReliable" THEN u.id ELSE newestCompleted
    <3> DEFINE msg == Message(u.seq)
    <3>1. /\ ready' = IF Mode = "SequencedReliable" THEN <<[id |-> u.id, origin |-> Origin(u)]>>
                      ELSE Append(IF Supersedes(u.id) THEN <<>> ELSE ready, [id |-> u.id, origin |-> Origin(u)])
          /\ received' = IF Mode = "UnorderedReliable" THEN received \cup {u.id} ELSE received
          /\ newestCompleted' = IF Mode = "SequencedReliable" THEN u.id ELSE newestCompleted
      BY <1>10 DEF BufferRecv
    <3> QED  BY <2>2, <2>3, <3>1
  <2> QED  BY <1>9, <2>1, <2>4 DEF TakesIn, TakesWhole
<1>11. CASE ~ Completes(u)
  <2>1. u.count # 1 /\ Cardinality(held \cup {u}) # u.count
    BY <1>5, <1>6, <1>11 DEF Completes
  <2>2. partial' = partial \cup {u}
    BY <1>9, <1>11, <2>1
  <2>3. ASSUME \A k \in 1 .. u.count : Fragment(u.seq, u.count, k) \in partial \cup {u} PROVE FALSE
    <3> DEFINE T == {Fragment(u.seq, u.count, k) : k \in 1 .. u.count}
    <3>1. ASSUME NEW f \in held \cup {u} PROVE f \in T
      <4>1. f \in Known /\ f.seq = u.seq /\ f.count = u.count
        BY <1>1, <1>4
      <4>2. f = Fragment(f.seq, f.count, f.frag) /\ f.frag \in 1 .. f.count
        BY <4>1, NumberedFacts
      <4> QED  BY <4>1, <4>2
    <3>2. ASSUME NEW f \in T PROVE f \in held \cup {u}
      <4>1. f \in partial \cup {u} /\ f.seq = u.seq
        BY <2>3 DEF Fragment
      <4> QED  BY <4>1
    <3>3. held \cup {u} = T
      BY <3>1, <3>2
    <3>4. Cardinality(T) = u.count
      <4>1. u.count \in Nat
        BY <1>1, <1>2
      <4> QED  BY <4>1, FragmentCount
    <3> QED  BY <2>1, <3>3, <3>4
  <2>4. \E k \in 1 .. u.count : Fragment(u.seq, u.count, k) \notin partial'
    BY <2>2, <2>3
  <2>5. /\ ready' = IF Supersedes(u.id) THEN <<>> ELSE ready
        /\ received' = received /\ newestCompleted' = newestCompleted
    BY <1>11 DEF BufferRecv
  <2> QED  BY <1>9, <2>1, <2>2, <2>4, <2>5 DEF TakesIn, TakesPart
<1> QED  BY <1>10, <1>11

\* Within the window of the position, identifiers are numbers.
LEMMA Span ==
    ASSUME ChannelWindow, Numbered, Outstanding, NEW x \in 0 .. sent, At(x), KeptAt(x)
    PROVE  /\ sent \in Nat /\ sent - x <= MaxDiff + 1
           /\ \A m, n \in x .. sent : Wrap(m) = Wrap(n) => m = n
<1>1. sent \in Nat /\ sent - x <= MaxOutstanding
  BY NumberedFacts, Slack
<1>2. sent - x <= MaxDiff + 1
  BY <1>1, Constants DEF ChannelWindow
<1>3. ASSUME NEW m \in x .. sent, NEW n \in x .. sent, Wrap(m) = Wrap(n) PROVE m = n
  <2>1. m - n < IdModulus /\ n - m < IdModulus
    BY <1>1, <1>2, Constants
  <2>2. m \in Int /\ n \in Int
    BY <1>1
  <2> QED  BY <1>3, <2>1, <2>2, SameNumber
<1> QED  BY <1>1, <1>2, <1>3

\* prepare_receive of the modes that deliver every message: what is refused was
\* completed before, what is accepted was not.
LEMMA StreamAccepts ==
    ASSUME ChannelWindow, Numbered, Outstanding, Mode # "SequencedReliable",
           NEW x \in 0 .. sent, At(x), KeptAt(x), NEW u \in wire, sent - u.seq <= MaxLifetime
    PROVE  /\ ~ Accepts(u.id) => Done(u.seq)
           /\ Accepts(u.id) => u.seq >= x /\ ~ Done(u.seq) /\ \A f \in partial : f.id = u.id => f.seq = u.seq
<1>1. /\ sent \in Nat /\ sent - x <= MaxDiff + 1
      /\ \A m, n \in x .. sent : Wrap(m) = Wrap(n) => m = n
  BY Span
<1>2. StreamAt(x)
  BY DEF At
<1>3. u.seq \in 0 .. (sent - 1) /\ u.id = Wrap(u.seq)
  BY NumberedFacts DEF Known
<1>4. WrappingDiff(u.id, pending) = u.seq - x
  <2>1. x - u.seq <= MaxDiff + 1 /\ u.seq - x <= MaxDiff
    BY <1>1, <1>3, Constants DEF ChannelWindow
  <2>2. WrappingDiff(Wrap(u.seq), Wrap(x)) = u.seq - x
    BY <1>3, <2>1, WrappingDiffHalf
  <2> QED  BY <1>2, <1>3, <2>2 DEF StreamAt
<1>5. /\ u.seq < x => Done(u.seq)
      /\ \A f \in partial : ~ Done(f.seq)
      /\ \A m \in 0 .. (x - 1) : Done(m)
  BY <1>2, <1>3 DEF StreamAt
<1>6. \A i \in DOMAIN ready : \E m \in 0 .. (sent - 1) : ready[i] = [id |-> Wrap(m), origin |-> {m}]
  BY NumberedFacts
<1>7. ASSUME NEW f \in partial, f.id = u.id, u.seq >= x PROVE f.seq = u.seq
  <2>1. f.seq \in 0 .. (sent - 1) /\ f.id = Wrap(f.seq)
    BY NumberedFacts DEF Known
  <2>2. f.seq >= x
    BY <1>5, <2>1
  <2>3. f.seq \in x .. sent /\ u.seq \in x .. sent
    BY <1>1, <1>3, <1>7, <2>1, <2>2
  <2> QED  BY <1>1, <1>3, <1>7, <2>1, <2>3
<1>8. CASE u.seq < x
  <2>1. ~ (WrappingDiff(u.id, pending) >= 0)
    BY <1>1, <1>3, <1>4, <1>8
  <2>2. Mode \in {"OrderedReliable", "UnorderedReliable"}
    BY NumberedFacts DEF Modes
  <2>3. ~ Accepts(u.id)
    BY <2>1, <2>2 DEF Accepts
  <2> QED  BY <1>5, <1>8, <2>3
<1>9. CASE u.seq >= x /\ Mode = "OrderedReliable"
  <2>1. Accepts(u.id) <=> \A i \in DOMAIN ready : ready[i].id # u.id
    BY <1>1, <1>3, <1>4, <1>9 DEF Accepts
  <2>2. ~ Read(u.seq)
    <3>1. Len(delivered) = x /\ \A i \in 1 .. x : delivered[i] = {i - 1}
      BY <1>2, <1>9 DEF StreamAt
    <3>2. DOMAIN delivered = 1 .. x
      BY <3>1 DEF Numbered
    <3>3. ASSUME NEW i \in 1 .. x, delivered[i] = {u.seq} PROVE FALSE
      <4>1. {i - 1} = {u.seq}
        BY <3>1, <3>3, Zenon
      <4>2. i - 1 = u.seq
        BY <4>1, Zenon
      <4> QED  BY <1>1, <1>3, <1>9, <4>2
    <3> QED  BY <3>2, <3>3 DEF Read
  <2>3. Ready(u.seq) => \E i \in DOMAIN ready : ready[i].id = u.id
    <3> SUFFICES ASSUME NEW i \in DOMAIN ready, ready[i].origin = {u.seq} PROVE ready[i].id = u.id
      BY DEF Ready
    <3>1. PICK m \in 0 .. (sent - 1) : ready[i] = [id |-> Wrap(m), origin |-> {m}]
      BY <1>6
    <3>2. m = u.seq
      BY <3>1
    <3> QED  BY <1>3, <3>1, <3>2
  <2>4. ASSUME NEW i \in DOMAIN ready, ready[i].id = u.id PROVE Done(u.seq)
    <3>1. PICK m \in 0 .. (sent - 1) : ready[i] = [id |-> Wrap(m), origin |-> {m}]
      BY <1>6
    <3>2. Ready(m) /\ Wrap(m) = Wrap(u.seq)
      BY <1>3, <2>4, <3>1 DEF Ready
    <3>3. m >= x
      <4>1. ASSUME m < x PROVE Read(m)
        <5>1. m + 1 \in 1 .. x /\ m + 1 - 1 = m
          BY <1>1, <4>1
        <5>2. Len(delivered) = x /\ \A j \in 1 .. x : delivered[j] = {j - 1}
          BY <1>2, <1>9 DEF StreamAt
        <5>3. DOMAIN delivered = 1 .. x
          BY <5>2 DEF Numbered
        <5>4. delivered[m + 1] = {m + 1 - 1}
          BY <5>1, <5>2
        <5>5. delivered[m + 1] = {m} /\ m + 1 \in DOMAIN delivered
          BY <5>1, <5>3, <5>4, Zenon
        <5> QED  BY <5>5, Zenon DEF Read
      <4>2. ~ (Read(m) /\ Ready(m))
        BY <1>2 DEF StreamAt
      <4> QED  BY <1>1, <3>2, <4>1, <4>2
    <3>4. m = u.seq
      <4>1. m \in x .. sent /\ u.seq \in x .. sent
        BY <1>1, <1>3, <1>9, <3>3
      <4> QED  BY <1>1, <3>2, <4>1
    <3> QED  BY <3>2, <3>4 DEF Done
  <2> QED  BY <1>7, <1>9, <2>1, <2>2, <2>3, <2>4 DEF Done
<1>10. CASE u.seq >= x /\ Mode = "UnorderedReliable"
  <2>1. Accepts(u.id) <=> u.id \notin received
    BY <1>1, <1>3, <1>4, <1>10 DEF Accepts
  <2>2. received = {Wrap(m) : m \in {n \in x .. (sent - 1) : Done(n)}}
    BY <1>2, <1>10 DEF StreamAt
  <2>3. u.seq \in x .. (sent - 1)
    BY <1>1, <1>3, <1>10
  <2>4. Done(u.seq) => u.id \in received
    BY <1>3, <2>2, <2>3
  <2>5. ASSUME u.id \in received PROVE Done(u.seq)
    <3>1. PICK m \in x .. (sent - 1) : Done(m) /\ Wrap(m) = Wrap(u.seq)
      BY <1>3, <2>2, <2>5
    <3>2. m \in x .. sent /\ u.seq \in x .. sent
      BY <1>1, <2>3
    <3>3. m = u.seq
      BY <1>1, <3>1, <3>2
    <3> QED  BY <3>1, <3>3
  <2> QED  BY <1>7, <1>10, <2>1, <2>4, <2>5
<1>11. Mode \in {"OrderedReliable", "UnorderedReliable"}
  BY NumberedFacts DEF Modes
<1> QED  BY <1>1, <1>3, <1>8, <1>9, <1>10, <1>11

\* prepare_receive of a sequenced channel: what is refused is obsolete or was completed,
\* what is accepted is not older than the newest message seen.
LEMMA SequencedAccepts ==
    ASSUME ChannelWindow, Numbered, Outstanding, Mode = "SequencedReliable",
           NEW x \in 0 .. sent, NEW y \in 0 .. sent, SequencedAt(x, y), KeptAt(x),
           NEW u \in wire, sent - u.seq <= MaxLifetime
    PROVE  /\ ~ Accepts(u.id) => Done(u.seq) \/ Obsolete(u.seq, x)
           /\ Accepts(u.id) => /\ u.seq >= x - 1 /\ u.seq >= y
                               /\ Supersedes(u.id) => u.seq >= x
                               /\ \A f \in partial : f.id = u.id => f.seq = u.seq
<1>1. At(x)
  BY DEF At
<1>2. /\ sent \in Nat /\ sent - x <= MaxDiff + 1
      /\ \A m, n \in x .. sent : Wrap(m) = Wrap(n) => m = n
  BY <1>1, Span
<1>3. u.seq \in 0 .. (sent - 1) /\ u.id = Wrap(u.seq) /\ u.count \in FragmentCounts
  BY NumberedFacts DEF Known
<1>4. /\ newestSeen = IF x = 0 THEN NoMessage ELSE Wrap(x - 1)
      /\ newestCompleted = IF y = 0 THEN NoMessage ELSE Wrap(y - 1)
      /\ y <= x
      /\ y = x /\ y # 0 => Done(y - 1)
      /\ FragmentCounts \subseteq {1} => y = x
      /\ \A f \in partial : f.seq < x
  BY DEF SequencedAt
<1>5. x # 0 => WrappingDiff(newestSeen, u.id) = x - 1 - u.seq
  <2> SUFFICES ASSUME x # 0 PROVE WrappingDiff(Wrap(x - 1), Wrap(u.seq)) = x - 1 - u.seq
    BY <1>3, <1>4
  <2>1. x - 1 \in Int /\ u.seq \in Int /\ x - 1 - u.seq <= MaxDiff /\ u.seq - (x - 1) <= MaxDiff + 1
    BY <1>2, <1>3, Constants DEF ChannelWindow
  <2> QED  BY <2>1, WrappingDiffHalf
<1>6. newestSeen # NoMessage <=> x # 0
  BY <1>2, <1>4, Constants
<1>7. newestCompleted # NoMessage <=> y # 0
  BY <1>2, <1>4, Constants
<1>8. Accepts(u.id) <=> u.id # newestCompleted /\ (x # 0 => u.seq >= x - 1)
  BY <1>2, <1>3, <1>5, <1>6 DEF Accepts, IdLess
<1>9. channel \in Channels
  BY NumberedFacts
<1>10. FragmentCounts \subseteq {1} \/ MaxMessages <= IdModulus
  BY <1>9 DEF ChannelWindow, Mode, FragmentCounts, MaxMessages
\* From the newest message seen on, the identifier last completed is that message's.
<1>11. ASSUME u.id = newestCompleted, u.seq >= x - 1 PROVE u.seq = y - 1 /\ y = x
  <2>1. y # 0 /\ Wrap(u.seq) = Wrap(y - 1)
    <3>1. u.id \in WireId
      BY <1>3, Constants
    <3>2. y # 0
      BY <1>7, <1>11, <3>1, Constants, Zenon
    <3> QED  BY <1>3, <1>4, <1>11, <3>2, Zenon
  <2>2. u.seq - (y - 1) < IdModulus /\ (y - 1) - u.seq < IdModulus
    <3>1. CASE FragmentCounts \subseteq {1}
      BY <1>2, <1>3, <1>4, <1>11, <3>1, Constants
    <3>2. CASE MaxMessages <= IdModulus
      <4>1. sent <= MaxMessages /\ MaxMessages \in Nat
        BY NumberedFacts
      <4> QED  BY <1>2, <1>3, <2>1, <3>2, <4>1, Constants
    <3> QED  BY <1>10, <3>1, <3>2
  <2>3. u.seq \in Int /\ y - 1 \in Int
    BY <1>3
  <2>4. u.seq = y - 1
    BY <2>1, <2>2, <2>3, SameNumber
  <2> QED  BY <1>2, <1>3, <1>4, <1>11, <2>4
<1>12. ASSUME ~ Accepts(u.id) PROVE Done(u.seq) \/ Obsolete(u.seq, x)
  <2>1. CASE u.seq < x - 1
    <3>1. u.seq + 1 < x
      BY <1>2, <1>3, <2>1
    <3> QED  BY <3>1 DEF Obsolete
  <2>2. CASE u.seq >= x - 1
    <3>1. u.id = newestCompleted
      BY <1>8, <1>12, <2>2
    <3>2. y # 0
      <4>1. u.id \in WireId
        BY <1>3, Constants
      <4> QED  BY <1>7, <3>1, <4>1, Constants, Zenon
    <3> QED  BY <1>4, <1>11, <2>2, <3>1, <3>2
  <2> QED  BY <1>2, <1>3, <2>1, <2>2
<1>13. ASSUME Accepts(u.id) PROVE u.seq >= x - 1 /\ u.seq >= y
  <2>1. u.seq >= x - 1
    BY <1>2, <1>3, <1>8, <1>13
  <2>2. CASE y < x
    BY <1>2, <1>3, <2>1, <2>2
  <2>3. CASE y = x /\ u.seq = y - 1
    <3>1. newestCompleted = Wrap(y - 1)
      BY <1>3, <1>4, <2>3
    <3> QED  BY <1>3, <1>8, <1>13, <2>3, <3>1
  <2>4. CASE y = x /\ u.seq # y - 1
    BY <1>2, <1>3, <2>1, <2>4
  <2> QED  BY <1>2, <1>4, <2>1, <2>2, <2>3, <2>4
<1>14. ASSUME Accepts(u.id), Supersedes(u.id) PROVE u.seq >= x
  <2>1. x # 0 /\ WrappingDiff(u.id, newestSeen) > 0
    BY <1>6, <1>14 DEF Supersedes, IdLess
  <2>2. u.seq # x - 1
    <3> SUFFICES ASSUME u.seq = x - 1 PROVE FALSE
      OBVIOUS
    <3>1. WrappingDiff(Wrap(u.seq), Wrap(u.seq)) = u.seq - u.seq
      BY <1>3, WrappingDiffHalf, Constants
    <3>2. u.id = Wrap(u.seq) /\ newestSeen = Wrap(u.seq)
      BY <1>3, <1>4, <2>1
    <3> QED  BY <1>3, <2>1, <3>1, <3>2
  <2> QED  BY <1>2, <1>3, <1>13, <1>14, <2>2
<1>15. ASSUME NEW f \in partial, f.id = u.id PROVE f.seq = u.seq
  <2>1. /\ f.seq \in 0 .. (sent - 1) /\ f.id = Wrap(f.seq) /\ f.count \in FragmentCounts /\ f.count # 1
        /\ sent <= MaxMessages /\ MaxMessages \in Nat
    BY NumberedFacts DEF Known, Numbered
  <2>2. MaxMessages <= IdModulus
    BY <1>10, <2>1
  <2>3. f.seq - u.seq < IdModulus /\ u.seq - f.seq < IdModulus
    BY <1>2, <1>3, <2>1, <2>2, Constants
  <2>4. f.seq \in Int /\ u.seq \in Int /\ Wrap(f.seq) = Wrap(u.seq)
    BY <1>3, <1>15, <2>1
  <2> QED  BY <2>3, <2>4, SameNumber
<1> QED  BY <1>12, <1>13, <1>14, <1>15

LEMMA AppendIs ==
    ASSUME NEW S, NEW s \in Seq(S), NEW e \in S
    PROVE  /\ Append(s, e) \in Seq(S) /\ Len(s) \in Nat /\ Len(Append(s, e)) = Len(s) + 1
           /\ DOMAIN s = 1 .. Len(s) /\ DOMAIN Append(s, e) = 1 .. (Len(s) + 1)
           /\ \A i \in 1 .. Len(s) : Append(s, e)[i] = s[i]
           /\ Append(s, e)[Len(s) + 1] = e
OBVIOUS

-----------------------------------------------------------------------------
(* A unit arrives. *)

\* What a unit that is accepted leaves of the books of units and messages.
LEMMA TakesNumbered ==
    ASSUME Numbered, Outstanding, NEW u \in wire, TakesIn(u),
           UNCHANGED <<channel, nextId, unacked, lastSent, sent, delivered>>,
           acks' = acks \cup {u}, wire' \subseteq wire
    PROVE  Numbered' /\ Outstanding'
<1> DEFINE R == {[id |-> Wrap(m), origin |-> {m}] : m \in 0 .. (sent - 1)}
<1>1. /\ channel' = channel /\ nextId' = nextId /\ unacked' = unacked /\ lastSent' = lastSent
      /\ sent' = sent /\ delivered' = delivered
  OBVIOUS
<1>2. Mode' = Mode /\ FragmentCounts' = FragmentCounts /\ MaxMessages' = MaxMessages
  BY <1>1 DEF Mode, FragmentCounts, MaxMessages
<1>3. u \in Known /\ u.seq \in 0 .. (sent - 1) /\ u.id = Wrap(u.seq)
  BY NumberedFacts DEF Known
<1>4. Message(u.seq) \in R
  BY <1>3 DEF Message
<1>5. ready \in Seq(R)
  BY DEF Numbered
<1> HIDE DEF R
<1>6. /\ partial' \subseteq partial \cup {u} /\ \A f \in partial' : f.count # 1
      /\ ready' \in {ready, <<>>, <<Message(u.seq)>>, Append(ready, Message(u.seq))}
  <2>1. \A f \in partial : f.count # 1
    BY DEF Numbered
  <2>2. CASE TakesWhole(u)
    <3>1. partial' \subseteq partial
      BY <2>2 DEF TakesWhole
    <3>2. ready' = <<Message(u.seq)>> \/ ready' = Append(ready, Message(u.seq))
      BY <2>2 DEF TakesWhole
    <3> QED  BY <2>1, <3>1, <3>2
  <2>3. CASE TakesPart(u)
    <3>1. partial' = partial \cup {u} /\ u.count # 1 /\ (ready' = ready \/ ready' = <<>>)
      BY <2>3 DEF TakesPart
    <3> QED  BY <2>1, <3>1
  <2> QED  BY <2>2, <2>3 DEF TakesIn
<1>7. Known' \subseteq Known
  BY <1>1, <1>3, <1>6 DEF Known
<1>8. ready' \in Seq(R)
  <2>1. <<>> \in Seq(R) /\ <<Message(u.seq)>> \in Seq(R) /\ Append(ready, Message(u.seq)) \in Seq(R)
    BY <1>4, <1>5
  <2> QED  BY <1>5, <1>6, <2>1
<1>9. /\ pending' \in WireId /\ received' \subseteq WireId
      /\ newestSeen' \in WireId \cup {NoMessage} /\ newestCompleted' \in WireId \cup {NoMessage}
  <2>1. u.id \in WireId
    BY <1>3, Constants
  <2>2. /\ pending' = pending /\ newestSeen' \in {u.id, newestSeen}
        /\ newestCompleted' \in {u.id, newestCompleted} /\ received' \in {received, received \cup {u.id}}
    BY DEF TakesIn, TakesWhole, TakesPart
  <2> QED  BY <2>1, <2>2 DEF Numbered
<1>10. ready' \in Seq({[id |-> Wrap(m), origin |-> {m}] : m \in 0 .. (sent' - 1)})
  BY <1>1, <1>8 DEF R
<1>11. Numbered'
  BY <1>1, <1>2, <1>6, <1>7, <1>9, <1>10 DEF Numbered
<1>12. Outstanding'
  BY <1>1, <1>2 DEF Outstanding, Read
<1> QED  BY <1>11, <1>12

\* Nothing that is not made obsolete is lost when a unit is accepted.
LEMMA TakesKept ==
    ASSUME Numbered, NEW u \in wire, TakesIn(u), NEW x \in Nat, NEW y \in Nat, x <= y,
           HeldAt(x), KeptAt(x),
           UNCHANGED <<channel, unacked, sent, delivered>>, acks' = acks \cup {u},
           \A m \in 0 .. (sent - 1) : Done(m) => Done(m)' \/ Obsolete(m, y)
    PROVE  HeldAt(y)' /\ KeptAt(y)'
<1>1. channel' = channel /\ unacked' = unacked /\ sent' = sent /\ delivered' = delivered
  OBVIOUS
<1>2. Mode' = Mode /\ FragmentCounts' = FragmentCounts /\ \A m : Obsolete(m, y)' <=> Obsolete(m, y)
  BY <1>1 DEF Mode, FragmentCounts, Obsolete
<1>3. u \in Known /\ u.seq \in 0 .. (sent - 1) /\ u = Fragment(u.seq, u.count, u.frag)
  BY NumberedFacts DEF Known
<1>4. \A w \in acks : w.seq \in 0 .. (sent - 1)
  BY NumberedFacts DEF Known
<1>5. \A m \in 0 .. (sent - 1) : Obsolete(m, x) => Obsolete(m, y)
  BY DEF Obsolete
<1>6. \A m, c, k : Fragment(m, c, k).seq = m
  BY DEF Fragment
<1>7. CASE TakesWhole(u)
  <2>1. partial' = {f \in partial : f.seq # u.seq}
    BY <1>7 DEF TakesWhole
  <2>2. Done(u.seq)'
    <3> DEFINE R == {[id |-> Wrap(m), origin |-> {m}] : m \in 0 .. (sent - 1)}
    <3>1. Message(u.seq) \in R /\ ready \in Seq(R)
      BY <1>3 DEF Message, Numbered
    <3> HIDE DEF R
    <3>2. \E i \in DOMAIN ready' : ready'[i] = Message(u.seq)
      <4>1. CASE Mode = "SequencedReliable"
        <5>1. ready' = <<Message(u.seq)>>
          BY <1>7, <4>1 DEF TakesWhole
        <5> QED  BY <5>1
      <4>2. CASE Mode # "SequencedReliable"
        <5>1. ready' = Append(ready, Message(u.seq))
          BY <1>7, <4>2 DEF TakesWhole
        <5>2. /\ Len(ready) \in Nat /\ DOMAIN Append(ready, Message(u.seq)) = 1 .. (Len(ready) + 1)
              /\ Append(ready, Message(u.seq))[Len(ready) + 1] = Message(u.seq)
          BY <3>1, AppendIs
        <5>3. Len(ready) + 1 \in 1 .. (Len(ready) + 1)
          BY <5>2
        <5> QED  BY <5>1, <5>2, <5>3, Zenon
      <4> QED  BY <4>1, <4>2
    <3>3. Message(u.seq).origin = {u.seq}
      BY DEF Message
    <3> QED  BY <3>2, <3>3 DEF Done, Ready
  <2>3. ASSUME NEW w \in acks \cup {u} PROVE w \in partial' \/ Done(w.seq)' \/ Obsolete(w.seq, y)
    <3>1. CASE w.seq = u.seq
      BY <2>2, <3>1
    <3>2. CASE w.seq # u.seq
      <4>1. w \in acks /\ (w \in partial \/ Done(w.seq) \/ Obsolete(w.seq, x))
        BY <3>2 DEF HeldAt
      <4> QED  BY <1>4, <1>5, <2>1, <3>2, <4>1
    <3> QED  BY <3>1, <3>2
  <2>4. ASSUME NEW m \in 0 .. (sent - 1), ~ Done(m)', ~ Obsolete(m, y)
        PROVE  \E c \in FragmentCounts : /\ \A k \in 1 .. c : Fragment(m, c, k) \in unacked \cup partial'
                                         /\ \E k \in 1 .. c : Fragment(m, c, k) \notin partial'
    <3>1. ~ Done(m) /\ ~ Obsolete(m, x) /\ m # u.seq
      BY <1>5, <2>2, <2>4
    <3>2. PICK c \in FragmentCounts : /\ \A k \in 1 .. c : Fragment(m, c, k) \in unacked \cup partial
                                      /\ \E k \in 1 .. c : Fragment(m, c, k) \notin partial
      BY <3>1 DEF KeptAt
    <3> QED  BY <1>6, <2>1, <3>1, <3>2
  <2> QED  BY <1>1, <1>2, <2>3, <2>4 DEF HeldAt, KeptAt
<1>8. CASE TakesPart(u)
  <2>1. partial' = partial \cup {u} /\ \E k \in 1 .. u.count : Fragment(u.seq, u.count, k) \notin partial'
    BY <1>8 DEF TakesPart
  <2>2. ASSUME NEW w \in acks \cup {u} PROVE w \in partial' \/ Done(w.seq)' \/ Obsolete(w.seq, y)
    BY <1>4, <1>5, <2>1 DEF HeldAt
  <2>3. ASSUME NEW m \in 0 .. (sent - 1), ~ Done(m)', ~ Obsolete(m, y)
        PROVE  \E c \in FragmentCounts : /\ \A k \in 1 .. c : Fragment(m, c, k) \in unacked \cup partial'
                                         /\ \E k \in 1 .. c : Fragment(m, c, k) \notin partial'
    <3>1. ~ Done(m) /\ ~ Obsolete(m, x)
      BY <1>5, <2>3
    <3>2. PICK c \in FragmentCounts : /\ \A k \in 1 .. c : Fragment(m, c, k) \in unacked \cup partial
                                      /\ \E k \in 1 .. c : Fragment(m, c, k) \notin partial
      BY <3>1 DEF KeptAt
    <3>3. CASE m = u.seq
      <4>1. 1 \in 1 .. c
        <5>1. c \in Nat \ {0}
          BY NumberedFacts
        <5> QED  BY <5>1
      <4>2. Fragment(m, c, 1) \in Known /\ Fragment(m, c, 1).seq = m /\ Fragment(m, c, 1).count = c
        BY <3>2, <4>1 DEF Known, Fragment
      <4>3. u.count = c
        BY <1>3, <3>3, <4>2, NumberedFacts
      <4> QED  BY <2>1, <3>2, <3>3, <4>3
    <3>4. CASE m # u.seq
      BY <1>6, <2>1, <3>2, <3>4
    <3> QED  BY <3>3, <3>4
  <2> QED  BY <1>1, <1>2, <2>2, <2>3 DEF HeldAt, KeptAt
<1> QED  BY <1>7, <1>8 DEF TakesIn

\* A message that is completed becomes ready, behind those that are.
LEMMA ReadyGrows ==
    ASSUME Numbered, NEW u \in wire, ready' = Append(ready, Message(u.seq)), delivered' = delivered
    PROVE  /\ \A m : Read(m)' <=> Read(m)
           /\ \A m : Ready(m)' <=> Ready(m) \/ m = u.seq
           /\ \A m : Done(m)' <=> Done(m) \/ m = u.seq
           /\ Len(ready) \in Nat /\ DOMAIN ready = 1 .. Len(ready) /\ DOMAIN ready' = 1 .. (Len(ready) + 1)
           /\ \A i \in 1 .. Len(ready) : ready'[i] = ready[i]
           /\ ready'[Len(ready) + 1].origin = {u.seq}
<1> DEFINE R == {[id |-> Wrap(m), origin |-> {m}] : m \in 0 .. (sent - 1)}
<1>1. Message(u.seq) \in R
  BY NumberedFacts DEF Message, Known
<1>2. ready \in Seq(R)
  BY DEF Numbered
<1> HIDE DEF R
<1>3. /\ Len(ready) \in Nat /\ DOMAIN ready = 1 .. Len(ready) /\ DOMAIN ready' = 1 .. (Len(ready) + 1)
      /\ \A i \in 1 .. Len(ready) : ready'[i] = ready[i]
      /\ ready'[Len(ready) + 1] = Message(u.seq)
  BY <1>1, <1>2, AppendIs
<1>4. ready'[Len(ready) + 1].origin = {u.seq}
  BY <1>3 DEF Message
<1>5. \A m : Read(m)' <=> Read(m)
  BY DEF Read
<1>6. ASSUME NEW m PROVE Ready(m)' <=> Ready(m) \/ m = u.seq
  <2>1. ASSUME Ready(m) PROVE Ready(m)'
    <3>1. PICK i \in 1 .. Len(ready) : ready[i].origin = {m}
      BY <1>3, <2>1 DEF Ready
    <3>2. i \in DOMAIN ready' /\ ready'[i].origin = {m}
      BY <1>3, <3>1
    <3> QED  BY <3>2 DEF Ready
  <2>2. ASSUME m = u.seq PROVE Ready(m)'
    <3>1. Len(ready) + 1 \in DOMAIN ready'
      BY <1>3
    <3> QED  BY <1>4, <2>2, <3>1 DEF Ready
  <2>3. ASSUME Ready(m)', m # u.seq PROVE Ready(m)
    <3>1. PICK i \in DOMAIN ready' : ready'[i].origin = {m}
      BY <2>3 DEF Ready
    <3>2. i # Len(ready) + 1
      <4> SUFFICES ASSUME i = Len(ready) + 1 PROVE FALSE
        OBVIOUS
      <4>1. {m} = {u.seq}
        BY <1>4, <3>1
      <4> QED  BY <2>3, <4>1, Zenon
    <3>3. i \in 1 .. Len(ready)
      BY <1>3, <3>1, <3>2
    <3> QED  BY <1>3, <3>1, <3>3 DEF Ready
  <2> QED  BY <2>1, <2>2, <2>3
<1>7. \A m : Done(m)' <=> Done(m) \/ m = u.seq
  BY <1>5, <1>6 DEF Done
<1> QED  BY <1>3, <1>4, <1>5, <1>6, <1>7

\* The position of a channel that delivers every message, when a unit is accepted.
LEMMA StreamTakes ==
    ASSUME Numbered, NEW u \in wire, TakesIn(u), Mode # "SequencedReliable",
           NEW x \in Nat, StreamAt(x), u.seq >= x, ~ Done(u.seq),
           UNCHANGED <<channel, sent, delivered>>
    PROVE  StreamAt(x)' /\ \A m : Done(m) => Done(m)'
<1>1. channel' = channel /\ sent' = sent /\ delivered' = delivered /\ pending' = pending
  BY DEF TakesIn
<1>2. Mode' = Mode
  BY <1>1 DEF Mode
<1>3. sent \in Nat /\ u.seq \in 0 .. (sent - 1) /\ u.id = Wrap(u.seq)
  BY NumberedFacts DEF Known
<1>4. /\ pending = Wrap(x) /\ ~ Read(x)
      /\ \A m \in 0 .. (x - 1) : Done(m)
      /\ \A f \in partial : ~ Done(f.seq)
      /\ \A i, j \in DOMAIN ready : ready[i].origin = ready[j].origin => i = j
      /\ \A m \in 0 .. (sent - 1) : ~ (Read(m) /\ Ready(m))
      /\ Mode = "OrderedReliable" => Len(delivered) = x /\ \A i \in 1 .. x : delivered[i] = {i - 1}
      /\ Mode = "UnorderedReliable" => received = {Wrap(m) : m \in {n \in x .. (sent - 1) : Done(n)}}
  BY DEF StreamAt
<1>5. CASE TakesWhole(u)
  <2>1. /\ partial' = {f \in partial : f.seq # u.seq} /\ ready' = Append(ready, Message(u.seq))
        /\ received' = IF Mode = "UnorderedReliable" THEN received \cup {u.id} ELSE received
    BY <1>5 DEF TakesWhole
  <2>2. /\ \A m : Read(m)' <=> Read(m)
        /\ \A m : Ready(m)' <=> Ready(m) \/ m = u.seq
        /\ \A m : Done(m)' <=> Done(m) \/ m = u.seq
        /\ Len(ready) \in Nat /\ DOMAIN ready = 1 .. Len(ready) /\ DOMAIN ready' = 1 .. (Len(ready) + 1)
        /\ \A i \in 1 .. Len(ready) : ready'[i] = ready[i]
        /\ ready'[Len(ready) + 1].origin = {u.seq}
    BY <1>1, <2>1, ReadyGrows
  <2>3. \A f \in partial' : ~ Done(f.seq)'
    BY <1>4, <2>1, <2>2
  <2>4. \A i, j \in DOMAIN ready' : ready'[i].origin = ready'[j].origin => i = j
    <3>1. \A i \in 1 .. Len(ready) : ready[i].origin # {u.seq}
      BY <2>2 DEF Done, Ready
    <3>2. \A i \in DOMAIN ready' : i \in 1 .. Len(ready) \/ i = Len(ready) + 1
      BY <2>2
    <3> QED  BY <1>4, <2>2, <3>1, <3>2
  <2>5. \A m \in 0 .. (sent - 1) : ~ (Read(m)' /\ Ready(m)')
    BY <1>4, <2>2 DEF Done
  <2>6. ASSUME Mode = "UnorderedReliable"
        PROVE  received' = {Wrap(m) : m \in {n \in x .. (sent - 1) : Done(n)'}}
    <3>1. received' = received \cup {Wrap(u.seq)} /\ u.seq \in x .. (sent - 1)
      BY <1>3, <2>1, <2>6
    <3>2. {n \in x .. (sent - 1) : Done(n)'} = {n \in x .. (sent - 1) : Done(n)} \cup {u.seq}
      BY <2>2, <3>1
    <3> QED  BY <1>4, <2>6, <3>1, <3>2
  <2> QED  BY <1>1, <1>2, <1>4, <2>2, <2>3, <2>4, <2>5, <2>6 DEF StreamAt
<1>6. CASE TakesPart(u)
  <2>1. partial' = partial \cup {u} /\ ready' = ready /\ received' = received
    BY <1>6 DEF TakesPart, Supersedes
  <2>2. \A m : (Read(m)' <=> Read(m)) /\ (Ready(m)' <=> Ready(m)) /\ (Done(m)' <=> Done(m))
    BY <1>1, <2>1 DEF Read, Ready, Done
  <2>3. \A f \in partial' : ~ Done(f.seq)
    BY <1>4, <2>1
  <2> QED  BY <1>1, <1>2, <1>4, <2>1, <2>2, <2>3 DEF StreamAt
<1> QED  BY <1>5, <1>6 DEF TakesIn

\* The position of a sequenced channel when a unit is accepted: the message it is of.
LEMMA SequencedTakes ==
    ASSUME Numbered, NEW u \in wire, TakesIn(u), Mode = "SequencedReliable",
           NEW x \in Nat, NEW y \in Nat, SequencedAt(x, y), u.seq >= x - 1, u.seq >= y,
           NEW n \in Nat, n = u.seq + 1,
           UNCHANGED <<channel, sent, delivered>>
    PROVE  /\ \E z \in 0 .. sent : SequencedAt(n, z)'
           /\ \A m \in 0 .. (sent - 1) : Done(m) => Done(m)' \/ Obsolete(m, n)
<1>1. channel' = channel /\ sent' = sent /\ delivered' = delivered /\ newestSeen' = u.id
  BY DEF TakesIn
<1>2. Mode' = Mode /\ FragmentCounts' = FragmentCounts
  BY <1>1 DEF Mode, FragmentCounts
<1>3. sent \in Nat /\ u.seq \in 0 .. (sent - 1) /\ u.id = Wrap(u.seq) /\ u.count \in FragmentCounts
  BY NumberedFacts DEF Known
<1>4. /\ newestSeen = IF x = 0 THEN NoMessage ELSE Wrap(x - 1)
      /\ newestCompleted = IF y = 0 THEN NoMessage ELSE Wrap(y - 1)
      /\ y <= x
      /\ y = x /\ y # 0 => Done(y - 1)
      /\ FragmentCounts \subseteq {1} => y = x
      /\ \A f \in partial : f.seq < x
      /\ \A i \in DOMAIN delivered : \A m \in delivered[i] : m < y /\ (ready # <<>> => m < y - 1)
      /\ Len(ready) <= 1
      /\ \A i \in DOMAIN ready : ready[i].origin = {y - 1}
  BY DEF SequencedAt
<1>5. \A f \in partial : f.seq \in 0 .. (sent - 1)
  BY NumberedFacts DEF Known
<1>6. \A i \in DOMAIN delivered : \A m \in delivered[i] : m \in 0 .. (sent - 1)
  <2>1. \A i \in DOMAIN delivered : \E m \in 0 .. (sent - 1) : delivered[i] = {m}
    BY NumberedFacts
  <2> QED  BY <2>1
<1>7. \A m : Read(m)' <=> Read(m)
  BY <1>1 DEF Read
<1>8. ASSUME NEW m \in 0 .. (sent - 1), Ready(m) PROVE Obsolete(m, n)
  <2>1. PICK i \in DOMAIN ready : {m} = {y - 1}
    BY <1>4, <1>8 DEF Ready
  <2>2. m = y - 1
    BY <2>1, Zenon
  <2>3. m + 1 < n
    BY <1>3, <2>2
  <2> QED  BY <2>3 DEF Obsolete
<1>9. \A m \in 0 .. (sent - 1) : Done(m) => Done(m)' \/ Obsolete(m, n)
  BY <1>7, <1>8 DEF Done
<1>10. n \in 0 .. sent /\ n # 0 /\ n - 1 = u.seq /\ x <= n /\ y < n
  BY <1>3
<1>11. CASE TakesWhole(u)
  <2>1. /\ partial' = {f \in partial : f.seq # u.seq} /\ ready' = <<Message(u.seq)>> /\ newestCompleted' = u.id
    BY <1>11 DEF TakesWhole
  <2>2. newestSeen' = Wrap(n - 1) /\ newestCompleted' = Wrap(n - 1)
    BY <1>1, <1>3, <1>10, <2>1, Zenon
  <2>3. Len(ready') <= 1 /\ \A i \in DOMAIN ready' : ready'[i].origin = {n - 1}
    <3>1. Len(ready') = 1 /\ DOMAIN ready' = {1} /\ ready'[1] = Message(u.seq)
      BY <2>1
    <3>2. Message(u.seq).origin = {n - 1}
      BY <1>10 DEF Message
    <3> QED  BY <3>1, <3>2
  <2>4. Done(n - 1)'
    <3>1. DOMAIN ready' = {1}
      BY <2>1
    <3>2. Ready(n - 1)'
      BY <2>3, <3>1 DEF Ready
    <3> QED  BY <3>2 DEF Done
  <2>5. \A f \in partial' : f.seq < n
    BY <1>4, <1>5, <1>10, <2>1
  <2>6. \A i \in DOMAIN delivered : \A m \in delivered[i] : m < n /\ m < n - 1
    BY <1>3, <1>4, <1>6
  <2>7. SequencedAt(n, n)'
    BY <1>1, <1>2, <1>10, <2>2, <2>3, <2>4, <2>5, <2>6 DEF SequencedAt
  <2> QED  BY <1>9, <1>10, <2>7
<1>12. CASE TakesPart(u)
  <2>1. /\ partial' = partial \cup {u} /\ u.count # 1 /\ (ready' = ready \/ ready' = <<>>)
        /\ newestCompleted' = newestCompleted
    BY <1>12 DEF TakesPart
  <2>2. newestSeen' = Wrap(n - 1)
    BY <1>1, <1>3, <1>10, Zenon
  <2>3. ~ (FragmentCounts \subseteq {1}) /\ y # n /\ y <= n
    BY <1>3, <1>10, <2>1
  <2>4. \A f \in partial' : f.seq < n
    BY <1>3, <1>4, <1>5, <1>10, <2>1
  <2>5. /\ \A i \in DOMAIN delivered : \A m \in delivered[i] : m < y /\ (ready' # <<>> => m < y - 1)
        /\ Len(ready') <= 1 /\ \A i \in DOMAIN ready' : ready'[i].origin = {y - 1}
    <3>1. CASE ready' = ready
      BY <1>4, <3>1
    <3>2. CASE ready' = <<>>
      <4>1. Len(ready') <= 1 /\ DOMAIN ready' = {}
        BY <3>2
      <4> QED  BY <1>4, <3>2, <4>1
    <3> QED  BY <2>1, <3>1, <3>2
  <2>6. SequencedAt(n, y)'
    BY <1>1, <1>2, <1>4, <1>10, <2>1, <2>2, <2>3, <2>4, <2>5 DEF SequencedAt
  <2>7. y \in 0 .. sent
    BY <1>3, <1>10
  <2> QED  BY <1>9, <2>6, <2>7
<1> QED  BY <1>11, <1>12 DEF TakesIn

\* A unit that is refused leaves its acknowledgement.
LEMMA RefusedInv ==
    ASSUME ChannelInv, NEW u \in wire, NEW x \in 0 .. sent, At(x), HeldAt(x), KeptAt(x),
           UNCHANGED <<channel, sender, receiver, sent, delivered>>,
           acks' = acks \cup {u}, wire' \subseteq wire,
           Done(u.seq) \/ Obsolete(u.seq, x)
    PROVE  ChannelInv'
<1>1. /\ Mode' = Mode /\ FragmentCounts' = FragmentCounts /\ MaxMessages' = MaxMessages
      /\ \A m : (Read(m)' <=> Read(m)) /\ (Ready(m)' <=> Ready(m)) /\ (Done(m)' <=> Done(m))
      /\ \A z : At(z)' <=> At(z)
      /\ \A m, z : Obsolete(m, z)' <=> Obsolete(m, z)
  BY ReceiverStays
<1>2. /\ channel' = channel /\ nextId' = nextId /\ unacked' = unacked /\ lastSent' = lastSent
      /\ pending' = pending /\ received' = received /\ ready' = ready
      /\ newestSeen' = newestSeen /\ newestCompleted' = newestCompleted /\ partial' = partial
      /\ sent' = sent /\ delivered' = delivered
  BY DEF receiver, sender
<1>3. Known' \subseteq Known
  BY <1>2 DEF Known
<1>4. Numbered'
  BY <1>1, <1>2, <1>3 DEF ChannelInv, Numbered
<1>5. Outstanding'
  BY <1>1, <1>2 DEF ChannelInv, Outstanding
<1>6. HeldAt(x)'
  BY <1>1, <1>2 DEF HeldAt
<1>7. KeptAt(x)'
  BY <1>1, <1>2 DEF KeptAt
<1> QED  BY <1>1, <1>2, <1>4, <1>5, <1>6, <1>7 DEF ChannelInv

LEMMA DeliverInv ==
    ASSUME ChannelWindow, ChannelInv, NEW u \in wire, Deliver(u)
    PROVE  ChannelInv'
<1>1. /\ sent - u.seq <= MaxLifetime /\ BufferRecv(u) /\ acks' = acks \cup {u} /\ wire' \subseteq wire
      /\ UNCHANGED <<channel, sender, sent, delivered>>
  BY DEF Deliver
<1>2. channel' = channel /\ nextId' = nextId /\ unacked' = unacked /\ lastSent' = lastSent
      /\ sent' = sent /\ delivered' = delivered
  BY <1>1 DEF sender
<1>3. Mode' = Mode
  BY <1>2 DEF Mode
<1>4. Numbered /\ Outstanding
  BY DEF ChannelInv
<1>5. PICK x \in 0 .. sent : At(x) /\ HeldAt(x) /\ KeptAt(x)
  BY DEF ChannelInv
<1>6. sent \in Nat /\ x \in Nat /\ u.seq \in 0 .. (sent - 1)
  BY <1>4, NumberedFacts DEF Known
<1>7. CASE ~ Accepts(u.id)
  <2>1. UNCHANGED receiver
    BY <1>1, <1>7 DEF BufferRecv
  <2>2. Done(u.seq) \/ Obsolete(u.seq, x)
    <3>1. CASE Mode # "SequencedReliable"
      BY <1>1, <1>4, <1>5, <1>7, <3>1, StreamAccepts
    <3>2. CASE Mode = "SequencedReliable"
      <4>1. PICK y \in 0 .. sent : SequencedAt(x, y)
        BY <1>5, <3>2 DEF At
      <4> QED  BY <1>1, <1>4, <1>5, <1>7, <3>2, <4>1, SequencedAccepts
    <3> QED  BY <3>1, <3>2
  <2> QED  BY <1>1, <1>5, <2>1, <2>2, RefusedInv
<1>8. CASE Accepts(u.id) /\ Mode # "SequencedReliable"
  <2>1. u.seq >= x /\ ~ Done(u.seq) /\ \A f \in partial : f.id = u.id => f.seq = u.seq
    BY <1>1, <1>4, <1>5, <1>8, StreamAccepts
  <2>2. TakesIn(u)
    BY <1>1, <1>4, <1>8, <2>1, Reassembles
  <2>3. Numbered' /\ Outstanding'
    BY <1>1, <1>2, <1>4, <2>2, TakesNumbered
  <2>4. StreamAt(x)
    BY <1>5, <1>8 DEF At
  <2>5. StreamAt(x)' /\ \A m : Done(m) => Done(m)'
    BY <1>2, <1>4, <1>6, <1>8, <2>1, <2>2, <2>4, StreamTakes
  <2>6. HeldAt(x)' /\ KeptAt(x)'
    BY <1>1, <1>2, <1>4, <1>5, <1>6, <2>2, <2>5, TakesKept
  <2>7. At(x)'
    BY <1>3, <1>8, <2>5 DEF At
  <2> QED  BY <1>2, <1>5, <2>3, <2>6, <2>7 DEF ChannelInv
<1>9. CASE Accepts(u.id) /\ Mode = "SequencedReliable"
  <2>1. PICK y \in 0 .. sent : SequencedAt(x, y)
    BY <1>5, <1>9 DEF At
  <2>2. u.seq >= x - 1 /\ u.seq >= y /\ \A f \in partial : f.id = u.id => f.seq = u.seq
    BY <1>1, <1>4, <1>5, <1>9, <2>1, SequencedAccepts
  <2>3. TakesIn(u)
    BY <1>1, <1>4, <1>9, <2>2, Reassembles
  <2>4. Numbered' /\ Outstanding'
    BY <1>1, <1>2, <1>4, <2>3, TakesNumbered
  <2>5. PICK n \in 0 .. sent : n = u.seq + 1
    BY <1>6
  <2>6. n \in Nat /\ y \in Nat /\ x <= n
    BY <1>6, <2>1, <2>2, <2>5
  <2>7. /\ \E z \in 0 .. sent : SequencedAt(n, z)'
        /\ \A m \in 0 .. (sent - 1) : Done(m) => Done(m)' \/ Obsolete(m, n)
    BY <1>2, <1>4, <1>6, <1>9, <2>1, <2>2, <2>3, <2>5, <2>6, SequencedTakes
  <2>8. HeldAt(n)' /\ KeptAt(n)'
    BY <1>1, <1>2, <1>4, <1>5, <1>6, <2>3, <2>6, <2>7, TakesKept
  <2>9. At(n)'
    BY <1>2, <1>3, <1>9, <2>7 DEF At
  <2> QED  BY <1>2, <2>4, <2>5, <2>8, <2>9 DEF ChannelInv
<1> QED  BY <1>7, <1>8, <1>9

-----------------------------------------------------------------------------
(* The application reads. *)

\* Message n leaves the messages that are ready and is read.
ReadsAt(n, i) ==
    /\ i \in 1 .. Len(ready) /\ ready[i].origin = {n}
    /\ ready' = RemoveAt(ready, i)
    /\ delivered' = Append(delivered, {n})

LEMMA ReadingMoves ==
    ASSUME Numbered, NEW n \in 0 .. (sent - 1), NEW i, ReadsAt(n, i),
           \A j, k \in DOMAIN ready : ready[j].origin = ready[k].origin => j = k
    PROVE  /\ Ready(n)
           /\ \A m : Read(m)' <=> Read(m) \/ m = n
           /\ \A m : Ready(m)' <=> Ready(m) /\ m # n
           /\ \A m : Done(m)' <=> Done(m)
           /\ \A j, k \in DOMAIN ready' : ready'[j].origin = ready'[k].origin => j = k
           /\ ready' \in Seq({[id |-> Wrap(m), origin |-> {m}] : m \in 0 .. (sent - 1)})
           /\ delivered' \in Seq({{m} : m \in 0 .. (sent - 1)})
<1> DEFINE R == {[id |-> Wrap(m), origin |-> {m}] : m \in 0 .. (sent - 1)}
           D == {{m} : m \in 0 .. (sent - 1)}
<1>1. ready \in Seq(R) /\ delivered \in Seq(D) /\ {n} \in D
  BY DEF Numbered
<1> HIDE DEF R, D
<1>2. /\ i \in 1 .. Len(ready) /\ ready[i].origin = {n}
      /\ ready' = RemoveAt(ready, i) /\ delivered' = Append(delivered, {n})
  BY DEF ReadsAt
<1>3. /\ ready' \in Seq(R) /\ Len(ready') = Len(ready) - 1
      /\ \A j \in 1 .. (Len(ready) - 1) : ready'[j] = IF j < i THEN ready[j] ELSE ready[j + 1]
  BY <1>1, <1>2, RemoveAtIs
<1>4. Len(ready) \in Nat /\ DOMAIN ready = 1 .. Len(ready) /\ DOMAIN ready' = 1 .. (Len(ready) - 1)
  BY <1>1, <1>3
<1>5. Ready(n)
  BY <1>2, <1>4 DEF Ready
<1>6. /\ delivered' \in Seq(D)
      /\ Len(delivered) \in Nat /\ DOMAIN delivered = 1 .. Len(delivered) /\ DOMAIN delivered' = 1 .. (Len(delivered) + 1)
      /\ \A j \in 1 .. Len(delivered) : delivered'[j] = delivered[j]
      /\ delivered'[Len(delivered) + 1] = {n}
  BY <1>1, <1>2, AppendIs
<1>7. ASSUME NEW m PROVE Read(m)' <=> Read(m) \/ m = n
  <2>1. ASSUME Read(m) PROVE Read(m)'
    <3>1. PICK j \in 1 .. Len(delivered) : delivered[j] = {m}
      BY <1>6, <2>1 DEF Read
    <3>2. j \in DOMAIN delivered' /\ delivered'[j] = {m}
      BY <1>6, <3>1
    <3> QED  BY <3>2 DEF Read
  <2>2. ASSUME m = n PROVE Read(m)'
    <3>1. Len(delivered) + 1 \in DOMAIN delivered'
      BY <1>6
    <3> QED  BY <1>6, <2>2, <3>1 DEF Read
  <2>3. ASSUME Read(m)', m # n PROVE Read(m)
    <3>1. PICK j \in DOMAIN delivered' : delivered'[j] = {m}
      BY <2>3 DEF Read
    <3>2. j # Len(delivered) + 1
      <4> SUFFICES ASSUME j = Len(delivered) + 1 PROVE FALSE
        OBVIOUS
      <4>1. {m} = {n}
        BY <1>6, <3>1
      <4> QED  BY <2>3, <4>1, Zenon
    <3>3. j \in 1 .. Len(delivered)
      BY <1>6, <3>1, <3>2
    <3> QED  BY <1>6, <3>1, <3>3 DEF Read
  <2> QED  BY <2>1, <2>2, <2>3
\* Where an element of ready' was.
<1>8. ASSUME NEW j \in DOMAIN ready'
      PROVE  \E k \in DOMAIN ready : k # i /\ ready'[j] = ready[k] /\ k = IF j < i THEN j ELSE j + 1
  <2>1. CASE j < i
    <3>1. j \in DOMAIN ready /\ ready'[j] = ready[j] /\ j # i
      BY <1>2, <1>3, <1>4, <2>1
    <3> QED  BY <2>1, <3>1
  <2>2. CASE ~ (j < i)
    <3>1. j + 1 \in DOMAIN ready /\ ready'[j] = ready[j + 1] /\ j + 1 # i
      BY <1>2, <1>3, <1>4, <2>2
    <3> QED  BY <2>2, <3>1
  <2> QED  BY <2>1, <2>2
<1>9. ASSUME NEW m PROVE Ready(m)' <=> Ready(m) /\ m # n
  <2>1. ASSUME Ready(m)' PROVE Ready(m) /\ m # n
    <3>1. PICK j \in DOMAIN ready' : ready'[j].origin = {m}
      BY <2>1 DEF Ready
    <3>2. PICK k \in DOMAIN ready : k # i /\ ready'[j] = ready[k]
      BY <1>8, <3>1
    <3>3. ready[k].origin = {m} /\ i \in DOMAIN ready
      BY <1>2, <1>4, <3>1, <3>2
    <3>4. m # n
      BY <1>2, <3>2, <3>3
    <3> QED  BY <3>2, <3>3, <3>4 DEF Ready
  <2>2. ASSUME Ready(m), m # n PROVE Ready(m)'
    <3>1. PICK k \in DOMAIN ready : ready[k].origin = {m}
      BY <2>2 DEF Ready
    <3>2. k # i
      <4> SUFFICES ASSUME k = i PROVE FALSE
        OBVIOUS
      <4>1. {m} = {n}
        BY <1>2, <3>1
      <4> QED  BY <2>2, <4>1, Zenon
    <3>3. CASE k < i
      <4>1. k \in DOMAIN ready' /\ ready'[k] = ready[k]
        BY <1>2, <1>3, <1>4, <3>1, <3>3
      <4> QED  BY <3>1, <4>1 DEF Ready
    <3>4. CASE ~ (k < i)
      <4>1. k - 1 \in DOMAIN ready' /\ ~ (k - 1 < i) /\ k - 1 + 1 = k
        BY <1>2, <1>4, <3>1, <3>2, <3>4
      <4>2. ready'[k - 1] = ready[k]
        BY <1>3, <1>4, <4>1
      <4> QED  BY <3>1, <4>1, <4>2 DEF Ready
    <3> QED  BY <3>3, <3>4
  <2> QED  BY <2>1, <2>2
<1>10. \A m : Done(m)' <=> Done(m)
  BY <1>5, <1>7, <1>9 DEF Done
<1>11. ASSUME NEW j \in DOMAIN ready', NEW k \in DOMAIN ready', ready'[j].origin = ready'[k].origin PROVE j = k
  <2>1. PICK p \in DOMAIN ready : ready'[j] = ready[p] /\ p = IF j < i THEN j ELSE j + 1
    BY <1>8
  <2>2. PICK q \in DOMAIN ready : ready'[k] = ready[q] /\ q = IF k < i THEN k ELSE k + 1
    BY <1>8
  <2>3. p = q
    BY <1>11, <2>1, <2>2
  <2> QED  BY <1>2, <1>4, <2>1, <2>2, <2>3
<1> QED  BY <1>3, <1>5, <1>6, <1>7, <1>9, <1>10, <1>11 DEF R, D

LEMMA TailRemoves ==
    ASSUME NEW S, NEW s \in Seq(S), s # <<>>
    PROVE  /\ Len(s) \in Nat /\ 1 \in 1 .. Len(s) /\ Head(s) = s[1]
           /\ Tail(s) = RemoveAt(s, 1)
<1>1. Len(s) \in Nat /\ 1 \in 1 .. Len(s) /\ Head(s) = s[1]
  OBVIOUS
<1>2. /\ Tail(s) \in Seq(S) /\ Len(Tail(s)) = Len(s) - 1
      /\ \A j \in 1 .. (Len(s) - 1) : Tail(s)[j] = s[j + 1]
  OBVIOUS
<1>3. /\ RemoveAt(s, 1) \in Seq(S) /\ Len(RemoveAt(s, 1)) = Len(s) - 1
      /\ \A j \in 1 .. (Len(s) - 1) : RemoveAt(s, 1)[j] = IF j < 1 THEN s[j] ELSE s[j + 1]
  BY <1>1, RemoveAtIs
<1>4. \A j \in 1 .. Len(Tail(s)) : Tail(s)[j] = RemoveAt(s, 1)[j]
  BY <1>1, <1>2, <1>3
<1>5. Len(Tail(s)) = Len(RemoveAt(s, 1))
  BY <1>2, <1>3
<1>6. Tail(s) = RemoveAt(s, 1)
  BY <1>2, <1>3, <1>4, <1>5, SeqEqual
<1> QED  BY <1>1, <1>6

\* A position y that leaves as much obsolete as x does, after a message was read.
LEMMA ReadingInv ==
    ASSUME ChannelInv, NEW x \in 0 .. sent, HeldAt(x), KeptAt(x), NEW y \in 0 .. sent, At(y)',
           \A m \in 0 .. (sent - 1) : Obsolete(m, x) => Obsolete(m, y),
           \A m : Done(m)' <=> Done(m), \A m : Read(m) => Read(m)',
           ready' \in Seq({[id |-> Wrap(m), origin |-> {m}] : m \in 0 .. (sent - 1)}),
           delivered' \in Seq({{m} : m \in 0 .. (sent - 1)}),
           pending' \in WireId, received' \subseteq WireId,
           UNCHANGED <<channel, sender, wire, acks, newestSeen, newestCompleted, partial, sent>>
    PROVE  ChannelInv'
<1>1. /\ channel' = channel /\ nextId' = nextId /\ unacked' = unacked /\ lastSent' = lastSent
      /\ wire' = wire /\ acks' = acks /\ newestSeen' = newestSeen /\ newestCompleted' = newestCompleted
      /\ partial' = partial /\ sent' = sent
  BY DEF sender
<1>2. Mode' = Mode /\ FragmentCounts' = FragmentCounts /\ MaxMessages' = MaxMessages
  BY <1>1 DEF Mode, FragmentCounts, MaxMessages
<1>3. Known' = Known
  BY <1>1 DEF Known
<1>4. ready' \in Seq({[id |-> Wrap(m), origin |-> {m}] : m \in 0 .. (sent' - 1)})
  BY <1>1
<1>5. delivered' \in Seq({{m} : m \in 0 .. (sent' - 1)})
  BY <1>1
<1>6. Numbered'
  BY <1>1, <1>2, <1>3, <1>4, <1>5 DEF ChannelInv, Numbered
<1>7. Outstanding'
  BY <1>1, <1>2 DEF ChannelInv, Outstanding
<1>8. \A m : Obsolete(m, y)' <=> Obsolete(m, y)
  BY <1>2 DEF Obsolete
<1>9. \A u \in acks : u.seq \in 0 .. (sent - 1)
  BY NumberedFacts DEF ChannelInv, Known
<1>10. HeldAt(y)'
  BY <1>1, <1>8, <1>9 DEF HeldAt
<1>11. KeptAt(y)'
  BY <1>1, <1>2, <1>8 DEF KeptAt
<1> QED  BY <1>1, <1>6, <1>7, <1>10, <1>11 DEF ChannelInv

\* What is read next on an ordered channel is the message at the position.
LEMMA ReadOrderedInv ==
    ASSUME ChannelWindow, ChannelInv, ReadOrdered,
           UNCHANGED <<channel, sender, wire, acks, newestSeen, newestCompleted, partial, sent>>
    PROVE  ChannelInv' /\ delivered' = Append(delivered, {Len(delivered)}) /\ Len(delivered) \in 0 .. (sent - 1)
<1>1. /\ channel' = channel /\ sent' = sent /\ partial' = partial
      /\ Mode = "OrderedReliable" /\ pending' = NextId(pending) /\ received' = received
  BY DEF ReadOrdered
<1>2. PICK i \in DOMAIN ready : /\ ready[i].id = pending
                                /\ delivered' = Append(delivered, ready[i].origin)
                                /\ ready' = RemoveAt(ready, i)
  BY DEF ReadOrdered
<1>3. Numbered /\ Outstanding
  BY DEF ChannelInv
<1>4. PICK x \in 0 .. sent : At(x) /\ HeldAt(x) /\ KeptAt(x)
  BY DEF ChannelInv
<1>5. StreamAt(x)
  BY <1>1, <1>4 DEF At
<1>6. /\ pending = Wrap(x) /\ ~ Read(x)
      /\ \A m \in 0 .. (x - 1) : Done(m)
      /\ \A f \in partial : ~ Done(f.seq)
      /\ \A j, k \in DOMAIN ready : ready[j].origin = ready[k].origin => j = k
      /\ \A m \in 0 .. (sent - 1) : ~ (Read(m) /\ Ready(m))
      /\ Len(delivered) = x /\ \A j \in 1 .. x : delivered[j] = {j - 1}
  BY <1>1, <1>5 DEF StreamAt
<1>7. PICK n \in 0 .. (sent - 1) : ready[i] = [id |-> Wrap(n), origin |-> {n}]
  BY <1>3, NumberedFacts
<1>8. ready[i].id = Wrap(n) /\ ready[i].origin = {n}
  BY <1>7
<1>9. sent \in Nat /\ x \in Nat
  BY <1>3, NumberedFacts
<1>10. DOMAIN delivered = 1 .. x /\ DOMAIN ready = 1 .. Len(ready)
  BY <1>3, <1>6 DEF Numbered
<1>11. ASSUME NEW m \in 0 .. (x - 1) PROVE Read(m)
  <2>1. m + 1 \in 1 .. x /\ m + 1 - 1 = m
    BY <1>9
  <2>2. delivered[m + 1] = {m + 1 - 1} /\ m + 1 \in DOMAIN delivered
    BY <1>6, <1>10, <2>1
  <2> QED  BY <2>1, <2>2 DEF Read
<1>12. n = x
  <2>1. Ready(n)
    BY <1>8 DEF Ready
  <2>2. n >= x
    BY <1>6, <1>9, <1>11, <2>1
  <2>3. n \in x .. sent /\ x \in x .. sent
    BY <1>9, <2>2
  <2>4. Wrap(n) = Wrap(x)
    BY <1>2, <1>6, <1>8
  <2> QED  BY <1>3, <1>4, <2>3, <2>4, Span
<1>13. ReadsAt(x, i) /\ x \in 0 .. (sent - 1)
  BY <1>2, <1>8, <1>10, <1>12 DEF ReadsAt
<1>14. /\ \A m : Read(m)' <=> Read(m) \/ m = x
       /\ \A m : Ready(m)' <=> Ready(m) /\ m # x
       /\ \A m : Done(m)' <=> Done(m)
       /\ \A j, k \in DOMAIN ready' : ready'[j].origin = ready'[k].origin => j = k
       /\ ready' \in Seq({[id |-> Wrap(m), origin |-> {m}] : m \in 0 .. (sent - 1)})
       /\ delivered' \in Seq({{m} : m \in 0 .. (sent - 1)})
  BY <1>3, <1>6, <1>13, ReadingMoves
<1>15. delivered' = Append(delivered, {x})
  BY <1>13 DEF ReadsAt
<1> DEFINE D == {{m} : m \in 0 .. (sent - 1)}
<1>16. Len(delivered') = x + 1 /\ \A j \in 1 .. (x + 1) : delivered'[j] = {j - 1}
  <2>1. delivered \in Seq(D) /\ {x} \in D
    BY <1>3, <1>13 DEF Numbered
  <2> HIDE DEF D
  <2>2. /\ Len(delivered') = x + 1
        /\ \A j \in 1 .. x : delivered'[j] = delivered[j]
        /\ delivered'[x + 1] = {x}
    BY <1>6, <1>15, <2>1, AppendIs
  <2>3. ASSUME NEW j \in 1 .. (x + 1) PROVE delivered'[j] = {j - 1}
    <3>1. CASE j \in 1 .. x
      BY <1>6, <2>2, <3>1
    <3>2. CASE j = x + 1
      <4>1. j - 1 = x
        BY <1>9, <3>2
      <4> QED  BY <2>2, <3>2, <4>1
    <3>3. j \in 1 .. x \/ j = x + 1
      BY <1>9
    <3> QED  BY <3>1, <3>2, <3>3
  <2> QED  BY <2>2, <2>3
<1>17. PICK z \in 0 .. sent : z = x + 1
  BY <1>9, <1>13
<1>18. StreamAt(z)'
  <2>1. pending' = Wrap(z)
    BY <1>1, <1>6, <1>9, <1>17, NextIdWrap
  <2>2. ~ Read(z)
    <3> SUFFICES ASSUME NEW j \in 1 .. x, delivered[j] = {z} PROVE FALSE
      BY <1>10 DEF Read
    <3>1. {j - 1} = {z}
      BY <1>6
    <3>2. j - 1 = z
      BY <3>1, Zenon
    <3> QED  BY <1>9, <1>17, <3>2
  <2>3. ~ Read(z)'
    BY <1>9, <1>14, <1>17, <2>2
  <2>4. \A m \in 0 .. (z - 1) : Done(m)'
    <3>1. \A m \in 0 .. (z - 1) : m \in 0 .. (x - 1) \/ m = x
      BY <1>9, <1>17
    <3>2. Read(x)'
      BY <1>14
    <3> QED  BY <1>6, <1>14, <3>1, <3>2 DEF Done
  <2>5. \A m \in 0 .. (sent' - 1) : ~ (Read(m)' /\ Ready(m)')
    BY <1>1, <1>6, <1>14
  <2>6. \A f \in partial' : ~ Done(f.seq)'
    BY <1>1, <1>6, <1>14
  <2>7. Mode' = "OrderedReliable"
    BY <1>1 DEF Mode
  <2>8. Len(delivered') = z /\ \A j \in 1 .. z : delivered'[j] = {j - 1}
    BY <1>16, <1>17
  <2> QED  BY <1>14, <2>1, <2>3, <2>4, <2>5, <2>6, <2>7, <2>8 DEF StreamAt
<1>19. At(z)'
  <2>1. Mode' = "OrderedReliable"
    BY <1>1 DEF Mode
  <2> QED  BY <1>18, <2>1 DEF At
<1>20. pending' \in WireId /\ received' \subseteq WireId
  <2>1. NextId(Wrap(x)) = Wrap(x + 1) /\ Wrap(x + 1) \in WireId
    BY <1>9, NextIdWrap, Constants
  <2> QED  BY <1>1, <1>3, <1>6, <2>1 DEF Numbered
<1>21. \A m : ~ Obsolete(m, x)
  BY <1>1 DEF Obsolete
<1>22. ChannelInv'
  BY <1>4, <1>14, <1>17, <1>19, <1>20, <1>21, ReadingInv
<1> QED  BY <1>6, <1>13, <1>15, <1>22

\* The identifiers received from the position on, without a gap.
LEMMA RunIs ==
    ASSUME ChannelWindow, Numbered, Outstanding, Mode = "UnorderedReliable",
           NEW x \in 0 .. sent, StreamAt(x), KeptAt(x)
    PROVE  /\ Run \in 0 .. (sent - x)
           /\ \A j \in 0 .. (Run - 1) : Done(x + j) /\ Wrap(pending + j) = Wrap(x + j)
           /\ Wrap(pending + Run) = Wrap(x + Run)
           /\ ~ Done(x + Run)
<1>1. At(x)
  BY DEF At
<1>2. /\ sent \in Nat /\ sent - x <= MaxDiff + 1
      /\ \A m, n \in x .. sent : Wrap(m) = Wrap(n) => m = n
  BY <1>1, Span
<1>3. /\ pending = Wrap(x) /\ x \in Nat /\ IdModulus \in Nat
      /\ received = {Wrap(m) : m \in {n \in x .. (sent - 1) : Done(n)}}
  BY <1>2, Constants DEF StreamAt
<1>4. ASSUME NEW j \in Int PROVE Wrap(pending + j) = Wrap(x + j)
  <2>1. (Wrap(x) + j) % IdModulus = Wrap(x + j)
    BY <1>3, WrapAdd
  <2>2. Wrap(pending + j) = (pending + j) % IdModulus
    BY DEF Wrap
  <2> QED  BY <1>3, <2>1, <2>2
\* An identifier within the window is received if its message was completed.
<1>5. ASSUME NEW m \in x .. sent PROVE Wrap(m) \in received <=> m \in x .. (sent - 1) /\ Done(m)
  <2>1. ASSUME Wrap(m) \in received PROVE m \in x .. (sent - 1) /\ Done(m)
    <3>1. PICK n \in x .. (sent - 1) : Done(n) /\ Wrap(n) = Wrap(m)
      BY <1>3, <2>1
    <3>2. n \in x .. sent
      BY <1>2
    <3>3. n = m
      BY <1>2, <3>1, <3>2
    <3> QED  BY <3>1, <3>3
  <2> QED  BY <1>3, <2>1
<1> DEFINE S == {k \in 0 .. IdModulus : Wrap(pending + k) \notin received \/ k = IdModulus}
<1>6. S \subseteq Nat /\ IdModulus \in S
  BY <1>3
<1>7. PICK o \in S : \A k \in S : o <= k
  BY <1>6, LeastOf
<1>8. \A j \in 0 .. (o - 1) : Wrap(pending + j) \in received
  <2> SUFFICES ASSUME NEW j \in 0 .. (o - 1), Wrap(pending + j) \notin received PROVE FALSE
    OBVIOUS
  <2>1. j \in 0 .. IdModulus /\ j < o
    BY <1>3, <1>7
  <2>2. j \in S
    BY <2>1
  <2> QED  BY <1>3, <1>7, <2>1, <2>2
<1> DEFINE P(n) == /\ Wrap(pending + n) \notin received \/ n = IdModulus
                   /\ \A j \in 0 .. (n - 1) : Wrap(pending + j) \in received
<1>9. o \in 0 .. IdModulus /\ P(o)
  BY <1>7, <1>8
<1>10. Run = CHOOSE n \in 0 .. IdModulus : P(n)
  BY DEF Run
<1> HIDE DEF P, S
<1>11. Run \in 0 .. IdModulus /\ P(Run)
  BY <1>9, <1>10
<1> DEFINE r == Run
<1>12. /\ r \in 0 .. IdModulus
       /\ Wrap(pending + r) \notin received \/ r = IdModulus
       /\ \A j \in 0 .. (r - 1) : Wrap(pending + j) \in received
  BY <1>11 DEF P
<1> HIDE DEF r
<1>13. r <= sent - x
  <2> SUFFICES ASSUME r > sent - x PROVE FALSE
    BY <1>2, <1>3, <1>12
  <2>1. sent - x \in 0 .. (r - 1) /\ sent - x \in Int /\ x + (sent - x) = sent /\ sent \in x .. sent
    BY <1>2, <1>3, <1>12
  <2>2. Wrap(sent) \in received
    BY <1>4, <1>12, <2>1
  <2> QED  BY <1>2, <1>5, <2>1, <2>2
<1>14. r \in 0 .. (sent - x) /\ r # IdModulus
  BY <1>2, <1>3, <1>12, <1>13, Constants
<1>15. ASSUME NEW j \in 0 .. (r - 1) PROVE Done(x + j) /\ Wrap(pending + j) = Wrap(x + j)
  <2>1. j \in Int /\ x + j \in x .. sent
    BY <1>2, <1>3, <1>14
  <2> QED  BY <1>4, <1>5, <1>12, <2>1
<1>16. Wrap(pending + r) = Wrap(x + r)
  BY <1>4, <1>14
<1>17. ~ Done(x + r)
  <2>1. x + r \in x .. sent
    BY <1>2, <1>3, <1>14
  <2>2. CASE x + r = sent
    <3>1. /\ \A i \in DOMAIN ready : \E m \in 0 .. (sent - 1) : ready[i] = [id |-> Wrap(m), origin |-> {m}]
          /\ \A i \in DOMAIN delivered : \E m \in 0 .. (sent - 1) : delivered[i] = {m}
      BY NumberedFacts
    <3> QED  BY <1>2, <2>2, <3>1 DEF Done, Read, Ready
  <2>3. CASE x + r # sent
    <3>1. x + r \in x .. (sent - 1)
      BY <1>2, <1>3, <2>1, <2>3
    <3>2. Wrap(x + r) \notin received
      BY <1>12, <1>14, <1>16
    <3> QED  BY <1>5, <2>1, <3>1, <3>2
  <2> QED  BY <2>2, <2>3
<1> QED  BY <1>14, <1>15, <1>16, <1>17 DEF r

\* An unordered channel reads what was completed first, and steps over what was.
LEMMA ReadUnorderedInv ==
    ASSUME ChannelWindow, ChannelInv, ReadUnordered,
           UNCHANGED <<channel, sender, wire, acks, newestSeen, newestCompleted, partial, sent>>
    PROVE  ChannelInv' /\ \E n \in 0 .. (sent - 1) : delivered' = Append(delivered, {n}) /\ ~ Read(n)
<1>1. /\ channel' = channel /\ sent' = sent /\ partial' = partial
      /\ Mode = "UnorderedReliable" /\ ready # <<>>
      /\ delivered' = Append(delivered, Head(ready).origin)
      /\ ready' = Tail(ready)
  BY DEF ReadUnordered
<1>2. Numbered /\ Outstanding
  BY DEF ChannelInv
<1>3. PICK x \in 0 .. sent : At(x) /\ HeldAt(x) /\ KeptAt(x)
  BY DEF ChannelInv
<1>4. StreamAt(x)
  BY <1>1, <1>3 DEF At
<1>5. /\ pending = Wrap(x) /\ ~ Read(x)
      /\ \A m \in 0 .. (x - 1) : Done(m)
      /\ \A f \in partial : ~ Done(f.seq)
      /\ \A j, k \in DOMAIN ready : ready[j].origin = ready[k].origin => j = k
      /\ \A m \in 0 .. (sent - 1) : ~ (Read(m) /\ Ready(m))
      /\ received = {Wrap(m) : m \in {n \in x .. (sent - 1) : Done(n)}}
  BY <1>1, <1>4 DEF StreamAt
<1>6. /\ sent \in Nat /\ sent - x <= MaxDiff + 1
      /\ \A m, n \in x .. sent : Wrap(m) = Wrap(n) => m = n
  BY <1>2, <1>3, Span
<1>7. 1 \in 1 .. Len(ready) /\ DOMAIN ready = 1 .. Len(ready) /\ Head(ready) = ready[1] /\ ready' = RemoveAt(ready, 1)
  <2> DEFINE R == {[id |-> Wrap(m), origin |-> {m}] : m \in 0 .. (sent - 1)}
  <2>1. ready \in Seq(R)
    BY <1>2 DEF Numbered
  <2> HIDE DEF R
  <2>2. /\ Len(ready) \in Nat /\ 1 \in 1 .. Len(ready) /\ Head(ready) = ready[1]
        /\ Tail(ready) = RemoveAt(ready, 1)
    BY <1>1, <2>1, TailRemoves
  <2>3. DOMAIN ready = 1 .. Len(ready)
    BY <2>1
  <2> QED  BY <1>1, <2>2, <2>3
<1>8. PICK n \in 0 .. (sent - 1) : ready[1] = [id |-> Wrap(n), origin |-> {n}]
  BY <1>2, <1>7, NumberedFacts
<1>9. ReadsAt(n, 1) /\ Head(ready).id = Wrap(n)
  BY <1>1, <1>7, <1>8 DEF ReadsAt
<1>10. /\ Ready(n)
       /\ \A m : Read(m)' <=> Read(m) \/ m = n
       /\ \A m : Ready(m)' <=> Ready(m) /\ m # n
       /\ \A m : Done(m)' <=> Done(m)
       /\ \A j, k \in DOMAIN ready' : ready'[j].origin = ready'[k].origin => j = k
       /\ ready' \in Seq({[id |-> Wrap(m), origin |-> {m}] : m \in 0 .. (sent - 1)})
       /\ delivered' \in Seq({{m} : m \in 0 .. (sent - 1)})
  BY <1>2, <1>5, <1>9, ReadingMoves
<1>11. ~ Read(n) /\ delivered' = Append(delivered, {n})
  BY <1>5, <1>9, <1>10 DEF ReadsAt
<1>12. Mode' = "UnorderedReliable" /\ \A m, z : ~ Obsolete(m, z)
  BY <1>1 DEF Mode, Obsolete
\* A position with these books is the position after the step.
<1>13. ASSUME NEW z \in 0 .. sent, pending' = Wrap(z), ~ Read(z)', \A m \in 0 .. (z - 1) : Done(m),
              received' = {Wrap(m) : m \in {k \in z .. (sent - 1) : Done(k)}}
       PROVE  ChannelInv'
  <2>1. \A m \in 0 .. (sent' - 1) : ~ (Read(m)' /\ Ready(m)')
    BY <1>1, <1>5, <1>10
  <2>2. received' = {Wrap(m) : m \in {k \in z .. (sent' - 1) : Done(k)'}}
    BY <1>1, <1>10, <1>13
  <2>3. (\A m \in 0 .. (z - 1) : Done(m)') /\ \A f \in partial' : ~ Done(f.seq)'
    BY <1>1, <1>5, <1>10, <1>13
  <2>4. StreamAt(z)'
    BY <1>10, <1>12, <1>13, <2>1, <2>2, <2>3 DEF StreamAt
  <2>5. At(z)'
    BY <1>12, <2>4 DEF At
  <2>6. pending' \in WireId /\ received' \subseteq WireId
    BY <1>6, <1>13, Constants
  <2> QED  BY <1>3, <1>10, <1>12, <2>5, <2>6, ReadingInv
<1>14. CASE Wrap(n) # pending
  <2>1. pending' = pending /\ received' = received
    BY <1>9, <1>14 DEF ReadUnordered
  <2>2. ~ Read(x)'
    BY <1>5, <1>10, <1>14
  <2> QED  BY <1>5, <1>11, <1>13, <2>1, <2>2
<1>15. CASE Wrap(n) = pending
  <2>1. /\ pending' = Wrap(pending + Run)
        /\ received' = received \ {Wrap(pending + j) : j \in 0 .. (Run - 1)}
    BY <1>9, <1>15 DEF ReadUnordered
  <2>2. /\ Run \in 0 .. (sent - x)
        /\ \A j \in 0 .. (Run - 1) : Done(x + j) /\ Wrap(pending + j) = Wrap(x + j)
        /\ Wrap(pending + Run) = Wrap(x + Run)
        /\ ~ Done(x + Run)
    BY <1>1, <1>2, <1>3, <1>4, RunIs
  <2>3. PICK z \in 0 .. sent : z = x + Run
    BY <1>6, <2>2
  <2>4. pending' = Wrap(z) /\ ~ Read(z)'
    <3>1. pending' = Wrap(z) /\ ~ Done(z)
      BY <2>1, <2>2, <2>3
    <3>2. ~ Done(z)'
      BY <1>10, <3>1
    <3> QED  BY <3>1, <3>2 DEF Done
  <2>5. ASSUME NEW m \in 0 .. (z - 1) PROVE Done(m)
    <3>1. CASE m < x
      BY <1>5, <1>6, <2>3, <3>1
    <3>2. CASE m >= x
      <4>1. m - x \in 0 .. (Run - 1) /\ x + (m - x) = m
        BY <1>6, <2>2, <2>3, <3>2
      <4> QED  BY <2>2, <4>1
    <3> QED  BY <1>6, <2>2, <2>3, <3>1, <3>2
  <2>6. received' = {Wrap(m) : m \in {k \in z .. (sent - 1) : Done(k)}}
    <3>1. ASSUME NEW id \in received' PROVE id \in {Wrap(m) : m \in {k \in z .. (sent - 1) : Done(k)}}
      <4>1. PICK m \in x .. (sent - 1) : Done(m) /\ id = Wrap(m)
        BY <1>5, <2>1, <3>1
      <4>2. m >= z
        <5> SUFFICES ASSUME m < z PROVE FALSE
          BY <1>6, <2>2, <2>3
        <5>1. m - x \in 0 .. (Run - 1) /\ x + (m - x) = m
          BY <1>6, <2>2, <2>3
        <5>2. Wrap(pending + (m - x)) = Wrap(m)
          BY <2>2, <5>1
        <5> QED  BY <2>1, <3>1, <4>1, <5>1, <5>2
      <4>3. m \in z .. (sent - 1)
        BY <1>6, <2>2, <2>3, <4>2
      <4> QED  BY <4>1, <4>3
    <3>2. ASSUME NEW m \in z .. (sent - 1), Done(m) PROVE Wrap(m) \in received'
      <4>1. m \in x .. (sent - 1) /\ m \in x .. sent
        BY <1>6, <2>2, <2>3
      <4>2. Wrap(m) \in received
        BY <1>5, <3>2, <4>1
      <4>3. ASSUME NEW j \in 0 .. (Run - 1) PROVE Wrap(m) # Wrap(pending + j)
        <5>1. x + j \in x .. sent /\ x + j # m
          BY <1>6, <2>2, <2>3
        <5> QED  BY <1>6, <2>2, <4>1, <5>1
      <4> QED  BY <2>1, <4>2, <4>3
    <3> QED  BY <3>1, <3>2
  <2>7. ChannelInv'
    BY <1>13, <2>3, <2>4, <2>5, <2>6
  <2> QED  BY <1>11, <2>7
<1> QED  BY <1>14, <1>15

\* A sequenced channel reads the one message that is ready, newer than what was read.
LEMMA ReadSequencedInv ==
    ASSUME ChannelInv, ReadSequenced,
           UNCHANGED <<channel, sender, wire, acks, newestSeen, newestCompleted, partial, sent>>
    PROVE  /\ ChannelInv'
           /\ \E n \in 0 .. (sent - 1) : delivered' = Append(delivered, {n}) /\ \A m \in Int : Read(m) => m < n
<1>1. /\ channel' = channel /\ sent' = sent /\ partial' = partial
      /\ newestSeen' = newestSeen /\ newestCompleted' = newestCompleted
      /\ Mode = "SequencedReliable" /\ ready # <<>> /\ pending' = pending /\ received' = received
      /\ delivered' = Append(delivered, Head(ready).origin) /\ ready' = <<>>
  BY DEF ReadSequenced
<1>2. Numbered
  BY DEF ChannelInv
<1>3. PICK x \in 0 .. sent : At(x) /\ HeldAt(x) /\ KeptAt(x)
  BY DEF ChannelInv
<1>4. PICK y \in 0 .. sent : SequencedAt(x, y)
  BY <1>1, <1>3 DEF At
<1>5. /\ newestSeen = IF x = 0 THEN NoMessage ELSE Wrap(x - 1)
      /\ newestCompleted = IF y = 0 THEN NoMessage ELSE Wrap(y - 1)
      /\ y <= x
      /\ y = x /\ y # 0 => Done(y - 1)
      /\ FragmentCounts \subseteq {1} => y = x
      /\ \A f \in partial : f.seq < x
      /\ \A i \in DOMAIN delivered : \A m \in delivered[i] : m < y /\ (ready # <<>> => m < y - 1)
      /\ Len(ready) <= 1
      /\ \A i \in DOMAIN ready : ready[i].origin = {y - 1}
  BY <1>4 DEF SequencedAt
<1>6. /\ 1 \in 1 .. Len(ready) /\ DOMAIN ready = {1} /\ Head(ready) = ready[1]
      /\ ready' = RemoveAt(ready, 1)
  <2> DEFINE R == {[id |-> Wrap(m), origin |-> {m}] : m \in 0 .. (sent - 1)}
  <2>1. ready \in Seq(R)
    BY <1>2 DEF Numbered
  <2> HIDE DEF R
  <2>2. /\ Len(ready) \in Nat /\ 1 \in 1 .. Len(ready) /\ Head(ready) = ready[1]
        /\ Tail(ready) = RemoveAt(ready, 1)
    BY <1>1, <2>1, TailRemoves
  <2>3. DOMAIN ready = 1 .. Len(ready) /\ Len(ready) = 1
    <3>1. DOMAIN ready = 1 .. Len(ready)
      BY <2>1
    <3>2. Len(ready) <= 1
      BY <1>5, Zenon
    <3>3. Len(ready) \in Nat /\ Len(ready) >= 1
      BY <2>2
    <3>4. \A k \in Nat : k <= 1 /\ k >= 1 => k = 1
      OBVIOUS
    <3>5. Len(ready) = 1
      BY <3>2, <3>3, <3>4, Zenon
    <3> QED  BY <3>1, <3>5
  <2>4. Tail(ready) \in Seq(R) /\ Len(Tail(ready)) = 0
    <3>1. Tail(ready) \in Seq(R) /\ Len(Tail(ready)) = Len(ready) - 1
      BY <1>1, <2>1, HeadTailProperties
    <3> QED  BY <2>3, <3>1
  <2>5. Tail(ready) = <<>>
    BY <2>4, EmptySeq
  <2> QED  BY <1>1, <2>2, <2>3, <2>5
<1>7. PICK n \in 0 .. (sent - 1) : ready[1] = [id |-> Wrap(n), origin |-> {n}]
  BY <1>2, <1>6, NumberedFacts
<1>8. ReadsAt(n, 1) /\ n = y - 1 /\ delivered' = Append(delivered, {n})
  <2>1. {n} = {y - 1}
    BY <1>5, <1>6, <1>7
  <2>2. n = y - 1
    BY <2>1, Zenon
  <2> QED  BY <1>1, <1>6, <1>7, <2>2 DEF ReadsAt
<1>9. /\ \A m : Read(m)' <=> Read(m) \/ m = n
      /\ \A m : Done(m)' <=> Done(m)
      /\ ready' \in Seq({[id |-> Wrap(m), origin |-> {m}] : m \in 0 .. (sent - 1)})
      /\ delivered' \in Seq({{m} : m \in 0 .. (sent - 1)})
  <2>1. \A j, k \in DOMAIN ready : ready[j].origin = ready[k].origin => j = k
    BY <1>6
  <2> QED  BY <1>2, <1>8, <2>1, ReadingMoves
<1>10. sent \in Nat /\ \A m : Read(m) => m < n
  <2>1. sent \in Nat
    BY <1>2, NumberedFacts
  <2>2. ASSUME NEW m, Read(m) PROVE m < n
    <3>1. PICK i \in DOMAIN delivered : delivered[i] = {m}
      BY <2>2 DEF Read
    <3>2. m < y - 1
      BY <1>1, <1>5, <3>1
    <3> QED  BY <1>8, <3>2
  <2> QED  BY <2>1, <2>2
<1>11. \A i \in DOMAIN delivered' : \A m \in delivered'[i] : m < y
  <2> DEFINE D == {{m} : m \in 0 .. (sent - 1)}
  <2>1. delivered' \in Seq(D)
    BY <1>9
  <2>2. \A d \in D : \E m \in 0 .. (sent - 1) : d = {m}
    OBVIOUS
  <2> HIDE DEF D
  <2> SUFFICES ASSUME NEW i \in DOMAIN delivered' PROVE \A m \in delivered'[i] : m < y
    OBVIOUS
  <2>3. delivered'[i] \in D
    BY <2>1
  <2>4. PICK m \in 0 .. (sent - 1) : delivered'[i] = {m}
    BY <2>2, <2>3
  <2>5. Read(m)'
    BY <2>4 DEF Read
  <2>6. m < n \/ m = n
    BY <1>9, <1>10, <2>5
  <2>7. m < y
    BY <1>8, <1>10, <2>6
  <2> QED  BY <2>4, <2>7
<1>12. Mode' = Mode /\ FragmentCounts' = FragmentCounts
  BY <1>1 DEF Mode, FragmentCounts
<1>13. Len(ready') <= 1 /\ DOMAIN ready' = {}
  BY <1>1
<1>14. SequencedAt(x, y)'
  BY <1>1, <1>5, <1>9, <1>11, <1>12, <1>13 DEF SequencedAt
<1>15. At(x)'
  BY <1>1, <1>12, <1>14 DEF At
<1>16. pending' \in WireId /\ received' \subseteq WireId
  BY <1>1, <1>2 DEF Numbered
<1>17. ChannelInv'
  BY <1>3, <1>9, <1>15, <1>16, ReadingInv
<1> QED  BY <1>8, <1>10, <1>17

-----------------------------------------------------------------------------
(* The invariant, and what it gives. *)

LEMMA ChannelInvInit == Init => ChannelInv
<1> SUFFICES ASSUME Init PROVE ChannelInv
  OBVIOUS
<1>1. /\ channel \in Channels /\ nextId = 0 /\ unacked = {} /\ lastSent = {} /\ wire = {} /\ acks = {}
      /\ pending = 0 /\ received = {} /\ ready = <<>> /\ newestSeen = NoMessage
      /\ newestCompleted = NoMessage /\ partial = {} /\ sent = 0 /\ delivered = <<>>
  BY DEF Init
<1>2. Wrap(0) = 0 /\ 0 \in WireId
  BY IdModulusAssumption DEF Wrap, WireId
<1>3. MaxMessages \in Nat
  BY <1>1, ChannelAssumption DEF MaxMessages
<1>4. Known = {}
  BY <1>1 DEF Known
<1>5. DOMAIN ready = {} /\ DOMAIN delivered = {} /\ Len(ready) = 0 /\ Len(delivered) = 0
  BY <1>1
<1>6. Numbered
  BY <1>1, <1>2, <1>3, <1>4 DEF Numbered
<1>7. 0 .. (sent - 1) = {}
  BY <1>1
<1>8. Outstanding
  BY <1>1, <1>7 DEF Outstanding
<1>9. \A m : ~ Read(m) /\ ~ Ready(m) /\ ~ Done(m)
  BY <1>5 DEF Read, Ready, Done
<1>10. StreamAt(0)
  <2>1. 0 .. (0 - 1) = {} /\ 1 .. 0 = {}
    OBVIOUS
  <2>2. {Wrap(m) : m \in {n \in 0 .. (sent - 1) : Done(n)}} = {}
    BY <1>7
  <2> QED  BY <1>1, <1>2, <1>5, <1>7, <1>9, <2>1, <2>2 DEF StreamAt
<1>11. SequencedAt(0, 0)
  BY <1>1, <1>5 DEF SequencedAt
<1>12. 0 \in 0 .. sent /\ At(0)
  BY <1>1, <1>10, <1>11 DEF At
<1>13. HeldAt(0) /\ KeptAt(0)
  BY <1>1, <1>7 DEF HeldAt, KeptAt
<1> QED  BY <1>6, <1>8, <1>12, <1>13 DEF ChannelInv

LEMMA ChannelInvNext ==
    ASSUME ChannelWindow, ChannelInv, [Next]_vars
    PROVE  ChannelInv'
<1>1. CASE BufferSend
  BY <1>1, BufferSendInv
<1>2. CASE \E u \in unacked : Transmit(u)
  BY <1>2, TransmitInv
<1>3. CASE \E u \in wire : Deliver(u)
  BY <1>3, DeliverInv
<1>4. CASE \E u \in acks : ReceiveAck(u)
  BY <1>4, ReceiveAckInv
<1>5. CASE ReadMessage
  BY <1>5, ReadOrderedInv, ReadUnorderedInv, ReadSequencedInv DEF ReadMessage
<1>6. CASE Lose
  BY <1>6, LoseInv
<1>7. CASE UNCHANGED vars
  <2>1. /\ UNCHANGED <<channel, receiver, sent, delivered, nextId>>
        /\ unacked' = unacked /\ lastSent' = lastSent /\ wire' = wire /\ acks' = acks
    BY <1>7 DEF vars, sender
  <2>2. lastSent \subseteq unacked
    BY DEF ChannelInv, Numbered
  <2> QED  BY <2>1, <2>2, LinkInv
<1> QED  BY <1>1, <1>2, <1>3, <1>4, <1>5, <1>6, <1>7 DEF Next

\* The inductive invariant: the receiver is at a position, and what it does not have
\* the sender still holds.
THEOREM ChannelInvAlways == ASSUME ChannelWindow PROVE Spec => []ChannelInv
<1>1. Init => ChannelInv
  BY ChannelInvInit
<1>2. ChannelInv /\ [Next]_vars => ChannelInv'
  BY ChannelInvNext
<1> QED  BY <1>1, <1>2, PTL DEF Spec

-----------------------------------------------------------------------------
(* What is handed over, what is kept, and what the mode promises. *)

\* Intact: fragments of different messages are never put together, although their
\* identifiers are reused.
THEOREM IntactAlways == ASSUME ChannelWindow PROVE Spec => []Intact
<1>1. ChannelInv => Intact
  <2>1. ASSUME ChannelInv, NEW i \in DOMAIN delivered PROVE Cardinality(delivered[i]) = 1
    <3>1. PICK m \in 0 .. (sent - 1) : delivered[i] = {m}
      BY <2>1, NumberedFacts DEF ChannelInv
    <3> QED  BY <3>1, FS_Singleton
  <2> QED  BY <2>1 DEF Intact
<1> QED  BY <1>1, ChannelInvAlways, PTL

LEMMA ChannelTypeOK == ASSUME ChannelInv PROVE TypeOK
<1>1. Numbered
  BY DEF ChannelInv
<1>2. /\ channel \in Channels /\ sent \in 0 .. MaxMessages /\ nextId = Wrap(sent) /\ lastSent \subseteq unacked
      /\ pending \in WireId /\ received \subseteq WireId
      /\ newestSeen \in WireId \cup {NoMessage} /\ newestCompleted \in WireId \cup {NoMessage}
  BY <1>1 DEF Numbered
<1>3. MaxMessages \in Nat /\ sent \in Nat /\ MaxMessages = channel.messages /\ FragmentCounts = channel.counts
  BY <1>1, NumberedFacts DEF MaxMessages, FragmentCounts
<1>4. nextId \in WireId
  BY <1>2, <1>3, Constants
<1>5. Known \subseteq Unit
  <2> SUFFICES ASSUME NEW u \in Known PROVE u \in Unit
    OBVIOUS
  <2>1. PICK m \in 0 .. (sent - 1), c \in FragmentCounts : \E k \in 1 .. c : u = Fragment(m, c, k)
    BY <1>1 DEF Numbered
  <2>2. m \in 0 .. (channel.messages - 1) /\ c \in channel.counts
    BY <1>2, <1>3, <2>1
  <2>3. u \in Units(Wrap(m), c, m)
    BY <2>1 DEF Fragment, Units
  <2> DEFINE P(ch) == {Units(Wrap(seq), count, seq) : seq \in 0 .. (ch.messages - 1), count \in ch.counts}
  <2>4. Units(Wrap(m), c, m) \in P(channel)
    BY <2>2
  <2>5. u \in UNION P(channel)
    BY <2>3, <2>4
  <2>6. Unit = UNION {UNION P(ch) : ch \in Channels}
    BY DEF Unit
  <2> HIDE DEF P
  <2> QED  BY <1>2, <2>5, <2>6
<1>6. \A i \in DOMAIN ready : ready[i].id \in WireId
  <2> SUFFICES ASSUME NEW i \in DOMAIN ready PROVE ready[i].id \in WireId
    OBVIOUS
  <2>1. PICK m \in 0 .. (sent - 1) : ready[i] = [id |-> Wrap(m), origin |-> {m}]
    BY <1>1, NumberedFacts
  <2>2. ready[i].id = Wrap(m) /\ m \in Int
    BY <2>1
  <2> QED  BY <2>2, Constants
<1>7. \A i \in DOMAIN delivered : delivered[i] \subseteq 0 .. (MaxMessages - 1)
  <2> SUFFICES ASSUME NEW i \in DOMAIN delivered PROVE delivered[i] \subseteq 0 .. (MaxMessages - 1)
    OBVIOUS
  <2>1. PICK m \in 0 .. (sent - 1) : delivered[i] = {m}
    BY <1>1, NumberedFacts
  <2>2. m \in 0 .. (MaxMessages - 1)
    BY <1>2, <1>3
  <2> QED  BY <2>1, <2>2
<1> QED  BY <1>2, <1>4, <1>5, <1>6, <1>7 DEF TypeOK, Known

\* BooksAgree: a message that the sender does not hold any more was read, is ready,
\* or was made obsolete on a sequenced channel.
THEOREM BooksAgreeAlways == ASSUME ChannelWindow PROVE Spec => []BooksAgree
<1>1. ChannelInv => NothingForgotten
  <2> SUFFICES ASSUME ChannelInv, NEW m \in 0 .. (sent - 1)
               PROVE  \/ \E u \in unacked : u.seq = m
                      \/ \E i \in DOMAIN delivered : m \in delivered[i]
                      \/ \E i \in DOMAIN ready : m \in ready[i].origin
                      \/ /\ Mode = "SequencedReliable"
                         /\ \E n \in (m + 1) .. (sent - 1) : Wrap(n) = newestSeen
    BY DEF NothingForgotten
  <2>1. PICK x \in 0 .. sent : At(x) /\ KeptAt(x)
    BY DEF ChannelInv
  <2>2. sent \in Nat
    BY NumberedFacts DEF ChannelInv
  <2>3. CASE Done(m)
    BY <2>3 DEF Done, Read, Ready
  <2>4. CASE Obsolete(m, x)
    <3>1. Mode = "SequencedReliable" /\ m + 1 < x
      BY <2>4 DEF Obsolete
    <3>2. PICK y \in 0 .. sent : SequencedAt(x, y)
      BY <2>1, <3>1 DEF At
    <3>3. newestSeen = IF x = 0 THEN NoMessage ELSE Wrap(x - 1)
      BY <3>2 DEF SequencedAt
    <3>4. x - 1 \in (m + 1) .. (sent - 1) /\ x # 0
      BY <2>2, <3>1
    <3> QED  BY <3>1, <3>3, <3>4
  <2>5. CASE ~ Done(m) /\ ~ Obsolete(m, x)
    <3>1. PICK c \in FragmentCounts : \E k \in 1 .. c : Fragment(m, c, k) \in unacked
      BY <2>1, <2>5 DEF KeptAt
    <3> QED  BY <3>1 DEF Fragment
  <2> QED  BY <2>3, <2>4, <2>5
<1>2. ChannelInv => TypeOK
  BY ChannelTypeOK
<1>3. ChannelInv => BooksAgree
  BY <1>1, <1>2 DEF BooksAgree
<1> QED  BY <1>3, ChannelInvAlways, PTL

\* The messages read, as the abstract channel counts them.
Mapped == [i \in DOMAIN delivered |-> Min(delivered[i])]

LEMMA MinOfOne == ASSUME NEW m \in Nat PROVE Min({m}) = m
BY DEF Min

\* Both count the same messages.
MappedWell ==
    /\ delivered \in Seq({{m} : m \in 0 .. (sent - 1)}) /\ Mapped \in Seq(Nat) /\ sent \in Nat
    /\ Len(delivered) \in Nat /\ DOMAIN delivered = 1 .. Len(delivered)
    /\ Len(Mapped) = Len(delivered) /\ DOMAIN Mapped = 1 .. Len(delivered)
    /\ \A i \in 1 .. Len(delivered) : delivered[i] = {Mapped[i]}

LEMMA MappedIs ==
    ASSUME Numbered
    PROVE  MappedWell
<1> DEFINE D == {{m} : m \in 0 .. (sent - 1)}
<1>1. delivered \in Seq(D)
  BY DEF Numbered
<1> HIDE DEF D
<1>2. Len(delivered) \in Nat /\ DOMAIN delivered = 1 .. Len(delivered)
  BY <1>1
<1>3. ASSUME NEW i \in 1 .. Len(delivered) PROVE delivered[i] = {Min(delivered[i])} /\ Min(delivered[i]) \in Nat
  <2>1. PICK m \in 0 .. (sent - 1) : delivered[i] = {m}
    BY <1>2, NumberedFacts
  <2>2. m \in Nat
    BY NumberedFacts
  <2>3. Min({m}) = m
    BY <2>2, MinOfOne
  <2> QED  BY <2>1, <2>2, <2>3
<1>4. Mapped \in [1 .. Len(delivered) -> Nat]
  BY <1>2, <1>3 DEF Mapped
<1>5. Mapped \in Seq(Nat)
  BY <1>2, <1>4, SeqDef
<1>6. DOMAIN Mapped = 1 .. Len(delivered) /\ Len(Mapped) = Len(delivered)
  <2>1. DOMAIN Mapped = 1 .. Len(delivered)
    BY <1>4
  <2>2. DOMAIN Mapped = 1 .. Len(Mapped) /\ Len(Mapped) \in Nat
    BY <1>5, LenProperties
  <2>3. \A a, b \in Nat : 1 .. a = 1 .. b => a = b
    OBVIOUS
  <2> QED  BY <1>2, <2>1, <2>2, <2>3, Zenon
<1>7. \A i \in 1 .. Len(delivered) : delivered[i] = {Mapped[i]}
  BY <1>2, <1>3 DEF Mapped
<1>8. sent \in Nat
  BY NumberedFacts
<1> QED  BY <1>1, <1>2, <1>5, <1>6, <1>7, <1>8 DEF D, MappedWell

LEMMA MappedGrows ==
    ASSUME MappedWell, MappedWell', NEW n \in Nat, delivered' = Append(delivered, {n})
    PROVE  Mapped' = Append(Mapped, n)
<1>1. /\ Mapped \in Seq(Nat) /\ Len(delivered) \in Nat
      /\ Len(Mapped) = Len(delivered) /\ \A i \in 1 .. Len(delivered) : delivered[i] = {Mapped[i]}
  BY DEF MappedWell
<1>2. /\ Mapped' \in Seq(Nat)
      /\ Len(Mapped') = Len(delivered') /\ \A i \in 1 .. Len(delivered') : delivered'[i] = {Mapped'[i]}
  BY DEF MappedWell
<1>3. /\ Len(delivered') = Len(delivered) + 1
      /\ \A i \in 1 .. Len(delivered) : delivered'[i] = delivered[i]
      /\ delivered'[Len(delivered) + 1] = {n}
  <2> DEFINE D == {{m} : m \in Nat}
  <2>1. delivered \in Seq(D) /\ {n} \in D
    <3> DEFINE E == {{m} : m \in 0 .. (sent - 1)}
    <3>1. delivered \in Seq(E) /\ E \subseteq D
      BY DEF MappedWell
    <3>2. {n} \in D
      OBVIOUS
    <3> HIDE DEF D, E
    <3> QED  BY <3>1, <3>2, WiderSeq
  <2> HIDE DEF D
  <2> QED  BY <2>1, AppendIs
<1>4. /\ Append(Mapped, n) \in Seq(Nat) /\ Len(Append(Mapped, n)) = Len(Mapped) + 1
      /\ \A i \in 1 .. Len(Mapped) : Append(Mapped, n)[i] = Mapped[i]
      /\ Append(Mapped, n)[Len(Mapped) + 1] = n
  BY <1>1, AppendIs
<1>5. ASSUME NEW i \in 1 .. Len(Mapped') PROVE Mapped'[i] = Append(Mapped, n)[i]
  <2>1. CASE i \in 1 .. Len(delivered)
    <3>1. {Mapped'[i]} = {Mapped[i]}
      BY <1>1, <1>2, <1>3, <2>1
    <3>2. Mapped'[i] = Mapped[i]
      BY <3>1, Zenon
    <3>3. Append(Mapped, n)[i] = Mapped[i]
      BY <1>1, <1>4, <2>1
    <3> QED  BY <3>2, <3>3
  <2>2. CASE i = Len(delivered) + 1
    <3>1. {Mapped'[i]} = {n}
      BY <1>1, <1>2, <1>3, <2>2
    <3>2. Mapped'[i] = n
      BY <3>1, Zenon
    <3>3. Append(Mapped, n)[i] = n
      BY <1>1, <1>4, <2>2
    <3> QED  BY <3>2, <3>3
  <2>3. i \in 1 .. Len(delivered) \/ i = Len(delivered) + 1
    BY <1>1, <1>2, <1>3
  <2> QED  BY <2>1, <2>2, <2>3
<1>6. Len(Mapped') = Len(Append(Mapped, n))
  BY <1>1, <1>2, <1>3, <1>4
<1> QED  BY <1>2, <1>4, <1>5, <1>6, SeqEqual

\* Every step sends a message, delivers one that the mode allows, or does neither.
LEMMA PromisedStep ==
    ASSUME ChannelWindow, ChannelInv, MappedWell, MappedWell', [Next]_vars
    PROVE  \/ sent' = sent + 1 /\ UNCHANGED <<Mode, Mapped>>
           \/ \E n \in Delivery!Deliverable : Mapped' = Append(Mapped, n) /\ UNCHANGED <<Mode, sent>>
           \/ UNCHANGED <<Mode, sent, Mapped>>
<1>1. Mode' = Mode
  BY DEF Next, vars, BufferSend, Transmit, Deliver, ReceiveAck, ReadMessage, Lose, Mode
<1>2. sent \in Nat
  BY DEF MappedWell
<1>3. CASE UNCHANGED <<sent, delivered>>
  BY <1>1, <1>3 DEF Mapped
<1>4. CASE BufferSend
  <2>1. sent' = sent + 1 /\ delivered' = delivered
    BY <1>4 DEF BufferSend
  <2> QED  BY <1>1, <2>1 DEF Mapped
<1>5. CASE ReadMessage
  <2>1. /\ ReadOrdered \/ ReadUnordered \/ ReadSequenced
        /\ UNCHANGED <<channel, sender, wire, acks, newestSeen, newestCompleted, partial, sent>>
    BY <1>5 DEF ReadMessage
  <2>2. sent' = sent
    BY <2>1
  <2>3. /\ Mapped \in Seq(Nat) /\ Len(delivered) \in Nat /\ DOMAIN delivered = 1 .. Len(delivered)
        /\ Len(Mapped) = Len(delivered) /\ DOMAIN Mapped = 1 .. Len(delivered)
        /\ \A i \in 1 .. Len(delivered) : delivered[i] = {Mapped[i]}
    BY DEF MappedWell
  <2>4. ASSUME NEW i \in DOMAIN Mapped PROVE Mapped[i] \in Nat /\ Read(Mapped[i])
    BY <2>3, <2>4 DEF Read
  <2>5. \E n \in 0 .. (sent - 1) :
           /\ delivered' = Append(delivered, {n})
           /\ CASE Mode = "OrderedReliable"   -> n = Len(Mapped)
                [] Mode = "UnorderedReliable" -> \A i \in DOMAIN Mapped : Mapped[i] # n
                [] Mode = "SequencedReliable" -> \A i \in DOMAIN Mapped : Mapped[i] < n
    <3>1. CASE ReadOrdered
      <4>1. Mode = "OrderedReliable"
        BY <3>1 DEF ReadOrdered
      <4>2. delivered' = Append(delivered, {Len(delivered)}) /\ Len(delivered) \in 0 .. (sent - 1)
        BY <2>1, <3>1, ReadOrderedInv
      <4> QED  BY <2>3, <4>1, <4>2
    <3>2. CASE ReadUnordered
      <4>1. Mode = "UnorderedReliable"
        BY <3>2 DEF ReadUnordered
      <4>2. PICK n \in 0 .. (sent - 1) : delivered' = Append(delivered, {n}) /\ ~ Read(n)
        BY <2>1, <3>2, ReadUnorderedInv
      <4>3. \A i \in DOMAIN Mapped : Mapped[i] # n
        BY <2>4, <4>2
      <4> QED  BY <4>1, <4>2, <4>3
    <3>3. CASE ReadSequenced
      <4>1. Mode = "SequencedReliable"
        BY <3>3 DEF ReadSequenced
      <4>2. PICK n \in 0 .. (sent - 1) : delivered' = Append(delivered, {n}) /\ \A m \in Int : Read(m) => m < n
        BY <2>1, <3>3, ReadSequencedInv
      <4>3. \A i \in DOMAIN Mapped : Mapped[i] < n
        BY <2>4, <4>2
      <4> QED  BY <4>1, <4>2, <4>3
    <3> QED  BY <2>1, <3>1, <3>2, <3>3
  <2>6. PICK n \in 0 .. (sent - 1) :
           /\ delivered' = Append(delivered, {n})
           /\ CASE Mode = "OrderedReliable"   -> n = Len(Mapped)
                [] Mode = "UnorderedReliable" -> \A i \in DOMAIN Mapped : Mapped[i] # n
                [] Mode = "SequencedReliable" -> \A i \in DOMAIN Mapped : Mapped[i] < n
    BY <2>5
  <2>7. n \in Delivery!Deliverable
    BY <2>6 DEF Delivery!Deliverable, Mapped
  <2>8. Mapped' = Append(Mapped, n)
    BY <1>2, <2>6, MappedGrows
  <2> QED  BY <1>1, <2>2, <2>7, <2>8
<1>6. UNCHANGED <<sent, delivered>> \/ BufferSend \/ ReadMessage
  BY DEF Next, vars, Transmit, Deliver, ReceiveAck, Lose
<1> QED  BY <1>3, <1>4, <1>5, <1>6

\* PromisedSafety: the channel implements the delivery its mode promises, one message at
\* most once, in order on an ordered channel and only newer ones on a sequenced channel.
THEOREM PromisedSafetyAlways == ASSUME ChannelWindow PROVE Spec => PromisedSafety
<1>1. Init => Delivery!Init
  <2> SUFFICES ASSUME Init PROVE Delivery!Init
    OBVIOUS
  <2>1. channel \in Channels /\ sent = 0 /\ delivered = <<>>
    BY DEF Init
  <2>2. Mode \in {"OrderedReliable", "UnorderedReliable", "SequencedReliable"}
    BY <2>1, ChannelAssumption DEF Mode, Modes
  <2>3. Mapped = <<>>
    <3>1. Numbered
      BY ChannelInvInit DEF ChannelInv
    <3>2. Mapped \in Seq(Nat) /\ Len(Mapped) = Len(delivered)
      BY <3>1, MappedIs DEF MappedWell
    <3>3. Len(Mapped) = 0
      BY <2>1, <3>2
    <3> QED  BY <3>2, <3>3, EmptySeq
  <2> QED  BY <2>1, <2>2, <2>3 DEF Delivery!Init, Mapped
<1>2. ChannelInv /\ MappedWell /\ MappedWell' /\ [Next]_vars => [Delivery!Next]_(Delivery!vars)
  <2> SUFFICES ASSUME ChannelInv, MappedWell, MappedWell', [Next]_vars PROVE [Delivery!Next]_(Delivery!vars)
    OBVIOUS
  <2>1. \/ sent' = sent + 1 /\ UNCHANGED <<Mode, Mapped>>
        \/ \E n \in Delivery!Deliverable : Mapped' = Append(Mapped, n) /\ UNCHANGED <<Mode, sent>>
        \/ UNCHANGED <<Mode, sent, Mapped>>
    BY PromisedStep
  <2>2. CASE sent' = sent + 1 /\ UNCHANGED <<Mode, Mapped>>
    BY <2>2 DEF Delivery!Next, Delivery!Send, Mapped
  <2>3. CASE \E n \in Delivery!Deliverable : Mapped' = Append(Mapped, n) /\ UNCHANGED <<Mode, sent>>
    BY <2>3 DEF Delivery!Next, Delivery!Deliver, Mapped
  <2>4. CASE UNCHANGED <<Mode, sent, Mapped>>
    BY <2>4 DEF Delivery!vars, Mapped
  <2> QED  BY <2>1, <2>2, <2>3, <2>4
<1>3. Spec => []ChannelInv
  BY ChannelInvAlways
<1>4. ChannelInv => MappedWell
  BY MappedIs DEF ChannelInv
<1> QED  BY <1>1, <1>2, <1>3, <1>4, PTL DEF Spec, PromisedSafety

-----------------------------------------------------------------------------
(* An unreliable channel.  Nothing says which message a unit belongs to but its   *)
(* identifier, so time must: a unit under way is not old, and neither is a        *)
(* fragment that is held, because cleanup removes a message that no unit touched  *)
(* for a while, and the units that touch it are of that message and not old.      *)
(* Since the sender has a rate, what is not old is not far behind, and no two     *)
(* messages that are not far behind share an identifier.                          *)

\* Identifiers name messages: not more than a cycle of them is sent while fragments of
\* one are held or under way, and not more than half a cycle while a unit is under way.
UnreliableWindow ==
    /\ DiscardAfter >= 1
    /\ MaxRate * (DiscardAfter + MaxDelay) <= IdModulus
    /\ MaxRate * (MaxDelay + 1) <= MaxDiff + 1

\* A unit is of a message that was sent when it says, and since then no more messages
\* were sent than the rate allows.
SentInTime(u) ==
    /\ u.seq \in 0 .. (sentCount - 1) /\ u.id = Wrap(u.seq) /\ u.at \in 1 .. now
    /\ sentCount - u.seq <= MaxRate * (now - u.at) + inFrame

\* Time and the counters of the sender, and what the receiver keeps.
CountersTyped ==
    /\ now \in Nat \ {0} /\ inFrame \in 0 .. MaxRate /\ sentCount \in Nat
    /\ nextUnreliable = Wrap(sentCount) /\ touched \in [WireId -> Nat]
    /\ readable \in Seq({{s} : s \in Nat})

\* Units under way are not too old, and what is held was touched a short while ago by
\* a unit that was not too old then.
NothingStale ==
    /\ \A u \in units \cup fragments : SentInTime(u)
    /\ \A u \in units : u.at + MaxDelay >= now
    /\ \A f \in fragments : touched[f.id] <= f.at + MaxDelay /\ touched[f.id] + DiscardAfter > now
    /\ \A u, v \in units \cup fragments : u.seq = v.seq => u.at = v.at

\* A sequenced receiver has seen a unit of message s last and completed message c last,
\* -1 for none: at most that one is ready, and what was read is older.
NewestAre(s, c) ==
    /\ seen = (IF s = -1 THEN NoNewest ELSE Wrap(s))
    /\ completed = (IF c = -1 THEN NoNewest ELSE Wrap(c))
    /\ lastRead \in Nat /\ lastRead <= c + 1
    /\ readable = <<>> \/ (readable = <<{c}>> /\ c >= 0 /\ lastRead <= c)

\* The inductive invariant of an unreliable channel.
UnreliableInv ==
    /\ CountersTyped /\ NothingStale
    /\ sequenced => \E s \in -1 .. (sentCount - 1) : \E c \in -1 .. s : NewestAre(s, c)

\* More frames at the rate are more messages.
LEMMA RateGrows ==
    ASSUME NEW a \in Nat, NEW b \in Nat, a <= b
    PROVE  MaxRate * a <= MaxRate * b /\ MaxRate * a \in Nat /\ MaxRate * (a + 1) = MaxRate * a + MaxRate
BY UnreliableAssumption

\* The numbers among them, for arithmetic.
LEMMA CountersAre ==
    ASSUME UnreliableInv
    PROVE  /\ now \in Nat /\ now > 0 /\ inFrame \in Nat /\ inFrame <= MaxRate /\ sentCount \in Nat
           /\ MaxRate \in Nat /\ MaxDelay \in Nat /\ DiscardAfter \in Nat
<1>1. CountersTyped
  BY DEF UnreliableInv
<1>2. now \in Nat \ {0} /\ inFrame \in 0 .. MaxRate /\ sentCount \in Nat
  BY <1>1, Zenon DEF CountersTyped
<1>3. MaxRate \in Nat /\ MaxDelay \in Nat /\ DiscardAfter \in Nat
  BY UnreliableAssumption
<1> QED  BY <1>2, <1>3

\* So are those of a unit under way or held.
LEMMA UnitsInTime ==
    ASSUME UnreliableInv, NEW u \in units \cup fragments
    PROVE  /\ u.seq \in Nat /\ u.seq < sentCount /\ u.id = Wrap(u.seq) /\ u.id \in WireId
           /\ u.at \in Nat /\ now - u.at \in Nat
           /\ sentCount - u.seq <= MaxRate * (now - u.at) + inFrame
<1>1. SentInTime(u)
  BY DEF UnreliableInv, NothingStale
<1>2. u.seq \in 0 .. (sentCount - 1) /\ u.id = Wrap(u.seq) /\ u.at \in 1 .. now
  BY <1>1 DEF SentInTime
<1>3. u.seq \in Nat /\ u.seq < sentCount /\ u.at \in Nat /\ now - u.at \in Nat
  BY <1>2, CountersAre
<1> QED  BY <1>1, <1>2, <1>3, WrapType DEF SentInTime

\* How far behind the sender a unit under way, or a fragment that is held, can be.
LEMMA NotFarBehind ==
    ASSUME UnreliableWindow, UnreliableInv
    PROVE  /\ \A u \in units : sentCount - u.seq <= MaxDiff + 1
           /\ \A u \in units \cup fragments : sentCount - u.seq <= IdModulus
<1>1. ASSUME NEW u \in units PROVE sentCount - u.seq <= MaxRate * (MaxDelay + 1)
  <2>1. PICK gap : gap = now - u.at
    OBVIOUS
  <2>2. u.at + MaxDelay >= now
    BY DEF UnreliableInv, NothingStale
  <2>3. /\ gap \in Nat /\ sentCount - u.seq <= MaxRate * gap + inFrame /\ u.seq \in Nat /\ u.at \in Nat
    BY <2>1, UnitsInTime
  <2>4. gap <= MaxDelay
    BY <2>1, <2>2, <2>3, CountersAre
  <2>5. /\ MaxRate * gap <= MaxRate * MaxDelay /\ MaxRate * gap \in Nat
        /\ MaxRate * (MaxDelay + 1) = MaxRate * MaxDelay + MaxRate /\ MaxRate * MaxDelay \in Nat
    BY <2>3, <2>4, CountersAre, RateGrows
  <2> QED  BY <2>3, <2>5, CountersAre
<1>2. ASSUME NEW u \in fragments PROVE sentCount - u.seq <= MaxRate * (DiscardAfter + MaxDelay)
  <2>1. PICK gap : gap = now - u.at
    OBVIOUS
  <2>2. PICK last : last = touched[u.id]
    OBVIOUS
  <2>3. gap \in Nat /\ sentCount - u.seq <= MaxRate * gap + inFrame /\ u.seq \in Nat /\ u.at \in Nat
        /\ u.id \in WireId
    BY <2>1, UnitsInTime
  <2>4. last \in Nat /\ last <= u.at + MaxDelay /\ last + DiscardAfter > now
    BY <2>2, <2>3 DEF UnreliableInv, NothingStale, CountersTyped
  <2>5. PICK most : most = DiscardAfter + MaxDelay - 1
    OBVIOUS
  <2>6. most \in Nat /\ gap <= most /\ most + 1 = DiscardAfter + MaxDelay
    BY <2>1, <2>3, <2>4, <2>5, CountersAre DEF UnreliableWindow
  <2>7. /\ MaxRate * gap <= MaxRate * most /\ MaxRate * gap \in Nat /\ MaxRate * most \in Nat
        /\ MaxRate * (most + 1) = MaxRate * most + MaxRate
    BY <2>3, <2>6, RateGrows
  <2> QED  BY <2>3, <2>6, <2>7, CountersAre
<1>3. /\ MaxRate * (MaxDelay + 1) \in Nat /\ MaxRate * (DiscardAfter + MaxDelay) \in Nat
      /\ MaxRate * (MaxDelay + 1) <= MaxDiff + 1 /\ MaxRate * (DiscardAfter + MaxDelay) <= IdModulus
  <2>1. MaxDelay + 1 \in Nat /\ DiscardAfter + MaxDelay \in Nat
    BY CountersAre
  <2> QED  BY <2>1, RateGrows DEF UnreliableWindow
<1>4. \A u \in units \cup fragments : u.seq \in Nat
  BY UnitsInTime
<1>5. PICK half : half = MaxRate * (MaxDelay + 1)
  OBVIOUS
<1>6. PICK whole : whole = MaxRate * (DiscardAfter + MaxDelay)
  OBVIOUS
<1>7. /\ half \in Nat /\ half <= MaxDiff + 1 /\ whole <= IdModulus /\ whole \in Nat
      /\ \A u \in units : sentCount - u.seq <= half
      /\ \A u \in fragments : sentCount - u.seq <= whole
  BY <1>1, <1>2, <1>3, <1>5, <1>6
<1> QED  BY <1>4, <1>7, CountersAre, MaxDiffBound

\* An identifier names one message of those under way and held.
LEMMA SameMessage ==
    ASSUME UnreliableWindow, UnreliableInv, NEW u \in units \cup fragments, NEW v \in units \cup fragments,
           u.id = v.id
    PROVE  u.seq = v.seq
<1>1. /\ u.seq \in 0 .. (sentCount - 1) /\ v.seq \in 0 .. (sentCount - 1) /\ Wrap(u.seq) = Wrap(v.seq)
      /\ sentCount - u.seq <= IdModulus /\ sentCount - v.seq <= IdModulus /\ sentCount \in Nat
  BY NotFarBehind DEF UnreliableInv, NothingStale, SentInTime, CountersTyped
<1>2. u.seq \in Int /\ v.seq \in Int /\ u.seq - v.seq < IdModulus /\ v.seq - u.seq < IdModulus
  BY <1>1, IdModulusPositive
<1> QED  BY <1>1, <1>2, WrapInjective

\* So the fragments put together are those of one message.
LEMMA OneOrigin ==
    ASSUME UnreliableWindow, UnreliableInv, NEW u \in units
    PROVE  OriginOf(u) = {u.seq}
<1>1. CASE u.count = 1
  BY <1>1 DEF OriginOf
<1>2. CASE u.count # 1
  <2>1. \A f \in FragmentsWith(u) : f \in units \cup fragments /\ f.id = u.id
    BY DEF FragmentsWith
  <2>2. \E f \in FragmentsWith(u) : TRUE
    BY DEF FragmentsWith
  <2>3. \A f \in FragmentsWith(u) : f.seq = u.seq
    BY <2>1, SameMessage
  <2> QED  BY <1>2, <2>2, <2>3 DEF OriginOf
<1> QED  BY <1>1, <1>2

\* At first nothing was sent.
LEMMA UnreliableInitInv == UnreliableInit => UnreliableInv
<1> SUFFICES ASSUME UnreliableInit PROVE UnreliableInv
  OBVIOUS
<1> USE UnreliableAssumption DEF UnreliableInit
<1>1. Wrap(0) = 0
  BY IdModulusPositive DEF Wrap
<1>2. CountersTyped
  BY <1>1 DEF CountersTyped
<1>3. NothingStale
  BY DEF NothingStale
<1>4. NewestAre(-1, -1) /\ sentCount = 0
  BY DEF NewestAre
<1> QED  BY <1>2, <1>3, <1>4 DEF UnreliableInv

\* What the receiver has does not change when only more is sent.
LEMMA NewestStay ==
    ASSUME UnreliableInv, sentCount' \in Nat, sentCount' >= sentCount,
           UNCHANGED <<sequenced, readable, seen, completed, lastRead>>
    PROVE  sequenced' => \E s \in -1 .. (sentCount' - 1) : \E c \in -1 .. s : NewestAre(s, c)'
<1> SUFFICES ASSUME sequenced PROVE \E s \in -1 .. (sentCount' - 1) : \E c \in -1 .. s : NewestAre(s, c)'
  OBVIOUS
<1>1. PICK s \in -1 .. (sentCount - 1) : \E c \in -1 .. s : NewestAre(s, c)
  BY DEF UnreliableInv
<1>2. PICK c \in -1 .. s : NewestAre(s, c)
  BY <1>1
<1>3. NewestAre(s, c)'
  BY <1>2 DEF NewestAre
<1>4. s \in -1 .. (sentCount' - 1)
  <2>1. \A a, b \in Nat : a <= b => \A n \in -1 .. (a - 1) : n \in -1 .. (b - 1)
    OBVIOUS
  <2> QED  BY <2>1, CountersAre
<1> QED  BY <1>3, <1>4

\* buffer_send: the next identifier, at this frame.
LEMMA SendOnceKeeps ==
    ASSUME UnreliableInv, SendOnce
    PROVE  UnreliableInv'
<1> USE UnreliableAssumption
<1>1. /\ inFrame < MaxRate /\ inFrame' = inFrame + 1 /\ nextUnreliable' = NextId(nextUnreliable)
      /\ sentCount' = sentCount + 1 /\ UNCHANGED <<sequenced, now, unreliableReceiver, lastRead>>
  BY DEF SendOnce
<1>2. now \in Nat \ {0} /\ inFrame \in Nat /\ sentCount \in Nat /\ MaxRate \in Nat
  BY DEF UnreliableInv, CountersTyped
<1>3. \A u \in units' : u \in units \/ (u.id = Wrap(sentCount) /\ u.seq = sentCount /\ u.at = now)
  BY DEF SendOnce, UnreliableInv, CountersTyped
<1>4. CountersTyped'
  <2>1. nextUnreliable' = Wrap(sentCount + 1)
    BY <1>1, <1>2, NextIdWrap DEF UnreliableInv, CountersTyped
  <2> QED  BY <1>1, <1>2, <2>1 DEF UnreliableInv, CountersTyped, unreliableReceiver
<1>5. ASSUME NEW u \in units' \cup fragments' PROVE SentInTime(u)'
  <2>1. CASE u \in units \cup fragments
    <3>1. SentInTime(u)
      BY <2>1 DEF UnreliableInv, NothingStale
    <3>2. now - u.at \in Nat /\ MaxRate * (now - u.at) \in Nat /\ u.seq \in Nat
      BY <1>2, <3>1, RateGrows DEF SentInTime
    <3> QED  BY <1>1, <1>2, <3>1, <3>2 DEF SentInTime
  <2>2. CASE u.id = Wrap(sentCount) /\ u.seq = sentCount /\ u.at = now
    <3>1. MaxRate * (now - now) = 0
      BY <1>2
    <3> QED  BY <1>1, <1>2, <2>2, <3>1 DEF SentInTime
  <2> QED  BY <1>1, <1>3, <2>1, <2>2 DEF unreliableReceiver
<1>6. NothingStale'
  <2>1. \A u \in units' : u.at + MaxDelay >= now
    BY <1>2, <1>3 DEF UnreliableInv, NothingStale
  <2>2. \A u, v \in units' \cup fragments' : u.seq = v.seq => u.at = v.at
    <3>1. \A u \in units \cup fragments : u.seq \in 0 .. (sentCount - 1)
      BY DEF UnreliableInv, NothingStale, SentInTime
    <3>2. \A u \in units \cup fragments : u.seq # sentCount
      BY <1>2, <3>1
    <3>3. \A u \in units' \cup fragments' : u \in units \cup fragments \/ (u.seq = sentCount /\ u.at = now)
      BY <1>1, <1>3 DEF unreliableReceiver
    <3> QED  BY <3>2, <3>3 DEF UnreliableInv, NothingStale
  <2> QED  BY <1>1, <1>5, <2>1, <2>2 DEF UnreliableInv, NothingStale, unreliableReceiver
<1> QED  BY <1>1, <1>2, <1>4, <1>6, NewestStay DEF UnreliableInv, unreliableReceiver

\* ChannelReceive::update and cleanup.
LEMMA UpdateKeeps ==
    ASSUME UnreliableInv, Update
    PROVE  UnreliableInv'
<1> USE UnreliableAssumption
<1>1. /\ now' = now + 1 /\ inFrame' = 0
      /\ units' = {u \in units : u.at + MaxDelay >= now + 1}
      /\ fragments' = {f \in fragments : Keeps(f.id)}
      /\ touched' = [id \in WireId |-> IF \E f \in fragments' : f.id = id THEN touched[id] ELSE 0]
      /\ UNCHANGED <<sequenced, nextUnreliable, readable, seen, completed, sentCount, lastRead>>
  BY DEF Update
<1>2. now \in Nat \ {0} /\ inFrame \in 0 .. MaxRate /\ sentCount \in Nat /\ MaxRate \in Nat
  BY DEF UnreliableInv, CountersTyped
<1>3. CountersTyped'
  BY <1>1, <1>2 DEF UnreliableInv, CountersTyped
<1>4. ASSUME NEW u \in units \cup fragments PROVE SentInTime(u)'
  <2>1. SentInTime(u)
    BY <1>4 DEF UnreliableInv, NothingStale
  <2>2. now - u.at \in Nat /\ u.at \in Nat /\ u.seq \in Nat
    BY <1>4, UnitsInTime
  <2>3. MaxRate * ((now - u.at) + 1) = MaxRate * (now - u.at) + MaxRate /\ MaxRate * (now - u.at) \in Nat
    <3>1. \A a \in Nat : a <= a
      OBVIOUS
    <3>2. PICK a \in Nat : a = now - u.at
      BY <2>2
    <3>3. MaxRate * (a + 1) = MaxRate * a + MaxRate /\ MaxRate * a \in Nat
      BY <3>1, <3>2, RateGrows
    <3> QED  BY <3>2, <3>3
  <2>4. (now - u.at) + 1 = now' - u.at
    BY <1>1, <1>2, <2>2
  <2>5. MaxRate * (now' - u.at) = MaxRate * (now - u.at) + MaxRate
    BY <2>3, <2>4
  <2> QED  BY <1>1, <1>2, <2>1, <2>2, <2>3, <2>5 DEF SentInTime
<1>5. ASSUME NEW f \in fragments'
      PROVE  touched'[f.id] <= f.at + MaxDelay /\ touched'[f.id] + DiscardAfter > now'
  <2>1. f \in fragments /\ Keeps(f.id)
    BY <1>1, <1>5
  <2>2. f.id \in WireId
    BY <2>1, WrapType DEF UnreliableInv, NothingStale, SentInTime
  <2>3. touched'[f.id] = touched[f.id]
    BY <1>1, <1>5, <2>2
  <2> QED  BY <1>1, <2>1, <2>3 DEF Keeps, UnreliableInv, NothingStale
<1>6. NothingStale'
  BY <1>1, <1>4, <1>5 DEF UnreliableInv, NothingStale
<1> QED  BY <1>1, <1>2, <1>3, <1>6, NewestStay DEF UnreliableInv

\* read_message: what was read last is older than what is completed next.
LEMMA ReadNextKeeps ==
    ASSUME UnreliableInv, ReadNext
    PROVE  UnreliableInv'
<1>1. /\ readable # <<>> /\ readable' = Tail(readable) /\ lastRead' = Min(Head(readable)) + 1
      /\ UNCHANGED <<sequenced, now, inFrame, nextUnreliable, units, fragments, touched, seen, completed, sentCount>>
  BY DEF ReadNext
<1>2. CountersTyped'
  BY <1>1 DEF UnreliableInv, CountersTyped
<1>3. NothingStale'
  BY <1>1 DEF UnreliableInv, NothingStale, SentInTime
<1>4. ASSUME sequenced
      PROVE  \E s \in -1 .. (sentCount - 1) : \E c \in -1 .. s : NewestAre(s, c)'
  <2>1. PICK s \in -1 .. (sentCount - 1) : \E c \in -1 .. s : NewestAre(s, c)
    BY <1>4 DEF UnreliableInv
  <2>2. PICK c \in -1 .. s : NewestAre(s, c)
    BY <2>1
  <2>3. readable = <<{c}>> /\ c \in Nat
    BY <1>1, <2>2 DEF NewestAre
  <2>4. Head(readable) = {c} /\ Tail(readable) = <<>>
    BY <2>3
  <2>5. Min({c}) = c
    BY DEF Min
  <2>6. NewestAre(s, c)'
    BY <1>1, <2>2, <2>3, <2>4, <2>5 DEF NewestAre
  <2> QED  BY <2>6
<1> QED  BY <1>1, <1>2, <1>3, <1>4 DEF UnreliableInv

\* prepare_receive: a sequenced receiver admits nothing older than what it has seen.
LEMMA AdmittedIsNewer ==
    ASSUME UnreliableWindow, UnreliableInv, sequenced, NEW u \in units, Admitted(u.id),
           NEW s \in -1 .. (sentCount - 1), seen = (IF s = -1 THEN NoNewest ELSE Wrap(s))
    PROVE  u.seq >= s
<1>1. u.seq \in 0 .. (sentCount - 1) /\ u.id = Wrap(u.seq) /\ sentCount - u.seq <= MaxDiff + 1 /\ sentCount \in Nat
  BY NotFarBehind DEF UnreliableInv, CountersTyped, NothingStale, SentInTime
<1> SUFFICES ASSUME u.seq < s PROVE FALSE
  BY <1>1
<1>2. s \in Int /\ u.seq \in Int /\ s - u.seq <= MaxDiff /\ u.seq - s <= MaxDiff /\ s # -1
  BY <1>1, MaxDiffBound
<1>3. WrappingDiff(Wrap(s), Wrap(u.seq)) = s - u.seq
  BY <1>2, WrappingDiffExact
<1>4. seen = Wrap(s) /\ seen # NoNewest
  BY <1>2, WrapType, UnreliableAssumption
<1>5. IdLess(u.id, seen)
  BY <1>1, <1>2, <1>3, <1>4 DEF IdLess
<1> QED  BY <1>4, <1>5 DEF Admitted

\* buffer_recv of a unit that is admitted.
LEMMA ReceiveUnitKeeps ==
    ASSUME UnreliableWindow, UnreliableInv, NEW u \in units, Admitted(u.id), ReceiveUnit(u),
           units' \subseteq units,
           UNCHANGED <<sequenced, now, inFrame, nextUnreliable, sentCount, lastRead>>
    PROVE  UnreliableInv'
<1> USE UnreliableAssumption
<1> DEFINE done == CompletesMessage(u)
<1>1. /\ u.seq \in 0 .. (sentCount - 1) /\ u.id = Wrap(u.seq) /\ u.id \in WireId /\ u.at + MaxDelay >= now
      /\ u.at \in Nat /\ sentCount \in Nat /\ now \in Nat
  <2>1. u.at + MaxDelay >= now
    BY DEF UnreliableInv, NothingStale
  <2> QED  BY <2>1, CountersAre, UnitsInTime
<1>2. OriginOf(u) = {u.seq} /\ u.seq \in Nat
  BY <1>1, OneOrigin
<1>3. \/ fragments' = fragments /\ touched' = touched
      \/ /\ fragments' = {f \in fragments : f.id # u.id} \cup (IF done THEN {} ELSE FragmentsWith(u))
         /\ touched' = [touched EXCEPT ![u.id] = IF done THEN 0 ELSE now]
  BY DEF ReceiveUnit
<1>4. \A f \in FragmentsWith(u) : (f \in fragments \/ f = u) /\ f.id = u.id
  BY DEF FragmentsWith
<1>5. \A f \in FragmentsWith(u) : f.seq = u.seq /\ f.at = u.at
  BY <1>4, SameMessage DEF UnreliableInv, NothingStale
<1>6. fragments' \subseteq fragments \cup {u}
  BY <1>3, <1>4
<1>7. ASSUME NEW f \in fragments'
      PROVE  touched'[f.id] <= f.at + MaxDelay /\ touched'[f.id] + DiscardAfter > now
  <2>1. CASE fragments' = fragments /\ touched' = touched
    BY <1>7, <2>1 DEF UnreliableInv, NothingStale
  <2>2. CASE /\ fragments' = {g \in fragments : g.id # u.id} \cup (IF done THEN {} ELSE FragmentsWith(u))
             /\ touched' = [touched EXCEPT ![u.id] = IF done THEN 0 ELSE now]
    <3>1. CASE f \in fragments /\ f.id # u.id
      <4>1. f.id \in WireId
        BY <3>1, WrapType DEF UnreliableInv, NothingStale, SentInTime
      <4>2. touched'[f.id] = touched[f.id]
        BY <2>2, <3>1, <4>1 DEF UnreliableInv, CountersTyped
      <4> QED  BY <3>1, <4>2 DEF UnreliableInv, NothingStale
    <3>2. CASE ~ done /\ f \in FragmentsWith(u)
      <4>1. f.id = u.id /\ f.at = u.at
        BY <1>4, <1>5, <3>2
      <4>2. touched'[f.id] = now
        BY <1>1, <2>2, <3>2, <4>1 DEF UnreliableInv, CountersTyped
      <4> QED  BY <1>1, <4>1, <4>2 DEF UnreliableWindow
    <3> QED  BY <1>7, <2>2, <3>1, <3>2
  <2> QED  BY <1>3, <2>1, <2>2
<1>8. NothingStale'
  <2>1. units' \cup fragments' \subseteq units \cup fragments
    BY <1>6
  <2>2. \A v \in units \cup fragments : SentInTime(v)'
    BY DEF UnreliableInv, NothingStale, SentInTime
  <2> QED  BY <1>7, <2>1, <2>2 DEF UnreliableInv, NothingStale
<1>9. PICK kept : /\ kept = <<>> \/ kept = readable
                  /\ \/ readable' = kept /\ completed' = completed
                     \/ /\ Takes(u.id)
                        /\ readable' = IF sequenced THEN <<{u.seq}>> ELSE Append(kept, {u.seq})
                        /\ completed' = IF sequenced THEN u.id ELSE completed
  BY <1>2 DEF ReceiveUnit
<1>10. CountersTyped'
  <2>0. CountersTyped
    BY DEF UnreliableInv
  <2>1. touched' \in [WireId -> Nat]
    <3>1. touched \in [WireId -> Nat]
      BY <2>0 DEF CountersTyped
    <3> QED  BY <1>1, <1>3, <3>1
  <2>2. kept \in Seq({{s} : s \in Nat})
    <3> DEFINE W == {{s} : s \in Nat}
    <3>1. readable \in Seq(W)
      BY <2>0, Zenon DEF CountersTyped
    <3> HIDE DEF W
    <3>2. <<>> \in Seq(W)
      OBVIOUS
    <3>3. kept \in Seq(W)
      BY <1>9, <3>1, <3>2, Zenon
    <3> QED  BY <3>3 DEF W
  <2>3. {u.seq} \in {{s} : s \in Nat}
    BY <1>2
  <2>4. readable' \in Seq({{s} : s \in Nat})
    <3> DEFINE W == {{s} : s \in Nat}
    <3>1. {u.seq} \in W /\ kept \in Seq(W)
      BY <2>2, <2>3
    <3> HIDE DEF W
    <3>0. \A w \in W : <<w>> \in Seq(W) /\ \A k \in Seq(W) : Append(k, w) \in Seq(W)
      OBVIOUS
    <3>2. <<{u.seq}>> \in Seq(W) /\ Append(kept, {u.seq}) \in Seq(W)
      BY <3>0, <3>1, Zenon
    <3> QED  BY <1>9, <3>1, <3>2 DEF W
  <2> QED  BY <2>1, <2>4 DEF UnreliableInv, CountersTyped
<1>11. ASSUME sequenced
       PROVE  \E s \in -1 .. (sentCount - 1) : \E c \in -1 .. s : NewestAre(s, c)'
  <2>1. PICK s \in -1 .. (sentCount - 1) : \E c \in -1 .. s : NewestAre(s, c)
    BY <1>11 DEF UnreliableInv
  <2>2. PICK c \in -1 .. s : NewestAre(s, c)
    BY <2>1
  <2>3. u.seq >= s
    BY <1>11, <2>2, AdmittedIsNewer DEF NewestAre
  <2>4. seen' = Wrap(u.seq) /\ u.seq # -1 /\ u.seq \in -1 .. (sentCount - 1)
    BY <1>1, <1>11 DEF ReceiveUnit
  <2>5. c \in -1 .. u.seq /\ c \in Int
    BY <1>1, <2>3
  <2>6. CASE readable' = kept /\ completed' = completed
    <3>1. NewestAre(u.seq, c)'
      BY <1>9, <2>2, <2>4, <2>6 DEF NewestAre
    <3> QED  BY <2>4, <2>5, <3>1
  <2>7. CASE Takes(u.id) /\ readable' = <<{u.seq}>> /\ completed' = u.id
    <3>1. c # u.seq
      <4>1. completed # u.id
        BY <1>11, <2>7 DEF Takes
      <4> QED  BY <1>1, <2>2, <2>4, <4>1 DEF NewestAre
    <3>2. lastRead \in Nat /\ lastRead <= u.seq
      BY <1>1, <2>2, <2>5, <3>1 DEF NewestAre
    <3>3. NewestAre(u.seq, u.seq)'
      BY <1>1, <1>2, <2>4, <2>7, <3>2 DEF NewestAre
    <3> QED  BY <1>1, <2>4, <3>3
  <2> QED  BY <1>9, <1>11, <2>6, <2>7
<1> QED  BY <1>8, <1>10, <1>11 DEF UnreliableInv

\* A unit that is not admitted changes nothing.
LEMMA UnitArrivesKeeps ==
    ASSUME UnreliableWindow, UnreliableInv, NEW u \in units, UnitArrives(u)
    PROVE  UnreliableInv'
<1>1. units' \subseteq units /\ UNCHANGED <<sequenced, now, inFrame, nextUnreliable, sentCount, lastRead>>
  BY DEF UnitArrives
<1>2. CASE Admitted(u.id)
  BY <1>1, <1>2, ReceiveUnitKeeps DEF UnitArrives
<1>3. CASE ~ Admitted(u.id)
  <2>1. UNCHANGED unreliableReceiver
    BY <1>3 DEF UnitArrives
  <2>2. NothingStale'
    BY <1>1, <2>1 DEF unreliableReceiver, UnreliableInv, NothingStale, SentInTime
  <2>3. CountersTyped'
    BY <1>1, <2>1 DEF unreliableReceiver, UnreliableInv, CountersTyped
  <2> QED  BY <1>1, <2>1, <2>2, <2>3, NewestStay DEF unreliableReceiver, UnreliableInv, CountersTyped
<1> QED  BY <1>2, <1>3

\* Every step keeps the invariant.
LEMMA UnreliableStepInv ==
    ASSUME UnreliableWindow, UnreliableInv, [UnreliableNext]_unreliableVars
    PROVE  UnreliableInv'
<1>1. CASE UNCHANGED unreliableVars
  BY <1>1 DEF unreliableVars, unreliableReceiver, UnreliableInv, CountersTyped, NothingStale, SentInTime, NewestAre
<1> QED  BY <1>1, SendOnceKeeps, UpdateKeeps, ReadNextKeeps, UnitArrivesKeeps DEF UnreliableNext

\* The invariant is what the application relies on.
LEMMA WholeAndNewerHolds == UnreliableInv => WholeAndNewer
<1> SUFFICES ASSUME UnreliableInv PROVE WholeAndNewer
  OBVIOUS
<1>1. WholeMessages
  <2>1. \A i \in DOMAIN readable : \E s \in Nat : readable[i] = {s}
    BY DEF UnreliableInv, CountersTyped
  <2> QED  BY <2>1, FS_Singleton DEF WholeMessages
<1>2. NewerOnly
  <2> SUFFICES ASSUME sequenced, NEW i \in DOMAIN readable PROVE Min(readable[i]) + 1 > lastRead
    BY DEF NewerOnly
  <2>1. PICK s \in -1 .. (sentCount - 1) : \E c \in -1 .. s : NewestAre(s, c)
    BY DEF UnreliableInv
  <2>2. PICK c \in -1 .. s : NewestAre(s, c)
    BY <2>1
  <2>3. readable # <<>>
    OBVIOUS
  <2>4. readable = <<{c}>> /\ c \in Nat /\ lastRead <= c /\ lastRead \in Nat
    BY <2>2, <2>3 DEF NewestAre
  <2>5. Min({c}) = c /\ readable[i] = {c}
    BY <2>4 DEF Min
  <2> QED  BY <2>4, <2>5
<1> QED  BY <1>1, <1>2 DEF WholeAndNewer

\* For any rate, delay and width of identifiers in the window: an unreliable receiver hands
\* out messages made of one sender's message each and, when it is sequenced, never one older
\* than what was read (ChannelReceive::buffer_recv, FragmentReceiver::cleanup).
THEOREM WholeAndNewerAlways ==
    ASSUME UnreliableWindow
    PROVE  UnreliableSpec => []WholeAndNewer
<1>1. UnreliableInv /\ [UnreliableNext]_unreliableVars => UnreliableInv'
  BY UnreliableStepInv
<1> QED  BY <1>1, UnreliableInitInv, WholeAndNewerHolds, PTL DEF UnreliableSpec

-----------------------------------------------------------------------------
(* Transport frames: what the application is told of a message.            *)

AllUnits == UNION {UnitsOf(m) : m \in DOMAIN info}

InPacket(u) == \E i \in DOMAIN packets : u \in packets[i]
OnTheWay(u) == \E i \in notAcked : u \in packets[i]
Received(u) == \E i \in got : u \in packets[i]

\* The sendings of message m that were lost.
LostOf(m) == {x \in lostPackets \X UnitsOf(m) : x[2] \in packets[x[1]] /\ Watched(x[2])}
Nacked(m) == LostOf(m) # {}

\* Nothing will be heard of the unit any more.
Settled(u) == u \notin queue /\ ~ OnTheWay(u)

TransportTyped ==
    /\ info \in Seq([chan : ChannelsUsed, count : Lengths])
    /\ acked \in Seq(Nat) /\ Len(acked) = Len(info)
    /\ packets \in Seq(SUBSET AllUnits)
    /\ queue \cup unacknowledged \cup fragAcks \subseteq AllUnits
    /\ nacked \in Seq(Nat) /\ Len(nacked) = Len(info)
    /\ lostPackets \subseteq DOMAIN packets \ notAcked
    /\ ackTrackers \subseteq {m \in DOMAIN info : info[m].chan = "WithAcks" /\ info[m].count > 1}
    /\ notAcked \cup got \subseteq DOMAIN packets
    /\ \A h \in headers : h \subseteq got

\* Units wait where their channel keeps them, and an unreliable one is sent once.
SentOnce ==
    /\ \A u \in unacknowledged : ChannelOf(u) = "Reliable"
    /\ \A u \in queue : ChannelOf(u) # "Reliable" /\ ~ InPacket(u)
    /\ \A i, j \in DOMAIN packets : \A u \in packets[i] \cap packets[j] :
          ChannelOf(u) # "Reliable" => i = j

\* An unreliable message is sent or discarded as a whole.
Together ==
    \A u \in AllUnits : ChannelOf(u) # "Reliable" /\ (u \in queue \/ InPacket(u)) =>
        /\ \A v \in UnitsOf(u[1]) : v \in queue \/ InPacket(v)
        /\ IsFragment(u) /\ InPacket(u) => u[1] \in started

\* What arrived is what was sent.
LinkIsTrue ==
    /\ \A p \in packetsOut : p.id \in DOMAIN packets /\ (Unreadable = {} => p.units = packets[p.id])
    /\ Unreadable = {} => \A i \in got : packets[i] \subseteq accepted

\* A unit that was acknowledged was received.
AcknowledgedIsReceived ==
    /\ \A u \in fragAcks : Received(u) /\ Settled(u) /\ u[1] \in ackTrackers
    /\ \A m \in DOMAIN info : \A u \in UnitsOf(m) :
          \/ info[m].chan = "Reliable" /\ u \notin unacknowledged
          \/ acked[m] > 0
          => Received(u)

\* A tracker knows the settled units of its message, and some unit is not.
TrackersKnow ==
    \A m \in ackTrackers :
        /\ \A u \in UnitsOf(m) : InPacket(u) /\ ~ OnTheWay(u) => u \in fragAcks
        /\ \E u \in UnitsOf(m) : ~ Settled(u)

\* A message that was reported is not reported again.
ReportIsFinal ==
    \A m \in DOMAIN info :
        /\ acked[m] <= 1
        /\ info[m].chan = "Reliable" /\ acked[m] > 0 => UnitsOf(m) \cap unacknowledged = {}
        /\ info[m].chan = "WithAcks" /\ acked[m] > 0 => ~ Nacked(m) /\ \A u \in UnitsOf(m) : Settled(u)
        /\ info[m].chan = "WithAcks" /\ Nacked(m) /\ info[m].count = 1 => Settled(<<m, 1>>)
        /\ acked[m] > 0 \/ Nacked(m) => m \notin ackTrackers
        /\ info[m].chan = "Plain" => acked[m] = 0 /\ ~ Nacked(m)

Tracked == tracked = {x \in notAcked \X AllUnits : x[2] \in packets[x[1]] /\ Watched(x[2])}

TransportInv ==
    /\ TransportTyped /\ SentOnce /\ Together /\ LinkIsTrue
    /\ AcknowledgedIsReceived /\ TrackersKnow /\ ReportIsFinal /\ NackIsTrue /\ Tracked

-----------------------------------------------------------------------------
(* Units. *)

LEMMA UnitsAre ==
    /\ \A m \in DOMAIN info : \A u \in UnitsOf(m) : u \in AllUnits /\ u[1] = m
    /\ \A u \in AllUnits : u[1] \in DOMAIN info /\ u \in UnitsOf(u[1])
    /\ \A u \in AllUnits : u = <<u[1], u[2]>> /\ u[2] \in 1 .. info[u[1]].count
    /\ \A m \in DOMAIN info : info[m].count = 1 => UnitsOf(m) = {<<m, 1>>}
    /\ \A m \in DOMAIN info : info[m].count \in Nat \ {0} => <<m, 1>> \in UnitsOf(m)
<1>1. \A m \in DOMAIN info : \A u \in UnitsOf(m) : u \in AllUnits /\ u[1] = m
  BY DEF AllUnits, UnitsOf
<1>2. \A u \in AllUnits : u[1] \in DOMAIN info /\ u \in UnitsOf(u[1])
  BY DEF AllUnits, UnitsOf
<1>3. \A u \in AllUnits : u = <<u[1], u[2]>> /\ u[2] \in 1 .. info[u[1]].count
  BY DEF AllUnits, UnitsOf
<1>4. \A m \in DOMAIN info : info[m].count = 1 => UnitsOf(m) = {<<m, 1>>}
  BY DEF UnitsOf
<1>5. \A m \in DOMAIN info : info[m].count \in Nat \ {0} => <<m, 1>> \in UnitsOf(m)
  BY DEF UnitsOf
<1> QED  BY <1>1, <1>2, <1>3, <1>4, <1>5

LEMMA UnitsStay ==
    ASSUME info' = info
    PROVE  /\ \A m : UnitsOf(m)' = UnitsOf(m)
           /\ AllUnits' = AllUnits
           /\ \A u : /\ ChannelOf(u)' = ChannelOf(u) /\ (Watched(u)' <=> Watched(u))
                     /\ (IsFragment(u)' <=> IsFragment(u))
BY DEF UnitsOf, AllUnits, ChannelOf, Watched, IsFragment

LEMMA LostStays ==
    ASSUME info' = info, lostPackets' = lostPackets, packets' = packets
    PROVE  \A m : LostOf(m)' = LostOf(m) /\ (Nacked(m)' <=> Nacked(m))
<1>1. \A m : UnitsOf(m)' = UnitsOf(m)
  BY UnitsStay
<1>2. \A u : Watched(u)' <=> Watched(u)
  BY UnitsStay
<1>3. \A m : LostOf(m)' = LostOf(m)
  BY <1>1, <1>2 DEF LostOf
<1> QED  BY <1>3 DEF Nacked

\* What NackIsTrue says where nothing is lost.
LEMMA NacksStay ==
    ASSUME NackIsTrue, info' = info, nacked' = nacked, \A m \in DOMAIN info : LostOf(m)' = LostOf(m)
    PROVE  NackIsTrue'
<1>1. \A m \in DOMAIN info : nacked[m] = Cardinality(LostOf(m))
  BY DEF NackIsTrue, LostOf
<1>2. \A m \in DOMAIN info' : nacked'[m] = Cardinality(LostOf(m)')
  BY <1>1
<1> QED  BY <1>2 DEF NackIsTrue, LostOf

\* What the invariant says of the types, in the form the steps use.
LEMMA TypedFacts ==
    ASSUME TransportTyped
    PROVE  /\ DOMAIN acked = DOMAIN info /\ Len(info) \in Nat /\ DOMAIN info = 1 .. Len(info)
           /\ Len(packets) \in Nat /\ DOMAIN packets = 1 .. Len(packets)
           /\ \A m \in DOMAIN info : /\ acked[m] \in Nat
                                     /\ info[m].chan \in ChannelsUsed /\ info[m].count \in Nat \ {0}
           /\ \A i \in DOMAIN packets : \A u \in packets[i] : u \in AllUnits
<1>1. DOMAIN acked = DOMAIN info /\ Len(info) \in Nat /\ DOMAIN info = 1 .. Len(info)
  BY DEF TransportTyped
<1>2. Len(packets) \in Nat /\ DOMAIN packets = 1 .. Len(packets)
  BY DEF TransportTyped
<1>3. ASSUME NEW m \in DOMAIN info
      PROVE  acked[m] \in Nat /\ info[m].chan \in ChannelsUsed /\ info[m].count \in Nat \ {0}
  <2>1. info[m] \in [chan : ChannelsUsed, count : Lengths]
    <3> DEFINE R == [chan : ChannelsUsed, count : Lengths]
    <3>1. info \in Seq(R)
      BY DEF TransportTyped
    <3> HIDE DEF R
    <3>2. info[m] \in R
      BY <3>1
    <3> QED  BY <3>2 DEF R
  <2>2. acked[m] \in Nat
    BY <1>1 DEF TransportTyped
  <2> QED  BY <2>1, <2>2, TransportAssumption
<1>4. \A i \in DOMAIN packets : packets[i] \subseteq AllUnits
  <2> HIDE DEF AllUnits
  <2> QED  BY <1>2 DEF TransportTyped
<1> QED  BY <1>1, <1>2, <1>3, <1>4

LEMMA UnitsFinite ==
    ASSUME TransportTyped, NEW m \in DOMAIN info
    PROVE  IsFiniteSet(UnitsOf(m)) /\ Cardinality(UnitsOf(m)) = info[m].count
<1>1. info[m].count \in Nat
  BY TypedFacts
<1>2. UnitsOf(m) = {m} \X (1 .. info[m].count)
  BY DEF UnitsOf
<1> DEFINE I == 1 .. info[m].count
<1>3. IsFiniteSet(I) /\ Cardinality(I) = info[m].count
  <2> DEFINE c == info[m].count
  <2>1. c \in Nat
    BY <1>1
  <2> HIDE DEF c
  <2>2. IsFiniteSet(1 .. c) /\ Cardinality(1 .. c) = c
    BY <2>1, FS_Interval
  <2> QED  BY <2>2 DEF c
<1>4. IsFiniteSet({m}) /\ Cardinality({m}) = 1
  BY FS_Singleton
<1> HIDE DEF I
<1>5. IsFiniteSet({m} \X I) /\ Cardinality({m} \X I) = 1 * Cardinality(I)
  BY <1>3, <1>4, FS_Product
<1> QED  BY <1>1, <1>2, <1>3, <1>5 DEF I

-----------------------------------------------------------------------------
(* The link. *)

LEMMA ArriveInv ==
    ASSUME TransportInv, NEW p \in packetsOut, Arrive(p)
    PROVE  TransportInv'
<1>1. /\ info' = info /\ queue' = queue /\ started' = started /\ unacknowledged' = unacknowledged
      /\ ackTrackers' = ackTrackers /\ fragAcks' = fragAcks
      /\ packets' = packets /\ notAcked' = notAcked /\ tracked' = tracked
      /\ acked' = acked /\ nacked' = nacked /\ lostPackets' = lostPackets /\ packetsOut' = packetsOut /\ headers' = headers
      /\ got' = got \cup {p.id} /\ accepted' = accepted \cup p.units
  BY DEF Arrive, channels, tracker, reports, link
<1>2. /\ \A m : UnitsOf(m)' = UnitsOf(m)
      /\ AllUnits' = AllUnits
      /\ \A u : /\ ChannelOf(u)' = ChannelOf(u) /\ (Watched(u)' <=> Watched(u))
                /\ (IsFragment(u)' <=> IsFragment(u))
  BY <1>1, UnitsStay
<1>3. \A u : /\ InPacket(u)' <=> InPacket(u)
             /\ OnTheWay(u)' <=> OnTheWay(u)
             /\ Settled(u)' <=> Settled(u)
             /\ Received(u) => Received(u)'
  BY <1>1 DEF InPacket, OnTheWay, Settled, Received
<1>4. p.id \in DOMAIN packets /\ (Unreadable = {} => p.units = packets[p.id])
  BY DEF TransportInv, LinkIsTrue
<1>5. TransportTyped'
  BY <1>1, <1>2, <1>4 DEF TransportInv, TransportTyped
<1>6. SentOnce'
  BY <1>1, <1>2, <1>3 DEF TransportInv, SentOnce
<1>7. Together'
  BY <1>1, <1>2, <1>3 DEF TransportInv, Together
<1>8. LinkIsTrue'
  BY <1>1, <1>4 DEF TransportInv, LinkIsTrue
<1>9. AcknowledgedIsReceived'
  BY <1>1, <1>2, <1>3 DEF TransportInv, AcknowledgedIsReceived
<1>10. TrackersKnow' /\ ReportIsFinal'
  BY <1>1, <1>2, <1>3, LostStays DEF TransportInv, TrackersKnow, ReportIsFinal
<1>11. NackIsTrue'
  BY <1>1, LostStays, NacksStay DEF TransportInv
<1>12. Tracked'
  BY <1>1, <1>2 DEF TransportInv, Tracked
<1> QED  BY <1>5, <1>6, <1>7, <1>8, <1>9, <1>10, <1>11, <1>12 DEF TransportInv

LEMMA SendHeaderInv ==
    ASSUME TransportInv, SendHeader
    PROVE  TransportInv'
<1>1. /\ info' = info /\ queue' = queue /\ started' = started /\ unacknowledged' = unacknowledged
      /\ ackTrackers' = ackTrackers /\ fragAcks' = fragAcks
      /\ packets' = packets /\ notAcked' = notAcked /\ tracked' = tracked
      /\ acked' = acked /\ nacked' = nacked /\ lostPackets' = lostPackets /\ packetsOut' = packetsOut
      /\ got' = got /\ accepted' = accepted
      /\ \A h \in headers' : h \subseteq got
  BY DEF SendHeader, channels, tracker, reports, peer
<1>2. /\ \A m : UnitsOf(m)' = UnitsOf(m)
      /\ AllUnits' = AllUnits
      /\ \A u : /\ ChannelOf(u)' = ChannelOf(u) /\ (Watched(u)' <=> Watched(u))
                /\ (IsFragment(u)' <=> IsFragment(u))
  BY <1>1, UnitsStay
<1>3. \A u : /\ InPacket(u)' <=> InPacket(u)
             /\ OnTheWay(u)' <=> OnTheWay(u)
             /\ Settled(u)' <=> Settled(u)
             /\ Received(u)' <=> Received(u)
  BY <1>1 DEF InPacket, OnTheWay, Settled, Received
<1>4. TransportTyped'
  BY <1>1, <1>2 DEF TransportInv, TransportTyped
<1>5. SentOnce'
  BY <1>1, <1>2, <1>3 DEF TransportInv, SentOnce
<1>6. Together'
  BY <1>1, <1>2, <1>3 DEF TransportInv, Together
<1>7. LinkIsTrue' /\ AcknowledgedIsReceived'
  BY <1>1, <1>2, <1>3 DEF TransportInv, LinkIsTrue, AcknowledgedIsReceived
<1>8. TrackersKnow' /\ ReportIsFinal'
  BY <1>1, <1>2, <1>3, LostStays DEF TransportInv, TrackersKnow, ReportIsFinal
<1>9. NackIsTrue'
  BY <1>1, LostStays, NacksStay DEF TransportInv
<1>10. Tracked'
  BY <1>1, <1>2 DEF TransportInv, Tracked
<1> QED  BY <1>4, <1>5, <1>6, <1>7, <1>8, <1>9, <1>10 DEF TransportInv

-----------------------------------------------------------------------------
(* A message of the application. *)

LEMMA SeqTyped ==
    ASSUME NEW S, NEW T, NEW s \in Seq(S), \A i \in DOMAIN s : s[i] \in T
    PROVE  s \in Seq(T)
OBVIOUS

\* What SendMut adds: a message m with its units.
Adds(c, count, m, ofIt) ==
    /\ m \notin DOMAIN info /\ DOMAIN info' = DOMAIN info \cup {m} /\ DOMAIN acked' = DOMAIN info'
    /\ \A n \in DOMAIN info : info'[n] = info[n] /\ acked'[n] = acked[n]
    /\ info'[m] = [chan |-> c, count |-> count] /\ acked'[m] = 0
    /\ info' \in Seq([chan : ChannelsUsed, count : Lengths])
    /\ acked' \in Seq(Nat) /\ Len(acked') = Len(info')
    /\ nacked' \in Seq(Nat) /\ Len(nacked') = Len(info')
    /\ nacked'[m] = 0 /\ \A n \in DOMAIN info : nacked'[n] = nacked[n]
    /\ \A n \in DOMAIN info : UnitsOf(n)' = UnitsOf(n)
    /\ UnitsOf(m)' = ofIt /\ AllUnits' = AllUnits \cup ofIt
    /\ \A u \in ofIt : u \notin AllUnits /\ u[1] = m
    /\ \A u \in AllUnits : /\ ChannelOf(u)' = ChannelOf(u) /\ (Watched(u)' <=> Watched(u))
                           /\ (IsFragment(u)' <=> IsFragment(u))
    /\ \A u \in ofIt : ChannelOf(u)' = c
    /\ <<m, 1>> \in ofIt

LEMMA SendMutAdds ==
    ASSUME TransportInv, NEW c \in ChannelsUsed, NEW count \in Lengths, SendMut(c, count)
    PROVE  \A m, ofIt : m = Len(info) + 1 /\ ofIt = {<<m, k>> : k \in 1 .. count} => Adds(c, count, m, ofIt)
<1> SUFFICES ASSUME NEW m, m = Len(info) + 1, NEW ofIt, ofIt = {<<m, k>> : k \in 1 .. count}
             PROVE  Adds(c, count, m, ofIt)
  OBVIOUS
<1>1. /\ info \in Seq([chan : ChannelsUsed, count : Lengths])
      /\ acked \in Seq(Nat) /\ Len(acked) = Len(info)
      /\ nacked \in Seq(Nat) /\ Len(nacked) = Len(info)
  BY DEF TransportInv, TransportTyped
<1>2. /\ info' = Append(info, [chan |-> c, count |-> count])
      /\ acked' = Append(acked, 0) /\ nacked' = Append(nacked, 0)
  BY DEF SendMut
<1>3. Len(info) \in Nat /\ DOMAIN info = 1 .. Len(info)
  BY <1>1
<1>4. /\ info' \in Seq([chan : ChannelsUsed, count : Lengths])
      /\ DOMAIN info' = 1 .. Len(info) + 1 /\ Len(info') = Len(info) + 1
      /\ \A n \in 1 .. Len(info) : info'[n] = info[n]
      /\ info'[Len(info) + 1] = [chan |-> c, count |-> count]
  <2> DEFINE R == [chan : ChannelsUsed, count : Lengths]
             r == [chan |-> c, count |-> count]
  <2>1. r \in R /\ info \in Seq(R)
    BY <1>1
  <2> HIDE DEF R, r
  <2>2. /\ Append(info, r) \in Seq(R)
        /\ DOMAIN Append(info, r) = 1 .. Len(info) + 1 /\ Len(Append(info, r)) = Len(info) + 1
        /\ \A n \in 1 .. Len(info) : Append(info, r)[n] = info[n]
        /\ Append(info, r)[Len(info) + 1] = r
    BY <2>1
  <2> QED  BY <1>2, <2>2 DEF R, r
<1>5. /\ acked' \in Seq(Nat) /\ DOMAIN acked' = 1 .. Len(info) + 1 /\ Len(acked') = Len(info) + 1
      /\ \A n \in 1 .. Len(info) : acked'[n] = acked[n]
      /\ acked'[Len(info) + 1] = 0
  BY <1>1, <1>2
<1>6. /\ m \notin DOMAIN info /\ DOMAIN info' = DOMAIN info \cup {m} /\ DOMAIN acked' = DOMAIN info'
      /\ \A n \in DOMAIN info : info'[n] = info[n] /\ acked'[n] = acked[n]
      /\ info'[m] = [chan |-> c, count |-> count] /\ acked'[m] = 0
  BY <1>3, <1>4, <1>5
<1>7. /\ nacked' \in Seq(Nat) /\ Len(nacked') = Len(info')
      /\ nacked'[m] = 0 /\ \A n \in DOMAIN info : nacked'[n] = nacked[n]
  <2>1. /\ nacked' \in Seq(Nat) /\ Len(nacked') = Len(info) + 1
        /\ \A n \in 1 .. Len(info) : nacked'[n] = nacked[n]
        /\ nacked'[Len(info) + 1] = 0
    BY <1>1, <1>2
  <2> QED  BY <1>3, <1>4, <2>1
<1>8. count \in Nat \ {0}
  BY TransportAssumption
<1>9. /\ \A n \in DOMAIN info : UnitsOf(n)' = UnitsOf(n)
      /\ UnitsOf(m)' = ofIt
  <2>1. info'[m].count = count
    BY <1>6
  <2>2. ASSUME NEW n \in DOMAIN info PROVE UnitsOf(n)' = UnitsOf(n)
    <3>1. info'[n] = info[n]
      BY <1>6
    <3> QED  BY <3>1, Zenon DEF UnitsOf
  <2>3. UnitsOf(m)' = {<<m, k>> : k \in 1 .. info'[m].count}
    BY DEF UnitsOf
  <2> QED  BY <2>1, <2>2, <2>3
<1>10. AllUnits' = AllUnits \cup ofIt
  <2>1. \A x : x \in AllUnits' <=> \E n \in DOMAIN info' : x \in UnitsOf(n)'
    BY DEF AllUnits
  <2>2. \A x : x \in AllUnits <=> \E n \in DOMAIN info : x \in UnitsOf(n)
    BY DEF AllUnits
  <2>3. \A n : n \in DOMAIN info' <=> n \in DOMAIN info \/ n = m
    BY <1>6
  <2>4. ASSUME NEW x, x \in AllUnits' PROVE x \in AllUnits \/ x \in ofIt
    BY ONLY <1>9, <2>1, <2>2, <2>3, <2>4, Zenon
  <2>5. ASSUME NEW x, x \in AllUnits \/ x \in ofIt PROVE x \in AllUnits'
    BY ONLY <1>9, <2>1, <2>2, <2>3, <2>5, Zenon
  <2> QED  BY <2>4, <2>5
<1>11. \A u \in ofIt : u \notin AllUnits /\ u[1] = m
  BY <1>6, UnitsAre
<1>12. \A u \in AllUnits : /\ ChannelOf(u)' = ChannelOf(u) /\ (Watched(u)' <=> Watched(u))
                           /\ (IsFragment(u)' <=> IsFragment(u))
  <2>1. \A u \in AllUnits : info'[u[1]] = info[u[1]]
    BY <1>6, UnitsAre
  <2> QED  BY <2>1 DEF ChannelOf, Watched, IsFragment
<1>13. \A u \in ofIt : ChannelOf(u)' = c
  BY <1>6, <1>11 DEF ChannelOf
<1>14. <<m, 1>> \in ofIt
  BY <1>8
<1> QED  BY <1>4, <1>5, <1>6, <1>7, <1>9, <1>10, <1>11, <1>12, <1>13, <1>14 DEF Adds

LEMMA SendMutInv ==
    ASSUME TransportInv, NEW c \in ChannelsUsed, NEW count \in Lengths, SendMut(c, count)
    PROVE  TransportInv'
<1> SUFFICES ASSUME NEW m, m = Len(info) + 1, NEW ofIt, ofIt = {<<m, k>> : k \in 1 .. count}
             PROVE  TransportInv'
  OBVIOUS
<1>1. /\ m \notin DOMAIN info /\ DOMAIN info' = DOMAIN info \cup {m} /\ DOMAIN acked' = DOMAIN info'
      /\ \A n \in DOMAIN info : info'[n] = info[n] /\ acked'[n] = acked[n]
      /\ info'[m] = [chan |-> c, count |-> count] /\ acked'[m] = 0
      /\ info' \in Seq([chan : ChannelsUsed, count : Lengths])
      /\ acked' \in Seq(Nat) /\ Len(acked') = Len(info')
      /\ nacked' \in Seq(Nat) /\ Len(nacked') = Len(info')
      /\ nacked'[m] = 0 /\ \A n \in DOMAIN info : nacked'[n] = nacked[n]
      /\ \A n \in DOMAIN info : UnitsOf(n)' = UnitsOf(n)
      /\ UnitsOf(m)' = ofIt /\ AllUnits' = AllUnits \cup ofIt
      /\ \A u \in ofIt : u \notin AllUnits /\ u[1] = m
      /\ \A u \in AllUnits : /\ ChannelOf(u)' = ChannelOf(u) /\ (Watched(u)' <=> Watched(u))
                             /\ (IsFragment(u)' <=> IsFragment(u))
      /\ \A u \in ofIt : ChannelOf(u)' = c
      /\ <<m, 1>> \in ofIt
  <2>1. Adds(c, count, m, ofIt)
    BY SendMutAdds, Zenon
  <2> QED  BY <2>1 DEF Adds
<1>2. /\ IF c = "Reliable"
         THEN unacknowledged' = unacknowledged \cup ofIt /\ queue' = queue /\ ackTrackers' = ackTrackers
         ELSE /\ queue' = queue \cup ofIt
              /\ ackTrackers' = IF c = "WithAcks" /\ count > 1 THEN ackTrackers \cup {m} ELSE ackTrackers
              /\ unacknowledged' = unacknowledged
      /\ started' = started /\ fragAcks' = fragAcks
      /\ packets' = packets /\ notAcked' = notAcked /\ tracked' = tracked
      /\ lostPackets' = lostPackets /\ packetsOut' = packetsOut /\ headers' = headers
      /\ got' = got /\ accepted' = accepted
  <2> DEFINE l == Len(info) + 1
             new == {<<l, k>> : k \in 1 .. count}
  <2>1. IF c = "Reliable"
        THEN unacknowledged' = unacknowledged \cup new /\ UNCHANGED <<queue, ackTrackers>>
        ELSE /\ queue' = queue \cup new
             /\ ackTrackers' = IF c = "WithAcks" /\ count > 1 THEN ackTrackers \cup {l} ELSE ackTrackers
             /\ UNCHANGED unacknowledged
    BY DEF SendMut
  <2>2. l = m /\ new = ofIt
    OBVIOUS
  <2> HIDE DEF l, new
  <2>3. UNCHANGED <<started, fragAcks, packets, notAcked, tracked, lostPackets, packetsOut, headers, got, accepted>>
    BY DEF SendMut, tracker, link, peer
  <2> QED  BY <2>1, <2>2, <2>3
<1>3. /\ \A n \in DOMAIN info : \A u \in UnitsOf(n) : u \in AllUnits /\ u[1] = n
      /\ \A u \in AllUnits : u[1] \in DOMAIN info /\ u \in UnitsOf(u[1])
  BY UnitsAre
<1>4. /\ DOMAIN acked = DOMAIN info
      /\ \A i \in DOMAIN packets : packets[i] \subseteq AllUnits
  BY TypedFacts DEF TransportInv
<1>5. \A u : /\ InPacket(u)' <=> InPacket(u)
             /\ OnTheWay(u)' <=> OnTheWay(u)
             /\ Received(u)' <=> Received(u)
  BY <1>2 DEF InPacket, OnTheWay, Received
<1>6. /\ queue \cup unacknowledged \cup fragAcks \subseteq AllUnits
      /\ ackTrackers \subseteq DOMAIN info
      /\ notAcked \cup got \subseteq DOMAIN packets /\ lostPackets \subseteq DOMAIN packets \ notAcked
  BY DEF TransportInv, TransportTyped
<1>7. \A u \in AllUnits : /\ u \in queue' <=> u \in queue
                          /\ u \in unacknowledged' <=> u \in unacknowledged
                          /\ Settled(u)' <=> Settled(u)
  BY <1>1, <1>2, <1>5 DEF Settled
<1>8. \A u \in ofIt : ~ InPacket(u) /\ ~ OnTheWay(u)
  BY <1>1, <1>4, <1>6 DEF InPacket, OnTheWay
<1>9. /\ \A n \in DOMAIN info : LostOf(n)' = LostOf(n) /\ (Nacked(n)' <=> Nacked(n))
      /\ \A n : n = m => LostOf(n)' = {} /\ ~ Nacked(n)'
  <2>1. \A i \in lostPackets : \A u \in packets[i] : u \in AllUnits
    BY <1>4, <1>6
  <2>2. ASSUME NEW n \in DOMAIN info PROVE LostOf(n)' = LostOf(n)
    <3>1. UnitsOf(n)' = UnitsOf(n) /\ \A u \in UnitsOf(n) : Watched(u)' <=> Watched(u)
      BY <1>1, <1>3
    <3> QED  BY <1>2, <3>1 DEF LostOf
  <2>3. ASSUME NEW n, n = m PROVE LostOf(n)' = {}
    <3>1. \A i \in lostPackets, u \in ofIt : u \notin packets[i]
      BY <1>1, <2>1
    <3>2. UnitsOf(m)' = ofIt /\ UnitsOf(n)' = UnitsOf(m)'
      BY <1>1, <2>3 DEF UnitsOf
    <3>3. LostOf(n)' = {x \in lostPackets \X ofIt : x[2] \in packets[x[1]] /\ Watched(x[2])'}
      BY <1>2, <3>2 DEF LostOf
    <3> QED  BY <3>1, <3>3
  <2> QED  BY <2>2, <2>3 DEF Nacked
<1>10. TransportTyped'
  <2>1. packets' \in Seq(SUBSET AllUnits')
    <3>1. \A i \in DOMAIN packets : packets[i] \in SUBSET AllUnits'
      BY <1>1, <1>4
    <3>2. packets \in Seq(SUBSET AllUnits)
      BY DEF TransportInv, TransportTyped
    <3> QED  BY <1>2, <3>1, <3>2, SeqTyped
  <2>2. ackTrackers' \subseteq {n \in DOMAIN info' : info'[n].chan = "WithAcks" /\ info'[n].count > 1}
    <3>1. \A n \in ackTrackers : n \in DOMAIN info' /\ info'[n].chan = "WithAcks" /\ info'[n].count > 1
      BY <1>1 DEF TransportInv, TransportTyped
    <3> QED  BY <1>1, <1>2, <3>1
  <2>3. queue' \cup unacknowledged' \cup fragAcks' \subseteq AllUnits'
    BY <1>1, <1>2, <1>6
  <2>4. \A h \in headers' : h \subseteq got'
    BY <1>2 DEF TransportInv, TransportTyped
  <2>5. notAcked' \cup got' \subseteq DOMAIN packets' /\ lostPackets' \subseteq DOMAIN packets' \ notAcked'
    BY <1>1, <1>2, <1>6
  <2> QED  BY <1>1, <2>1, <2>2, <2>3, <2>4, <2>5 DEF TransportTyped
<1>11. SentOnce'
  <2>1. \A u \in unacknowledged' : ChannelOf(u)' = "Reliable"
    <3>1. \A u \in unacknowledged : ChannelOf(u)' = "Reliable"
      BY <1>1, <1>6 DEF TransportInv, SentOnce
    <3> QED  BY <1>1, <1>2, <3>1
  <2>2. \A u \in queue' : ChannelOf(u)' # "Reliable" /\ ~ InPacket(u)
    <3>1. \A u \in queue : ChannelOf(u)' # "Reliable" /\ ~ InPacket(u)
      BY <1>1, <1>6 DEF TransportInv, SentOnce
    <3> QED  BY <1>1, <1>2, <1>8, <3>1
  <2>3. \A i, j \in DOMAIN packets : \A u \in packets[i] \cap packets[j] :
           ChannelOf(u)' # "Reliable" => i = j
    BY <1>1, <1>4 DEF TransportInv, SentOnce
  <2> QED  BY <1>2, <1>5, <2>1, <2>2, <2>3 DEF SentOnce
<1>12. Together'
  <2>1. ASSUME NEW u \in AllUnits, ChannelOf(u)' # "Reliable", u \in queue' \/ InPacket(u)
        PROVE  /\ \A v \in UnitsOf(u[1])' : v \in queue' \/ InPacket(v)
               /\ IsFragment(u)' /\ InPacket(u) => u[1] \in started
    <3>1. UnitsOf(u[1])' = UnitsOf(u[1])
      BY <1>1, <1>3
    <3>2. ChannelOf(u) # "Reliable" /\ (u \in queue \/ InPacket(u)) /\ (IsFragment(u)' <=> IsFragment(u))
      BY <1>1, <1>7, <2>1
    <3>3. /\ \A v \in UnitsOf(u[1]) : v \in queue \/ InPacket(v)
          /\ IsFragment(u) /\ InPacket(u) => u[1] \in started
      BY <3>2 DEF TransportInv, Together
    <3>4. queue \subseteq queue'
      BY <1>2
    <3> QED  BY <3>1, <3>2, <3>3, <3>4
  <2>2. ASSUME NEW u \in ofIt, ChannelOf(u)' # "Reliable"
        PROVE  \A v \in UnitsOf(u[1])' : v \in queue'
    BY <1>1, <1>2, <2>2
  <2> QED  BY <1>1, <1>2, <1>5, <1>8, <2>1, <2>2 DEF Together
<1>13. LinkIsTrue'
  BY <1>2 DEF TransportInv, LinkIsTrue
<1>14. AcknowledgedIsReceived'
  <2>1. \A u \in fragAcks : Received(u) /\ Settled(u)' /\ u[1] \in ackTrackers'
    <3>1. ackTrackers \subseteq ackTrackers'
      BY <1>2
    <3> QED  BY <1>6, <1>7, <3>1 DEF TransportInv, AcknowledgedIsReceived
  <2>2. ASSUME NEW n \in DOMAIN info', NEW u \in UnitsOf(n)',
               \/ info'[n].chan = "Reliable" /\ u \notin unacknowledged'
               \/ acked'[n] > 0
        PROVE  Received(u)
    <3>1. CASE n = m
      BY <1>1, <1>2, <2>2, <3>1
    <3>2. CASE n # m
      <4>1. n \in DOMAIN info /\ info'[n] = info[n] /\ acked'[n] = acked[n]
        BY <1>1, <1>2, <2>2, <3>2
      <4>2. UnitsOf(n)' = UnitsOf(n)
        BY <4>1 DEF UnitsOf
      <4>3. u \in UnitsOf(n) /\ (u \notin unacknowledged' => u \notin unacknowledged)
        BY <1>2, <2>2, <4>2
      <4> QED  BY <2>2, <4>1, <4>3 DEF TransportInv, AcknowledgedIsReceived
    <3> QED  BY <3>1, <3>2
  <2> QED  BY <1>2, <1>5, <2>1, <2>2 DEF AcknowledgedIsReceived
<1>15. TrackersKnow'
  <2> SUFFICES ASSUME NEW n \in ackTrackers'
               PROVE  /\ \A u \in UnitsOf(n)' : InPacket(u) /\ ~ OnTheWay(u) => u \in fragAcks
                      /\ \E u \in UnitsOf(n)' : ~ Settled(u)'
    BY <1>2, <1>5 DEF TrackersKnow
  <2>1. CASE n = m
    <3>1. <<m, 1>> \in queue'
      BY <1>1, <1>2, <1>6, <2>1
    <3>2. \E u \in UnitsOf(n)' : u \in queue'
      BY <1>1, <2>1, <3>1
    <3> QED  BY <1>1, <1>8, <2>1, <3>2 DEF Settled
  <2>2. CASE n # m
    <3>1. n \in ackTrackers /\ n \in DOMAIN info /\ UnitsOf(n)' = UnitsOf(n)
      BY <1>1, <1>2, <1>6, <2>2
    <3> QED  BY <1>3, <1>7, <3>1 DEF TransportInv, TrackersKnow
  <2> QED  BY <2>1, <2>2
<1>16. ReportIsFinal'
  <2> SUFFICES ASSUME NEW n \in DOMAIN info'
               PROVE  /\ acked'[n] <= 1
                      /\ info'[n].chan = "Reliable" /\ acked'[n] > 0 => UnitsOf(n)' \cap unacknowledged' = {}
                      /\ info'[n].chan = "WithAcks" /\ acked'[n] > 0 =>
                            ~ Nacked(n)' /\ \A u \in UnitsOf(n)' : Settled(u)'
                      /\ info'[n].chan = "WithAcks" /\ Nacked(n)' /\ info'[n].count = 1 => Settled(<<n, 1>>)'
                      /\ acked'[n] > 0 \/ Nacked(n)' => n \notin ackTrackers'
                      /\ info'[n].chan = "Plain" => acked'[n] = 0 /\ ~ Nacked(n)'
    BY <1>2 DEF ReportIsFinal
  <2>1. CASE n = m
    <3>1. ~ Nacked(n)' /\ acked'[n] = 0
      BY <1>1, <1>9, <2>1
    <3> QED  BY <3>1
  <2>2. CASE n # m
    <3>1. /\ n \in DOMAIN info /\ info'[n] = info[n] /\ acked'[n] = acked[n] /\ UnitsOf(n)' = UnitsOf(n)
          /\ n \in ackTrackers' <=> n \in ackTrackers
      BY <1>1, <1>2, <2>2
    <3>2. UnitsOf(n) \cap unacknowledged' = UnitsOf(n) \cap unacknowledged
      BY <1>3, <1>7, <3>1
    <3>3. \A u \in UnitsOf(n) : Settled(u)' <=> Settled(u)
      BY <1>3, <1>7, <3>1
    <3>4. info[n].count = 1 => <<n, 1>> \in UnitsOf(n)
      BY <3>1, UnitsAre
    <3>5. /\ acked[n] <= 1
          /\ info[n].chan = "Reliable" /\ acked[n] > 0 => UnitsOf(n) \cap unacknowledged = {}
          /\ info[n].chan = "WithAcks" /\ acked[n] > 0 => ~ Nacked(n) /\ \A u \in UnitsOf(n) : Settled(u)
          /\ info[n].chan = "WithAcks" /\ Nacked(n) /\ info[n].count = 1 => Settled(<<n, 1>>)
          /\ acked[n] > 0 \/ Nacked(n) => n \notin ackTrackers
          /\ info[n].chan = "Plain" => acked[n] = 0 /\ ~ Nacked(n)
      BY <3>1 DEF TransportInv, ReportIsFinal
    <3>6. Nacked(n)' <=> Nacked(n)
      BY <1>9, <3>1
    <3> QED  BY <3>1, <3>2, <3>3, <3>4, <3>5, <3>6
  <2> QED  BY <2>1, <2>2
<1>17. Tracked'
  <2>1. tracked = {x \in notAcked \X AllUnits : x[2] \in packets[x[1]] /\ Watched(x[2])}
    BY DEF TransportInv, Tracked
  <2>2. \A i \in notAcked : \A u : u \in packets[i] => u \in AllUnits
    BY <1>4, <1>6
  <2>3. {x \in notAcked \X AllUnits : x[2] \in packets[x[1]] /\ Watched(x[2])}
          = {x \in notAcked \X (AllUnits \cup ofIt) : x[2] \in packets[x[1]] /\ Watched(x[2])'}
    <3>1. \A i \in notAcked, u \in AllUnits \cup ofIt :
             u \in packets[i] => u \in AllUnits /\ (Watched(u)' <=> Watched(u))
      BY <1>1, <2>2
    <3> QED  BY <3>1
  <2> QED  BY <1>1, <1>2, <2>1, <2>3 DEF Tracked
<1>18. NackIsTrue'
  <2>1. \A n \in DOMAIN info : nacked[n] = Cardinality(LostOf(n))
    BY DEF TransportInv, NackIsTrue, LostOf
  <2>2. Cardinality({}) = 0
    BY FS_EmptySet
  <2>3. ASSUME NEW n \in DOMAIN info' PROVE nacked'[n] = Cardinality(LostOf(n)')
    <3>1. CASE n = m
      <4>1. nacked'[n] = 0 /\ LostOf(n)' = {}
        BY <1>1, <1>9, <3>1
      <4> QED  BY <2>2, <4>1
    <3>2. CASE n # m
      <4>1. n \in DOMAIN info /\ nacked'[n] = nacked[n] /\ LostOf(n)' = LostOf(n)
        BY <1>1, <1>9, <3>2
      <4> QED  BY <2>1, <4>1
    <3> QED  BY <3>1, <3>2
  <2> QED  BY <2>3 DEF NackIsTrue, LostOf
<1> QED  BY <1>10, <1>11, <1>12, <1>13, <1>14, <1>15, <1>16, <1>17, <1>18 DEF TransportInv

-----------------------------------------------------------------------------
(* A flush. *)

\* The packets of a flush carry what is eligible, each unit at most once.
LEMMA FlushShape ==
    ASSUME NEW E, NEW flush \in Flushes(E)
    PROVE  /\ flush \in Seq(SUBSET E) /\ Len(flush) \in Nat /\ DOMAIN flush = 1 .. Len(flush)
           /\ \A i, j \in DOMAIN flush : i # j => flush[i] \cap flush[j] = {}
<1> DEFINE one == {ofIt \in SUBSET E : Packable(ofIt)}
<1>1. \/ flush = <<>>
      \/ \E a \in one : flush = <<a>>
      \/ \E a, b \in one : flush = <<a, b>> /\ a \cap b = {}
  BY DEF Flushes
<1>2. \A a \in one : a \in SUBSET E
  OBVIOUS
<1> HIDE DEF one
<1>3. CASE flush = <<>>
  BY <1>3
<1>4. CASE \E a \in one : flush = <<a>>
  <2>1. PICK a \in one : flush = <<a>>
    BY <1>4
  <2>2. a \in SUBSET E
    BY <1>2
  <2> QED  BY <2>1, <2>2
<1>5. CASE \E a, b \in one : flush = <<a, b>> /\ a \cap b = {}
  <2>1. PICK a \in one, b \in one : flush = <<a, b>> /\ a \cap b = {}
    BY <1>5
  <2>2. a \in SUBSET E /\ b \in SUBSET E
    BY <1>2
  <2>3. /\ flush \in Seq(SUBSET E) /\ Len(flush) = 2 /\ DOMAIN flush = 1 .. 2
        /\ flush[1] = a /\ flush[2] = b
    BY <2>1, <2>2
  <2>4. \A i \in 1 .. 2 : i = 1 \/ i = 2
    OBVIOUS
  <2> QED  BY <2>1, <2>3, <2>4
<1> QED  BY <1>1, <1>3, <1>4, <1>5

\* The packets and their books after a flush.
Flushed(ids, sentNow) ==
    /\ ids \cap DOMAIN packets = {} /\ DOMAIN packets' = DOMAIN packets \cup ids
    /\ \A i \in DOMAIN packets : packets'[i] = packets[i]
    /\ \A i \in ids : packets'[i] \subseteq sentNow
    /\ \A u \in sentNow : \E i \in ids : u \in packets'[i]
    /\ \A i, j \in ids : i # j => packets'[i] \cap packets'[j] = {}
    /\ sentNow \subseteq queue \cup unacknowledged
    /\ packets' \in Seq(SUBSET AllUnits)
    /\ notAcked' = notAcked \cup ids
    /\ tracked' = tracked \cup {x \in ids \X sentNow : x[2] \in packets'[x[1]] /\ Watched(x[2])}
    /\ \A p \in packetsOut' : \/ p \in packetsOut
                              \/ p.id \in ids /\ (Unreadable = {} => p.units = packets'[p.id])

LEMMA FlushPackets ==
    ASSUME TransportInv, NEW discard, NEW first,
           NEW flush \in Flushes(queue \cup unacknowledged), BufferSendAll(flush, discard, first),
           NEW ids, ids = (Len(packets) + 1) .. (Len(packets) + Len(flush)),
           NEW sentNow, sentNow = UNION {flush[k] : k \in DOMAIN flush}
    PROVE  Flushed(ids, sentNow)
<1> DEFINE E == queue \cup unacknowledged
<1>1. /\ flush \in Seq(SUBSET E) /\ Len(flush) \in Nat /\ DOMAIN flush = 1 .. Len(flush)
      /\ \A i, j \in DOMAIN flush : i # j => flush[i] \cap flush[j] = {}
  BY FlushShape
<1>2. E \subseteq AllUnits /\ packets \in Seq(SUBSET AllUnits)
  BY DEF TransportInv, TransportTyped
<1>3. Len(packets) \in Nat /\ DOMAIN packets = 1 .. Len(packets)
  BY TypedFacts DEF TransportInv
<1> DEFINE new == {[id |-> i, units |-> flush[i - Len(packets)]] : i \in ids}
<1>4. /\ packets' = packets \o flush
      /\ notAcked' = notAcked \cup ids
      /\ tracked' = tracked \cup UNION {{<<p.id, u>> : u \in {v \in p.units : Watched(v)}} : p \in new}
      /\ packetsOut' = packetsOut \cup {[id |-> p.id, units |-> Readable(p.units, first)] : p \in new}
  BY DEF BufferSendAll
<1>5. flush \in Seq(SUBSET AllUnits)
  <2>1. \A i \in DOMAIN flush : flush[i] \in SUBSET AllUnits
    <3> HIDE DEF E
    <3>1. \A i \in DOMAIN flush : flush[i] \in SUBSET E
      BY <1>1
    <3> QED  BY <1>2, <3>1
  <2> HIDE DEF E
  <2> QED  BY <1>1, <2>1, SeqTyped
<1>6. /\ packets' \in Seq(SUBSET AllUnits) /\ Len(packets') = Len(packets) + Len(flush)
      /\ \A i \in 1 .. Len(packets) + Len(flush) :
            packets'[i] = IF i <= Len(packets) THEN packets[i] ELSE flush[i - Len(packets)]
  <2>1. /\ packets \o flush \in Seq(SUBSET AllUnits)
        /\ Len(packets \o flush) = Len(packets) + Len(flush)
        /\ \A i \in 1 .. Len(packets) + Len(flush) : (packets \o flush)[i] =
              IF i <= Len(packets) THEN packets[i] ELSE flush[i - Len(packets)]
    BY <1>2, <1>5, ConcatProperties, Zenon
  <2> QED  BY <1>4, <2>1
<1>7. DOMAIN packets' = 1 .. Len(packets) + Len(flush)
  BY <1>6
<1>8. /\ ids \cap DOMAIN packets = {} /\ DOMAIN packets' = DOMAIN packets \cup ids
      /\ \A i \in DOMAIN packets : packets'[i] = packets[i]
      /\ \A i \in ids : /\ i - Len(packets) \in DOMAIN flush
                        /\ packets'[i] = flush[i - Len(packets)]
  BY <1>1, <1>3, <1>6, <1>7
<1>9. \A k \in DOMAIN flush : k + Len(packets) \in ids /\ packets'[k + Len(packets)] = flush[k]
  BY <1>1, <1>3, <1>6
<1>10. \A u : u \in sentNow <=> \E k \in DOMAIN flush : u \in flush[k]
  OBVIOUS
<1>11. \A i \in ids : packets'[i] \subseteq sentNow
  BY <1>8, <1>10
<1>12. \A u \in sentNow : \E i \in ids : u \in packets'[i]
  BY <1>9, <1>10
<1>13. \A i, j \in ids : i # j => packets'[i] \cap packets'[j] = {}
  <2>1. \A i, j \in ids : i # j => i - Len(packets) # j - Len(packets)
    BY <1>3, <1>1
  <2> QED  BY <1>1, <1>8, <2>1
<1>14. sentNow \subseteq queue \cup unacknowledged
  <2>1. \A k \in DOMAIN flush : flush[k] \subseteq E
    BY <1>1
  <2> QED  BY <1>10, <2>1
<1>15. \A x : x \in new <=> \E i \in ids : x = [id |-> i, units |-> packets'[i]]
  BY <1>8
<1> HIDE DEF new, E
<1>16. tracked' = tracked \cup {x \in ids \X sentNow : x[2] \in packets'[x[1]] /\ Watched(x[2])}
  <2> DEFINE A == UNION {{<<p.id, u>> : u \in {v \in p.units : Watched(v)}} : p \in new}
             B == {x \in ids \X sentNow : x[2] \in packets'[x[1]] /\ Watched(x[2])}
  <2>1. ASSUME NEW x \in A PROVE x \in B
    <3>1. PICK p \in new : \E u \in p.units : Watched(u) /\ x = <<p.id, u>>
      BY <2>1
    <3>2. PICK i \in ids : p = [id |-> i, units |-> packets'[i]]
      BY <1>15
    <3>3. PICK u \in packets'[i] : Watched(u) /\ x = <<i, u>>
      BY <3>1, <3>2
    <3>4. u \in sentNow
      BY <1>11
    <3> QED  BY <3>3, <3>4
  <2>2. ASSUME NEW x \in B PROVE x \in A
    <3>1. PICK i \in ids, u \in sentNow : x = <<i, u>> /\ u \in packets'[i] /\ Watched(u)
      BY <2>2
    <3>2. [id |-> i, units |-> packets'[i]] \in new
      BY <1>15
    <3> DEFINE p == [id |-> i, units |-> packets'[i]]
    <3>3. p \in new /\ u \in {v \in p.units : Watched(v)} /\ x = <<p.id, u>>
      BY <3>1, <3>2
    <3> HIDE DEF p
    <3> QED  BY <3>3
  <2>3. A = B
    BY <2>1, <2>2
  <2>4. tracked' = tracked \cup A
    BY <1>4
  <2> HIDE DEF A, B
  <2>5. tracked' = tracked \cup B
    BY <2>3, <2>4
  <2> QED  BY <2>5 DEF B
<1>17. \A p \in packetsOut' : \/ p \in packetsOut
                              \/ p.id \in ids /\ (Unreadable = {} => p.units = packets'[p.id])
  <2> SUFFICES ASSUME NEW p \in packetsOut', p \notin packetsOut
               PROVE  p.id \in ids /\ (Unreadable = {} => p.units = packets'[p.id])
    OBVIOUS
  <2>1. PICK q \in new : p = [id |-> q.id, units |-> Readable(q.units, first)]
    BY <1>4
  <2>2. PICK i \in ids : q = [id |-> i, units |-> packets'[i]]
    BY <1>15
  <2>3. q.id = i /\ q.units = packets'[i] /\ p.id = i /\ p.units = Readable(packets'[i], first)
    BY <2>1, <2>2
  <2>4. Unreadable = {} => Readable(packets'[i], first) = packets'[i]
    BY DEF Readable
  <2> QED  BY <2>3, <2>4
<1> QED  BY <1>4, <1>6, <1>8, <1>11, <1>12, <1>13, <1>14, <1>16, <1>17 DEF Flushed

\* The unreliable channels after a flush that sent the units of sentNow.
Finished(sentNow) ==
    /\ queue' \subseteq queue \ sentNow /\ started \subseteq started'
    /\ \A u \in queue \cap sentNow : IsFragment(u) => u[1] \in started'
    /\ \A u, v \in queue \ sentNow : u[1] = v[1] /\ u \in queue' => v \in queue'
    /\ \A u \in queue \ sentNow : u \notin queue' => u[1] \notin started'
    /\ ackTrackers' \subseteq ackTrackers
    /\ \A u \in queue \ sentNow : u \notin queue' /\ IsFragment(u) /\ u[2] = 1 => u[1] \notin ackTrackers'
    /\ fragAcks' = {u \in fragAcks : u[1] \in ackTrackers'}

LEMMA FlushFinishes ==
    ASSUME TransportInv, NEW discard \in BOOLEAN, NEW sentNow,
           FinishSend(sentNow \ unacknowledged, discard)
    PROVE  Finished(sentNow)
<1> DEFINE U == sentNow \ unacknowledged
           begun == started \cup {u[1] : u \in {v \in U : IsFragment(v)}}
           dropped == {u \in queue \ U : discard /\ u[1] \notin begun}
<1>1. /\ started' = begun
      /\ queue' = queue \ (U \cup dropped)
      /\ ackTrackers' = ackTrackers \ {u[1] : u \in {v \in dropped : IsFragment(v) /\ v[2] = 1}}
      /\ fragAcks' = {u \in fragAcks : u[1] \in ackTrackers'}
  BY DEF FinishSend
<1>2. \A u \in queue : u \notin unacknowledged
  BY DEF TransportInv, SentOnce
<1>3. \A u \in queue : u \in U <=> u \in sentNow
  BY <1>2
<1>4. \A u : u \in dropped <=> u \in queue \ sentNow /\ discard /\ u[1] \notin started'
  BY <1>1, <1>3
<1>5. started \subseteq started' /\ \A u \in U : IsFragment(u) => u[1] \in started'
  BY <1>1
<1>6. /\ ackTrackers' \subseteq ackTrackers
      /\ \A u \in dropped : IsFragment(u) /\ u[2] = 1 => u[1] \notin ackTrackers'
  BY <1>1
<1>7. \A u \in queue : u \in queue' <=> u \notin sentNow /\ u \notin dropped
  BY <1>1, <1>3
<1>8. queue' \subseteq queue
  BY <1>1
<1> HIDE DEF U, begun, dropped
<1> QED  BY <1>1, <1>3, <1>4, <1>5, <1>6, <1>7, <1>8 DEF Finished

LEMMA FlushInv ==
    ASSUME TransportInv, NEW discard \in BOOLEAN, NEW first,
           NEW flush \in Flushes(queue \cup unacknowledged), BufferSendAll(flush, discard, first)
    PROVE  TransportInv'
<1> SUFFICES ASSUME NEW ids, ids = (Len(packets) + 1) .. (Len(packets) + Len(flush)),
                    NEW sentNow, sentNow = UNION {flush[k] : k \in DOMAIN flush}
             PROVE  TransportInv'
  OBVIOUS
<1>1. /\ ids \cap DOMAIN packets = {} /\ DOMAIN packets' = DOMAIN packets \cup ids
      /\ \A i \in DOMAIN packets : packets'[i] = packets[i]
      /\ \A i \in ids : packets'[i] \subseteq sentNow
      /\ \A u \in sentNow : \E i \in ids : u \in packets'[i]
      /\ \A i, j \in ids : i # j => packets'[i] \cap packets'[j] = {}
      /\ sentNow \subseteq queue \cup unacknowledged
      /\ packets' \in Seq(SUBSET AllUnits)
      /\ notAcked' = notAcked \cup ids
      /\ tracked' = tracked \cup {x \in ids \X sentNow : x[2] \in packets'[x[1]] /\ Watched(x[2])}
      /\ \A p \in packetsOut' : \/ p \in packetsOut
                                \/ p.id \in ids /\ (Unreadable = {} => p.units = packets'[p.id])
  <2>1. Flushed(ids, sentNow)
    BY FlushPackets
  <2> QED  BY <2>1 DEF Flushed
<1>2. Finished(sentNow)
  <2>1. FinishSend(sentNow \ unacknowledged, discard)
    BY DEF BufferSendAll
  <2> QED  BY <2>1, FlushFinishes
<1>3. /\ info' = info /\ unacknowledged' = unacknowledged /\ acked' = acked /\ nacked' = nacked
      /\ lostPackets' = lostPackets /\ headers' = headers /\ got' = got /\ accepted' = accepted
  BY DEF BufferSendAll, reports, peer
<1>4. /\ \A m : UnitsOf(m)' = UnitsOf(m)
      /\ AllUnits' = AllUnits
      /\ \A u : /\ ChannelOf(u)' = ChannelOf(u) /\ (Watched(u)' <=> Watched(u))
                /\ (IsFragment(u)' <=> IsFragment(u))
  BY <1>3, UnitsStay
<1>5. /\ queue \cup unacknowledged \cup fragAcks \subseteq AllUnits
      /\ ackTrackers \subseteq {m \in DOMAIN info : info[m].chan = "WithAcks" /\ info[m].count > 1}
      /\ notAcked \cup got \subseteq DOMAIN packets
      /\ \A i \in DOMAIN packets : packets[i] \subseteq AllUnits
  BY TypedFacts DEF TransportInv, TransportTyped
<1>6. \A u : /\ InPacket(u)' <=> InPacket(u) \/ u \in sentNow
             /\ OnTheWay(u)' <=> OnTheWay(u) \/ u \in sentNow
             /\ Received(u)' <=> Received(u)
  <2>1. \A u : u \in sentNow <=> \E i \in ids : u \in packets'[i]
    BY <1>1
  <2> QED  BY <1>1, <1>3, <1>5, <2>1 DEF InPacket, OnTheWay, Received
<1>7. /\ \A u \in unacknowledged : ChannelOf(u) = "Reliable"
      /\ \A u \in queue : ChannelOf(u) # "Reliable" /\ ~ InPacket(u)
      /\ \A i, j \in DOMAIN packets : \A u \in packets[i] \cap packets[j] :
            ChannelOf(u) # "Reliable" => i = j
  BY DEF TransportInv, SentOnce
<1>8. \A u \in AllUnits : ChannelOf(u) # "Reliable" /\ Settled(u) => Settled(u)'
  BY <1>1, <1>2, <1>6, <1>7 DEF Settled, Finished
<1>9. /\ \A m \in DOMAIN info : \A u \in UnitsOf(m) : u \in AllUnits /\ u[1] = m
      /\ \A u \in AllUnits : u[1] \in DOMAIN info /\ u \in UnitsOf(u[1])
  BY UnitsAre
<1>10. TransportTyped'
  <2>1. queue' \cup unacknowledged' \cup fragAcks' \subseteq AllUnits' /\ ackTrackers' \subseteq ackTrackers
    BY <1>2, <1>3, <1>4, <1>5 DEF Finished
  <2>2. notAcked' \cup got' \subseteq DOMAIN packets'
    BY <1>1, <1>3, <1>5
  <2>3. /\ info \in Seq([chan : ChannelsUsed, count : Lengths])
        /\ acked \in Seq(Nat) /\ Len(acked) = Len(info)
        /\ nacked \in Seq(Nat) /\ Len(nacked) = Len(info) /\ \A h \in headers : h \subseteq got
    BY DEF TransportInv, TransportTyped
  <2>4. lostPackets' \subseteq DOMAIN packets' \ notAcked'
    BY <1>1, <1>3 DEF TransportInv, TransportTyped
  <2> QED  BY <1>1, <1>3, <1>4, <1>5, <2>1, <2>2, <2>3, <2>4 DEF TransportTyped
<1>11. SentOnce'
  <2>1. \A u \in queue' : ChannelOf(u) # "Reliable" /\ ~ InPacket(u)'
    BY <1>2, <1>6, <1>7 DEF Finished
  <2>2. ASSUME NEW i \in DOMAIN packets', NEW j \in DOMAIN packets', NEW u \in packets'[i] \cap packets'[j],
               ChannelOf(u) # "Reliable"
        PROVE  i = j
    <3>1. CASE i \in DOMAIN packets /\ j \in DOMAIN packets
      BY <1>1, <1>7, <2>2, <3>1
    <3>2. CASE i \in ids /\ j \in ids
      BY <1>1, <3>2
    <3>3. CASE (i \in ids) # (j \in ids)
      <4>1. u \in sentNow /\ InPacket(u)
        BY <1>1, <3>3 DEF InPacket
      <4> QED  BY <1>1, <1>7, <2>2, <4>1
    <3> QED  BY <1>1, <3>1, <3>2, <3>3
  <2> QED  BY <1>3, <1>4, <1>7, <2>1, <2>2 DEF SentOnce
<1>12. Together'
  <2> SUFFICES ASSUME NEW u \in AllUnits, ChannelOf(u) # "Reliable", u \in queue' \/ InPacket(u) \/ u \in sentNow
               PROVE  /\ \A v \in UnitsOf(u[1]) : v \in queue' \/ InPacket(v) \/ v \in sentNow
                      /\ IsFragment(u) /\ (InPacket(u) \/ u \in sentNow) => u[1] \in started'
    BY <1>4, <1>6 DEF Together
  <2>1. u \in queue \/ InPacket(u)
    BY <1>1, <1>2, <1>7 DEF Finished
  <2>2. /\ \A v \in UnitsOf(u[1]) : v \in queue \/ InPacket(v)
        /\ IsFragment(u) /\ InPacket(u) => u[1] \in started
    BY <2>1 DEF TransportInv, Together
  <2>3. IsFragment(u) /\ (InPacket(u) \/ u \in sentNow) => u[1] \in started'
    <3>1. u \in sentNow => u \in queue
      BY <1>1, <1>7
    <3> QED  BY <1>2, <2>2, <3>1 DEF Finished
  <2>4. ASSUME NEW v \in UnitsOf(u[1]), v \in queue, v \notin sentNow PROVE v \in queue'
    <3>1. v[1] = u[1]
      BY <1>9
    <3>2. CASE u \in queue'
      BY <1>2, <2>4, <3>1, <3>2 DEF Finished
    <3>3. CASE u \notin queue' /\ IsFragment(u)
      BY <1>2, <2>3, <2>4, <3>1, <3>3 DEF Finished
    <3>4. CASE u \notin queue' /\ ~ IsFragment(u)
      <4>1. info[u[1]].count = 1
        BY <1>9, <3>4, TypedFacts DEF IsFragment, TransportInv
      <4>2. v = u
        BY <1>9, <4>1, UnitsAre
      <4> QED  BY <1>7, <2>4, <3>4, <4>2
    <3> QED  BY <3>2, <3>3, <3>4
  <2> QED  BY <2>2, <2>3, <2>4
<1>13. LinkIsTrue'
  <2>1. \A p \in packetsOut : p.id \in DOMAIN packets /\ (Unreadable = {} => p.units = packets[p.id])
    BY DEF TransportInv, LinkIsTrue
  <2>2. \A p \in packetsOut' : p.id \in DOMAIN packets' /\ (Unreadable = {} => p.units = packets'[p.id])
    BY <1>1, <2>1
  <2>3. Unreadable = {} => \A i \in got : packets'[i] \subseteq accepted
    BY <1>1, <1>5 DEF TransportInv, LinkIsTrue
  <2> QED  BY <1>3, <2>2, <2>3 DEF LinkIsTrue
<1>14. AcknowledgedIsReceived'
  <2>1. \A u \in fragAcks' : Received(u) /\ Settled(u)' /\ u[1] \in ackTrackers'
    <3>1. \A u \in fragAcks' : u \in fragAcks /\ u[1] \in ackTrackers'
      BY <1>2 DEF Finished
    <3>2. \A u \in fragAcks : u \in AllUnits /\ Received(u) /\ Settled(u) /\ ChannelOf(u) = "WithAcks"
      BY <1>5 DEF TransportInv, AcknowledgedIsReceived, ChannelOf
    <3> QED  BY <1>8, <3>1, <3>2
  <2>2. \A m \in DOMAIN info : \A u \in UnitsOf(m) :
           (info[m].chan = "Reliable" /\ u \notin unacknowledged) \/ acked[m] > 0 => Received(u)
    BY DEF TransportInv, AcknowledgedIsReceived
  <2> QED  BY <1>3, <1>4, <1>6, <2>1, <2>2 DEF AcknowledgedIsReceived
<1>15. TrackersKnow'
  <2> SUFFICES ASSUME NEW m \in ackTrackers'
               PROVE  /\ \A u \in UnitsOf(m) : InPacket(u)' /\ ~ OnTheWay(u)' => u \in fragAcks'
                      /\ \E u \in UnitsOf(m) : ~ Settled(u)'
    BY <1>4 DEF TrackersKnow
  <2>1. m \in ackTrackers /\ m \in DOMAIN info /\ info[m].chan = "WithAcks" /\ info[m].count > 1
    BY <1>2, <1>5 DEF Finished
  <2>2. /\ \A u \in UnitsOf(m) : InPacket(u) /\ ~ OnTheWay(u) => u \in fragAcks
        /\ \E u \in UnitsOf(m) : ~ Settled(u)
    BY <2>1 DEF TransportInv, TrackersKnow
  <2>3. \A u \in UnitsOf(m) : u \in AllUnits /\ u[1] = m /\ ChannelOf(u) = "WithAcks" /\ IsFragment(u)
    BY <1>9, <2>1 DEF ChannelOf, IsFragment
  <2>4. \A u \in UnitsOf(m) : InPacket(u)' /\ ~ OnTheWay(u)' => u \in fragAcks'
    BY <1>2, <1>6, <2>2, <2>3 DEF Finished
  <2>5. PICK u \in UnitsOf(m) : ~ Settled(u)
    BY <2>2
  <2>6. CASE OnTheWay(u) \/ u \in sentNow \/ u \in queue'
    BY <1>6, <2>4, <2>5, <2>6 DEF Settled
  <2>7. CASE u \in queue \ sentNow /\ u \notin queue'
    <3>1. <<m, 1>> \in UnitsOf(m)
      BY <2>1, UnitsAre, TypedFacts DEF TransportInv
    <3> DEFINE v == <<m, 1>>
    <3>2. v \in UnitsOf(u[1]) /\ m \notin started' /\ m \notin started
      BY <1>2, <2>3, <2>5, <2>7, <3>1 DEF Finished
    <3>3. v \in queue \/ InPacket(v)
      BY <2>3, <2>5, <2>7, <3>2 DEF TransportInv, Together
    <3>4. ~ InPacket(v)
      <4>1. v \in AllUnits /\ v[1] = m /\ ChannelOf(v) # "Reliable" /\ IsFragment(v)
        BY <2>3, <3>1
      <4> HIDE DEF v
      <4>2. InPacket(v) => v[1] \in started
        BY <4>1 DEF TransportInv, Together
      <4> QED  BY <3>2, <4>1, <4>2
    <3>5. v \in queue /\ v \notin sentNow /\ v \notin queue' /\ v[1] = u[1]
      <4>1. v \in queue /\ v[1] = m /\ u[1] = m /\ IsFragment(v)
        BY <2>3, <2>5, <3>1, <3>3, <3>4
      <4>2. v \notin sentNow
        BY <1>2, <3>2, <4>1 DEF Finished
      <4> QED  BY <1>2, <2>7, <4>1, <4>2 DEF Finished
    <3>6. v[1] = m /\ v[2] = 1 /\ IsFragment(v)
      BY <2>3, <3>1
    <3> HIDE DEF v
    <3> QED  BY <1>2, <3>5, <3>6 DEF Finished
  <2> QED  BY <2>4, <2>5, <2>6, <2>7 DEF Settled
<1>16. \A m : LostOf(m)' = LostOf(m) /\ (Nacked(m)' <=> Nacked(m))
  <2>1. \A i \in lostPackets : packets'[i] = packets[i]
    BY <1>1 DEF TransportInv, TransportTyped
  <2>2. \A m : LostOf(m)' = LostOf(m)
    BY <1>3, <1>4, <2>1 DEF LostOf
  <2> QED  BY <2>2 DEF Nacked
<1>17. NackIsTrue'
  BY <1>3, <1>16, NacksStay DEF TransportInv
<1>18. ReportIsFinal'
  <2> SUFFICES ASSUME NEW m \in DOMAIN info
               PROVE  /\ acked[m] <= 1
                      /\ info[m].chan = "Reliable" /\ acked[m] > 0 => UnitsOf(m) \cap unacknowledged = {}
                      /\ info[m].chan = "WithAcks" /\ acked[m] > 0 =>
                            ~ Nacked(m) /\ \A u \in UnitsOf(m) : Settled(u)'
                      /\ info[m].chan = "WithAcks" /\ Nacked(m) /\ info[m].count = 1 => Settled(<<m, 1>>)'
                      /\ acked[m] > 0 \/ Nacked(m) => m \notin ackTrackers'
                      /\ info[m].chan = "Plain" => acked[m] = 0 /\ ~ Nacked(m)
    BY <1>3, <1>4, <1>16 DEF ReportIsFinal
  <2>1. /\ acked[m] <= 1
        /\ info[m].chan = "Reliable" /\ acked[m] > 0 => UnitsOf(m) \cap unacknowledged = {}
        /\ info[m].chan = "WithAcks" /\ acked[m] > 0 => ~ Nacked(m) /\ \A u \in UnitsOf(m) : Settled(u)
        /\ info[m].chan = "WithAcks" /\ Nacked(m) /\ info[m].count = 1 => Settled(<<m, 1>>)
        /\ acked[m] > 0 \/ Nacked(m) => m \notin ackTrackers
        /\ info[m].chan = "Plain" => acked[m] = 0 /\ ~ Nacked(m)
    BY DEF TransportInv, ReportIsFinal
  <2>2. info[m].chan = "WithAcks" => \A u \in UnitsOf(m) : Settled(u) => Settled(u)'
    BY <1>8, <1>9 DEF ChannelOf
  <2>3. info[m].count = 1 => <<m, 1>> \in UnitsOf(m)
    BY UnitsAre
  <2>4. ackTrackers' \subseteq ackTrackers
    BY <1>2 DEF Finished
  <2> QED  BY <2>1, <2>2, <2>3, <2>4
<1>19. Tracked'
  <2> DEFINE A == {x \in notAcked \X AllUnits : x[2] \in packets[x[1]] /\ Watched(x[2])}
             B == {x \in ids \X sentNow : x[2] \in packets'[x[1]] /\ Watched(x[2])}
             C == {x \in notAcked' \X AllUnits : x[2] \in packets'[x[1]] /\ Watched(x[2])}
  <2>1. tracked = A /\ tracked' = tracked \cup B
    BY <1>1 DEF TransportInv, Tracked
  <2>2. sentNow \subseteq AllUnits
    BY <1>1, <1>5
  <2>3. ASSUME NEW x \in A \cup B PROVE x \in C
    <3>1. CASE x \in A
      <4>1. PICK i \in notAcked, u \in AllUnits : x = <<i, u>> /\ u \in packets[i] /\ Watched(u)
        BY <3>1
      <4>2. i \in notAcked' /\ packets'[i] = packets[i]
        BY <1>1, <1>5
      <4> QED  BY <4>1, <4>2
    <3>2. CASE x \in B
      <4>1. PICK i \in ids, u \in sentNow : x = <<i, u>> /\ u \in packets'[i] /\ Watched(u)
        BY <3>2
      <4>2. i \in notAcked' /\ u \in AllUnits
        BY <1>1, <2>2
      <4> QED  BY <4>1, <4>2
    <3> QED  BY <2>3, <3>1, <3>2
  <2>4. ASSUME NEW x \in C PROVE x \in A \cup B
    <3>1. PICK i \in notAcked', u \in AllUnits : x = <<i, u>> /\ u \in packets'[i] /\ Watched(u)
      BY <2>4
    <3>2. CASE i \in ids
      BY <1>1, <3>1, <3>2
    <3>3. CASE i \in notAcked
      BY <1>1, <1>5, <3>1, <3>3
    <3> QED  BY <1>1, <3>2, <3>3
  <2>5. tracked' = C
    <3> HIDE DEF A, B, C
    <3> QED  BY <2>1, <2>3, <2>4
  <2>6. C = {x \in notAcked' \X AllUnits : x[2] \in packets'[x[1]] /\ Watched(x[2])'}
    BY <1>4
  <2> HIDE DEF C
  <2> QED  BY <1>4, <2>5, <2>6 DEF Tracked
<1> QED  BY <1>10, <1>11, <1>12, <1>13, <1>14, <1>15, <1>17, <1>18, <1>19 DEF TransportInv

-----------------------------------------------------------------------------
(* Acknowledgements and losses. *)

\* What buffer_receive makes of the packets newly acknowledged and lost, a and l
\* being the watched units they carried and done the messages completed.
Resolves(newly, lost, a, l, done) ==
    /\ newly \subseteq notAcked \cap got /\ lost \subseteq notAcked /\ newly \cap lost = {}
    /\ notAcked' = notAcked \ (newly \cup lost)
    /\ tracked' = {x \in tracked : x[1] \notin newly \cup lost}
    /\ \A u : u \in a <=> \E i \in newly : u \in packets[i] /\ Watched(u)
    /\ \A u : u \in l <=> \E i \in lost : u \in packets[i] /\ Watched(u)
    /\ done = Completed(a, ackTrackers \ Discarded(l))
    /\ nacked' = [m \in DOMAIN info |-> nacked[m] + Pushed(lost, m)]
    /\ lostPackets' = lostPackets \cup lost
    /\ acked' = [m \in DOMAIN info |-> IF m \in done THEN acked[m] + 1 ELSE acked[m]]
    /\ unacknowledged' = unacknowledged \ a
    /\ ackTrackers' = (ackTrackers \ Discarded(l)) \ done
    /\ fragAcks' = {u \in fragAcks \cup a : u[1] \in ackTrackers'}
    /\ info' = info /\ queue' = queue /\ started' = started /\ packets' = packets
    /\ packetsOut' = packetsOut /\ got' = got /\ accepted' = accepted
    /\ headers' \subseteq headers

LEMMA ReceiveResolves ==
    ASSUME TransportInv, NEW some, NEW lost, BufferReceive(some, lost)
    PROVE  \E newly, a, l, done : Resolves(newly, lost, a, l, done)
<1> SUFFICES ASSUME NEW newly, newly = notAcked \cap UNION some,
                    NEW a, a = {x[2] : x \in {y \in tracked : y[1] \in newly}},
                    NEW l, l = {x[2] : x \in {y \in tracked : y[1] \in lost}},
                    NEW done, done = Completed(a, ackTrackers \ Discarded(l))
             PROVE  Resolves(newly, lost, a, l, done)
  OBVIOUS
<1>1. /\ some \subseteq headers /\ lost \subseteq notAcked \ newly
      /\ notAcked' = notAcked \ (newly \cup lost)
      /\ headers' = headers \ some
      /\ TakeAcks(newly, lost)
      /\ UNCHANGED <<info, queue, started, packets, packetsOut, got, accepted>>
  BY DEF BufferReceive, peer
<1>2. newly \subseteq notAcked \cap got
  BY <1>1 DEF TransportInv, TransportTyped
<1>3. \A x : x \in tracked <=> \E i \in notAcked : \E u \in AllUnits :
                                 x = <<i, u>> /\ u \in packets[i] /\ Watched(u)
  BY DEF TransportInv, Tracked
<1>4. notAcked \subseteq DOMAIN packets /\ \A i \in DOMAIN packets : packets[i] \subseteq AllUnits
  BY TypedFacts DEF TransportInv, TransportTyped
<1>5. ASSUME NEW S, S \subseteq notAcked, NEW u
      PROVE  u \in {x[2] : x \in {y \in tracked : y[1] \in S}} <=> \E i \in S : u \in packets[i] /\ Watched(u)
  <2>1. ASSUME NEW x \in tracked, x[1] \in S, u = x[2] PROVE \E i \in S : u \in packets[i] /\ Watched(u)
    <3>1. PICK i \in notAcked, v \in AllUnits : x = <<i, v>> /\ v \in packets[i] /\ Watched(v)
      BY <1>3
    <3> QED  BY <2>1, <3>1
  <2>2. ASSUME NEW i \in S, u \in packets[i], Watched(u) PROVE \E x \in tracked : x[1] \in S /\ u = x[2]
    <3>1. <<i, u>> \in tracked
      BY <1>3, <1>4, <1>5, <2>2
    <3> QED  BY <3>1
  <2>3. u \in {x[2] : x \in {y \in tracked : y[1] \in S}} <=> \E x \in tracked : x[1] \in S /\ u = x[2]
    OBVIOUS
  <2> QED  BY <2>1, <2>2, <2>3
<1>6. \A u : u \in a <=> \E i \in newly : u \in packets[i] /\ Watched(u)
  <2>1. newly \subseteq notAcked
    BY <1>2
  <2> QED  BY ONLY a = {x[2] : x \in {y \in tracked : y[1] \in newly}}, <1>5, <2>1
<1>7. \A u : u \in l <=> \E i \in lost : u \in packets[i] /\ Watched(u)
  <2>1. lost \subseteq notAcked
    BY <1>1
  <2> QED  BY ONLY l = {x[2] : x \in {y \in tracked : y[1] \in lost}}, <1>5, <2>1
<1>8. /\ tracked' = {x \in tracked : x[1] \notin newly \cup lost}
      /\ nacked' = [m \in DOMAIN info |-> nacked[m] + Pushed(lost, m)]
      /\ lostPackets' = lostPackets \cup lost
      /\ acked' = [m \in DOMAIN info |-> IF m \in done THEN acked[m] + 1 ELSE acked[m]]
      /\ unacknowledged' = unacknowledged \ a
      /\ ackTrackers' = (ackTrackers \ Discarded(l)) \ done
      /\ fragAcks' = {u \in fragAcks \cup a : u[1] \in ackTrackers'}
  BY <1>1 DEF TakeAcks
<1> QED  BY <1>1, <1>2, <1>6, <1>7, <1>8 DEF Resolves

\* Which messages an acknowledgement completes.
LEMMA CompletedIs ==
    ASSUME NEW a, NEW trackers, NEW m \in DOMAIN info
    PROVE  /\ info[m].chan = "Reliable" =>
                 (m \in Completed(a, trackers) <=> /\ UnitsOf(m) \cap unacknowledged # {}
                                                   /\ UnitsOf(m) \cap unacknowledged \subseteq a)
           /\ info[m].chan = "WithAcks" /\ info[m].count = 1 =>
                 (m \in Completed(a, trackers) <=> <<m, 1>> \in a)
           /\ info[m].chan = "WithAcks" /\ info[m].count > 1 =>
                 (m \in Completed(a, trackers) <=> m \in trackers /\ UnitsOf(m) \subseteq fragAcks \cup a)
           /\ info[m].chan = "Plain" => m \notin Completed(a, trackers)
<1> HIDE DEF UnitsOf
<1>1. CASE info[m].chan = "Reliable"
  BY <1>1 DEF Completed
<1>2. CASE info[m].chan = "WithAcks" /\ info[m].count = 1
  BY <1>2 DEF Completed
<1>3. CASE info[m].chan = "WithAcks" /\ info[m].count > 1
  BY <1>3 DEF Completed
<1>4. CASE info[m].chan = "Plain"
  BY <1>4 DEF Completed
<1> QED  BY <1>1, <1>2, <1>3, <1>4

\* The units of the packets resolved now: acknowledged ones were received, and no
\* unit of an unreliable channel is heard of again.
ResolvedUnits(a, l) ==
    /\ \A u \in a \cup l : /\ u \in AllUnits /\ Watched(u) /\ OnTheWay(u) /\ ~ Settled(u)
                           /\ ChannelOf(u) # "Reliable" => Settled(u)'
    /\ \A u \in a : Received(u) /\ (ChannelOf(u) # "Reliable" => u \notin l)
    /\ \A u : Settled(u) => Settled(u)'
    /\ \A u : Watched(u) /\ OnTheWay(u) /\ ~ OnTheWay(u)' => u \in a \cup l
    /\ \A m : m \in Discarded(l) <=> \E u \in l : u[1] = m /\ IsFragment(u) /\ ChannelOf(u) = "WithAcks"

LEMMA ResolvesUnits ==
    ASSUME TransportInv, NEW newly, NEW lost, NEW a, NEW l, NEW done,
           Resolves(newly, lost, a, l, done)
    PROVE  ResolvedUnits(a, l)
<1>1. /\ newly \subseteq notAcked \cap got /\ lost \subseteq notAcked /\ newly \cap lost = {}
      /\ notAcked' = notAcked \ (newly \cup lost)
      /\ \A u : u \in a <=> \E i \in newly : u \in packets[i] /\ Watched(u)
      /\ \A u : u \in l <=> \E i \in lost : u \in packets[i] /\ Watched(u)
      /\ queue' = queue /\ packets' = packets
  BY DEF Resolves
<1>2. notAcked \subseteq DOMAIN packets /\ \A i \in DOMAIN packets : packets[i] \subseteq AllUnits
  BY TypedFacts DEF TransportInv, TransportTyped
<1>3. /\ \A u \in queue : ~ InPacket(u)
      /\ \A i, j \in DOMAIN packets : \A u \in packets[i] \cap packets[j] :
            ChannelOf(u) # "Reliable" => i = j
  BY DEF TransportInv, SentOnce
<1>4. \A u \in a \cup l : u \in AllUnits /\ Watched(u) /\ OnTheWay(u) /\ ~ Settled(u)
  BY <1>1, <1>2 DEF OnTheWay, Settled
<1>5. ASSUME NEW u \in a \cup l, ChannelOf(u) # "Reliable" PROVE Settled(u)'
  <2>1. PICK i \in newly \cup lost : u \in packets[i]
    BY <1>1
  <2>2. i \in DOMAIN packets /\ i \notin notAcked'
    BY <1>1, <1>2
  <2>3. \A j \in notAcked' : u \notin packets[j]
    BY <1>1, <1>2, <1>3, <1>5, <2>1, <2>2
  <2>4. u \notin queue
    BY <1>3, <2>1, <2>2 DEF InPacket
  <2> QED  BY <1>1, <2>3, <2>4 DEF Settled, OnTheWay
<1>6. \A u \in a : Received(u)
  BY <1>1 DEF Received
<1>7. \A u \in a : ChannelOf(u) # "Reliable" => u \notin l
  BY <1>1, <1>2, <1>3
<1>8. \A u : Settled(u) => Settled(u)'
  BY <1>1 DEF Settled, OnTheWay
<1>9. \A u : Watched(u) /\ OnTheWay(u) /\ ~ OnTheWay(u)' => u \in a \cup l
  BY <1>1 DEF OnTheWay
<1>10. \A m : m \in Discarded(l) <=> \E u \in l : u[1] = m /\ IsFragment(u) /\ ChannelOf(u) = "WithAcks"
  BY DEF Discarded
<1> QED  BY <1>4, <1>5, <1>6, <1>7, <1>8, <1>9, <1>10 DEF ResolvedUnits

\* Of each message, the sendings that are lost now are new: its count of losses grows by
\* theirs.
LEMMA LossesGrow ==
    ASSUME TransportInv, NEW newly, NEW lost, NEW a, NEW l, NEW done,
           Resolves(newly, lost, a, l, done), NEW m \in DOMAIN info
    PROVE  /\ Nacked(m)' <=> Nacked(m) \/ \E u \in UnitsOf(m) : u \in l
           /\ nacked'[m] \in Nat /\ nacked'[m] = Cardinality(LostOf(m)')
<1> DEFINE N == {x \in tracked : x[1] \in lost /\ x[2][1] = m}
<1>1. /\ lost \subseteq notAcked /\ lostPackets' = lostPackets \cup lost /\ packets' = packets
      /\ \A u : u \in l <=> \E i \in lost : u \in packets[i] /\ Watched(u)
      /\ nacked' = [n \in DOMAIN info |-> nacked[n] + Pushed(lost, n)] /\ info' = info
  BY DEF Resolves
<1>2. UnitsOf(m)' = UnitsOf(m) /\ \A u : Watched(u)' <=> Watched(u)
  BY <1>1, UnitsStay
<1>3. /\ lostPackets \cap lost = {} /\ lostPackets \cup lost \subseteq DOMAIN packets
      /\ \A i \in DOMAIN packets : packets[i] \subseteq AllUnits
  BY <1>1, TypedFacts DEF TransportInv, TransportTyped
<1>4. \A x : x \in tracked <=> \E i \in notAcked : \E u \in AllUnits :
                                 x = <<i, u>> /\ u \in packets[i] /\ Watched(u)
  BY DEF TransportInv, Tracked
<1>5. /\ \A u \in UnitsOf(m) : u \in AllUnits /\ u[1] = m
      /\ \A u \in AllUnits : u[1] = m => u \in UnitsOf(m)
  BY UnitsAre
<1>6. N = {x \in lost \X UnitsOf(m) : x[2] \in packets[x[1]] /\ Watched(x[2])}
  <2> DEFINE M == {x \in lost \X UnitsOf(m) : x[2] \in packets[x[1]] /\ Watched(x[2])}
  <2>1. ASSUME NEW x \in N PROVE x \in M
    <3>1. PICK i \in notAcked, u \in AllUnits : x = <<i, u>> /\ u \in packets[i] /\ Watched(u)
      BY <1>4
    <3>2. i \in lost /\ u \in UnitsOf(m)
      BY <1>5, <3>1
    <3> QED  BY <3>1, <3>2
  <2>2. ASSUME NEW x \in M PROVE x \in N
    <3>1. PICK i \in lost, u \in UnitsOf(m) : x = <<i, u>> /\ u \in packets[i] /\ Watched(u)
      OBVIOUS
    <3>2. x \in tracked
      BY <1>1, <1>4, <1>5, <3>1
    <3> QED  BY <1>5, <3>1, <3>2
  <2> HIDE DEF N, M
  <2>3. N = M
    BY <2>1, <2>2
  <2> QED  BY <2>3 DEF M
<1>7. LostOf(m)' = LostOf(m) \cup N /\ LostOf(m) \cap N = {}
  <2>1. LostOf(m)' = {x \in (lostPackets \cup lost) \X UnitsOf(m) : x[2] \in packets[x[1]] /\ Watched(x[2])}
    BY <1>1, <1>2 DEF LostOf
  <2>2. LostOf(m) = {x \in lostPackets \X UnitsOf(m) : x[2] \in packets[x[1]] /\ Watched(x[2])}
    BY DEF LostOf
  <2> HIDE DEF N
  <2> QED  BY <1>3, <1>6, <2>1, <2>2
<1>8. IsFiniteSet(LostOf(m)) /\ IsFiniteSet(N)
  <2>1. IsFiniteSet(UnitsOf(m)) /\ IsFiniteSet(DOMAIN packets)
    BY UnitsFinite, TypedFacts, FS_Interval DEF TransportInv
  <2>2. IsFiniteSet((DOMAIN packets) \X UnitsOf(m))
    BY <2>1, FS_Product
  <2>3. LostOf(m) \subseteq (DOMAIN packets) \X UnitsOf(m)
    BY <1>3 DEF LostOf
  <2>4. N \subseteq (DOMAIN packets) \X UnitsOf(m)
    <3> HIDE DEF N
    <3> QED  BY <1>3, <1>6
  <2> HIDE DEF N
  <2> QED  BY <2>2, <2>3, <2>4, FS_Subset
<1>9. Pushed(lost, m) = Cardinality(N)
  BY DEF Pushed
<1>10. nacked[m] = Cardinality(LostOf(m))
  BY DEF TransportInv, NackIsTrue, LostOf
<1>11. (\E u \in UnitsOf(m) : u \in l) <=> N # {}
  <2>1. ASSUME NEW u \in UnitsOf(m), u \in l PROVE N # {}
    <3>1. PICK i \in lost : u \in packets[i] /\ Watched(u)
      BY <1>1, <2>1
    <3>2. <<i, u>> \in N
      BY <1>6, <3>1
    <3> QED  BY <3>2
  <2>2. ASSUME NEW x \in N PROVE \E u \in UnitsOf(m) : u \in l
    BY <1>1, <1>6
  <2> QED  BY <2>1, <2>2
<1> HIDE DEF N
<1>12. Cardinality(LostOf(m) \cup N) = Cardinality(LostOf(m)) + Cardinality(N)
  <2>1. /\ IsFiniteSet(LostOf(m) \cup N)
        /\ Cardinality(LostOf(m) \cup N)
             = Cardinality(LostOf(m)) + Cardinality(N) - Cardinality(LostOf(m) \cap N)
    BY <1>8, FS_Union
  <2>2. Cardinality(LostOf(m) \cap N) = 0
    BY <1>7, FS_EmptySet
  <2>3. Cardinality(LostOf(m)) \in Nat /\ Cardinality(N) \in Nat
    BY <1>8, FS_CardinalityType
  <2> QED  BY <2>1, <2>2, <2>3
<1>13. Cardinality(LostOf(m)) \in Nat /\ Cardinality(N) \in Nat
  BY <1>8, FS_CardinalityType
<1>14. nacked'[m] = Cardinality(LostOf(m)) + Cardinality(N)
  BY <1>1, <1>9, <1>10
<1>15. Nacked(m)' <=> Nacked(m) \/ N # {}
  BY <1>7 DEF Nacked
<1> QED  BY <1>7, <1>11, <1>12, <1>13, <1>14, <1>15

LEMMA ReceiveInv ==
    ASSUME TransportInv, NEW some, NEW lost, BufferReceive(some, lost)
    PROVE  TransportInv'
<1>1. PICK newly, a, l, done : Resolves(newly, lost, a, l, done)
  BY ReceiveResolves
<1>2. ResolvedUnits(a, l)
  BY <1>1, ResolvesUnits
<1>3. /\ notAcked' = notAcked \ (newly \cup lost) /\ notAcked' \subseteq notAcked
      /\ tracked' = {x \in tracked : x[1] \notin newly \cup lost}
      /\ nacked' = [m \in DOMAIN info |-> nacked[m] + Pushed(lost, m)]
      /\ lostPackets' = lostPackets \cup lost
      /\ acked' = [m \in DOMAIN info |-> IF m \in done THEN acked[m] + 1 ELSE acked[m]]
      /\ unacknowledged' = unacknowledged \ a
      /\ ackTrackers' = (ackTrackers \ Discarded(l)) \ done
      /\ fragAcks' = {u \in fragAcks \cup a : u[1] \in ackTrackers'}
      /\ info' = info /\ queue' = queue /\ started' = started /\ packets' = packets
      /\ packetsOut' = packetsOut /\ got' = got /\ accepted' = accepted
      /\ headers' \subseteq headers
  BY <1>1 DEF Resolves
<1>4. /\ \A m : UnitsOf(m)' = UnitsOf(m)
      /\ AllUnits' = AllUnits
      /\ \A u : /\ ChannelOf(u)' = ChannelOf(u) /\ (Watched(u)' <=> Watched(u))
                /\ (IsFragment(u)' <=> IsFragment(u))
  BY <1>3, UnitsStay
<1>5. /\ \A m \in DOMAIN info : \A u \in UnitsOf(m) : u \in AllUnits /\ u[1] = m
      /\ \A u \in AllUnits : u[1] \in DOMAIN info /\ u \in UnitsOf(u[1])
      /\ \A m \in DOMAIN info : info[m].count = 1 => UnitsOf(m) = {<<m, 1>>}
  BY UnitsAre
<1>6. /\ DOMAIN acked = DOMAIN info /\ DOMAIN info = 1 .. Len(info) /\ Len(info) \in Nat
      /\ \A m \in DOMAIN info : acked[m] \in Nat /\ info[m].count \in Nat \ {0}
                                /\ info[m].chan \in {"Reliable", "WithAcks", "Plain"}
  BY TypedFacts, TransportAssumption DEF TransportInv
<1>7. /\ queue \cup unacknowledged \cup fragAcks \subseteq AllUnits
      /\ ackTrackers \subseteq {m \in DOMAIN info : info[m].chan = "WithAcks" /\ info[m].count > 1}
      /\ \A i \in DOMAIN packets : packets[i] \subseteq AllUnits
  BY TypedFacts DEF TransportInv, TransportTyped
<1>8. \A u : InPacket(u)' <=> InPacket(u)
  BY <1>3 DEF InPacket
<1>9. \A u : Received(u)' <=> Received(u)
  BY <1>3 DEF Received
<1>10. \A u \in a \cup l : /\ u \in AllUnits /\ Watched(u) /\ OnTheWay(u) /\ ~ Settled(u)
                           /\ ChannelOf(u) # "Reliable" => Settled(u)'
  BY <1>2 DEF ResolvedUnits
<1>11. /\ \A u \in a : Received(u) /\ (ChannelOf(u) # "Reliable" => u \notin l)
       /\ \A u : Settled(u) => Settled(u)'
       /\ \A u : Watched(u) /\ OnTheWay(u) /\ ~ OnTheWay(u)' => u \in a \cup l
       /\ \A m : m \in Discarded(l) <=> \E u \in l : u[1] = m /\ IsFragment(u) /\ ChannelOf(u) = "WithAcks"
  BY <1>2 DEF ResolvedUnits
<1>12. ASSUME NEW m \in DOMAIN info
       PROVE  /\ info[m].chan = "Reliable" /\ m \in done =>
                    UnitsOf(m) \cap unacknowledged # {} /\ UnitsOf(m) \cap unacknowledged \subseteq a
              /\ info[m].chan = "WithAcks" /\ info[m].count = 1 => (m \in done <=> <<m, 1>> \in a)
              /\ info[m].chan = "WithAcks" /\ info[m].count > 1 =>
                    (m \in done <=> m \in ackTrackers \ Discarded(l) /\ UnitsOf(m) \subseteq fragAcks \cup a)
              /\ info[m].chan = "Plain" => m \notin done
  <2>1. done = Completed(a, ackTrackers \ Discarded(l))
    BY <1>1 DEF Resolves
  <2> QED  BY <2>1, CompletedIs
<1>13. \A m \in DOMAIN info : /\ \A u \in UnitsOf(m) : ChannelOf(u) = info[m].chan
                              /\ info[m].count > 1 => \A u \in UnitsOf(m) : IsFragment(u)
                              /\ info[m].chan = "WithAcks" => \A u \in UnitsOf(m) : Watched(u)
                              /\ info[m].chan = "Plain" => \A u \in UnitsOf(m) : ~ Watched(u)
  BY <1>5 DEF ChannelOf, IsFragment, Watched
<1>14. \A m \in DOMAIN info : /\ Nacked(m)' <=> Nacked(m) \/ \E u \in UnitsOf(m) : u \in l
                              /\ nacked'[m] \in Nat /\ nacked'[m] = Cardinality(LostOf(m)')
  BY <1>1, LossesGrow
<1>15. NackIsTrue'
  BY <1>3, <1>14 DEF NackIsTrue, LostOf
<1>16. TransportTyped'
  <2>1. acked' \in Seq(Nat) /\ Len(acked') = Len(info)
    <3>1. acked' \in [1 .. Len(info) -> Nat]
      BY <1>3, <1>6
    <3> QED  BY <1>6, <3>1
  <2>2. queue' \cup unacknowledged' \cup fragAcks' \subseteq AllUnits
    BY <1>3, <1>7, <1>10
  <2>3. nacked' \in Seq(Nat) /\ Len(nacked') = Len(info)
    <3>1. nacked' \in [1 .. Len(info) -> Nat]
      BY <1>3, <1>6, <1>14
    <3> QED  BY <1>6, <3>1
  <2>9. lostPackets' \subseteq DOMAIN packets' \ notAcked'
    BY <1>1, <1>3 DEF TransportInv, TransportTyped, Resolves
  <2>4. ackTrackers' \subseteq ackTrackers
    BY <1>3
  <2>5. /\ info \in Seq([chan : ChannelsUsed, count : Lengths])
        /\ packets \in Seq(SUBSET AllUnits)
        /\ notAcked \cup got \subseteq DOMAIN packets
        /\ \A h \in headers : h \subseteq got
    BY DEF TransportInv, TransportTyped
  <2>6. notAcked' \cup got' \subseteq DOMAIN packets' /\ \A h \in headers' : h \subseteq got'
    BY <1>3, <2>5
  <2>7. ackTrackers' \subseteq {m \in DOMAIN info : info[m].chan = "WithAcks" /\ info[m].count > 1}
    BY <1>7, <2>4
  <2>8. packets' \in Seq(SUBSET AllUnits') /\ info' \in Seq([chan : ChannelsUsed, count : Lengths])
    BY <1>3, <1>4, <2>5
  <2> QED  BY <1>3, <1>4, <2>1, <2>2, <2>3, <2>6, <2>7, <2>8, <2>9 DEF TransportTyped
<1>17. SentOnce'
  <2>1. unacknowledged' \subseteq unacknowledged
    BY <1>3
  <2> QED  BY <1>3, <1>4, <1>8, <2>1 DEF TransportInv, SentOnce
<1>18. Together' /\ LinkIsTrue'
  BY <1>3, <1>4, <1>8 DEF TransportInv, Together, LinkIsTrue
<1>19. AcknowledgedIsReceived'
  <2>1. /\ \A u \in fragAcks : Received(u) /\ Settled(u) /\ u[1] \in ackTrackers
        /\ \A m \in DOMAIN info : \A u \in UnitsOf(m) :
              (info[m].chan = "Reliable" /\ u \notin unacknowledged) \/ acked[m] > 0 => Received(u)
    BY DEF TransportInv, AcknowledgedIsReceived
  <2>2. ASSUME NEW u \in fragAcks' PROVE Received(u) /\ Settled(u)' /\ u[1] \in ackTrackers'
    <3>1. u \in fragAcks \cup a /\ u[1] \in ackTrackers' /\ u[1] \in ackTrackers
      BY <1>3
    <3>2. CASE u \in fragAcks
      BY <1>11, <2>1, <3>1, <3>2
    <3>3. CASE u \in a
      <4>1. ChannelOf(u) # "Reliable"
        BY <1>7, <3>1 DEF ChannelOf
      <4> QED  BY <1>10, <1>11, <3>1, <3>3, <4>1
    <3> QED  BY <3>1, <3>2, <3>3
  <2>3. ASSUME NEW m \in DOMAIN info, NEW u \in UnitsOf(m),
               (info[m].chan = "Reliable" /\ u \notin unacknowledged') \/ acked'[m] > 0
        PROVE  Received(u)
    <3>1. CASE info[m].chan = "Reliable" /\ u \notin unacknowledged'
      BY <1>3, <1>11, <2>1, <3>1
    <3>2. CASE m \notin done /\ acked'[m] > 0
      BY <1>3, <2>1, <3>2
    <3>3. CASE m \in done /\ info[m].chan = "Reliable"
      BY <1>11, <1>12, <2>1, <3>3
    <3>4. CASE m \in done /\ info[m].chan = "WithAcks" /\ info[m].count = 1
      BY <1>5, <1>11, <1>12, <3>4
    <3>5. CASE m \in done /\ info[m].chan = "WithAcks" /\ info[m].count > 1
      BY <1>11, <1>12, <2>1, <3>5
    <3>6. info[m].chan = "Plain" => m \notin done
      BY <1>12
    <3>7. info[m].count = 1 \/ info[m].count > 1
      BY <1>6
    <3> QED  BY <1>6, <2>3, <3>1, <3>2, <3>3, <3>4, <3>5, <3>6, <3>7
  <2> QED  BY <1>3, <1>4, <1>9, <2>2, <2>3 DEF AcknowledgedIsReceived
<1>20. TrackersKnow'
  <2> SUFFICES ASSUME NEW m \in ackTrackers'
               PROVE  /\ \A u \in UnitsOf(m) : InPacket(u) /\ ~ OnTheWay(u)' => u \in fragAcks'
                      /\ \E u \in UnitsOf(m) : ~ Settled(u)'
    BY <1>4, <1>8 DEF TrackersKnow
  <2>1. /\ m \in ackTrackers /\ m \notin Discarded(l) /\ m \notin done
        /\ m \in DOMAIN info /\ info[m].chan = "WithAcks" /\ info[m].count > 1
    BY <1>3, <1>7
  <2>2. /\ \A u \in UnitsOf(m) : InPacket(u) /\ ~ OnTheWay(u) => u \in fragAcks
        /\ \E u \in UnitsOf(m) : ~ Settled(u)
    BY <2>1 DEF TransportInv, TrackersKnow
  <2>3. \A u \in UnitsOf(m) : u \in AllUnits /\ u[1] = m /\ ChannelOf(u) = "WithAcks" /\ IsFragment(u) /\ Watched(u)
    BY <1>5, <1>13, <2>1
  <2>4. \A u \in UnitsOf(m) : u \notin l
    BY <1>11, <2>1, <2>3
  <2>5. \A u \in UnitsOf(m) : InPacket(u) /\ ~ OnTheWay(u)' => u \in fragAcks'
    BY <1>3, <1>11, <2>2, <2>3, <2>4
  <2>6. PICK u \in UnitsOf(m) : u \notin fragAcks \cup a
    BY <1>12, <2>1
  <2>7. u \in queue \/ InPacket(u)
    <3>1. PICK v \in UnitsOf(m) : ~ Settled(v)
      BY <2>2
    <3>2. v \in queue \/ InPacket(v)
      BY <3>1 DEF Settled, OnTheWay, InPacket, TransportInv, TransportTyped
    <3>3. v \in AllUnits /\ v[1] = m /\ ChannelOf(v) # "Reliable"
      BY <2>3
    <3>4. \A w \in UnitsOf(v[1]) : w \in queue \/ InPacket(w)
      BY <3>2, <3>3 DEF TransportInv, Together
    <3> QED  BY <3>3, <3>4
  <2>8. u \notin fragAcks'
    BY <1>3, <2>6
  <2>9. ~ Settled(u)'
    BY <1>3, <2>5, <2>7, <2>8 DEF Settled
  <2> QED  BY <2>5, <2>9

<1>21. ReportIsFinal'
  <2> SUFFICES ASSUME NEW m \in DOMAIN info
               PROVE  /\ acked'[m] <= 1
                      /\ info[m].chan = "Reliable" /\ acked'[m] > 0 => UnitsOf(m) \cap unacknowledged' = {}
                      /\ info[m].chan = "WithAcks" /\ acked'[m] > 0 =>
                            ~ Nacked(m)' /\ \A u \in UnitsOf(m) : Settled(u)'
                      /\ info[m].chan = "WithAcks" /\ Nacked(m)' /\ info[m].count = 1 => Settled(<<m, 1>>)'
                      /\ acked'[m] > 0 \/ Nacked(m)' => m \notin ackTrackers'
                      /\ info[m].chan = "Plain" => acked'[m] = 0 /\ ~ Nacked(m)'
    BY <1>3, <1>4 DEF ReportIsFinal
  <2>1. /\ acked[m] <= 1
        /\ info[m].chan = "Reliable" /\ acked[m] > 0 => UnitsOf(m) \cap unacknowledged = {}
        /\ info[m].chan = "WithAcks" /\ acked[m] > 0 => ~ Nacked(m) /\ \A u \in UnitsOf(m) : Settled(u)
        /\ info[m].chan = "WithAcks" /\ Nacked(m) /\ info[m].count = 1 => Settled(<<m, 1>>)
        /\ acked[m] > 0 \/ Nacked(m) => m \notin ackTrackers
        /\ info[m].chan = "Plain" => acked[m] = 0 /\ ~ Nacked(m)
    BY DEF TransportInv, ReportIsFinal
  <2>2. /\ acked[m] \in Nat /\ info[m].count \in Nat \ {0}
        /\ info[m].chan \in {"Reliable", "WithAcks", "Plain"}
        /\ acked'[m] = IF m \in done THEN acked[m] + 1 ELSE acked[m]
    BY <1>3, <1>6
  <2>3. Nacked(m)' <=> Nacked(m) \/ \E u \in UnitsOf(m) : u \in l
    BY <1>14
  <2>4. /\ ackTrackers' \subseteq ackTrackers
        /\ m \in ackTrackers' => m \notin done /\ m \notin Discarded(l)
    BY <1>3
  <2>5. CASE info[m].chan = "Plain"
    <3>1. m \notin done /\ \A u \in UnitsOf(m) : u \notin l
      BY <1>10, <1>12, <1>13, <2>5
    <3>2. m \notin ackTrackers'
      BY <1>7, <2>4, <2>5
    <3> QED  BY <2>1, <2>2, <2>3, <2>5, <3>1, <3>2
  <2>6. CASE info[m].chan = "Reliable"
    <3>1. m \in done => /\ acked[m] = 0
                        /\ UnitsOf(m) \cap unacknowledged' = {}
      <4>1. m \in done => UnitsOf(m) \cap unacknowledged # {} /\ UnitsOf(m) \cap unacknowledged \subseteq a
        BY <1>12, <2>6
      <4>2. unacknowledged' = unacknowledged \ a
        BY <1>3
      <4> QED  BY <2>1, <2>2, <2>6, <4>1, <4>2
    <3>2. UnitsOf(m) \cap unacknowledged' \subseteq UnitsOf(m) \cap unacknowledged
      BY <1>3
    <3>3. m \notin ackTrackers'
      BY <1>7, <2>4, <2>6
    <3> QED  BY <2>1, <2>2, <2>6, <3>1, <3>2, <3>3
  <2>7. CASE info[m].chan = "WithAcks" /\ info[m].count = 1
    <3>1. UnitsOf(m) = {<<m, 1>>} /\ (m \in done <=> <<m, 1>> \in a) /\ m \notin ackTrackers'
      BY <1>3, <1>5, <1>7, <1>12, <2>7
    <3>2. ChannelOf(<<m, 1>>) = "WithAcks"
      BY <2>7 DEF ChannelOf
    <3>3. m \in done => /\ acked[m] = 0 /\ ~ Nacked(m) /\ <<m, 1>> \notin l
                        /\ Settled(<<m, 1>>)'
      BY <1>10, <1>11, <2>1, <2>2, <2>7, <3>1, <3>2
    <3>4. <<m, 1>> \in l => ~ Settled(<<m, 1>>) /\ Settled(<<m, 1>>)'
      BY <1>10, <3>2
    <3>5. Settled(<<m, 1>>) => Settled(<<m, 1>>)'
      BY <1>11
    <3>6. Nacked(m)' <=> Nacked(m) \/ <<m, 1>> \in l
      BY <2>3, <3>1
    <3> QED  BY <2>1, <2>2, <2>7, <3>1, <3>3, <3>4, <3>5, <3>6
  <2>8. CASE info[m].chan = "WithAcks" /\ info[m].count > 1
    <3>1. m \in done <=> m \in ackTrackers \ Discarded(l) /\ UnitsOf(m) \subseteq fragAcks \cup a
      BY <1>12, <2>8
    <3>2. \A u \in UnitsOf(m) : u[1] = m /\ ChannelOf(u) = "WithAcks" /\ IsFragment(u)
      BY <1>5, <1>13, <2>8
    <3>3. (\E u \in UnitsOf(m) : u \in l) => m \in Discarded(l)
      BY <1>11, <3>2
    <3>4. \A u \in UnitsOf(m) : u \in fragAcks \cup a => Settled(u)'
      BY <1>10, <1>11, <3>2 DEF TransportInv, AcknowledgedIsReceived
    <3>5. m \in done => /\ acked[m] = 0 /\ ~ Nacked(m)'
                        /\ \A u \in UnitsOf(m) : Settled(u)'
      BY <2>1, <2>2, <2>3, <3>1, <3>3, <3>4
    <3>6. (\E u \in UnitsOf(m) : u \in l) => acked[m] = 0
      BY <1>10, <2>1, <2>2, <2>8
    <3>7. acked[m] > 0 => \A u \in UnitsOf(m) : Settled(u)'
      BY <1>11, <2>1, <2>8
    <3>8. acked'[m] > 0 \/ Nacked(m)' => m \notin ackTrackers'
      BY <2>1, <2>2, <2>3, <2>4, <3>3
    <3>9. acked'[m] > 0 => ~ Nacked(m)' /\ \A u \in UnitsOf(m) : Settled(u)'
      BY <2>1, <2>2, <2>3, <2>8, <3>5, <3>6, <3>7
    <3> QED  BY <2>1, <2>2, <2>8, <3>5, <3>8, <3>9
  <2> QED  BY <2>2, <2>5, <2>6, <2>7, <2>8
<1>22. Tracked'
  <2> DEFINE A == {x \in notAcked \X AllUnits : x[2] \in packets[x[1]] /\ Watched(x[2])}
             B == {x \in notAcked' \X AllUnits : x[2] \in packets[x[1]] /\ Watched(x[2])}
  <2>1. tracked = A
    BY DEF TransportInv, Tracked
  <2>2. {x \in A : x[1] \notin newly \cup lost} = B
    BY <1>3
  <2>3. tracked' = B
    <3> HIDE DEF A, B
    <3> QED  BY <1>3, <2>1, <2>2
  <2>4. B = {x \in notAcked' \X AllUnits' : x[2] \in packets'[x[1]] /\ Watched(x[2])'}
    BY <1>3, <1>4
  <2> HIDE DEF B
  <2> QED  BY <2>3, <2>4 DEF Tracked
<1> QED  BY <1>15, <1>16, <1>17, <1>18, <1>19, <1>20, <1>21, <1>22 DEF TransportInv

-----------------------------------------------------------------------------
(* The invariant. *)

LEMMA TransportInitInv == TransportInit => TransportInv
<1> SUFFICES ASSUME TransportInit PROVE TransportInv
  OBVIOUS
<1>1. /\ info = <<>> /\ queue = {} /\ started = {} /\ unacknowledged = {}
      /\ ackTrackers = {} /\ fragAcks = {} /\ packets = <<>> /\ notAcked = {} /\ tracked = {}
      /\ acked = <<>> /\ nacked = <<>> /\ lostPackets = {} /\ packetsOut = {} /\ headers = {} /\ got = {} /\ accepted = {}
  BY DEF TransportInit
<1>2. DOMAIN info = {} /\ DOMAIN packets = {} /\ AllUnits = {}
  BY <1>1 DEF AllUnits
<1>3. TransportTyped
  BY <1>1, <1>2 DEF TransportTyped
<1>4. SentOnce /\ Together /\ LinkIsTrue
  BY <1>1, <1>2 DEF SentOnce, Together, LinkIsTrue
<1>5. AcknowledgedIsReceived /\ TrackersKnow /\ ReportIsFinal
  BY <1>1, <1>2 DEF AcknowledgedIsReceived, TrackersKnow, ReportIsFinal
<1>6. NackIsTrue
  BY <1>2 DEF NackIsTrue
<1>7. Tracked
  BY <1>1, <1>2 DEF Tracked
<1> QED  BY <1>3, <1>4, <1>5, <1>6, <1>7 DEF TransportInv

LEMMA TransportStutter == TransportInv /\ UNCHANGED transportVars => TransportInv'
<1> SUFFICES ASSUME TransportInv, UNCHANGED transportVars PROVE TransportInv'
  OBVIOUS
<1>1. /\ info' = info /\ queue' = queue /\ started' = started /\ unacknowledged' = unacknowledged
      /\ ackTrackers' = ackTrackers /\ fragAcks' = fragAcks
      /\ packets' = packets /\ notAcked' = notAcked /\ tracked' = tracked
      /\ acked' = acked /\ nacked' = nacked /\ lostPackets' = lostPackets /\ packetsOut' = packetsOut /\ headers' = headers
      /\ got' = got /\ accepted' = accepted
  BY DEF transportVars, channels, tracker, reports, link, peer
<1>2. /\ \A m : UnitsOf(m)' = UnitsOf(m)
      /\ AllUnits' = AllUnits
      /\ \A u : /\ ChannelOf(u)' = ChannelOf(u) /\ (Watched(u)' <=> Watched(u))
                /\ (IsFragment(u)' <=> IsFragment(u))
  BY <1>1, UnitsStay
<1>3. \A u : /\ InPacket(u)' <=> InPacket(u)
             /\ OnTheWay(u)' <=> OnTheWay(u)
             /\ Settled(u)' <=> Settled(u)
             /\ Received(u)' <=> Received(u)
  BY <1>1 DEF InPacket, OnTheWay, Settled, Received
<1>4. TransportTyped'
  BY <1>1, <1>2 DEF TransportInv, TransportTyped
<1>5. SentOnce' /\ Together'
  BY <1>1, <1>2, <1>3 DEF TransportInv, SentOnce, Together
<1>6. LinkIsTrue' /\ AcknowledgedIsReceived'
  BY <1>1, <1>2, <1>3 DEF TransportInv, LinkIsTrue, AcknowledgedIsReceived
<1>7. TrackersKnow' /\ ReportIsFinal'
  BY <1>1, <1>2, <1>3, LostStays DEF TransportInv, TrackersKnow, ReportIsFinal
<1>8. NackIsTrue'
  BY <1>1, LostStays, NacksStay DEF TransportInv
<1>9. Tracked'
  BY <1>1, <1>2 DEF TransportInv, Tracked
<1> QED  BY <1>4, <1>5, <1>6, <1>7, <1>8, <1>9 DEF TransportInv

LEMMA TransportStepInv == TransportInv /\ [TransportNext]_transportVars => TransportInv'
<1> SUFFICES ASSUME TransportInv, [TransportNext]_transportVars PROVE TransportInv'
  OBVIOUS
<1>1. CASE \E c \in ChannelsUsed, count \in Lengths : SendMut(c, count)
  BY <1>1, SendMutInv
<1>2. ASSUME NEW flush \in Flushes(queue \cup unacknowledged), NEW discard \in BOOLEAN, NEW first,
             BufferSendAll(flush, discard, first)
      PROVE  TransportInv'
  BY <1>2, FlushInv
<1>3. CASE \E p \in packetsOut : Arrive(p)
  BY <1>3, ArriveInv
<1>4. CASE SendHeader
  BY <1>4, SendHeaderInv
<1>5. CASE \E some \in SUBSET headers, lost \in SUBSET notAcked : BufferReceive(some, lost)
  BY <1>5, ReceiveInv
<1>6. CASE UNCHANGED transportVars
  BY <1>6, TransportStutter
<1> QED  BY <1>1, <1>2, <1>3, <1>4, <1>5, <1>6 DEF TransportNext

LEMMA TransportInvAlways == TransportSpec => []TransportInv
BY TransportInitInv, TransportStepInv, PTL DEF TransportSpec

-----------------------------------------------------------------------------
(* The theorems. *)

LEMMA InvTrackersFollow == TransportInv => TrackersFollow
<1> SUFFICES ASSUME TransportInv PROVE TrackersFollow
  OBVIOUS
<1>1. notAcked \subseteq DOMAIN packets /\ \A i \in DOMAIN packets : packets[i] \subseteq AllUnits
  BY TypedFacts DEF TransportInv, TransportTyped
<1>2. TrackerExact
  <2> DEFINE A == UNION {{<<i, u>> : u \in {v \in packets[i] : Watched(v)}} : i \in notAcked}
  <2>1. \A x : x \in tracked <=> \E i \in notAcked : \E u \in AllUnits :
                                   x = <<i, u>> /\ u \in packets[i] /\ Watched(u)
    BY DEF TransportInv, Tracked
  <2>2. \A x : x \in A <=> \E i \in notAcked : \E u \in packets[i] : x = <<i, u>> /\ Watched(u)
    OBVIOUS
  <2>3. \A x : x \in A <=> x \in tracked
    <3> HIDE DEF A
    <3> QED  BY <1>1, <2>1, <2>2
  <2>4. tracked \subseteq notAcked \X AllUnits
    BY DEF TransportInv, Tracked
  <2>5. tracked = A
    <3> HIDE DEF A
    <3> QED  BY <2>3
  <2> QED  BY <2>5 DEF TrackerExact
<1>3. StartedIsFinished
  <2> SUFFICES ASSUME NEW m \in DOMAIN info, info[m].chan # "Reliable",
                      NEW u \in UnitsOf(m), InPacket(u),
                      NEW v \in UnitsOf(m), ~ InPacket(v)
               PROVE  v \in queue
    BY DEF StartedIsFinished, InPacket
  <2>1. u \in AllUnits /\ u[1] = m /\ ChannelOf(u) # "Reliable"
    BY UnitsAre DEF ChannelOf
  <2>2. \A w \in UnitsOf(u[1]) : w \in queue \/ InPacket(w)
    BY <2>1 DEF TransportInv, Together
  <2> QED  BY <2>1, <2>2
<1>4. NoTrackerLeak
  BY DEF NoTrackerLeak, TransportInv, TrackersKnow, Settled, OnTheWay
<1> QED  BY <1>2, <1>3, <1>4 DEF TrackersFollow

\* Through losses, late and repeated acknowledgements and flushes that end early,
\* packet_message_acks has exactly the watched units of the unresolved packets, a
\* message begun is sent to its last fragment, and no fragment tracker is stranded.
THEOREM TrackersFollowAlways == TransportSpec => []TrackersFollow
BY TransportInvAlways, InvTrackersFollow, PTL

LEMMA InvReportsAreTrue == TransportInv => ReportsAreTrue
<1> SUFFICES ASSUME TransportInv PROVE ReportsAreTrue
  OBVIOUS
<1>1. AckIsTrue
  BY DEF AckIsTrue, TransportInv, AcknowledgedIsReceived, Received
<1>2. NackIsTrue
  BY DEF TransportInv
<1>3. ReportedOnce
  <2> SUFFICES ASSUME NEW m \in DOMAIN info
               PROVE  /\ acked[m] <= 1
                      /\ info[m].chan = "WithAcks" => /\ nacked[m] <= info[m].count
                                                      /\ acked[m] > 0 => nacked[m] = 0
    BY DEF ReportedOnce
  <2>1. acked[m] <= 1 /\ (info[m].chan = "WithAcks" /\ acked[m] > 0 => LostOf(m) = {})
    BY DEF TransportInv, ReportIsFinal, Nacked
  <2>2. nacked[m] = Cardinality(LostOf(m))
    BY <1>2 DEF NackIsTrue, LostOf
  <2>3. ASSUME info[m].chan = "WithAcks" PROVE Cardinality(LostOf(m)) <= info[m].count
    <3> DEFINE f == [x \in LostOf(m) |-> x[2]]
    <3>1. \A x \in LostOf(m) : /\ x = <<x[1], x[2]>> /\ x[1] \in DOMAIN packets
                                /\ x[2] \in UnitsOf(m) /\ x[2] \in packets[x[1]]
      BY DEF LostOf, TransportInv, TransportTyped
    <3>2. \A u \in UnitsOf(m) : ChannelOf(u) # "Reliable"
      BY <2>3, UnitsAre DEF ChannelOf
    <3>3. ASSUME NEW x \in LostOf(m), NEW y \in LostOf(m), x[2] = y[2] PROVE x = y
      <4>1. x[1] = y[1]
        BY <3>1, <3>2, <3>3 DEF TransportInv, SentOnce
      <4> QED  BY <3>1, <3>3, <4>1
    <3>4. f \in Injection(LostOf(m), UnitsOf(m))
      BY <3>1, <3>3 DEF Injection, IsInjective
    <3> HIDE DEF f
    <3> QED  BY <3>4, UnitsFinite, FS_Injection DEF TransportInv
  <2> QED  BY <2>1, <2>2, <2>3, FS_EmptySet
<1> QED  BY <1>1, <1>2, <1>3 DEF ReportsAreTrue

\* message_acks names a message once, and only one all of which arrived; message_nacks
\* names it once for each watched unit of it in each lost packet, which on an unreliable
\* channel is at most once for each of its fragments and never beside an acknowledgement.
THEOREM ReportsAreTrueAlways == TransportSpec => []ReportsAreTrue
BY TransportInvAlways, InvReportsAreTrue, PTL

LEMMA InvReliableUntilAccepted ==
    ASSUME Unreadable = {}
    PROVE  TransportInv => ReliableUntilAccepted
<1> SUFFICES ASSUME TransportInv,
                    NEW m \in DOMAIN info, info[m].chan = "Reliable", NEW u \in UnitsOf(m), u \notin unacknowledged
             PROVE  u \in accepted
  BY DEF ReliableUntilAccepted
<1>1. PICK i \in got : u \in packets[i]
  BY DEF TransportInv, AcknowledgedIsReceived, Received
<1> QED  BY <1>1 DEF TransportInv, LinkIsTrue

\* When the receiver has every channel that is used, a reliable channel forgets a
\* unit only after the channel at the other end was given it.
THEOREM ReliableUntilAcceptedAlways ==
    ASSUME Unreadable = {}
    PROVE  TransportSpec => []ReliableUntilAccepted
BY TransportInvAlways, InvReliableUntilAccepted, PTL
=============================================================================
