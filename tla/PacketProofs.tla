---------------------------- MODULE PacketProofs ----------------------------
(***************************************************************************)
(* The packets of one link, for every identifier width, acknowledgement    *)
(* window and number of packets: PacketAck, type correctness and its three *)
(* safety invariants; PacketPacking, what a flush puts into packets;       *)
(* and TimeSync, the round trip times and the pace of the clock, for any   *)
(* number of identifiers, slots and pings.                                 *)
(*                                                                         *)
(* A pong carries a residue of its ping's number and finds a slot that is  *)
(* a residue of that.  What saves it is that both what it answers and what *)
(* the slot holds are among the last StoreSize pings, and that two of      *)
(* these never share a slot.                                               *)
(***************************************************************************)
EXTENDS PacketAck, PacketPacking, TimeSync, CommonLemmas, SequenceTheorems,
        FiniteSetTheorems

-----------------------------------------------------------------------------
(* PacketAck.                                                              *)

LEMMA OtherType ==
  ASSUME NEW p \in Peer
  PROVE  Other(p) \in Peer /\ Other(p) # p /\ Other(Other(p)) = p
<1>1. PICK a, b \in Peer : a # b /\ Peer = {a, b}
  BY PeerAssumption
<1>2. \E q \in Peer : q # p
  BY <1>1
<1>3. Other(p) \in Peer /\ Other(p) # p
  BY <1>2 DEF Other
<1>4. \E q \in Peer : q # Other(p)
  BY <1>3
<1>5. Other(Other(p)) \in Peer /\ Other(Other(p)) # Other(p)
  BY <1>4 DEF Other
<1> QED BY <1>1, <1>3, <1>5

LEMMA WireIdFacts == /\ WireId \subseteq Nat
                     /\ 0 \in WireId
                     /\ IdModulus - 1 \in WireId
                     /\ \A x \in Int : NextId(x) \in WireId
  BY IdModulusAssumption, ModRange DEF WireId, NextId

LEMMA UnackedType ==
  ASSUME NEW u \in Unacked
  PROVE  /\ \A ids : Without(u, ids) \in Unacked
         /\ \A id \in WireId, s \in Nat : [u EXCEPT ![id] = s] \in Unacked
  BY DEF Unacked, Without

LEMMA RecvType ==
  ASSUME NEW l \in WireId \cup {NoPacket}, NEW bs \in SUBSET (1 .. AckBits), NEW id \in WireId
  PROVE  /\ RecvLast(l, id) \in WireId \cup {NoPacket}
         /\ RecvBits(l, bs, id) \in SUBSET (1 .. AckBits)
<1> RecvLast(l, id) \in WireId \cup {NoPacket}
  BY DEF RecvLast
<1>1. CASE l = NoPacket
  BY <1>1 DEF RecvBits
<1>2. CASE l # NoPacket
  <2> DEFINE d == WrappingDiff(l, id)
  <2>1. d \in Int
    BY <1>2, WireIdFacts, IdModulusPositive, ModRange, l - id \in Int DEF WrappingDiff, WireId
  <2> HIDE DEF d
  <2>2. d > 0 /\ ~(d > AckBits) => d \in 1 .. AckBits
    BY <2>1, AckBitsAssumption
  <2> QED BY <1>2, <2>1, <2>2 DEF RecvBits, d
<1> QED BY <1>1, <1>2

LEMMA PreviewType ==
  ASSUME TypeOK, NEW p \in Peer, NEW k \in Kind
  PROVE  PreviewHeader(p, k) \in Header
<1>1. HeaderLastAck(last[p]) \in WireId
  BY WireIdFacts DEF HeaderLastAck, TypeOK
<1> QED BY <1>1 DEF PreviewHeader, Header, TypeOK

LEMMA SendPacketType ==
  ASSUME TypeOK, NEW p \in Peer, NEW k \in Kind, SendPacket(p, k)
  PROVE  /\ next' \in [Peer -> WireId]
         /\ ackPending' \in [Peer -> BOOLEAN]
         /\ link' \in [Peer -> SUBSET Header]
         /\ burst' \in [Peer -> Nat]
         /\ sent' \in [Peer -> Nat]
<1>1. next' \in [Peer -> WireId]
  <2>1. next \in [Peer -> WireId] /\ next' = [next EXCEPT ![p] = NextId(@)]
    BY DEF SendPacket, TypeOK
  <2>2. next[p] \in WireId
    BY <2>1
  <2>3. ASSUME NEW x \in WireId PROVE NextId(x) \in WireId
    <3>1. x \in Nat
      BY WireIdFacts
    <3>2. x \in Int
      BY <3>1
    <3> QED  BY <3>2, WireIdFacts
  <2>4. NextId(next[p]) \in WireId
    BY <2>2, <2>3
  <2> QED  BY <2>1, <2>4
<1>2. link' \in [Peer -> SUBSET Header]
  BY PreviewType, OtherType DEF SendPacket, TypeOK
<1>3. ackPending' \in [Peer -> BOOLEAN]
  BY DEF SendPacket, TypeOK
<1>4. burst' \in [Peer -> Nat] /\ sent' \in [Peer -> Nat]
  BY DEF SendPacket, TypeOK
<1> QED BY <1>1, <1>2, <1>3, <1>4

LEMMA TypeInductive == TypeOK /\ [Next]_vars => TypeOK'
<1> SUFFICES ASSUME TypeOK, [Next]_vars PROVE TypeOK'
  OBVIOUS
<1>1. ASSUME NEW p \in Peer, SendData(p) PROVE TypeOK'
  <2>1. SendPacket(p, "Data") /\ "Data" \in Kind
    BY <1>1 DEF SendData, Kind
  <2>2. unacked' \in [Peer -> Unacked]
    <3>1. [unacked[p] EXCEPT ![next[p]] = sent[p]] \in Unacked
      BY UnackedType DEF TypeOK
    <3> QED BY <1>1, <3>1 DEF SendData, TypeOK
  <2> QED BY <1>1, <2>1, <2>2, SendPacketType DEF SendData, TypeOK
<1>2. ASSUME NEW p \in Peer, SendAckOnly(p) PROVE TypeOK'
  <2>1. SendPacket(p, "AckOnly") /\ "AckOnly" \in Kind
    BY <1>2 DEF SendAckOnly, Kind
  <2> QED BY <1>2, <2>1, SendPacketType DEF SendAckOnly, TypeOK
<1>3. ASSUME NEW p \in Peer, Deliver(p) PROVE TypeOK'
  <2>1. PICK h \in link[p] : /\ Process(p, h)
                             /\ link' \in {link, [link EXCEPT ![p] = @ \ {h}]}
                             /\ UNCHANGED <<next, burst, sent>>
    BY <1>3 DEF Deliver
  <2>2. h \in Header
    BY DEF TypeOK
  <2>3. last' \in [Peer -> WireId \cup {NoPacket}] /\ bits' \in [Peer -> SUBSET (1 .. AckBits)]
    BY SMT, ZenonT(60), <2>1, <2>2, RecvType DEF Process, TypeOK, Header
  <2>4. unacked' \in [Peer -> Unacked]
    BY <2>1, UnackedType DEF Process, TypeOK
  <2>5. lastSeq' \in [Peer -> Nat \cup {-1}] /\ got' \in [Peer -> SUBSET Nat]
    BY <2>1, <2>2 DEF Process, TypeOK, Header
  <2>6. ackPending' \in [Peer -> BOOLEAN]
    BY <2>1 DEF Process, TypeOK
  <2>7. link' \in [Peer -> SUBSET Header]
    BY <2>1 DEF TypeOK
  <2> QED BY <2>1, <2>3, <2>4, <2>5, <2>6, <2>7 DEF TypeOK
<1>4. ASSUME NEW p \in Peer, Lose(p) PROVE TypeOK'
  BY <1>4 DEF Lose, TypeOK, code, history
<1>5. ASSUME NEW p \in Peer, Update(p) PROVE TypeOK'
  <2>1. unacked' \in [Peer -> Unacked]
    BY <1>5, UnackedType DEF Update, TypeOK
  <2> QED BY <1>5, <2>1 DEF Update, TypeOK
<1>6. CASE UNCHANGED vars
  BY <1>6 DEF TypeOK, vars, code, history
<1> QED BY <1>1, <1>2, <1>3, <1>4, <1>5, <1>6 DEF Next

LEMMA TypeInit == Init => TypeOK
  BY WireIdFacts DEF Init, TypeOK, Unacked, NoUnacked, NotTracked

\* PacketAck never leaves its types: identifiers stay in their width.
THEOREM TypeCorrect == Spec => []TypeOK
  BY TypeInit, TypeInductive, PTL DEF Spec

(***************************************************************************)
(* The safety invariants.                                                  *)
(***************************************************************************)

LEMMA WrapMinusOne == Wrap(-1) = IdModulus - 1
<1>1. -1 = IdModulus * (-1) + (IdModulus - 1)
  BY IdModulusPositive
<1> QED BY <1>1, WireIdFacts, ModUnique, -1 \in Int DEF Wrap

LEMMA Constants == /\ AckBits \in Nat /\ MaxLag \in Nat /\ MaxBurst \in Nat
                   /\ MaxAge \in Nat /\ MaxAge <= MaxDiff
                   /\ MaxLag + AckBits <= IdModulus
                   /\ MaxAge + MaxBurst <= MaxDiff /\ MaxDiff < IdModulus
                   /\ 1 .. AckBits \subseteq Int
  BY AckBitsAssumption, LinkAssumption, MaxDiffBound, IdModulusPositive DEF MaxAge

\* What the entries and headers of an inductive state amount to for one peer.
LEMMA EntryFacts ==
  ASSUME Inductive, NEW p \in Peer, NEW id \in WireId, unacked[p][id] # NotTracked
  PROVE  /\ unacked[p][id] \in Nat
         /\ Wrap(unacked[p][id]) = id
         /\ unacked[p][id] < sent[p]
         /\ sent[p] - unacked[p][id] <= MaxAge + burst[p]
         /\ sent[p] - unacked[p][id] <= MaxDiff
<1>1. unacked[p][id] \in Nat /\ sent[p] \in Nat /\ burst[p] \in Nat
  BY DEF Inductive, TypeOK, Unacked
<1>2. /\ burst[p] <= MaxBurst
      /\ Wrap(unacked[p][id]) = id
      /\ unacked[p][id] < sent[p]
      /\ sent[p] - unacked[p][id] <= MaxAge + burst[p]
  BY DEF Inductive, EntriesAreRecent
<1> QED BY <1>1, <1>2, Constants, MaxDiffBound

\* An entry under the identifier that a header acknowledges is the packet the
\* header means.
LEMMA AckNamesPacket ==
  ASSUME Inductive, NEW p \in Peer, NEW h \in link[p], Fresh(p, h),
         NEW id \in NewlyAcked(unacked[p], h.lastAck, h.ackBits)
  PROVE  unacked[p][id] \in got[Other(p)]
<1> DEFINE s == unacked[p][id]
<1>1. id \in WireId /\ s # NotTracked
  BY DEF NewlyAcked
<1>2. /\ s \in Nat /\ Wrap(s) = id /\ s < sent[p]
      /\ sent[p] - s <= MaxDiff
  BY <1>1, EntryFacts
<1>3. /\ h.ackSeq \in Int /\ h.ackSeq >= -1 /\ h.ackBits \subseteq 1 .. AckBits
      /\ sent[p] \in Nat
  BY DEF Inductive, TypeOK, Header
<1>4. /\ h.lastAck = Wrap(h.ackSeq) /\ h.ackSeq < sent[p]
      /\ h.ackSeq # -1 => h.ackSeq \in got[Other(p)]
      /\ \A i \in h.ackBits : h.ackSeq - i \in got[Other(p)]
  BY DEF Inductive, HeadersAreTrue
<1>5. sent[p] - h.ackSeq <= MaxLag
  BY DEF Fresh
<1> HIDE DEF s
<1>6. CASE id = h.lastAck
  <2>1. s - h.ackSeq < IdModulus /\ h.ackSeq - s < IdModulus
    BY <1>2, <1>3, <1>4, <1>5, Constants, MaxDiffBound, IdModulusPositive
  <2>2. s = h.ackSeq
    BY <1>2, <1>3, <1>4, <1>6, <2>1, WrapInjective
  <2> QED BY <1>2, <1>4, <2>2 DEF s
<1>7. CASE \E i \in h.ackBits : id = Wrap(h.lastAck - i)
  <2>1. PICK i \in h.ackBits : id = Wrap(h.lastAck - i)
    BY <1>7
  <2>2. i \in Int /\ i >= 1 /\ i <= AckBits
    BY <1>3, Constants
  <2>3. id = Wrap(h.ackSeq - i)
    <3>1. (Wrap(h.ackSeq) + (-i)) % IdModulus = Wrap(h.ackSeq + (-i))
      BY <1>3, <2>2, WrapAdd, -i \in Int
    <3>2. Wrap(h.ackSeq) \in Int
      BY <1>3, WrapType, IdModulusPositive DEF WireId
    <3>3. h.lastAck - i = Wrap(h.ackSeq) + (-i) /\ h.ackSeq + (-i) = h.ackSeq - i
      BY <1>3, <1>4, <2>2, <3>2
    <3>4. Wrap(h.lastAck - i) = (h.lastAck - i) % IdModulus
      BY DEF Wrap
    <3> QED BY <2>1, <3>1, <3>3, <3>4
  <2>4. /\ h.ackSeq - i \in Int
        /\ s - (h.ackSeq - i) < IdModulus
        /\ (h.ackSeq - i) - s < IdModulus
    BY <1>2, <1>3, <1>4, <1>5, <2>2, Constants, MaxDiffBound, IdModulusPositive
  <2>5. s = h.ackSeq - i
    BY <1>2, <2>3, <2>4, WrapInjective
  <2> QED BY <1>4, <2>5 DEF s
<1> QED BY <1>6, <1>7 DEF NewlyAcked

LEMMA InductiveImpliesAcked == Inductive => AckedWasReceived
  BY AckNamesPacket DEF AckedWasReceived, SeqsOf

LEMMA InductiveImpliesNoOverwrite == Inductive => NoOverwrite
<1> SUFFICES ASSUME Inductive, NEW p \in Peer, unacked[p][next[p]] # NotTracked
             PROVE  FALSE
  BY DEF NoOverwrite
<1> DEFINE s == unacked[p][next[p]]
<1>1. next[p] \in WireId /\ next[p] = Wrap(sent[p]) /\ sent[p] \in Nat
  BY DEF Inductive, TypeOK, IdsStandForSeqs
<1>2. s \in Nat /\ Wrap(s) = next[p] /\ s < sent[p] /\ sent[p] - s <= MaxDiff
  BY <1>1, EntryFacts
<1> HIDE DEF s
<1>3. s - sent[p] < IdModulus /\ sent[p] - s < IdModulus
  BY <1>1, <1>2, Constants, MaxDiffBound, IdModulusPositive
<1>4. s = sent[p]
  BY <1>1, <1>2, <1>3, WrapInjective
<1> QED BY <1>1, <1>2, <1>4

\* The receive buffer <<l, bs>> describes the received sequence numbers g, of
\* which ls is the newest.
Exact(l, ls, bs, g) ==
    /\ \/ l = NoPacket /\ ls = -1
       \/ l = Wrap(ls) /\ ls \in g
    /\ \A x \in g : x <= ls
    /\ \A i \in 1 .. AckBits : i \in bs <=> ls - i \in g

\* ReceiveBuffer::recv_packet keeps the buffer exact.
LEMMA RecvExact ==
  ASSUME NEW l, NEW ls \in Int, NEW bs \in SUBSET (1 .. AckBits), NEW g \in SUBSET Nat,
         NEW s \in Nat, Exact(l, ls, bs, g),
         ls - s <= MaxDiff, s - ls <= MaxDiff,
         NEW ls2, ls2 = IF RecvLast(l, Wrap(s)) = l THEN ls ELSE s
  PROVE  /\ Exact(RecvLast(l, Wrap(s)), ls2, RecvBits(l, bs, Wrap(s)), g \cup {s})
         /\ ls2 \in g \cup {s}
<1> SUFFICES /\ ls2 \in g \cup {s}
             /\ RecvLast(l, Wrap(s)) = Wrap(ls2)
             /\ \A x \in g \cup {s} : x <= ls2
             /\ \A i \in 1 .. AckBits :
                   i \in RecvBits(l, bs, Wrap(s)) <=> ls2 - i \in g \cup {s}
  BY DEF Exact
<1>0. /\ \/ l = NoPacket /\ ls = -1
         \/ l = Wrap(ls) /\ ls \in g
      /\ \A x \in g : x <= ls
      /\ \A i \in 1 .. AckBits : i \in bs <=> ls - i \in g
  BY DEF Exact
<1>1. Wrap(s) \in WireId /\ Wrap(s) # NoPacket
  BY WrapType, NoPacketAssumption
<1>2. CASE l = NoPacket /\ ls = -1
  <2>1. g = {}
    BY <1>0, <1>2
  <2>2. RecvLast(l, Wrap(s)) = Wrap(s) /\ ls2 = s
    BY <1>1, <1>2 DEF RecvLast
  <2>3. RecvBits(l, bs, Wrap(s)) = bs
    BY <1>2 DEF RecvBits
  <2>4. \A i \in 1 .. AckBits : i \notin bs /\ s - i \notin g \cup {s}
    BY <1>0, <1>2, <2>1, Constants
  <2> QED BY <2>1, <2>2, <2>3, <2>4
<1>3. CASE l = Wrap(ls) /\ ls \in g
  <2>1. WrappingDiff(l, Wrap(s)) = ls - s
    BY <1>3, WrappingDiffExact
  <2>2. l # NoPacket
    BY <1>3, WrapType, NoPacketAssumption
  <2>3. CASE ls < s
    <3>1. RecvLast(l, Wrap(s)) = Wrap(s)
      BY <2>1, <2>3 DEF RecvLast
    <3>2. Wrap(s) # l
      <4>1. ls - s < IdModulus /\ s - ls < IdModulus
        BY MaxDiffBound, Constants
      <4> QED BY <1>3, <2>3, <4>1, WrapInjective
    <3>3. ls2 = s
      BY <3>1, <3>2
    <3>4. ASSUME NEW i \in 1 .. AckBits
          PROVE  i \in RecvBits(l, bs, Wrap(s)) <=> s - i \in g \cup {s}
      <4>1. i \in Int /\ i >= 1 /\ i <= AckBits
        BY Constants
      <4>2. CASE ls - s < -(AckBits + 1)
        <5>1. RecvBits(l, bs, Wrap(s)) = {}
          BY <2>1, <2>2, <2>3, <4>2, Constants DEF RecvBits
        <5>2. s - i > ls /\ s - i # s
          BY <4>1, <4>2, Constants
        <5> QED BY <1>0, <5>1, <5>2
      <4>3. CASE ~(ls - s < -(AckBits + 1))
        <5>1. RecvBits(l, bs, Wrap(s)) =
                 {j \in 1 .. AckBits : j = -(ls - s) \/ (j + (ls - s)) \in bs}
          BY <2>1, <2>2, <2>3, <4>3, Constants DEF RecvBits
        <5>2. CASE i + (ls - s) <= 0
          <6>1. i + (ls - s) \notin bs
            BY <5>2, <4>1
          <6>2. s - i >= ls /\ s - i # s
            BY <4>1, <5>2
          <6>3. i = -(ls - s) <=> s - i = ls
            BY <4>1
          <6>4. s - i \in g <=> s - i = ls
            BY <1>0, <1>3, <6>2, <4>1
          <6> QED BY <5>1, <6>1, <6>2, <6>3, <6>4
        <5>3. CASE i + (ls - s) > 0
          <6>1. i + (ls - s) \in 1 .. AckBits /\ ls - (i + (ls - s)) = s - i
            BY <2>3, <4>1, <5>3, Constants
          <6>2. i + (ls - s) \in bs <=> s - i \in g
            BY <1>0, <6>1
          <6>3. i # -(ls - s) /\ s - i # s
            BY <4>1, <5>3
          <6> QED BY <5>1, <6>2, <6>3
        <5> QED BY <4>1, <5>2, <5>3
      <4> QED BY <4>2, <4>3
    <3> QED BY <1>0, <2>3, <3>1, <3>3, <3>4
  <2>4. CASE ls >= s
    <3>1. RecvLast(l, Wrap(s)) = l /\ ls2 = ls
      BY <2>1, <2>2, <2>4 DEF RecvLast
    <3>2. ASSUME NEW i \in 1 .. AckBits
          PROVE  i \in RecvBits(l, bs, Wrap(s)) <=> ls - i \in g \cup {s}
      <4>1. i \in Int /\ i >= 1 /\ i <= AckBits
        BY Constants
      <4>2. CASE ls = s
        BY <1>0, <1>3, <2>1, <2>2, <4>1, <4>2 DEF RecvBits
      <4>3. CASE ls - s > AckBits
        BY <1>0, <2>1, <2>2, <4>1, <4>3, Constants DEF RecvBits
      <4>4. CASE ls # s /\ ~(ls - s > AckBits)
        <5>1. RecvBits(l, bs, Wrap(s)) = bs \cup {ls - s}
          BY <2>1, <2>2, <2>4, <4>4, Constants DEF RecvBits
        <5>2. i = ls - s <=> ls - i = s
          BY <4>1
        <5> QED BY <1>0, <5>1, <5>2
      <4> QED BY <4>2, <4>3, <4>4
    <3> QED BY <1>0, <1>3, <2>4, <3>1, <3>2
  <2> QED BY <2>3, <2>4
<1> QED BY <1>0, <1>2, <1>3

\* What both ways of sending a packet preserve.
LEMMA SendPacketStep ==
  ASSUME Inductive, NEW p \in Peer, NEW k \in Kind, SendPacket(p, k),
         UNCHANGED <<last, bits, lastSeq, got>>
  PROVE  IdsStandForSeqs' /\ HeadersAreTrue' /\ ReceivedWasSent' /\ BufferExact'
<1> USE DEF Inductive
<1>1. /\ sent \in [Peer -> Nat] /\ next \in [Peer -> WireId]
      /\ lastSeq \in [Peer -> Nat \cup {-1}] /\ link \in [Peer -> SUBSET Header]
      /\ got \in [Peer -> SUBSET Nat] /\ bits \in [Peer -> SUBSET (1 .. AckBits)]
  BY DEF TypeOK
<1>2. /\ sent' = [sent EXCEPT ![p] = @ + 1]
      /\ \A r \in Peer : sent'[r] \in Nat /\ sent[r] <= sent'[r]
      /\ sent'[p] = sent[p] + 1
  BY <1>1 DEF SendPacket
<1>3. IdsStandForSeqs'
  <2>1. next[p] = Wrap(sent[p]) /\ NextId(Wrap(sent[p])) = Wrap(sent[p] + 1)
    BY <1>1, NextIdWrap DEF IdsStandForSeqs
  <2> QED BY <1>1, <1>2, <2>1 DEF IdsStandForSeqs, SendPacket
<1>4. HeadersAreTrue'
  <2> SUFFICES ASSUME NEW r \in Peer, NEW h \in link'[r]
               PROVE  /\ h.id = Wrap(h.seq) /\ h.seq < sent'[Other(r)]
                      /\ h.lastAck = Wrap(h.ackSeq) /\ h.ackSeq < sent'[r]
                      /\ h.ackSeq # -1 => h.ackSeq \in got[Other(r)]
                      /\ \A i \in h.ackBits : h.ackSeq - i \in got[Other(r)]
    BY DEF HeadersAreTrue
  <2>0. Other(r) \in Peer /\ sent[r] \in Nat /\ sent[Other(r)] \in Nat
    BY <1>1, OtherType
  <2>1. CASE h \in link[r]
    <3>1. h.seq \in Int /\ h.ackSeq \in Int
      BY <1>1, <2>1 DEF Header
    <3>2. /\ h.id = Wrap(h.seq) /\ h.seq < sent[Other(r)]
          /\ h.lastAck = Wrap(h.ackSeq) /\ h.ackSeq < sent[r]
          /\ h.ackSeq # -1 => h.ackSeq \in got[Other(r)]
          /\ \A i \in h.ackBits : h.ackSeq - i \in got[Other(r)]
      BY <2>1 DEF HeadersAreTrue
    <3> QED BY <1>2, <2>0, <3>1, <3>2
  <2>2. CASE h \notin link[r]
    <3>1. r = Other(p) /\ h = PreviewHeader(p, k) /\ Other(r) = p
      BY <1>1, <2>2, OtherType DEF SendPacket
    <3>2. /\ h.id = next[p] /\ h.seq = sent[p] /\ h.ackSeq = lastSeq[p]
          /\ h.lastAck = HeaderLastAck(last[p]) /\ h.ackBits = bits[p]
      BY <3>1 DEF PreviewHeader
    <3>3. h.id = Wrap(h.seq) /\ h.seq < sent'[p]
      BY <1>1, <1>2, <3>2 DEF IdsStandForSeqs
    <3>4. h.lastAck = Wrap(h.ackSeq)
      BY <3>2, WrapMinusOne DEF IdsStandForSeqs, HeaderLastAck
    <3>5. lastSeq[p] # -1 => lastSeq[p] \in got[p] /\ lastSeq[p] < sent[r]
      BY <3>1 DEF ReceivedWasSent
    <3>6. lastSeq[p] < sent'[r]
      BY <1>1, <1>2, <2>0, <3>5
    <3>7. \A i \in bits[p] : lastSeq[p] - i \in got[p]
      BY <1>1 DEF BufferExact
    <3> QED BY <3>1, <3>2, <3>3, <3>4, <3>5, <3>6, <3>7
  <2> QED BY <2>1, <2>2
<1>5. ReceivedWasSent'
  <2> SUFFICES ASSUME NEW r \in Peer
               PROVE  /\ \A s \in got[r] : s < sent'[Other(r)]
                      /\ lastSeq[r] # -1 => lastSeq[r] \in got[r]
    BY DEF ReceivedWasSent
  <2>1. \A s \in got[r] : s \in Nat /\ s < sent[Other(r)]
    BY <1>1 DEF ReceivedWasSent
  <2>2. Other(r) \in Peer /\ sent[Other(r)] \in Nat
    BY <1>1, OtherType
  <2> QED BY <1>2, <2>1, <2>2 DEF ReceivedWasSent
<1>6. BufferExact'
  BY DEF BufferExact
<1> QED BY <1>3, <1>4, <1>5, <1>6

LEMMA DeliverStep ==
  ASSUME Inductive, NEW p \in Peer, Deliver(p)
  PROVE  /\ IdsStandForSeqs' /\ EntriesAreRecent' /\ HeadersAreTrue'
         /\ ReceivedWasSent' /\ BufferExact'
<1> USE DEF Inductive
<1>1. PICK h \in link[p] : /\ Fresh(p, h)
                           /\ Process(p, h)
                           /\ link' \in {link, [link EXCEPT ![p] = @ \ {h}]}
                           /\ UNCHANGED <<next, burst, sent>>
  BY DEF Deliver
<1>2. /\ h.seq \in Nat /\ h.id = Wrap(h.seq) /\ h.seq < sent[Other(p)]
      /\ lastSeq[p] - h.seq <= MaxDiff /\ h.seq - lastSeq[p] <= MaxDiff
  BY <1>1 DEF TypeOK, Header, HeadersAreTrue, Fresh
<1>3. /\ lastSeq \in [Peer -> Nat \cup {-1}] /\ got \in [Peer -> SUBSET Nat]
      /\ bits \in [Peer -> SUBSET (1 .. AckBits)] /\ last \in [Peer -> WireId \cup {NoPacket}]
      /\ unacked \in [Peer -> Unacked] /\ link \in [Peer -> SUBSET Header]
  BY DEF TypeOK
<1>4. /\ got'[p] = got[p] \cup {h.seq}
      /\ bits'[p] = RecvBits(last[p], bits[p], Wrap(h.seq))
      /\ last'[p] = RecvLast(last[p], Wrap(h.seq))
      /\ lastSeq'[p] = IF RecvLast(last[p], Wrap(h.seq)) = last[p] THEN lastSeq[p] ELSE h.seq
      /\ \A r \in Peer : r # p => /\ got'[r] = got[r] /\ bits'[r] = bits[r]
                                  /\ last'[r] = last[r] /\ lastSeq'[r] = lastSeq[r]
  BY <1>1, <1>2, <1>3 DEF Process
<1>5. /\ lastSeq'[p] \in got'[p]
      /\ last'[p] = Wrap(lastSeq'[p])
      /\ \A x \in got'[p] : x <= lastSeq'[p]
      /\ \A i \in 1 .. AckBits : i \in bits'[p] <=> lastSeq'[p] - i \in got'[p]
  <2> DEFINE s == h.seq
             ls2 == IF RecvLast(last[p], Wrap(s)) = last[p] THEN lastSeq[p] ELSE s
  <2>1. Exact(last[p], lastSeq[p], bits[p], got[p])
    BY DEF Exact, IdsStandForSeqs, ReceivedWasSent, BufferExact
  <2>2. lastSeq[p] \in Int /\ bits[p] \in SUBSET (1 .. AckBits) /\ got[p] \in SUBSET Nat
    BY <1>3
  <2>3. /\ Exact(RecvLast(last[p], Wrap(s)), ls2, RecvBits(last[p], bits[p], Wrap(s)), got[p] \cup {s})
        /\ ls2 \in got[p] \cup {s}
    BY <1>2, <2>1, <2>2, RecvExact
  <2>4. Exact(last'[p], lastSeq'[p], bits'[p], got'[p]) /\ lastSeq'[p] \in got'[p]
    BY <1>4, <2>3
  <2>5. lastSeq'[p] # -1
    BY <1>2, <1>3, <1>4, <2>4
  <2> QED BY <2>4, <2>5 DEF Exact
<1>6. lastSeq'[p] \in Nat /\ last'[p] \in WireId /\ last'[p] # NoPacket
  BY <1>2, <1>3, <1>4, <1>5, WrapType, NoPacketAssumption
<1>7. IdsStandForSeqs'
  <2>1. lastSeq'[p] # -1
    BY <1>6
  <2> QED BY <1>1, <1>4, <1>5, <1>6, <2>1 DEF IdsStandForSeqs
<1>8. EntriesAreRecent'
  <2>1. \A r \in Peer, id \in WireId :
           unacked'[r][id] # NotTracked => unacked'[r][id] = unacked[r][id]
    BY <1>1, <1>3 DEF Process, Without
  <2> QED BY <1>1, <2>1 DEF EntriesAreRecent
<1>9. HeadersAreTrue'
  <2>1. \A r \in Peer : link'[r] \subseteq link[r] /\ got[r] \subseteq got'[r]
    BY <1>1, <1>3, <1>4
  <2>2. \A r \in Peer : got[Other(r)] \subseteq got'[Other(r)]
    BY <2>1, OtherType
  <2> QED BY <1>1, <2>1, <2>2 DEF HeadersAreTrue
<1>10. ReceivedWasSent'
  <2>1. \A r \in Peer : \A x \in got'[r] : x < sent[Other(r)]
    BY <1>2, <1>4 DEF ReceivedWasSent
  <2> QED BY <1>1, <1>4, <1>5, <2>1 DEF ReceivedWasSent
<1>11. BufferExact'
  BY <1>4, <1>5 DEF BufferExact
<1> QED BY <1>7, <1>8, <1>9, <1>10, <1>11

LEMMA UpdateStep ==
  ASSUME Inductive, NEW p \in Peer, Update(p)
  PROVE  EntriesAreRecent'
<1> SUFFICES ASSUME NEW r \in Peer
             PROVE  /\ burst'[r] <= MaxBurst
                    /\ \A id \in WireId :
                          unacked'[r][id] # NotTracked =>
                             /\ Wrap(unacked'[r][id]) = id
                             /\ unacked'[r][id] < sent'[r]
                             /\ sent'[r] - unacked'[r][id] <= MaxAge + burst'[r]
  BY DEF EntriesAreRecent
<1>1. PICK cutoff \in 0 .. sent[p] :
         /\ unacked' = [unacked EXCEPT ![p] = Without(@, Expired(unacked[p], next[p], cutoff))]
         /\ burst' = [burst EXCEPT ![p] = 0]
         /\ sent' = sent
  BY DEF Update
<1>2. unacked \in [Peer -> Unacked] /\ burst \in [Peer -> Nat] /\ sent \in [Peer -> Nat]
  BY DEF Inductive, TypeOK
<1>3. CASE r # p
  BY <1>1, <1>2, <1>3 DEF Inductive, EntriesAreRecent
<1>4. CASE r = p
  <2>1. burst'[p] = 0
    BY <1>1, <1>2
  <2>2. ASSUME NEW id \in WireId, unacked'[p][id] # NotTracked
        PROVE  /\ Wrap(unacked'[p][id]) = id
               /\ unacked'[p][id] < sent'[p]
               /\ sent'[p] - unacked'[p][id] <= MaxAge + burst'[p]
    <3>1. /\ unacked'[p][id] = unacked[p][id]
          /\ id \notin Expired(unacked[p], next[p], cutoff)
      BY <1>1, <1>2, <2>2 DEF Without
    <3> DEFINE s == unacked[p][id]
    <3>2. s \in Nat /\ Wrap(s) = id /\ s < sent[p] /\ sent[p] - s <= MaxDiff
      BY <2>2, <3>1, EntryFacts
    <3>3. ~(WrappingDiff(next[p], id) > MaxAge)
      BY <2>2, <3>1 DEF Expired
    <3> HIDE DEF s
    <3>4. next[p] = Wrap(sent[p]) /\ sent[p] \in Nat
      BY <1>2 DEF Inductive, IdsStandForSeqs
    <3>5. s - sent[p] <= MaxDiff
      BY <3>2, <3>4, MaxDiffBound
    <3>6. WrappingDiff(next[p], id) = sent[p] - s
      BY <3>2, <3>4, <3>5, WrappingDiffExact
    <3>7. sent[p] - s <= MaxAge + 0
      BY <3>2, <3>3, <3>4, <3>6, Constants
    <3> QED BY <1>1, <2>1, <3>1, <3>2, <3>7 DEF s
  <2> QED BY <1>4, <2>1, <2>2, Constants
<1> QED BY <1>3, <1>4

LEMMA InductiveStep == Inductive /\ [Next]_vars => Inductive'
<1> SUFFICES ASSUME Inductive, [Next]_vars PROVE Inductive'
  OBVIOUS
<1>1. TypeOK /\ TypeOK'
  BY TypeInductive DEF Inductive
<1>2. ASSUME NEW p \in Peer, SendData(p) PROVE Inductive'
  <2>1. /\ SendPacket(p, "Data") /\ "Data" \in Kind
        /\ UNCHANGED <<last, bits, lastSeq, got>>
    BY <1>2 DEF SendData, Kind
  <2>2. IdsStandForSeqs' /\ HeadersAreTrue' /\ ReceivedWasSent' /\ BufferExact'
    BY <2>1, SendPacketStep
  <2>3. EntriesAreRecent'
    <3>1. /\ burst' = [burst EXCEPT ![p] = @ + 1] /\ sent' = [sent EXCEPT ![p] = @ + 1]
          /\ unacked' = [unacked EXCEPT ![p] = [unacked[p] EXCEPT ![next[p]] = sent[p]]]
          /\ burst[p] < MaxBurst
      BY <1>1, <1>2, <2>1 DEF SendData, SendPacket, TypeOK
    <3>2. /\ unacked \in [Peer -> Unacked] /\ burst \in [Peer -> Nat] /\ sent \in [Peer -> Nat]
          /\ next[p] = Wrap(sent[p]) /\ next[p] \in WireId
      BY DEF Inductive, TypeOK, IdsStandForSeqs
    <3>3. \A r \in Peer : r # p => /\ burst'[r] = burst[r] /\ sent'[r] = sent[r]
                                   /\ unacked'[r] = unacked[r]
      BY <3>1, <3>2
    <3>4. /\ burst'[p] = burst[p] + 1 /\ sent'[p] = sent[p] + 1
          /\ \A id \in WireId : unacked'[p][id] = IF id = next[p] THEN sent[p] ELSE unacked[p][id]
      BY <3>1, <3>2 DEF Unacked
    <3>5. ASSUME NEW id \in WireId, unacked'[p][id] # NotTracked
          PROVE  /\ Wrap(unacked'[p][id]) = id
                 /\ unacked'[p][id] < sent'[p]
                 /\ sent'[p] - unacked'[p][id] <= MaxAge + burst'[p]
      <4>1. CASE id = next[p]
        BY <3>2, <3>4, <4>1, Constants
      <4>2. CASE id # next[p]
        <5>1. unacked'[p][id] = unacked[p][id] /\ unacked[p][id] # NotTracked
          BY <3>4, <3>5, <4>2
        <5>2. /\ unacked[p][id] \in Nat /\ Wrap(unacked[p][id]) = id
              /\ unacked[p][id] < sent[p]
              /\ sent[p] - unacked[p][id] <= MaxAge + burst[p]
          BY <5>1, EntryFacts
        <5> QED BY <3>2, <3>4, <5>1, <5>2, Constants
      <4> QED BY <4>1, <4>2
    <3>6. burst'[p] <= MaxBurst
      BY <3>1, <3>2, <3>4, Constants
    <3> QED BY <3>3, <3>5, <3>6 DEF Inductive, EntriesAreRecent
  <2> QED BY <1>1, <2>2, <2>3 DEF Inductive
<1>3. ASSUME NEW p \in Peer, SendAckOnly(p) PROVE Inductive'
  <2>1. /\ SendPacket(p, "AckOnly") /\ "AckOnly" \in Kind
        /\ UNCHANGED <<unacked, last, bits, lastSeq, got>>
    BY <1>3 DEF SendAckOnly, Kind
  <2>2. IdsStandForSeqs' /\ HeadersAreTrue' /\ ReceivedWasSent' /\ BufferExact'
    BY <2>1, SendPacketStep
  <2>3. EntriesAreRecent'
    <3>1. /\ burst' = [burst EXCEPT ![p] = @ + 1] /\ sent' = [sent EXCEPT ![p] = @ + 1]
          /\ burst[p] < MaxBurst /\ unacked' = unacked
      BY <2>1 DEF SendPacket
    <3>2. burst \in [Peer -> Nat] /\ sent \in [Peer -> Nat]
      BY <1>1 DEF TypeOK
    <3>3. ASSUME NEW r \in Peer, NEW id \in WireId, unacked[r][id] # NotTracked
          PROVE  /\ Wrap(unacked[r][id]) = id
                 /\ unacked[r][id] < sent'[r]
                 /\ sent'[r] - unacked[r][id] <= MaxAge + burst'[r]
      <4>1. /\ unacked[r][id] \in Nat /\ Wrap(unacked[r][id]) = id
            /\ unacked[r][id] < sent[r]
            /\ sent[r] - unacked[r][id] <= MaxAge + burst[r]
        BY <3>3, EntryFacts
      <4> QED BY <3>1, <3>2, <4>1, Constants
    <3>4. \A r \in Peer : burst'[r] <= MaxBurst
      BY <3>1, <3>2, Constants DEF Inductive, EntriesAreRecent
    <3> QED BY <3>1, <3>3, <3>4 DEF EntriesAreRecent
  <2> QED BY <1>1, <2>2, <2>3 DEF Inductive
<1>4. ASSUME NEW p \in Peer, Deliver(p) PROVE Inductive'
  BY <1>1, <1>4, DeliverStep DEF Inductive
<1>5. ASSUME NEW p \in Peer, Lose(p) PROVE Inductive'
  <2>1. /\ \A r \in Peer : link'[r] \subseteq link[r]
        /\ UNCHANGED <<code, burst, history>>
    BY <1>1, <1>5 DEF Lose, TypeOK
  <2>2. HeadersAreTrue'
    BY <2>1 DEF Inductive, HeadersAreTrue, history
  <2> QED BY <1>1, <2>1, <2>2
        DEF Inductive, IdsStandForSeqs, EntriesAreRecent, ReceivedWasSent, BufferExact,
            code, history
<1>6. ASSUME NEW p \in Peer, Update(p) PROVE Inductive'
  <2>1. EntriesAreRecent'
    BY <1>6, UpdateStep
  <2>2. UNCHANGED <<next, last, bits, ackPending, link, sent, lastSeq, got>>
    BY <1>6 DEF Update
  <2> QED BY <1>1, <2>1, <2>2
        DEF Inductive, IdsStandForSeqs, HeadersAreTrue, ReceivedWasSent, BufferExact
<1>7. CASE UNCHANGED vars
  BY <1>1, <1>7 DEF Inductive, IdsStandForSeqs, EntriesAreRecent, HeadersAreTrue,
                    ReceivedWasSent, BufferExact, vars, code, history
<1> QED BY <1>2, <1>3, <1>4, <1>5, <1>6, <1>7 DEF Next

LEMMA InductiveInit == Init => Inductive
<1> SUFFICES ASSUME Init PROVE Inductive
  OBVIOUS
<1>1. TypeOK
  BY TypeInit
<1>2. IdsStandForSeqs
  <2>1. 0 = IdModulus * 0 + 0
    BY IdModulusPositive
  <2>2. Wrap(0) = 0
    BY <2>1, ModUnique, WireIdFacts, 0 \in Int DEF Wrap
  <2> QED BY <2>2 DEF Init, IdsStandForSeqs
<1>3. EntriesAreRecent
  BY Constants DEF Init, EntriesAreRecent, NoUnacked
<1>4. HeadersAreTrue /\ ReceivedWasSent
  BY DEF Init, HeadersAreTrue, ReceivedWasSent
<1>5. BufferExact
  BY DEF Init, BufferExact
<1> QED BY <1>1, <1>2, <1>3, <1>4, <1>5 DEF Inductive

\* What a header acknowledges was received, for every identifier width, window
\* and number of packets: process_recv_packet_header never reports a packet as
\* delivered that the other side has not seen.
THEOREM AckedWasReceivedAlways == Spec => []AckedWasReceived
  BY InductiveInit, InductiveStep, InductiveImpliesAcked, PTL DEF Spec

\* commit_send_packet never overwrites an entry of sent_packets_not_acked.
THEOREM NoOverwriteAlways == Spec => []NoOverwrite
  BY InductiveInit, InductiveStep, InductiveImpliesNoOverwrite, PTL DEF Spec

\* The receive buffer is exact: the newest packet, and one bit for each of the
\* AckBits packets below it.
THEOREM BufferExactAlways == Spec => []BufferExact
<1>1. Inductive => BufferExact
  BY DEF Inductive
<1> QED BY <1>1, InductiveInit, InductiveStep, PTL DEF Spec

-----------------------------------------------------------------------------
(* TimeSync.                                                               *)

\* The packets of an ended session do not arrive, the slots divide the
\* identifiers (128 and 65536 in the code), a pong is no older than the store,
\* and a correction takes more than one error (3).
SyncConditions ==
    /\ ~ StaleDelivery
    /\ PingIds % StoreSize = 0 /\ 2 * StoreSize <= PingIds
    /\ MaxPongAge <= StoreSize
    /\ ErrorsThreshold >= 2

-----------------------------------------------------------------------------
(* Residues. *)

LEMMA SyncConstants ==
    /\ PingIds \in Nat /\ PingIds > 0 /\ StoreSize \in Nat /\ StoreSize > 0
    /\ HandshakePings \in Nat /\ HandshakePings > 0 /\ MaxPongAge \in Nat /\ MaxPongAge > 0
    /\ ErrorsThreshold \in Nat /\ ErrorsThreshold > 0 /\ MaxPings \in Nat /\ MaxSessions \in Nat
  BY SyncAssumption

LEMMA Division ==
    ASSUME NEW m \in Nat, m > 0, NEW x \in Int
    PROVE  /\ x % m \in 0 .. m - 1
           /\ \E q \in Int : x = m * q + (x % m)
<1>1. x % m \in 0 .. m - 1
  OBVIOUS
<1>2. x = m * (x \div m) + (x % m) /\ x \div m \in Int
  OBVIOUS
<1> QED BY <1>1, <1>2

LEMMA SmallMultipleIsZero ==
    ASSUME NEW m \in Nat, m > 0, NEW q \in Int, NEW d \in Int, d = m * q, d < m, - d < m
    PROVE  d = 0
  OBVIOUS

\* The residue is the only remainder in range.
LEMMA RemainderUnique ==
    ASSUME NEW m \in Nat, m > 0, NEW x \in Int, NEW q \in Int, NEW r \in 0 .. m - 1, x = m * q + r
    PROVE  x % m = r
<1>1. x % m \in Int /\ x % m \in 0 .. m - 1
  BY Division
<1>2. PICK p \in Int : x = m * p + (x % m)
  BY Division
<1>3. (x % m) - r = m * (q - p)
  BY <1>1, <1>2
<1>4. (x % m) - r \in Int /\ (x % m) - r < m /\ - ((x % m) - r) < m
  BY <1>1
<1>5. (x % m) - r = 0
  BY <1>3, <1>4, SmallMultipleIsZero, q - p \in Int
<1> QED BY <1>1, <1>5

\* Two numbers of one residue that are less than m apart are equal.
LEMMA CloseNumbersEqual ==
    ASSUME NEW m \in Nat, m > 0, NEW x \in Int, NEW y \in Int, x % m = y % m,
           x - y < m, y - x < m
    PROVE  x = y
<1>1. PICK p \in Int : x = m * p + (x % m)
  BY Division
<1>2. PICK q \in Int : y = m * q + (y % m)
  BY Division
<1>3. x % m \in Int
  BY Division
<1>4. x - y = m * (p - q)
  BY <1>1, <1>2, <1>3
<1>5. x - y = 0
  BY <1>4, SmallMultipleIsZero, p - q \in Int, x - y \in Int, -(x - y) < m
<1> QED BY <1>5

\* The slot of an identifier is the slot of the number behind it.
LEMMA SlotOfNumber ==
    ASSUME SyncConditions, NEW n \in Nat
    PROVE  (n % PingIds) % StoreSize = n % StoreSize
<1>1. PICK a \in Int : PingIds = StoreSize * a + (PingIds % StoreSize)
  BY Division, SyncConstants
<1>2. PICK b \in Int : n = PingIds * b + (n % PingIds)
  BY Division, SyncConstants
<1>3. n % PingIds \in Int
  BY Division, SyncConstants
<1>4. PICK c \in Int : n % PingIds = StoreSize * c + ((n % PingIds) % StoreSize)
  BY <1>3, Division, SyncConstants
<1>5. (n % PingIds) % StoreSize \in 0 .. StoreSize - 1
  BY <1>3, Division, SyncConstants
<1>6. PingIds = StoreSize * a
  BY <1>1, SyncConstants DEF SyncConditions
<1>7. n = (StoreSize * a) * b + (StoreSize * c + ((n % PingIds) % StoreSize))
  BY <1>2, <1>4, <1>6
<1>8. (StoreSize * a) * b = StoreSize * (a * b) /\ a * b \in Int
  BY SyncConstants
<1>9. n = StoreSize * (a * b + c) + ((n % PingIds) % StoreSize)
  BY <1>5, <1>7, <1>8, SyncConstants
<1> QED BY <1>5, <1>8, <1>9, RemainderUnique, SyncConstants, a * b + c \in Int

\* A pong that counts as more recent answers a newer ping, although only
\* identifiers are compared.
LEMMA MoreRecentIsNewer ==
    ASSUME SyncConditions, NEW m \in Nat, NEW k \in Nat, k - m < StoreSize,
           ((m % PingIds) - (k % PingIds)) % PingIds \in 1 .. (PingIds \div 2) - 1
    PROVE  m > k
<1> SUFFICES ASSUME m <= k PROVE FALSE
  BY m \in Nat, k \in Nat
<1>0. PingIds \in Nat /\ PingIds > 0 /\ StoreSize \in Nat /\ 2 * StoreSize <= PingIds
  BY SyncConstants DEF SyncConditions
<1>10. m \in Int /\ k \in Int
  OBVIOUS
<1>1. PICK a \in Int : m = PingIds * a + (m % PingIds)
  BY ONLY <1>0, <1>10, Division
<1>2. PICK b \in Int : k = PingIds * b + (k % PingIds)
  BY ONLY <1>0, <1>10, Division
<1>3. m % PingIds \in Int /\ k % PingIds \in Int
  BY <1>0, Division
<1> DEFINE x == (m % PingIds) - (k % PingIds)
<1>4. x \in Int /\ x = (m - k) + PingIds * (b - a) /\ b - a \in Int
  BY <1>0, <1>1, <1>2, <1>3
<1>5. CASE m = k
  <2>1. x = PingIds * (b - a) + 0
    BY <1>4, <1>5, <1>0
  <2>2. x % PingIds = 0
    BY <1>0, <1>4, <2>1, RemainderUnique, 0 \in 0 .. PingIds - 1
  <2> QED BY <2>2
<1>6. CASE m < k
  <2>1. x = PingIds * (b - a - 1) + (PingIds - (k - m)) /\ b - a - 1 \in Int
    BY <1>4, <1>0
  <2>2. PingIds - (k - m) \in 0 .. PingIds - 1
    BY <1>0, <1>6
  <2>3. x % PingIds = PingIds - (k - m)
    BY <1>0, <1>4, <2>1, <2>2, RemainderUnique
  <2>4. PingIds - (k - m) > (PingIds \div 2) - 1
    BY <1>0
  <2> QED BY <2>3, <2>4, <1>0
<1> QED BY <1>5, <1>6
-----------------------------------------------------------------------------
(***************************************************************************)
(* The inductive invariant.                                                *)
(***************************************************************************)
PingsSoFar == {<<session, n>> : n \in 0 .. pingsSent - 1}

\* Everything under way belongs to this session.
UnderWay == pings \subseteq PingsSoFar /\ pongs \subseteq PingsSoFar /\ pongsToSend \subseteq PingsSoFar

\* A slot holds one of the last StoreSize pings, and one that belongs there.
StoreExact ==
    \A i \in 0 .. StoreSize - 1 : pingStore[i] # NoPing =>
        \E n \in 0 .. pingsSent - 1 :
            /\ pingStore[i] = <<session, n>>
            /\ n % StoreSize = i
            /\ pingsSent <= n + StoreSize

\* The latest sample, and a bound on how many there were.
TakenExact ==
    \/ taken = NoPing /\ mostRecent = NoPing /\ samples = 0
    \/ \E k \in 0 .. pingsSent - 1 :
          /\ taken = <<<<session, k>>, <<session, k>>>>
          /\ mostRecent = k % PingIds
          /\ samples <= k + 1

OwnSamples == samples = ownSamples /\ (isSynced => samples >= HandshakePings)

ErrorsAgree == errorAhead \in BOOLEAN /\ (errors > 0 => streak > 0)

SyncInv ==
    /\ SyncTypeOK
    /\ pingStore \in [0 .. StoreSize - 1 -> {NoPing} \cup (Nat \X Nat)]
    /\ UnderWay /\ StoreExact /\ TakenExact /\ OwnSamples /\ ErrorsAgree

LEMMA SyncInvInit == SyncInit => SyncInv
<1> SUFFICES ASSUME SyncInit PROVE SyncInv
  OBVIOUS
<1> USE SyncConstants DEF SyncInit
<1>1. SyncTypeOK
  <2>1. linkUp \in BOOLEAN /\ isSynced \in BOOLEAN /\ remoteSeen \in BOOLEAN /\ speed \in Speeds
    BY Zenon DEF Speeds
  <2>2. DOMAIN pingStore = 0 .. StoreSize - 1 /\ mostRecent \in {NoPing} \cup 0 .. PingIds - 1
    BY Zenon
  <2>3. /\ session \in 0 .. MaxSessions /\ pingsSent \in 0 .. MaxPings
        /\ samples \in 0 .. MaxPings /\ ownSamples \in 0 .. MaxPings
        /\ {errors, streak} \subseteq 0 .. ErrorsThreshold
    OBVIOUS
  <2> QED BY <2>1, <2>2, <2>3 DEF SyncTypeOK
<1>2. pingStore \in [0 .. StoreSize - 1 -> {NoPing} \cup (Nat \X Nat)]
  OBVIOUS
<1>3. UnderWay /\ StoreExact /\ TakenExact /\ OwnSamples /\ ErrorsAgree
  BY DEF UnderWay, StoreExact, TakenExact, OwnSamples, ErrorsAgree
<1> QED BY <1>1, <1>2, <1>3 DEF SyncInv

\* What the invariant says of numbers.
LEMMA SyncNumbers ==
    ASSUME SyncTypeOK
    PROVE  pingsSent \in Nat /\ session \in Nat /\ samples \in Nat /\ ownSamples \in Nat
           /\ errors \in Nat /\ streak \in Nat
  BY SyncConstants DEF SyncTypeOK

\* The slot of a ping that was, or will be, sent.
LEMMA SlotOfPing ==
    ASSUME SyncConditions, NEW s, NEW n \in Nat
    PROVE  Slot(WirePing(<<s, n>>)) = n % StoreSize /\ n % StoreSize \in 0 .. StoreSize - 1
           /\ WirePing(<<s, n>>) = n % PingIds
<1>1. WirePing(<<s, n>>) = n % PingIds
  BY DEF WirePing
<1>2. Slot(WirePing(<<s, n>>)) = (n % PingIds) % StoreSize
  BY <1>1 DEF Slot
<1> QED BY <1>1, <1>2, SlotOfNumber, Division, SyncConstants

\* A new ping takes the slot of the one that is StoreSize older.
LEMMA SendPingStep ==
    ASSUME SyncConditions, SyncInv, SendPing
    PROVE  SyncInv'
<1> DEFINE new == <<session, pingsSent>>
           home == pingsSent % StoreSize
<1>0. pingsSent \in Nat /\ session \in Nat /\ samples \in Nat
  BY SyncNumbers DEF SyncInv
<1>1. Slot(WirePing(new)) = home /\ home \in 0 .. StoreSize - 1
  BY <1>0, SlotOfPing
<1>2. pingStore' = [pingStore EXCEPT ![home] = new] /\ pings' = pings \cup {new}
  BY <1>1 DEF SendPing
<1>3. pingsSent' = pingsSent + 1 /\ session' = session /\ new \in Nat \X Nat /\ new # NoPing
  BY <1>0, SyncAssumption DEF SendPing
<1>4. SyncTypeOK'
  BY <1>0, <1>2, SyncConstants DEF SyncInv, SyncTypeOK, SendPing, clockVars
<1>5. (pingStore \in [0 .. StoreSize - 1 -> {NoPing} \cup (Nat \X Nat)])'
  BY <1>2, <1>3 DEF SyncInv
<1>6. UnderWay'
  <2>1. PingsSoFar \subseteq PingsSoFar' /\ new \in PingsSoFar'
    BY <1>0, <1>3 DEF PingsSoFar
  <2> QED BY <2>1, <1>2 DEF SyncInv, UnderWay, SendPing
<1>7. StoreExact'
  <2> SUFFICES ASSUME NEW i \in 0 .. StoreSize - 1, pingStore'[i] # NoPing
               PROVE  \E n \in 0 .. pingsSent : /\ pingStore'[i] = <<session, n>>
                                                /\ n % StoreSize = i
                                                /\ pingsSent + 1 <= n + StoreSize
    BY <1>0, <1>3 DEF StoreExact
  <2>1. CASE i = home
    <3>1. pingStore'[i] = <<session, pingsSent>>
      BY <1>2, <2>1 DEF SyncInv
    <3> QED BY <3>1, <2>1, <1>0, SyncConstants
  <2>2. CASE i # home
    <3>1. pingStore'[i] = pingStore[i]
      BY <1>2, <2>2 DEF SyncInv
    <3>2. PICK n \in 0 .. pingsSent - 1 : /\ pingStore[i] = <<session, n>>
                                          /\ n % StoreSize = i
                                          /\ pingsSent <= n + StoreSize
      BY <3>1 DEF SyncInv, StoreExact
    <3>3. pingsSent # n + StoreSize
      <4> SUFFICES ASSUME pingsSent = n + StoreSize PROVE FALSE
        OBVIOUS
      <4>1. PICK q \in Int : n = StoreSize * q + (n % StoreSize)
        BY Division, SyncConstants, n \in Int
      <4>2. pingsSent = StoreSize * (q + 1) + i /\ q + 1 \in Int
        BY <4>1, <3>2, SyncConstants
      <4>3. home = i
        BY <4>2, <1>0, RemainderUnique, SyncConstants, pingsSent \in Int
      <4> QED BY <4>3, <2>2
    <3> QED BY <3>1, <3>2, <3>3, <1>0, SyncConstants
  <2> QED BY <2>1, <2>2
<1>8. TakenExact'
  BY <1>0, <1>3 DEF SyncInv, TakenExact, SendPing
<1>9. OwnSamples' /\ ErrorsAgree'
  BY DEF SyncInv, OwnSamples, ErrorsAgree, SendPing, clockVars
<1> QED BY <1>4, <1>5, <1>6, <1>7, <1>8, <1>9 DEF SyncInv

\* What a pong finds in its slot is the ping it answers, or nothing; and when
\* it is used it is newer than the one before.
LEMMA PongFindsItsPing ==
    ASSUME SyncConditions, SyncInv, NEW m \in 0 .. pingsSent - 1, pingsSent - m <= MaxPongAge
    PROVE  /\ pingStore[m % StoreSize] \in {NoPing, <<session, m>>}
           /\ \A k \in 0 .. pingsSent - 1 :
                 mostRecent = k % PingIds /\ MoreRecent(m % PingIds) => m > k
<1>0. pingsSent \in Nat /\ MaxPongAge \in Nat /\ StoreSize \in Nat /\ StoreSize > 0 /\ MaxPongAge <= StoreSize
      /\ PingIds \in Nat /\ PingIds > 0
  BY SyncNumbers, SyncConstants DEF SyncInv, SyncConditions
<1>1. m % StoreSize \in 0 .. StoreSize - 1 /\ m \in Nat
  BY <1>0, Division
<1>2. pingStore[m % StoreSize] \in {NoPing, <<session, m>>}
  <2> SUFFICES ASSUME pingStore[m % StoreSize] # NoPing
               PROVE  pingStore[m % StoreSize] = <<session, m>>
    OBVIOUS
  <2>1. PICK n \in 0 .. pingsSent - 1 : /\ pingStore[m % StoreSize] = <<session, n>>
                                        /\ n % StoreSize = m % StoreSize
                                        /\ pingsSent <= n + StoreSize
    BY <1>1 DEF SyncInv, StoreExact
  <2>2. n - m < StoreSize /\ m - n < StoreSize
    BY <1>0, <2>1
  <2>3. n = m
    BY <1>0, <2>1, <2>2, CloseNumbersEqual, n \in Int, m \in Int
  <2> QED BY <2>1, <2>3
<1>3. ASSUME NEW k \in 0 .. pingsSent - 1, mostRecent = k % PingIds, MoreRecent(m % PingIds)
      PROVE  m > k
  <2>1. k % PingIds \in Nat /\ k \in Nat
    BY <1>0, Division
  <2>2. mostRecent # NoPing
    BY <2>1, <1>3, SyncAssumption
  <2>3. ((m % PingIds) - (k % PingIds)) % PingIds \in 1 .. (PingIds \div 2) - 1
    BY <2>2, <1>3 DEF MoreRecent
  <2>4. k - m < StoreSize
    BY <1>0
  <2> QED BY <2>1, <2>3, <2>4, <1>1, MoreRecentIsNewer
<1> QED BY <1>2, <1>3
\* A pong is measured with its own ping, and no pong counts twice.
LEMMA ReceivePongStep ==
    ASSUME SyncConditions, SyncInv, NEW ping \in pongs, ReceivePong(ping)
    PROVE  /\ SyncInv'
           /\ taken # NoPing /\ taken' # NoPing => taken'[1][2] >= taken[1][2]
<1>0. pingsSent \in Nat /\ session \in Nat /\ samples \in Nat /\ ownSamples \in Nat
  BY SyncNumbers DEF SyncInv
<1>1. PICK m \in 0 .. pingsSent - 1 : ping = <<session, m>>
  BY DEF SyncInv, UnderWay, PingsSoFar
<1>2. pingsSent - m <= MaxPongAge
  BY <1>1 DEF ReceivePong, Arrives
<1> DEFINE home == m % StoreSize
           id == m % PingIds
<1>3. Slot(WirePing(ping)) = home /\ home \in 0 .. StoreSize - 1 /\ WirePing(ping) = id
  BY <1>0, <1>1, SlotOfPing
<1>4. /\ pingStore[home] \in {NoPing, ping}
      /\ \A k \in 0 .. pingsSent - 1 : mostRecent = k % PingIds /\ MoreRecent(id) => m > k
  BY <1>1, <1>2, PongFindsItsPing
<1>5. pingStore' = [pingStore EXCEPT ![home] = NoPing]
  BY <1>3 DEF ReceivePong, ProcessPong
<1>6. /\ linkUp' = linkUp /\ session' = session /\ pingsSent' = pingsSent
      /\ pongsToSend' = pongsToSend /\ pings' = pings /\ pongs' = pongs \ {ping}
      /\ remoteSeen' = remoteSeen /\ isSynced' = isSynced /\ errors' = errors
      /\ errorAhead' = errorAhead /\ speed' = speed /\ streak' = streak
  BY DEF ReceivePong, clockVars
<1>7. (pingStore \in [0 .. StoreSize - 1 -> {NoPing} \cup (Nat \X Nat)])'
  BY <1>5 DEF SyncInv
<1>8. UnderWay'
  BY <1>6 DEF SyncInv, UnderWay, PingsSoFar
<1>9. StoreExact'
  <2> SUFFICES ASSUME NEW i \in 0 .. StoreSize - 1, pingStore'[i] # NoPing
               PROVE  pingStore'[i] = pingStore[i]
    BY <1>6 DEF SyncInv, StoreExact
  <2> QED BY <1>5 DEF SyncInv
<1>10. CASE pingStore[home] # NoPing /\ MoreRecent(id)
  <2>1. /\ mostRecent' = id /\ samples' = samples + 1 /\ taken' = <<ping, ping>>
        /\ ownSamples' = ownSamples + 1
    BY <1>1, <1>3, <1>4, <1>10 DEF ReceivePong, ProcessPong
  <2>2. samples <= m /\ (taken # NoPing => taken[1][2] < m)
    <3>1. CASE taken = NoPing /\ samples = 0
      BY <3>1, <1>0
    <3>2. ASSUME NEW k \in 0 .. pingsSent - 1, taken = <<<<session, k>>, <<session, k>>>>,
                 mostRecent = k % PingIds, samples <= k + 1
          PROVE  samples <= m /\ taken[1][2] < m
      <4>1. m > k
        BY <1>4, <1>10, <3>2
      <4> QED BY <4>1, <3>2, <1>0
    <3> QED BY <3>1, <3>2 DEF SyncInv, TakenExact
  <2>3. TakenExact'
    BY <1>0, <1>1, <1>6, <2>1, <2>2 DEF TakenExact
  <2>4. id \in 0 .. PingIds - 1
    BY Division, SyncConstants
  <2>5. SyncTypeOK'
    <3>1. samples' \in 0 .. MaxPings /\ ownSamples' \in 0 .. MaxPings
      BY <1>0, <2>1, <2>2, SyncConstants DEF SyncInv, SyncTypeOK, OwnSamples
    <3>2. DOMAIN pingStore' = 0 .. StoreSize - 1 /\ mostRecent' \in {NoPing} \cup 0 .. PingIds - 1
      BY <1>7, <2>1, <2>4
    <3> QED BY <3>1, <3>2, <1>6, Zenon DEF SyncInv, SyncTypeOK
  <2>6. OwnSamples' /\ ErrorsAgree'
    BY <1>0, <1>6, <2>1, SyncConstants DEF SyncInv, OwnSamples, ErrorsAgree
  <2>7. taken # NoPing => taken'[1][2] >= taken[1][2]
    <3> SUFFICES ASSUME taken # NoPing PROVE taken'[1][2] >= taken[1][2]
      OBVIOUS
    <3>1. PICK k \in 0 .. pingsSent - 1 : taken = <<<<session, k>>, <<session, k>>>>
      BY DEF SyncInv, TakenExact
    <3>2. taken[1][2] = k /\ taken'[1][2] = m
      BY <3>1, <2>1, <1>1
    <3> QED BY <3>2, <2>2, <1>0
  <2> QED BY <2>3, <2>5, <2>6, <2>7, <1>7, <1>8, <1>9 DEF SyncInv
<1>11. CASE ~ (pingStore[home] # NoPing /\ MoreRecent(id))
  <2>1. mostRecent' = mostRecent /\ samples' = samples /\ taken' = taken /\ ownSamples' = ownSamples
    BY <1>3, <1>11 DEF ReceivePong, ProcessPong
  <2>2. SyncTypeOK'
    <3>1. DOMAIN pingStore' = 0 .. StoreSize - 1
      BY <1>7
    <3> QED BY <3>1, <2>1, <1>6, Zenon DEF SyncInv, SyncTypeOK
  <2>3. TakenExact' /\ OwnSamples' /\ ErrorsAgree'
    BY <1>6, <2>1 DEF SyncInv, TakenExact, OwnSamples, ErrorsAgree
  <2>4. taken # NoPing => taken'[1][2] >= taken[1][2]
    <3> SUFFICES ASSUME taken # NoPing PROVE taken[1][2] >= taken[1][2]
      BY <2>1
    <3>1. PICK k \in 0 .. pingsSent - 1 : taken = <<<<session, k>>, <<session, k>>>>
      BY DEF SyncInv, TakenExact
    <3> QED BY <3>1
  <2> QED BY <2>2, <2>3, <2>4, <1>7, <1>8, <1>9 DEF SyncInv
<1> QED BY <1>10, <1>11

\* A new session starts from nothing.
LEMMA ConnectStep ==
    ASSUME SyncConditions, SyncInv, Connect
    PROVE  SyncInv'
<1> USE SyncConstants
<1>1. /\ pingStore' = [i \in 0 .. StoreSize - 1 |-> NoPing]
      /\ pingsSent' = 0 /\ mostRecent' = NoPing /\ samples' = 0 /\ pongsToSend' = {}
      /\ isSynced' = FALSE /\ errors' = 0 /\ errorAhead' = TRUE /\ speed' = "normal"
      /\ streak' = 0 /\ remoteSeen' = FALSE /\ taken' = NoPing /\ ownSamples' = 0
      /\ linkUp' = TRUE
  BY DEF Connect, PingReset, SyncReset, RemoteReset
<1>2. pings' = {} /\ pongs' = {}
  BY DEF Connect, SyncConditions
<1>3. session' \in 0 .. MaxSessions
  BY SyncNumbers DEF Connect, SyncInv
<1>4. SyncTypeOK'
  <2>1. linkUp' \in BOOLEAN /\ isSynced' \in BOOLEAN /\ remoteSeen' \in BOOLEAN /\ speed' \in Speeds
    BY <1>1, Zenon DEF Speeds
  <2>2. DOMAIN pingStore' = 0 .. StoreSize - 1 /\ mostRecent' \in {NoPing} \cup 0 .. PingIds - 1
    BY <1>1, Zenon
  <2>3. /\ pingsSent' \in 0 .. MaxPings
        /\ samples' \in 0 .. MaxPings /\ ownSamples' \in 0 .. MaxPings
        /\ {errors', streak'} \subseteq 0 .. ErrorsThreshold
    BY <1>1
  <2> QED BY <2>1, <2>2, <2>3, <1>3 DEF SyncTypeOK
<1>5. (pingStore \in [0 .. StoreSize - 1 -> {NoPing} \cup (Nat \X Nat)])'
  BY <1>1
<1>6. UnderWay' /\ StoreExact' /\ TakenExact'
  BY <1>1, <1>2 DEF UnderWay, StoreExact, TakenExact
<1>7. OwnSamples' /\ ErrorsAgree'
  BY <1>1 DEF OwnSamples, ErrorsAgree
<1> QED BY <1>4, <1>5, <1>6, <1>7 DEF SyncInv
\* The steps of the network leave the books of the client alone.
LEMMA NetworkStep ==
    ASSUME SyncInv, SendPongs \/ LosePing \/ (\E ping \in pings : ReceivePing(ping))
    PROVE  SyncInv' /\ UNCHANGED <<taken, clockVars>>
<1>1. /\ linkUp' = linkUp /\ session' = session /\ pingStore' = pingStore /\ pingsSent' = pingsSent
      /\ mostRecent' = mostRecent /\ samples' = samples /\ clockVars' = clockVars
      /\ taken' = taken /\ ownSamples' = ownSamples
  BY DEF SendPongs, LosePing, ReceivePing
<1>2. UnderWay'
  BY <1>1 DEF SyncInv, UnderWay, PingsSoFar, SendPongs, LosePing, ReceivePing
<1>3. SyncTypeOK' /\ OwnSamples' /\ ErrorsAgree'
  BY <1>1 DEF SyncInv, SyncTypeOK, OwnSamples, ErrorsAgree, clockVars
<1>4. StoreExact' /\ TakenExact' /\ (pingStore \in [0 .. StoreSize - 1 -> {NoPing} \cup (Nat \X Nat)])'
  BY <1>1 DEF SyncInv, StoreExact, TakenExact
<1> QED BY <1>1, <1>2, <1>3, <1>4 DEF SyncInv

\* The steps of the timelines and of a disconnection leave the pings alone.
LEMMA PingsUntouched ==
    ASSUME SyncInv, UNCHANGED <<session, pingVars, taken, ownSamples>>,
           linkUp' \in BOOLEAN, isSynced' \in BOOLEAN, remoteSeen' \in BOOLEAN,
           {errors', streak'} \subseteq 0 .. ErrorsThreshold, speed' \in Speeds,
           isSynced' => samples >= HandshakePings, ErrorsAgree'
    PROVE  SyncInv'
<1>1. SyncTypeOK'
  BY DEF SyncInv, SyncTypeOK, pingVars
<1>2. OwnSamples'
  BY DEF SyncInv, OwnSamples, pingVars
<1>3. UnderWay' /\ StoreExact' /\ TakenExact'
  BY DEF SyncInv, UnderWay, PingsSoFar, StoreExact, TakenExact, pingVars
<1>4. (pingStore \in [0 .. StoreSize - 1 -> {NoPing} \cup (Nat \X Nat)])'
  BY DEF SyncInv, pingVars
<1> QED BY <1>1, <1>2, <1>3, <1>4 DEF SyncInv

LEMMA OneMoreRange ==
    ASSUME NEW n \in 0 .. ErrorsThreshold
    PROVE  OneMore(n) \in 0 .. ErrorsThreshold /\ OneMore(n) > 0
           /\ (ErrorsThreshold >= 2 /\ n > 0 => OneMore(n) >= 2)
  BY SyncConstants DEF OneMore

\* A correction follows two errors on its side.
LEMMA SyncTimelinesStep ==
    ASSUME SyncConditions, SyncInv, NEW offset \in Offsets, SyncTimelines(offset)
    PROVE  /\ SyncInv'
           /\ speed' # speed /\ speed' # "normal" => streak' >= 2 /\ errors' >= ErrorsThreshold
<1> USE SyncConstants
<1>0. /\ errors \in 0 .. ErrorsThreshold /\ streak \in 0 .. ErrorsThreshold /\ speed \in Speeds
      /\ linkUp \in BOOLEAN /\ (errors > 0 => streak > 0) /\ errorAhead \in BOOLEAN
  BY DEF SyncInv, SyncTypeOK, ErrorsAgree
<1>1. /\ UNCHANGED <<linkUp, session, pingVars, taken, ownSamples>>
      /\ remoteSeen' = FALSE /\ isSynced' = TRUE /\ samples >= HandshakePings
  BY DEF SyncTimelines, Sync
<1>2. offset.ahead \in BOOLEAN /\ offset.size \in 0 .. 2
  BY DEF Offsets
<1>3. CASE isSynced /\ AdjustSpeed(offset) /\ CountError(offset)
  <2>1. /\ errorAhead' = offset.ahead
        /\ errors' = IF offset.size = 1 THEN OneMore(errors) ELSE 0
        /\ streak' = IF offset.size # 1 THEN 0
                     ELSE IF offset.ahead = errorAhead THEN OneMore(streak) ELSE 1
    BY <1>3 DEF CountError
  <2>2. {errors', streak'} \subseteq 0 .. ErrorsThreshold /\ (errors' > 0 => streak' > 0)
    BY <2>1, <1>0, OneMoreRange
  <2>3. speed' \in Speeds
    BY <1>3, <1>0 DEF AdjustSpeed, Speeds
  <2>4. ASSUME speed' # speed, speed' # "normal"
        PROVE  streak' >= 2 /\ errors' >= ErrorsThreshold
    <3>1. Decision(offset) = "adjust"
      BY <1>3, <2>4 DEF AdjustSpeed
    <3>2. offset.size = 1 /\ offset.ahead = errorAhead /\ OneMore(errors) >= ErrorsThreshold
      BY <3>1 DEF Decision
    <3>3. errors > 0
      BY <3>2, <1>0 DEF OneMore, SyncConditions
    <3> QED BY <2>1, <3>2, <3>3, <1>0, OneMoreRange DEF SyncConditions
  <2>5. ErrorsAgree'
    BY <2>1, <2>2, <1>2 DEF ErrorsAgree
  <2> QED BY <1>0, <1>1, <2>2, <2>3, <2>4, <2>5, PingsUntouched
<1>4. CASE ~ isSynced /\ UNCHANGED <<errors, errorAhead, speed, streak>>
  <2>1. {errors', streak'} \subseteq 0 .. ErrorsThreshold /\ speed' \in Speeds /\ speed' = speed
    BY <1>0, <1>4
  <2>2. ErrorsAgree'
    BY <1>4 DEF SyncInv, ErrorsAgree
  <2> QED BY <1>0, <1>1, <2>1, <2>2, PingsUntouched
<1> QED BY <1>3, <1>4 DEF SyncTimelines, Sync

LEMMA DisconnectStep ==
    ASSUME SyncInv, Disconnect \/ RemotePacket
    PROVE  SyncInv' /\ UNCHANGED <<taken, speed>>
<1>1. /\ UNCHANGED <<session, pingVars, errors, errorAhead, speed, streak, taken, ownSamples>>
      /\ linkUp' \in BOOLEAN /\ isSynced' \in {FALSE, isSynced} /\ remoteSeen' \in {TRUE, remoteSeen}
  BY DEF SyncInv, SyncTypeOK, Disconnect, RemotePacket
<1>2. ErrorsAgree'
  BY <1>1 DEF SyncInv, ErrorsAgree
<1>3. isSynced' \in BOOLEAN /\ remoteSeen' \in BOOLEAN
  BY <1>1, Zenon DEF SyncInv, SyncTypeOK
<1>4. speed' \in Speeds /\ {errors', streak'} \subseteq 0 .. ErrorsThreshold
  BY <1>1, Zenon DEF SyncInv, SyncTypeOK
<1>5. isSynced' => samples >= HandshakePings
  BY <1>1, Zenon DEF SyncInv, OwnSamples
<1> QED BY <1>1, <1>2, <1>3, <1>4, <1>5, PingsUntouched

\* One step: the invariant, and the two things a step may never do.
LEMMA SyncStep ==
    ASSUME SyncConditions, SyncInv, [SyncNext]_syncVars
    PROVE  /\ SyncInv'
           /\ taken # NoPing /\ taken' # NoPing /\ session' = session => taken'[1][2] >= taken[1][2]
           /\ speed' # speed /\ speed' # "normal" => streak' >= 2 /\ errors' >= ErrorsThreshold
<1>0. taken # NoPing => taken[1][2] >= taken[1][2]
  <2> SUFFICES ASSUME taken # NoPing PROVE taken[1][2] >= taken[1][2]
    OBVIOUS
  <2>1. PICK k \in 0 .. pingsSent - 1 : taken = <<<<session, k>>, <<session, k>>>>
    BY DEF SyncInv, TakenExact
  <2>2. k \in Int
    BY SyncNumbers DEF SyncInv
  <2> QED BY <2>1, <2>2
<1>1. CASE SendPing
  BY <1>0, <1>1, SendPingStep DEF SendPing, clockVars
<1>2. CASE SendPongs \/ LosePing \/ (\E ping \in pings : ReceivePing(ping))
  BY <1>0, <1>2, NetworkStep DEF clockVars
<1>3. CASE Connect
  BY <1>3, ConnectStep DEF Connect, SyncReset
<1>4. CASE Disconnect \/ RemotePacket
  BY <1>0, <1>4, DisconnectStep
<1>5. ASSUME NEW ping \in pongs, ReceivePong(ping)
      PROVE  /\ SyncInv' /\ speed' = speed
             /\ taken # NoPing /\ taken' # NoPing => taken'[1][2] >= taken[1][2]
  BY <1>5, ReceivePongStep DEF ReceivePong, clockVars
<1>6. ASSUME NEW offset \in Offsets, SyncTimelines(offset)
      PROVE  /\ SyncInv' /\ taken' = taken
             /\ speed' # speed /\ speed' # "normal" => streak' >= 2 /\ errors' >= ErrorsThreshold
  BY <1>6, SyncTimelinesStep DEF SyncTimelines
<1>7. CASE UNCHANGED syncVars
  <2>1. SyncInv'
    <3>1. linkUp' = linkUp /\ UNCHANGED pingVars /\ UNCHANGED clockVars
          /\ session' = session /\ taken' = taken /\ ownSamples' = ownSamples
      BY <1>7 DEF syncVars
    <3>2. ErrorsAgree' /\ {errors', streak'} \subseteq 0 .. ErrorsThreshold
      BY <3>1 DEF SyncInv, SyncTypeOK, ErrorsAgree, clockVars
    <3>3. linkUp' \in BOOLEAN /\ isSynced' \in BOOLEAN /\ remoteSeen' \in BOOLEAN /\ speed' \in Speeds
      BY <3>1 DEF SyncInv, SyncTypeOK, clockVars
    <3>4. isSynced' => samples >= HandshakePings
      BY <3>1 DEF SyncInv, OwnSamples, clockVars
    <3> QED BY <3>1, <3>2, <3>3, <3>4, PingsUntouched
  <2>2. taken' = taken /\ speed' = speed
    BY <1>7 DEF syncVars, clockVars
  <2> QED BY <2>1, <2>2, <1>0
<1> QED BY <1>0, <1>1, <1>2, <1>3, <1>4, <1>5, <1>6, <1>7 DEF SyncNext

LEMMA SyncInvImplies == ASSUME SyncInv PROVE SamplesAreTrue
<1>1. SampleIsTrue
  BY DEF SyncInv, TakenExact, SampleIsTrue
<1>2. SyncedOnOwnSamples
  BY DEF SyncInv, OwnSamples, SyncedOnOwnSamples
<1> QED BY <1>1, <1>2 DEF SamplesAreTrue, SyncInv

\* Every round trip time is measured with the ping that the pong answers, and
\* the timeline counts as synchronised only on samples of its own session, for
\* any number of identifiers, slots and pings (process_pong, PingStore).
THEOREM SamplesAreTrueAlways ==
    ASSUME SyncConditions
    PROVE  SyncSpec => []SamplesAreTrue
<1>1. SyncInit => SyncInv
  BY SyncInvInit
<1>2. SyncInv /\ [SyncNext]_syncVars => SyncInv'
  BY SyncStep
<1>3. SyncInv => SamplesAreTrue
  BY SyncInvImplies
<1> QED BY <1>1, <1>2, <1>3, PTL DEF SyncSpec

\* Samples are taken of ever newer pings, although their identifiers wrap, and
\* the clock is paced only on errors that agree (process_pong,
\* SyncContext::speed_adjustment).
THEOREM ClockStepsAlways ==
    ASSUME SyncConditions
    PROVE  SyncSpec => ClockSteps
<1>1. SyncInit => SyncInv
  BY SyncInvInit
<1>2. SyncInv /\ [SyncNext]_syncVars => SyncInv'
  BY SyncStep
<1>3. SyncInv /\ [SyncNext]_syncVars =>
        [taken # NoPing /\ taken' # NoPing /\ session' = session
            => taken'[1][2] >= taken[1][2]]_syncVars
  BY SyncStep
<1>4. SyncInv /\ [SyncNext]_syncVars =>
        [speed' # speed /\ speed' # "normal" => streak' >= 2 /\ errors' >= ErrorsThreshold]_syncVars
  BY SyncStep
<1> QED BY <1>1, <1>2, <1>3, <1>4, PTL DEF SyncSpec, ClockSteps, SamplesAdvance, PacedOnAgreement

-----------------------------------------------------------------------------
(* PacketPacking: the flush, for any number of candidates of any sizes,    *)
(* priorities and channels, any MTU and any bandwidth.                     *)

\* A bounded set of integers has a largest and a smallest element.
LEMMA LargestOf ==
    ASSUME NEW lo \in Int, NEW hi \in Int, NEW S, S \subseteq lo .. hi, S # {}
    PROVE  Max(S) \in S /\ \A x \in S : x <= Max(S)
<1> DEFINE T == {hi - x : x \in S}
<1>0. \A x \in S : x \in Int /\ hi - x \in Nat
  OBVIOUS
<1>1. T \subseteq Nat /\ T # {}
  BY <1>0
<1>2. PICK t \in T : \A y \in T : t <= y
  <2> HIDE DEF T
  <2> QED  BY <1>1, LeastOf
<1>3. PICK m \in S : t = hi - m
  OBVIOUS
<1>4. \A y \in S : m >= y
  <2> TAKE y \in S
  <2>1. hi - m <= hi - y
    BY <1>2, <1>3
  <2>2. m \in Int /\ y \in Int
    BY <1>0
  <2> HIDE DEF T
  <2> QED  BY <2>1, <2>2
<1>5. \E x \in S : \A y \in S : x >= y
  BY <1>3, <1>4
<1>6. Max(S) \in S /\ \A y \in S : Max(S) >= y
  BY <1>5 DEF Max
<1>7. Max(S) \in Int
  BY <1>0, <1>6
<1> HIDE DEF T
<1> QED  BY <1>0, <1>6, <1>7

LEMMA SmallestOf ==
    ASSUME NEW lo \in Int, NEW hi \in Int, NEW S, S \subseteq lo .. hi, S # {}
    PROVE  Min(S) \in S /\ \A x \in S : Min(S) <= x
<1> DEFINE T == {x - lo : x \in S}
<1>0. \A x \in S : x \in Int /\ x - lo \in Nat
  OBVIOUS
<1>1. T \subseteq Nat /\ T # {}
  BY <1>0
<1>2. PICK t \in T : \A y \in T : t <= y
  <2> HIDE DEF T
  <2> QED  BY <1>1, LeastOf
<1>3. PICK m \in S : t = m - lo
  OBVIOUS
<1>4. \A y \in S : m <= y
  <2> TAKE y \in S
  <2>1. m - lo <= y - lo
    BY <1>2, <1>3
  <2>2. m \in Int /\ y \in Int
    BY <1>0
  <2> HIDE DEF T
  <2> QED  BY <2>1, <2>2
<1>5. \E x \in S : \A y \in S : x <= y
  BY <1>3, <1>4
<1> QED  BY <1>5 DEF Min

-----------------------------------------------------------------------------
(* The candidates.                                                         *)

Number == Len(candidates)

\* What is offered, most urgent first.
Offered ==
    /\ candidates \in Seq(Candidate)
    /\ \A i, j \in DOMAIN candidates : i < j => candidates[i].prio >= candidates[j].prio

LEMMA CandidateFields ==
    ASSUME candidates \in Seq(Candidate), NEW i \in DOMAIN candidates
    PROVE  /\ i \in 1 .. Number /\ Number \in Nat
           /\ candidates[i].size \in Nat /\ candidates[i].gain \in Nat /\ candidates[i].prio \in Nat
           /\ candidates[i].frag \in BOOLEAN /\ candidates[i].last \in BOOLEAN
<1>1. candidates[i] \in Candidate /\ Number \in Nat /\ i \in 1 .. Number
  BY DEF Number
<1> QED  BY <1>1, PackingAssumption

LEMMA OfferedInit == PackingInit => Offered
<1> SUFFICES ASSUME PackingInit PROVE Offered
  OBVIOUS
<1>1. PICK n \in 0 .. MaxCandidates : candidates \in [1 .. n -> Candidate]
  BY DEF PackingInit
<1>2. n \in Nat /\ candidates \in Seq(Candidate) /\ DOMAIN candidates = 1 .. n /\ Len(candidates) = n
  BY <1>1
<1>3. \A i \in 1 .. n - 1 : InOrder(candidates[i], candidates[i + 1])
  BY <1>2 DEF PackingInit
<1>4. \A i \in 1 .. n : candidates[i].prio \in Nat
  BY <1>2, CandidateFields
<1>5. \A i \in 1 .. n - 1 : candidates[i].prio >= candidates[i + 1].prio
  <2> TAKE i \in 1 .. n - 1
  <2>1. InOrder(candidates[i], candidates[i + 1])
    BY <1>3
  <2>2. i \in 1 .. n /\ i + 1 \in 1 .. n
    BY <1>2
  <2>3. candidates[i].prio \in Nat /\ candidates[i + 1].prio \in Nat
    BY <2>2, <1>4
  <2> QED  BY <2>1, <2>3 DEF InOrder
<1>6. ASSUME NEW i \in 1 .. n, NEW j \in 1 .. n, i < j PROVE candidates[i].prio >= candidates[j].prio
  <2> DEFINE Bad == {k \in i .. n : ~ (candidates[i].prio >= candidates[k].prio)}
  <2>1. SUFFICES ASSUME Bad # {} PROVE FALSE
    <3>1. j \in i .. n /\ j \notin Bad
      BY <2>1, <1>6
    <3> QED  BY <3>1
  <2>2. Bad \subseteq Nat
    BY <1>2
  <2>3. PICK k \in Bad : \A y \in Bad : k <= y
    <3> HIDE DEF Bad
    <3> QED  BY <2>1, <2>2, LeastOf
  <2>4. k \in i .. n /\ ~ (candidates[i].prio >= candidates[k].prio)
    OBVIOUS
  <2>5. k # i
    <3>1. candidates[i].prio \in Nat
      BY <1>4
    <3> QED  BY <3>1, <2>4
  <2>6. k - 1 \in i .. n /\ k - 1 \in 1 .. n - 1 /\ k \in 1 .. n /\ ~ (k <= k - 1)
    BY <2>4, <2>5, <1>2
  <2>7. k - 1 \notin Bad
    <3> HIDE DEF Bad
    <3> QED  BY <2>3, <2>6
  <2>8. candidates[i].prio >= candidates[k - 1].prio
    BY <2>6, <2>7
  <2>9. candidates[k - 1].prio >= candidates[k].prio
    <3>1. candidates[k - 1].prio >= candidates[(k - 1) + 1].prio
      BY <2>6, <1>5
    <3>2. (k - 1) + 1 = k
      BY <2>6
    <3> QED  BY <3>1, <3>2
  <2>10. candidates[i].prio \in Nat /\ candidates[k].prio \in Nat /\ candidates[k - 1].prio \in Nat
    <3>1. k - 1 \in 1 .. n
      BY <2>6, <1>2
    <3> QED  BY <1>4, <2>6, <3>1
  <2> HIDE DEF Bad
  <2> QED  BY <2>4, <2>8, <2>9, <2>10
<1> QED  BY <1>2, <1>6 DEF Offered

-----------------------------------------------------------------------------
(* Batches.                                                                *)

LEMMA SmallRemainder == ASSUME NEW m \in Nat, NEW x \in 0 .. m PROVE x % (m + 1) = x
OBVIOUS

\* The count byte of the batch that single j is in goes up by one, or starts again.
Counts(from, j) ==
    IF candidates[j].chan = candidates[j - 1].chan /\ CountAt(from, j - 1) < MaxBatch
    THEN CountAt(from, j) = CountAt(from, j - 1) + 1
    ELSE CountAt(from, j) = 1

LEMMA CountIs ==
    ASSUME Number \in Nat, NEW from \in 1 .. Number
    PROVE  /\ CountAt(from, from) = 1
           /\ \A j \in from + 1 .. Number : Counts(from, j)
           /\ \A j \in from .. Number : CountAt(from, j) \in 1 .. MaxBatch
<1> DEFINE n == Number - from
           S == 1 .. MaxBatch
           After(h) == [j \in from .. Number |->
                          IF /\ j > from
                             /\ candidates[j].chan = candidates[j - 1].chan
                             /\ h[j - 1] < MaxBatch
                          THEN h[j - 1] + 1 ELSE 1]
           step == [k \in 1 .. n |-> [c \in S |->
                      IF candidates[from + k].chan = candidates[(from + k) - 1].chan /\ c < MaxBatch
                      THEN c + 1 ELSE 1]]
           count == CHOOSE h : h = After(h)
<1>1. n \in Nat /\ 1 \in S /\ step \in [1 .. n -> [S -> S]]
  BY PackingAssumption
<1>2. PICK f \in [0 .. n -> S] : f[0] = 1 /\ \A k \in 1 .. n : f[k] = step[k][f[k - 1]]
  <2>1. PICK one : one = 1
    OBVIOUS
  <2>2. one \in S
    BY <1>1, <2>1
  <2>3. \E f \in [0 .. n -> S] : f[0] = one /\ \A k \in 1 .. n : f[k] = step[k][f[k - 1]]
    <3>1. PICK T : T = S
      OBVIOUS
    <3>2. PICK m : m = n
      OBVIOUS
    <3>3. PICK turn : turn = step
      OBVIOUS
    <3>4. m \in Nat /\ one \in T /\ turn \in [1 .. m -> [T -> T]]
      <4> HIDE DEF step, n, S
      <4> QED  BY <1>1, <2>2, <3>1, <3>2, <3>3
    <3>5. \E f \in [0 .. m -> T] : f[0] = one /\ \A k \in 1 .. m : f[k] = turn[k][f[k - 1]]
      BY ONLY <3>4, RunExists
    <3> HIDE DEF step, n, S
    <3> QED  BY <3>1, <3>2, <3>3, <3>5
  <2> QED  BY <2>1, <2>3
<1> DEFINE h == [j \in from .. Number |-> f[j - from]]
<1>3. h = After(h)
  <2>1. ASSUME NEW j \in from .. Number PROVE h[j] = After(h)[j]
    <3>1. CASE j = from
      BY <3>1, <1>2
    <3>2. CASE j # from
      <4>1. j - from \in 1 .. n /\ (j - from) - 1 \in 0 .. n /\ from + (j - from) = j /\ j > from
            /\ j - 1 \in from .. Number /\ (j - 1) - from = (j - from) - 1
        BY <3>2
      <4>2. PICK k : k = j - from
        OBVIOUS
      <4>3. f[k] = step[k][f[k - 1]] /\ f[k - 1] \in S
        BY <4>1, <4>2, <1>2
      <4>4. h[j] = f[k] /\ h[j - 1] = f[k - 1]
        BY <4>1, <4>2
      <4>5. step[k][f[k - 1]] = IF candidates[j].chan = candidates[j - 1].chan /\ f[k - 1] < MaxBatch
                                THEN f[k - 1] + 1 ELSE 1
        BY <4>1, <4>2, <4>3
      <4> HIDE DEF step, h, n
      <4> QED  BY <4>1, <4>3, <4>4, <4>5
    <3> QED  BY <3>1, <3>2
  <2>2. h = [j \in from .. Number |-> h[j]] /\ After(h) = [j \in from .. Number |-> After(h)[j]]
    OBVIOUS
  <2> HIDE DEF h, After
  <2> QED  BY <2>1, <2>2
<1>4. count = After(count)
  <2> HIDE DEF After
  <2> QED  BY <1>3
<1>5. \A j : CountAt(from, j) = count[j]
  BY DEF CountAt, Number
<1>6. count[from] = 1
  <2> HIDE DEF count
  <2> QED  BY <1>4
<1>7. \A j \in from + 1 .. Number :
         count[j] = IF candidates[j].chan = candidates[j - 1].chan /\ count[j - 1] < MaxBatch
                    THEN count[j - 1] + 1 ELSE 1
  <2> HIDE DEF count
  <2> QED  BY <1>4
<1>8. ASSUME NEW j \in from .. Number PROVE count[j] \in S
  <2> HIDE DEF count
  <2> DEFINE Bad == {k \in from .. Number : count[k] \notin S}
  <2>1. SUFFICES ASSUME Bad # {} PROVE FALSE
    OBVIOUS
  <2>2. PICK k \in Bad : \A y \in Bad : k <= y
    <3>1. Bad \subseteq Nat
      OBVIOUS
    <3> HIDE DEF Bad
    <3> QED  BY <2>1, <3>1, LeastOf
  <2>3. k \in from .. Number /\ count[k] \notin S
    OBVIOUS
  <2>4. k # from
    BY <2>3, <1>6, <1>1
  <2>5. k \in from + 1 .. Number /\ k - 1 \in from .. Number /\ ~ (k <= k - 1)
    BY <2>3, <2>4
  <2>6. count[k - 1] \in S
    <3>1. k - 1 \notin Bad
      <4> HIDE DEF Bad
      <4> QED  BY <2>2, <2>5
    <3> QED  BY <3>1, <2>5
  <2> HIDE DEF Bad
  <2>7. (count[k] = count[k - 1] + 1 /\ count[k - 1] < MaxBatch) \/ count[k] = 1
    BY <1>7, <2>5
  <2>8. MaxBatch \in Nat /\ MaxBatch > 0
    BY PackingAssumption
  <2> QED  BY <2>3, <2>6, <2>7, <2>8
<1> HIDE DEF count, n, S, After, step
<1>9. \A j \in from + 1 .. Number : Counts(from, j)
  BY <1>5, <1>7 DEF Counts
<1>10. CountAt(from, from) = 1 /\ \A j \in from .. Number : CountAt(from, j) \in 1 .. MaxBatch
  BY <1>5, <1>6, <1>8 DEF S
<1> QED  BY <1>9, <1>10

\* The singles that belong to the batch opened at b.
InBatch(from, to, b) ==
    {k \in b .. to : \A c \in BatchStarts(from, to) : ~(c > b /\ c <= k)}

\* The batch ends where the next one is opened, and holds singles of one channel.
EndsAt(from, to, b, e) ==
    /\ e \in b .. to
    /\ e + 1 \in BatchStarts(from, to) \cup {to + 1}
    /\ \A i \in b .. e : candidates[i].chan = candidates[b].chan
    /\ Max({CountAt(from, j) : j \in InBatch(from, to, b)}) = e - b + 1
    /\ e - b + 1 \in 1 .. MaxBatch

LEMMA BatchEnds ==
    ASSUME Number \in Nat, NEW from \in 1 .. Number, NEW to \in from .. Number,
           NEW b \in BatchStarts(from, to)
    PROVE  \E e \in b .. to : EndsAt(from, to, b, e)
<1> DEFINE K == InBatch(from, to, b)
<1>1. b \in from .. to /\ CountAt(from, b) = 1 /\ to \in Nat /\ b \in Nat /\ from \in Nat
  BY DEF BatchStarts
<1>2. b \in K /\ K \subseteq b .. to
  BY <1>1 DEF InBatch
<1>3. ASSUME NEW k \in K PROVE CountAt(from, k) = k - b + 1 /\ candidates[k].chan = candidates[b].chan
  <2> DEFINE Bad == {i \in K : ~ (CountAt(from, i) = i - b + 1 /\ candidates[i].chan = candidates[b].chan)}
  <2>1. SUFFICES ASSUME Bad # {} PROVE FALSE
    OBVIOUS
  <2>2. PICK i \in Bad : \A y \in Bad : i <= y
    <3>1. Bad \subseteq Nat
      BY <1>1, <1>2
    <3> HIDE DEF Bad
    <3> QED  BY <2>1, <3>1, LeastOf
  <2>3. i \in K /\ ~ (CountAt(from, i) = i - b + 1 /\ candidates[i].chan = candidates[b].chan)
    OBVIOUS
  <2>4. i \in b .. to /\ i # b
    BY <1>1, <1>2, <2>3
  <2>5. /\ i - 1 \in b .. to /\ i \in from + 1 .. Number /\ i - 1 \in from .. Number /\ i \in from .. to
        /\ ~ (i <= i - 1)
    BY <1>1, <2>4
  <2>6. i - 1 \in K
    BY <2>3, <2>5, <1>1 DEF InBatch, BatchStarts
  <2>7. CountAt(from, i - 1) = (i - 1) - b + 1 /\ candidates[i - 1].chan = candidates[b].chan
    <3>1. i - 1 \notin Bad
      <4> HIDE DEF Bad, K
      <4> QED  BY <2>2, <2>5
    <3> QED  BY <3>1, <2>6
  <2>8. CountAt(from, i) # 1
    <3>1. i \notin BatchStarts(from, to)
      BY <2>3, <2>4, <1>1 DEF InBatch
    <3> QED  BY <3>1, <2>5 DEF BatchStarts
  <2>9. Counts(from, i)
    BY <2>5, CountIs
  <2> HIDE DEF Bad, K
  <2>10. candidates[i].chan = candidates[i - 1].chan /\ CountAt(from, i) = CountAt(from, i - 1) + 1
    BY <2>8, <2>9 DEF Counts
  <2>11. i \in Nat
    BY <2>4, <1>1
  <2> QED  BY <2>3, <2>7, <2>10, <2>11, <1>1
<1>4. PICK e : e \in K /\ \A k \in K : k <= e
  <2>1. K \subseteq b .. to /\ K # {} /\ b \in Int /\ to \in Int
    BY <1>1, <1>2
  <2> HIDE DEF K
  <2> QED  BY ONLY <2>1, LargestOf
<1>5. e \in b .. to
  BY <1>2, <1>4
<1>6. e + 1 \in BatchStarts(from, to) \cup {to + 1}
  <2>1. CASE e = to
    BY <2>1
  <2>2. CASE e # to
    <3>1. e + 1 \in b .. to /\ ~ (e + 1 <= e)
      BY <2>2, <1>5, <1>1
    <3>2. e + 1 \notin K
      <4> HIDE DEF K
      <4> QED  BY <3>1, <1>4
    <3>3. PICK c \in BatchStarts(from, to) : c > b /\ c <= e + 1
      BY <3>1, <3>2 DEF InBatch
    <3>4. ~ (c > b /\ c <= e)
      BY <1>4 DEF InBatch
    <3>5. c \in Int
      BY <1>1 DEF BatchStarts
    <3>6. c = e + 1
      BY <3>3, <3>4, <3>5, <1>5, <1>1
    <3> QED  BY <3>3, <3>6
  <2> QED  BY <2>1, <2>2
<1>7. ASSUME NEW i \in b .. e PROVE candidates[i].chan = candidates[b].chan
  <2>1. e \in K
    BY <1>4
  <2>2. i \in K
    BY <1>5, <1>1, <2>1 DEF InBatch, BatchStarts
  <2> QED  BY <2>2, <1>3
<1>8. Max({CountAt(from, j) : j \in K}) = e - b + 1
  <2> DEFINE C == {CountAt(from, j) : j \in K}
  <2>1. C = {j - b + 1 : j \in K}
    <3> HIDE DEF K
    <3> QED  BY <1>3
  <2>2. C \subseteq 0 .. to /\ C # {}
    <3>1. ASSUME NEW j \in K PROVE j - b + 1 \in 0 .. to
      <4>1. j \in b .. to /\ b \in 1 .. to
        BY <1>2, <1>1
      <4> QED  BY <4>1, <1>1
    <3> HIDE DEF K, C
    <3>2. \E j : j \in K
      BY <1>2
    <3> QED  BY <2>1, <3>1, <3>2
  <2>3. PICK m : m = Max(C)
    OBVIOUS
  <2>4. m \in C /\ \A x \in C : x <= m
    <3> HIDE DEF C
    <3>1. 0 \in Int /\ to \in Int
      BY <1>1
    <3> QED  BY <2>2, <2>3, <3>1, LargestOf
  <2>5. PICK j \in K : m = j - b + 1
    <3> HIDE DEF K, C
    <3> QED  BY <2>1, <2>4
  <2>6. e - b + 1 <= m
    <3> HIDE DEF K, C
    <3> QED  BY <2>1, <2>4, <1>4
  <2>7. j <= e /\ j \in b .. to
    <3> HIDE DEF K
    <3> QED  BY <1>4, <1>2
  <2>8. m = e - b + 1
    <3> HIDE DEF K, C
    <3> QED  BY <2>5, <2>6, <2>7, <1>5, <1>1
  <2> QED  BY <2>3, <2>8
<1>9. e - b + 1 \in 1 .. MaxBatch
  <2>1. e \in from .. Number
    BY <1>1, <1>5
  <2>2. CountAt(from, e) \in 1 .. MaxBatch
    BY <2>1, CountIs
  <2>3. CountAt(from, e) = e - b + 1
    <3> HIDE DEF K
    <3> QED  BY <1>3, <1>4
  <2> QED  BY <2>2, <2>3
<1>10. EndsAt(from, to, b, e)
  BY <1>5, <1>6, <1>7, <1>8, <1>9 DEF EndsAt
<1> QED  BY <1>5, <1>10

\* The receiver reads a packet batch by batch, each single on its channel.
Reads(p) ==
    \A b \in DOMAIN p.batches :
       \E e \in b .. p.to :
          /\ b \in Int
          /\ p.batches[b].count % (MaxBatch + 1) = e - b + 1
          /\ e + 1 \in DOMAIN p.batches \cup {p.to + 1}
          /\ \A i \in b .. e : candidates[i].chan = p.batches[b].chan

LEMMA PacketReads ==
    ASSUME Number \in Nat, NEW from \in 1 .. Number + 1, NEW to \in from - 1 .. Number,
           NEW frag, NEW base, NEW compress
    PROVE  Reads(Packet(frag, from, to, base, compress))
<1> DEFINE p == Packet(frag, from, to, base, compress)
<1>1. p.to = to /\ DOMAIN p.batches = BatchStarts(from, to)
  BY DEF Packet
<1>2. ASSUME NEW b \in BatchStarts(from, to)
      PROVE  p.batches[b].chan = candidates[b].chan
             /\ p.batches[b].count = Max({CountAt(from, j) : j \in InBatch(from, to, b)})
  BY DEF Packet, InBatch
<1>3. ASSUME NEW b \in BatchStarts(from, to)
      PROVE \E e \in b .. to :
               /\ b \in Int
               /\ p.batches[b].count % (MaxBatch + 1) = e - b + 1
               /\ e + 1 \in BatchStarts(from, to) \cup {to + 1}
               /\ \A i \in b .. e : candidates[i].chan = p.batches[b].chan
  <2>1. b \in from .. to
    BY DEF BatchStarts
  <2>2. from \in 1 .. Number /\ to \in from .. Number
    BY <2>1
  <2>3. PICK e \in b .. to : EndsAt(from, to, b, e)
    BY <2>2, BatchEnds
  <2>4. p.batches[b].count = e - b + 1 /\ e - b + 1 \in 1 .. MaxBatch
    <3> HIDE DEF p
    <3> QED  BY <1>2, <2>3 DEF EndsAt
  <2>5. (e - b + 1) % (MaxBatch + 1) = e - b + 1
    <3>1. MaxBatch \in Nat /\ e - b + 1 \in 0 .. MaxBatch
      BY <2>4, PackingAssumption
    <3> QED  BY <3>1, SmallRemainder
  <2>6. p.batches[b].count % (MaxBatch + 1) = e - b + 1
    BY ONLY <2>4, <2>5
  <2>7. b \in Int /\ p.batches[b].chan = candidates[b].chan
    <3>1. b \in Int
      BY <2>1
    <3>2. p.batches[b].chan = candidates[b].chan
      BY <1>2
    <3> QED  BY ONLY <3>1, <3>2
  <2>8. /\ e + 1 \in BatchStarts(from, to) \cup {to + 1}
        /\ \A i \in b .. e : candidates[i].chan = candidates[b].chan
    BY <2>3 DEF EndsAt
  <2> HIDE DEF p
  <2> QED  BY <2>6, <2>7, <2>8, Zenon
<1> HIDE DEF p
<1>4. Reads(p)
  BY <1>1, <1>3 DEF Reads
<1> QED  BY <1>4 DEF p

-----------------------------------------------------------------------------
(* What a packet takes.                                                    *)

LEMMA TakenIs ==
    ASSUME Number \in Nat, NEW from \in 1 .. Number + 1, NEW base, NEW compress, NEW eligible
    PROVE  /\ LastTaken(base, from, compress, eligible) \in from - 1 .. Number
           /\ \A i \in from .. LastTaken(base, from, compress, eligible) :
                 i \in eligible /\ Fits(base, from, i, compress)
<1> DEFINE S == {from - 1} \cup
                {to \in from .. Number : \A i \in from .. to : i \in eligible /\ Fits(base, from, i, compress)}
           to == Max(S)
<1>1. S \subseteq from - 1 .. Number /\ S # {}
  OBVIOUS
<1>2. to \in S
  <2>1. PICK lo, hi : lo = from - 1 /\ hi = Number
    OBVIOUS
  <2>2. lo \in Int /\ hi \in Int /\ S \subseteq lo .. hi
    BY <1>1, <2>1
  <2> HIDE DEF S
  <2> QED  BY ONLY <1>1, <2>2, LargestOf
<1>3. to \in from - 1 .. Number
  <2> HIDE DEF S
  <2> QED  BY <1>1, <1>2
<1>4. ASSUME NEW i \in from .. to PROVE i \in eligible /\ Fits(base, from, i, compress)
  <2>1. to # from - 1
    <3> HIDE DEF to
    <3> QED  BY <1>3, <1>4
  <2> HIDE DEF to
  <2> QED  BY <1>2, <2>1, <1>4
<1>5. LastTaken(base, from, compress, eligible) = to
  BY DEF LastTaken, Number
<1> HIDE DEF to
<1> QED  BY <1>3, <1>4, <1>5

\* Nothing takes no bytes.
LEMMA NothingTaken ==
    ASSUME NEW from \in Nat
    PROVE  SinglesSize(from, from - 1) = 0
<1> DEFINE f(i) == candidates[i].size
           choose(s) == CHOOSE x \in s : TRUE
           After(h) == [s \in SUBSET {} |-> IF s = {} THEN 0 ELSE f(choose(s)) + h[s \ {choose(s)}]]
           iter == CHOOSE h : h = After(h)
<1>1. from .. from - 1 = {}
  OBVIOUS
<1>2. MapThenSumSet(f, {}) = 0
  <2> DEFINE g == [s \in SUBSET {} |-> 0]
  <2>1. g = After(g)
    OBVIOUS
  <2>2. iter = After(iter)
    <3> HIDE DEF After
    <3> QED  BY <2>1
  <2>3. iter[{}] = 0
    <3> HIDE DEF iter
    <3> QED  BY <2>2
  <2>4. MapThenSumSet(f, {}) = iter[{}]
    BY DEF MapThenSumSet, MapThenFoldSet
  <2> QED  BY <2>3, <2>4
<1>3. BatchStarts(from, from - 1) = {}
  BY <1>1 DEF BatchStarts
<1>4. Cardinality(BatchStarts(from, from - 1)) = 0
  BY <1>3, FS_EmptySet
<1>5. SinglesSize(from, from - 1) = 0 + BatchBytes * 0
  <2> HIDE DEF iter
  <2> QED  BY <1>1, <1>2, <1>4 DEF SinglesSize
<1> QED  BY <1>5, PackingAssumption DEF BatchBytes

LEMMA BytesFit ==
    ASSUME NEW base, NEW from, NEW to, NEW compress \in BOOLEAN, Fits(base, from, to, compress)
    PROVE  Bytes(base, from, to, compress) <= Mtu
BY DEF Fits, Bytes, Compresses

-----------------------------------------------------------------------------
(* The cursors.                                                            *)

\* The candidates that the cursors have passed.
Passed(ix, sx) == {i \in DOMAIN candidates : i < ix \/ (~ candidates[i].frag /\ i < sx)}

\* Between the cursors there is one priority.
Cursors(ix, sx) ==
    /\ ix \in 1 .. Number + 1 /\ sx \in 1 .. Number + 1
    /\ \A j \in ix .. sx - 1 : candidates[j].prio = candidates[sx - 1].prio

LEMMA StartIs ==
    ASSUME Number \in Nat, index \in 1 .. Number + 1
    PROVE  /\ Start \in index .. Number + 1
           /\ Start > Number \/ Start >= singleIndex \/ candidates[Start].frag
           /\ \A j \in index .. Start - 1 : j \in 1 .. Number /\ ~ (j >= singleIndex) /\ ~ candidates[j].frag
<1> DEFINE S == {i \in index .. (Number + 1) : i > Number \/ i >= singleIndex \/ candidates[i].frag}
<1>1. S \subseteq index .. Number + 1 /\ S # {} /\ index \in Int /\ Number + 1 \in Int
  OBVIOUS
<1>2. Start = Min(S)
  BY DEF Start, Number
<1>3. Start \in S /\ \A x \in S : Start <= x
  <2> HIDE DEF S
  <2> QED  BY <1>1, <1>2, SmallestOf
<1>4. ASSUME NEW j \in index .. Start - 1 PROVE j \in 1 .. Number /\ ~ (j >= singleIndex) /\ ~ candidates[j].frag
  <2>1. Start \in index .. Number + 1
    BY <1>3
  <2>2. j \in index .. Number + 1 /\ j \in 1 .. Number /\ ~ (Start <= j) /\ ~ (j > Number)
    BY <2>1
  <2>3. j \notin S
    <3> HIDE DEF S
    <3> QED  BY <1>3, <2>2
  <2> QED  BY <2>2, <2>3
<1> QED  BY <1>3, <1>4

\* The next packet takes candidates that no packet has taken.
TakesNew(r) ==
    /\ r.ok => r.packet.bytes <= Mtu
    /\ Reads(r.packet)
    /\ Carried(r.packet) \subseteq DOMAIN candidates \ Passed(index, singleIndex)
    /\ Passed(r.index, r.singleIndex) = Passed(index, singleIndex) \cup Carried(r.packet)
    /\ Cursors(r.index, r.singleIndex)

LEMMA DataTakesNew ==
    ASSUME Offered, Cursors(index, singleIndex), Start <= Number, ~ candidates[Start].frag,
           DataPacket(Start).ok
    PROVE  TakesNew(DataPacket(Start))
<1> DEFINE i == Start
           single == {j \in DOMAIN candidates : ~ candidates[j].frag}
           to == LastTaken(HeaderBytes, i, TRUE, single)
           r == DataPacket(i)
<1>1. Number \in Nat /\ DOMAIN candidates = 1 .. Number /\ index \in 1 .. Number + 1 /\ singleIndex \in 1 .. Number + 1
  BY DEF Offered, Cursors, Number
<1>2. /\ i \in index .. Number /\ i >= singleIndex
      /\ \A j \in index .. i - 1 : j \in 1 .. Number /\ ~ (j >= singleIndex) /\ ~ candidates[j].frag
  BY <1>1, StartIs
<1>3. PICK x : x = i
  OBVIOUS
<1>4. PICK t : t = to
  OBVIOUS
<1>5. x \in 1 .. Number /\ x \in index .. Number /\ x >= singleIndex
      /\ \A j \in index .. x - 1 : j \in 1 .. Number /\ ~ (j >= singleIndex) /\ ~ candidates[j].frag
  <2> HIDE DEF i
  <2> QED  BY <1>1, <1>2, <1>3
<1>6. t \in x - 1 .. Number /\ \A j \in x .. t : j \in single /\ Fits(HeaderBytes, x, j, TRUE)
  <2>1. x \in 1 .. Number + 1
    BY <1>5, <1>1
  <2> HIDE DEF single, i
  <2> QED  BY <1>1, <1>3, <1>4, <2>1, TakenIs
<1>7. r = [packet |-> Packet(0, x, t, HeaderBytes, TRUE), index |-> t + 1,
           singleIndex |-> Max({singleIndex, t + 1}), ok |-> t >= x]
  BY <1>3, <1>4 DEF DataPacket
<1> HIDE DEF r, i, to
<1>8. t >= x
  <2>1. r.ok
    BY DEF r, i
  <2>2. r.ok = (t >= x)
    BY <1>7, Zenon
  <2> QED  BY <2>1, <2>2, Zenon
<1>9. r.singleIndex = t + 1
  <2>1. {singleIndex, t + 1} \subseteq 1 .. Number + 1
    BY <1>1, <1>5, <1>6
  <2>2. Max({singleIndex, t + 1}) \in {singleIndex, t + 1} /\ t + 1 <= Max({singleIndex, t + 1})
    <3>1. 1 \in Int /\ Number + 1 \in Int /\ {singleIndex, t + 1} # {} /\ t + 1 \in {singleIndex, t + 1}
      BY <1>1
    <3> QED  BY <2>1, <3>1, LargestOf
  <2>3. Max({singleIndex, t + 1}) = t + 1
    BY <2>2, <1>1, <1>5, <1>6, <1>8
  <2> QED  BY <2>3, <1>7
<1>10. Carried(r.packet) = x .. t
  BY <1>7 DEF Carried, Packet
<1>11. r.packet.bytes <= Mtu
  <2>1. t \in x .. t
    BY <1>5, <1>6, <1>8
  <2>2. Fits(HeaderBytes, x, t, TRUE)
    BY <2>1, <1>6
  <2>3. Bytes(HeaderBytes, x, t, TRUE) <= Mtu
    BY <2>2, BytesFit
  <2> QED  BY <2>3, <1>7 DEF Packet
<1>12. Reads(r.packet)
  <2>1. x \in 1 .. Number + 1
    BY <1>5, <1>1
  <2>2. Reads(Packet(0, x, t, HeaderBytes, TRUE))
    BY <1>1, <1>6, <2>1, PacketReads
  <2> QED  BY <2>2, <1>7
<1>13. \A j \in x .. t : j \in 1 .. Number /\ ~ candidates[j].frag
  BY <1>6, <1>1
<1>14. x .. t \subseteq DOMAIN candidates \ Passed(index, singleIndex)
  BY <1>1, <1>5, <1>6, <1>13 DEF Passed
<1>15. Passed(t + 1, t + 1) = Passed(index, singleIndex) \cup (x .. t)
  BY <1>1, <1>5, <1>6, <1>13 DEF Passed
<1>16. Cursors(t + 1, t + 1)
  BY <1>1, <1>5, <1>6 DEF Cursors
<1>17. TakesNew(r)
  BY <1>7, <1>9, <1>10, <1>11, <1>12, <1>14, <1>15, <1>16 DEF TakesNew
<1> QED  BY <1>17 DEF r, i

\* Where the singles of a fragment's priority begin: what is skipped are fragments.
First(x, m) ==
    Min({j \in m .. (Number + 1) : \/ j > Number
                                   \/ ~ candidates[j].frag
                                   \/ candidates[j].prio # candidates[x].prio})

LEMMA FirstIs ==
    ASSUME Number \in Nat, NEW x, NEW m \in 1 .. Number + 1
    PROVE  /\ First(x, m) \in m .. Number + 1
           /\ \A j \in m .. First(x, m) - 1 : candidates[j].frag /\ candidates[j].prio = candidates[x].prio
<1> DEFINE S == {j \in m .. (Number + 1) : j > Number \/ ~ candidates[j].frag
                                           \/ candidates[j].prio # candidates[x].prio}
<1>1. S \subseteq m .. Number + 1 /\ S # {} /\ m \in Int /\ Number + 1 \in Int
  OBVIOUS
<1>2. First(x, m) = Min(S)
  BY DEF First
<1>3. First(x, m) \in S /\ \A y \in S : First(x, m) <= y
  <2> HIDE DEF S
  <2> QED  BY <1>1, <1>2, SmallestOf
<1>4. ASSUME NEW j \in m .. First(x, m) - 1 PROVE candidates[j].frag /\ candidates[j].prio = candidates[x].prio
  <2>1. First(x, m) \in m .. Number + 1
    BY <1>3
  <2>2. j \in m .. Number + 1 /\ ~ (First(x, m) <= j) /\ ~ (j > Number)
    BY <2>1
  <2>3. j \notin S
    <3> HIDE DEF S
    <3> QED  BY <1>3, <2>2
  <2> QED  BY <2>2, <2>3
<1> QED  BY <1>3, <1>4

LEMMA FragmentTakesNew ==
    ASSUME Offered, Cursors(index, singleIndex), Start <= Number, candidates[Start].frag,
           FragmentPacket(Start).ok
    PROVE  TakesNew(FragmentPacket(Start))
<1> DEFINE i == Start
           r == FragmentPacket(i)
<1>1. Number \in Nat /\ DOMAIN candidates = 1 .. Number /\ index \in 1 .. Number + 1 /\ singleIndex \in 1 .. Number + 1
  BY DEF Offered, Cursors, Number
<1>2. PICK x : x = i
  OBVIOUS
<1>3. /\ x \in 1 .. Number /\ x \in index .. Number /\ candidates[x].frag
      /\ \A j \in index .. x - 1 : j \in 1 .. Number /\ ~ (j >= singleIndex) /\ ~ candidates[j].frag
  <2>1. /\ i \in index .. Number + 1 /\ i <= Number /\ candidates[i].frag
        /\ \A j \in index .. i - 1 : j \in 1 .. Number /\ ~ (j >= singleIndex) /\ ~ candidates[j].frag
    BY <1>1, StartIs
  <2> HIDE DEF i
  <2> QED  BY <1>1, <1>2, <2>1
<1>4. PICK m : m = Max({singleIndex, x + 1})
  OBVIOUS
<1>5. m \in 1 .. Number + 1 /\ m >= singleIndex /\ m >= x + 1 /\ (m = singleIndex \/ m = x + 1)
  <2>1. {singleIndex, x + 1} \subseteq 1 .. Number + 1 /\ {singleIndex, x + 1} # {}
        /\ 1 \in Int /\ Number + 1 \in Int
    BY <1>1, <1>3
  <2>2. m \in {singleIndex, x + 1} /\ \A y \in {singleIndex, x + 1} : y <= m
    BY <2>1, <1>4, LargestOf
  <2> QED  BY <2>1, <2>2
<1>6. PICK from : from = First(x, m)
  OBVIOUS
<1>7. from \in m .. Number + 1 /\ from \in 1 .. Number + 1
      /\ \A j \in m .. from - 1 : candidates[j].frag /\ candidates[j].prio = candidates[x].prio
  BY <1>1, <1>5, <1>6, FirstIs
<1>8. PICK base : base = HeaderBytes + ChannelBytes + candidates[x].size
  OBVIOUS
<1> DEFINE same == {j \in DOMAIN candidates : ~ candidates[j].frag /\ candidates[j].prio = candidates[x].prio}
<1>9. PICK t : t = IF candidates[x].last THEN LastTaken(base, from, FALSE, same) ELSE from - 1
  OBVIOUS
<1>10. /\ t \in from - 1 .. Number
       /\ \A j \in from .. t : j \in same /\ Fits(base, from, j, FALSE) /\ candidates[x].last
  <2>1. CASE candidates[x].last
    <3> HIDE DEF same
    <3> QED  BY <1>1, <1>7, <1>9, <2>1, TakenIs
  <2>2. CASE ~ candidates[x].last
    <3>1. t = from - 1
      BY <1>9, <2>2
    <3>2. t \in from - 1 .. Number /\ from .. t = {}
      BY <3>1, <1>1, <1>7
    <3> QED  BY <3>2
  <2> QED  BY <2>1, <2>2
<1>11. \A j \in from .. t : /\ j \in 1 .. Number /\ ~ candidates[j].frag
                            /\ candidates[j].prio = candidates[x].prio /\ candidates[x].last
  BY <1>1, <1>10
<1>12. r = [packet |-> Packet(x, from, t, base, FALSE), index |-> x + 1,
            singleIndex |-> IF candidates[x].last THEN t + 1 ELSE singleIndex, ok |-> base <= Mtu]
  BY <1>2, <1>4, <1>6, <1>8, <1>9 DEF FragmentPacket, First, Number
<1> HIDE DEF r, i, same
<1>13. base <= Mtu
  <2>1. r.ok
    BY DEF r, i
  <2>2. r.ok = (base <= Mtu)
    BY <1>12, Zenon
  <2> QED  BY <2>1, <2>2, Zenon
<1>14. Carried(r.packet) = (from .. t) \cup {x}
  <2>1. r.packet = Packet(x, from, t, base, FALSE)
    BY <1>12
  <2>2. r.packet.from = from /\ r.packet.to = t /\ r.packet.frag = x
    BY <2>1 DEF Packet
  <2>3. x # 0
    BY <1>3
  <2> QED  BY <2>2, <2>3 DEF Carried
<1>15. r.packet.bytes <= Mtu
  <2>1. CASE t >= from
    <3>1. t \in from .. t
      BY <1>7, <1>10, <2>1
    <3>2. Fits(base, from, t, FALSE)
      BY <3>1, <1>10
    <3>3. Bytes(base, from, t, FALSE) <= Mtu
      BY <3>2, BytesFit
    <3> QED  BY <3>3, <1>12 DEF Packet
  <2>2. CASE ~ (t >= from)
    <3>1. t = from - 1 /\ from \in Nat
      BY <1>7, <1>10, <2>2
    <3>2. SinglesSize(from, t) = 0
      BY <3>1, NothingTaken
    <3>3. base \in Nat
      <4>1. x \in DOMAIN candidates
        BY <1>1, <1>3
      <4>2. candidates[x].size \in Nat
        BY <4>1, CandidateFields DEF Offered
      <4> QED  BY <4>2, <1>8, PackingAssumption
    <3>4. Bytes(base, from, t, FALSE) = base
      BY <3>2, <3>3 DEF Bytes
    <3> QED  BY <3>4, <1>13, <1>12 DEF Packet
  <2> QED  BY <2>1, <2>2
<1>16. Reads(r.packet)
  <2>1. Reads(Packet(x, from, t, base, FALSE))
    BY <1>1, <1>7, <1>10, PacketReads
  <2> QED  BY <2>1, <1>12
<1>17. (from .. t) \cup {x} \subseteq DOMAIN candidates \ Passed(index, singleIndex)
  BY <1>1, <1>3, <1>5, <1>7, <1>10, <1>11 DEF Passed
<1>18. PICK sx : sx = IF candidates[x].last THEN t + 1 ELSE singleIndex
  OBVIOUS
<1>19. Passed(x + 1, sx) = Passed(index, singleIndex) \cup (from .. t) \cup {x}
  <2>1. ASSUME NEW j \in 1 .. Number
        PROVE  (j < x + 1 \/ (~ candidates[j].frag /\ j < sx))
               <=> (j < index \/ (~ candidates[j].frag /\ j < singleIndex) \/ j \in from .. t \/ j = x)
    <3>1. CASE candidates[x].last
      <4>1. sx = t + 1
        BY <3>1, <1>18
      <4>2. j < index \/ j \in index .. x - 1 \/ j = x \/ j \in x + 1 .. m - 1 \/ j \in m .. from - 1
            \/ j \in from .. t \/ j > t
        BY <1>1, <1>3, <1>5, <1>7, <1>10
      <4>3. CASE j \in index .. x - 1
        BY <4>3, <1>1, <1>3
      <4>4. CASE j \in m .. from - 1
        BY <4>4, <1>1, <1>3, <1>5, <1>7
      <4>5. CASE j \in from .. t
        BY <4>5, <4>1, <1>11, <1>10, <1>7
      <4>6. CASE j \in x + 1 .. m - 1
        BY <4>6, <4>1, <1>1, <1>3, <1>5, <1>7, <1>10
      <4>7. CASE j < index \/ j = x
        BY <4>7, <1>1, <1>3
      <4>8. CASE j > t
        BY <4>8, <4>1, <1>1, <1>3, <1>5, <1>7, <1>10
      <4> QED  BY <4>2, <4>3, <4>4, <4>5, <4>6, <4>7, <4>8
    <3>2. CASE ~ candidates[x].last
      <4>1. sx = singleIndex /\ j \notin from .. t
        BY <3>2, <1>18, <1>11
      <4>2. CASE j \in index .. x - 1
        BY <4>2, <1>1, <1>3
      <4>3. CASE j \notin index .. x - 1
        BY <4>1, <4>3, <1>1, <1>3
      <4> QED  BY <4>2, <4>3
    <3> QED  BY <3>1, <3>2
  <2>2. from .. t \subseteq 1 .. Number /\ x \in 1 .. Number
    BY <1>3, <1>11
  <2> QED  BY <2>1, <2>2, <1>1 DEF Passed
<1>20. Cursors(x + 1, sx)
  <2>1. x + 1 \in 1 .. Number + 1 /\ sx \in 1 .. Number + 1
    BY <1>1, <1>3, <1>7, <1>10, <1>18
  <2>2. ASSUME NEW j \in x + 1 .. sx - 1 PROVE candidates[j].prio = candidates[sx - 1].prio
    <3>1. CASE ~ candidates[x].last
      <4>1. sx = singleIndex /\ j \in index .. singleIndex - 1
        BY <3>1, <1>18, <1>1, <1>3
      <4> QED  BY <4>1 DEF Cursors
    <3>2. CASE candidates[x].last
      <4>1. sx = t + 1 /\ sx - 1 = t
        BY <3>2, <1>18, <1>10
      <4>2. ASSUME NEW k \in x + 1 .. t PROVE candidates[k].prio = candidates[x].prio
        <5>1. k \in x + 1 .. m - 1 \/ k \in m .. from - 1 \/ k \in from .. t
          BY <1>3, <1>5, <1>7, <1>10
        <5>2. CASE k \in x + 1 .. m - 1
          <6>1. m = singleIndex /\ x \in index .. singleIndex - 1 /\ k \in index .. singleIndex - 1
            BY <5>2, <1>1, <1>3, <1>5
          <6> QED  BY <6>1 DEF Cursors
        <5>3. CASE k \in m .. from - 1
          BY <5>3, <1>7
        <5>4. CASE k \in from .. t
          BY <5>4, <1>11
        <5> QED  BY <5>1, <5>2, <5>3, <5>4
      <4>3. j \in x + 1 .. t /\ t \in x + 1 .. t
        BY <4>1, <1>3, <1>10, <1>7
      <4>4. candidates[j].prio = candidates[x].prio
        BY <4>2, <4>3
      <4>5. candidates[t].prio = candidates[x].prio
        BY <4>2, <4>3
      <4> QED  BY <4>1, <4>4, <4>5
    <3> QED  BY <3>1, <3>2
  <2> QED  BY <2>1, <2>2 DEF Cursors
<1>21. TakesNew(r)
  <2>1. r.index = x + 1 /\ r.singleIndex = sx
    BY <1>12, <1>18
  <2>2. Passed(x + 1, sx) = Passed(index, singleIndex) \cup ((from .. t) \cup {x})
    BY <1>19
  <2> QED  BY <2>1, <2>2, <1>14, <1>15, <1>16, <1>17, <1>20 DEF TakesNew
<1> QED  BY <1>21 DEF r, i

-----------------------------------------------------------------------------
(* The flush.                                                              *)

\* The cursors know what was sent, and every packet is well made.
PackInv ==
    /\ Offered
    /\ Cursors(index, singleIndex)
    /\ \E S : packets \in Seq(S)
    /\ Sent = Passed(index, singleIndex)
    /\ outcome = "Complete" => Sent = DOMAIN candidates
    /\ \A j, k \in DOMAIN packets : j # k => Carried(packets[j]) \cap Carried(packets[k]) = {}
    /\ \A k \in DOMAIN packets : packets[k].bytes <= Mtu /\ Reads(packets[k])

LEMMA PackInitInv == PackingInit => PackInv
<1> SUFFICES ASSUME PackingInit PROVE PackInv
  OBVIOUS
<1>1. Offered
  BY OfferedInit
<1>2. index = 1 /\ singleIndex = 1 /\ packets = <<>> /\ outcome = "Open"
  BY DEF PackingInit
<1>3. Number \in Nat /\ DOMAIN candidates = 1 .. Number
  BY <1>1 DEF Offered, Number
<1>4. Cursors(index, singleIndex)
  BY <1>2, <1>3 DEF Cursors
<1>5. Passed(index, singleIndex) = {} /\ Sent = {} /\ DOMAIN packets = {}
  BY <1>2, <1>3 DEF Passed, Sent
<1>6. packets \in Seq({})
  BY <1>2
<1> QED  BY <1>1, <1>2, <1>4, <1>5, <1>6 DEF PackInv

LEMMA PackAdmit == ASSUME PackInv, Admit PROVE PackInv'
<1>1. Offered /\ Cursors(index, singleIndex) /\ Start <= Number /\ BuildNext.ok /\ outcome = "Open"
  BY DEF PackInv, Admit, HasNext, Number
<1>2. TakesNew(BuildNext)
  BY <1>1, DataTakesNew, FragmentTakesNew DEF BuildNext
<1>3. PICK r : r = BuildNext
  OBVIOUS
<1>4. TakesNew(r) /\ r.ok
  BY <1>1, <1>2, <1>3
<1>5. packets' = Append(packets, r.packet) /\ index' = r.index /\ singleIndex' = r.singleIndex
      /\ candidates' = candidates /\ outcome' = outcome
  BY <1>3 DEF Admit
<1>6. PICK p : p = r.packet
  OBVIOUS
<1>7. PICK S : packets \in Seq(S)
  BY DEF PackInv
<1>8. PICK n : n = Len(packets)
  OBVIOUS
<1>9. /\ n \in Nat /\ DOMAIN packets = 1 .. n /\ DOMAIN packets' = 1 .. n + 1
      /\ packets'[n + 1] = p /\ \A k \in 1 .. n : packets'[k] = packets[k]
      /\ packets' \in Seq(S \cup {p})
  <2>1. packets \in Seq(S \cup {p}) /\ p \in S \cup {p}
    BY <1>7
  <2>2. packets' = Append(packets, p)
    BY <1>5, <1>6
  <2> HIDE <1>5
  <2> QED  BY <1>8, <2>1, <2>2
<1>10. Offered' /\ Number' = Number /\ Number \in Nat
  BY <1>1, <1>5 DEF Offered, Number
<1>11. Cursors(index, singleIndex)'
  <2>1. Cursors(r.index, r.singleIndex)
    BY <1>4 DEF TakesNew
  <2> QED  BY <1>5, <1>10, <2>1 DEF Cursors
<1>12. Passed(index, singleIndex)' = Passed(index, singleIndex) \cup Carried(p)
  <2>1. Passed(r.index, r.singleIndex) = Passed(index, singleIndex) \cup Carried(p)
    BY <1>4, <1>6 DEF TakesNew
  <2>2. Passed(index, singleIndex)' = Passed(r.index, r.singleIndex)
    BY <1>5 DEF Passed
  <2> QED  BY <2>1, <2>2
<1>13. Sent' = Sent \cup Carried(p)
  <2>1. Sent = UNION {Carried(packets[k]) : k \in 1 .. n}
    BY <1>9 DEF Sent
  <2>2. Sent' = UNION {Carried(packets'[k]) : k \in 1 .. n + 1}
    BY <1>9 DEF Sent
  <2>3. \A k \in 1 .. n + 1 : k \in 1 .. n \/ k = n + 1
    BY <1>9
  <2>4. 1 .. n \subseteq 1 .. n + 1 /\ n + 1 \in 1 .. n + 1
    BY <1>9
  <2>5. {Carried(packets'[k]) : k \in 1 .. n + 1} = {Carried(packets[k]) : k \in 1 .. n} \cup {Carried(p)}
    BY <1>9, <2>3, <2>4, Zenon
  <2> QED  BY <2>1, <2>2, <2>5
<1>14. Sent = Passed(index, singleIndex)
  BY DEF PackInv
<1>15. Carried(p) \cap Sent = {}
  BY <1>4, <1>6, <1>14 DEF TakesNew
<1>16. ASSUME NEW k \in 1 .. n PROVE Carried(packets[k]) \subseteq Sent
  BY <1>9 DEF Sent
<1>17. ASSUME NEW j \in 1 .. n + 1, NEW k \in 1 .. n + 1, j # k
       PROVE  Carried(packets'[j]) \cap Carried(packets'[k]) = {}
  <2>1. CASE j = n + 1
    <3>1. k \in 1 .. n
      BY <2>1, <1>17, <1>9
    <3> QED  BY <2>1, <3>1, <1>9, <1>15, <1>16
  <2>2. CASE k = n + 1
    <3>1. j \in 1 .. n
      BY <2>2, <1>17, <1>9
    <3> QED  BY <2>2, <3>1, <1>9, <1>15, <1>16
  <2>3. CASE j # n + 1 /\ k # n + 1
    <3>1. j \in 1 .. n /\ k \in 1 .. n
      BY <2>3, <1>9
    <3>2. Carried(packets[j]) \cap Carried(packets[k]) = {}
      BY <3>1, <1>17, <1>9 DEF PackInv
    <3> QED  BY <3>1, <3>2, <1>9
  <2> QED  BY <2>1, <2>2, <2>3
<1>18. ASSUME NEW q, Reads(q) PROVE Reads(q)'
  BY <1>5, <1>18 DEF Reads
<1>19. ASSUME NEW k \in 1 .. n + 1 PROVE (packets[k].bytes <= Mtu /\ Reads(packets[k]))'
  <2>1. PICK q : q = packets'[k]
    OBVIOUS
  <2>2. q.bytes <= Mtu /\ Reads(q)
    <3>1. CASE k = n + 1
      BY <3>1, <2>1, <1>9, <1>4, <1>6 DEF TakesNew
    <3>2. CASE k # n + 1
      <4>1. k \in 1 .. n
        BY <3>2, <1>9
      <4>2. q = packets[k]
        BY <4>1, <2>1, <1>9
      <4> QED  BY <4>1, <4>2, <1>9 DEF PackInv
    <3> QED  BY <3>1, <3>2
  <2>3. Reads(q)'
    BY <2>2, <1>18
  <2> QED  BY <2>1, <2>2, <2>3 DEF Reads
<1>20. (\A j, k \in DOMAIN packets : j # k => Carried(packets[j]) \cap Carried(packets[k]) = {})'
  BY <1>9, <1>17 DEF Carried
<1>21. (\A k \in DOMAIN packets : packets[k].bytes <= Mtu /\ Reads(packets[k]))'
  BY <1>9, <1>19
<1>22. (\E T : packets \in Seq(T))'
  BY <1>9
<1>23. Sent' = Passed(index, singleIndex)'
  BY <1>12, <1>13, <1>14
<1>24. outcome' # "Complete"
  BY <1>1, <1>5
<1> QED  BY <1>10, <1>11, <1>20, <1>21, <1>22, <1>23, <1>24 DEF PackInv

\* What does not touch the packets keeps what is said of them.
LEMMA PackSame ==
    ASSUME PackInv, UNCHANGED <<candidates, index, singleIndex, packets>>,
           outcome' = "Complete" => Sent = DOMAIN candidates
    PROVE  PackInv'
<1>1. Offered' /\ Cursors(index, singleIndex)' /\ Passed(index, singleIndex)' = Passed(index, singleIndex)
      /\ Sent' = Sent
  BY DEF PackInv, Offered, Cursors, Passed, Sent, Number, Carried
<1>2. ASSUME NEW k \in DOMAIN packets PROVE (packets[k].bytes <= Mtu /\ Reads(packets[k]))'
  BY DEF PackInv, Reads
<1>3. (\A j, k \in DOMAIN packets : j # k => Carried(packets[j]) \cap Carried(packets[k]) = {})'
  BY SMT, ZenonT(60) DEF PackInv, Carried
<1>4. (\E T : packets \in Seq(T))'
  BY DEF PackInv
<1> QED  BY <1>1, <1>2, <1>3, <1>4 DEF PackInv

LEMMA PackFinish == ASSUME PackInv, Finish PROVE PackInv'
<1>1. Offered /\ Cursors(index, singleIndex) /\ Start > Number /\ Sent = Passed(index, singleIndex)
  BY DEF PackInv, Finish, Number
<1>2. Number \in Nat /\ DOMAIN candidates = 1 .. Number /\ index \in 1 .. Number + 1 /\ singleIndex \in 1 .. Number + 1
  BY <1>1 DEF Offered, Cursors, Number
<1>3. PICK x : x = Start
  OBVIOUS
<1>4. x \in index .. Number + 1
      /\ \A j \in index .. x - 1 : j \in 1 .. Number /\ ~ (j >= singleIndex) /\ ~ candidates[j].frag
  BY <1>2, <1>3, StartIs
<1>5. x = Number + 1
  BY <1>1, <1>2, <1>3, <1>4
<1>6. ASSUME NEW j \in 1 .. Number PROVE j \in Passed(index, singleIndex)
  <2>1. CASE j < index
    BY <2>1, <1>2 DEF Passed
  <2>2. CASE ~ (j < index)
    <3>1. j \in index .. x - 1
      BY <2>2, <1>2, <1>5
    <3>2. j < singleIndex /\ ~ candidates[j].frag
      BY <3>1, <1>2, <1>4
    <3> QED  BY <3>2, <1>2 DEF Passed
  <2> QED  BY <2>1, <2>2
<1>7. Sent = DOMAIN candidates
  BY <1>1, <1>2, <1>6 DEF Passed
<1>8. UNCHANGED <<candidates, index, singleIndex, packets>>
  BY DEF Finish
<1> QED  BY <1>7, <1>8, PackSame

LEMMA PackNextInv == PackInv /\ [PackingNext]_packingVars => PackInv'
<1> SUFFICES ASSUME PackInv, [PackingNext]_packingVars PROVE PackInv'
  OBVIOUS
<1>1. CASE Admit
  BY <1>1, PackAdmit
<1>2. CASE Refuse \/ Fail
  BY <1>2, PackSame DEF Refuse, Fail
<1>3. CASE Finish
  BY <1>3, PackFinish
<1>4. CASE UNCHANGED packingVars
  BY <1>4, PackSame DEF packingVars, PackInv
<1> QED  BY <1>1, <1>2, <1>3, <1>4 DEF PackingNext

\* What the invariant says of the order and of the receiver.
LEMMA PackInvSays == PackInv => PackedFaithfully
<1> SUFFICES ASSUME PackInv PROVE PackedFaithfully
  OBVIOUS
<1>1. EachCandidateOnce /\ WithinMtu
  BY DEF PackInv, EachCandidateOnce, WithinMtu
<1>2. Offered /\ Cursors(index, singleIndex) /\ Sent = Passed(index, singleIndex)
  BY DEF PackInv
<1>3. Number \in Nat /\ DOMAIN candidates = 1 .. Number /\ index \in 1 .. Number + 1 /\ singleIndex \in 1 .. Number + 1
  BY <1>2 DEF Offered, Cursors, Number
<1>4. ASSUME NEW i \in Sent, NEW j \in DOMAIN candidates \ Sent PROVE candidates[i].prio >= candidates[j].prio
  <2>1. i \in 1 .. Number /\ j \in 1 .. Number /\ i # j
        /\ (i < index \/ (~ candidates[i].frag /\ i < singleIndex))
        /\ ~ (j < index \/ (~ candidates[j].frag /\ j < singleIndex))
    BY <1>2, <1>3 DEF Passed
  <2>2. CASE i < j
    BY <2>1, <2>2, <1>2, <1>3 DEF Offered
  <2>3. CASE ~ (i < j)
    <3>1. i \in index .. singleIndex - 1 /\ j \in index .. singleIndex - 1
      BY <2>1, <2>3, <1>3
    <3>2. candidates[i].prio = candidates[j].prio
      BY <3>1, <1>2 DEF Cursors
    <3>3. candidates[i].prio \in Nat
      BY <2>1, <1>2, <1>3, CandidateFields DEF Offered
    <3> QED  BY <3>2, <3>3
  <2> QED  BY <2>2, <2>3
<1>5. MostUrgentFirst
  BY <1>4 DEF MostUrgentFirst
<1>6. ASSUME NEW k \in DOMAIN packets, NEW p, p = packets[k], NEW b \in DOMAIN p.batches,
             NEW after, after = b + (p.batches[b].count % (MaxBatch + 1))
      PROVE  /\ after \in DOMAIN p.batches \cup {p.to + 1}
             /\ after > b
             /\ \A i \in b .. (after - 1) : candidates[i].chan = p.batches[b].chan
  <2>1. Reads(p)
    BY <1>6 DEF PackInv
  <2>2. PICK e \in b .. p.to :
           /\ b \in Int
           /\ p.batches[b].count % (MaxBatch + 1) = e - b + 1
           /\ e + 1 \in DOMAIN p.batches \cup {p.to + 1}
           /\ \A i \in b .. e : candidates[i].chan = p.batches[b].chan
    BY <2>1 DEF Reads
  <2>3. b \in Int /\ e \in Int /\ b <= e
    BY <2>2
  <2>4. after = e + 1 /\ after - 1 = e /\ after > b
    BY <1>6, <2>2, <2>3
  <2> QED  BY <2>2, <2>4
<1>7. BatchesReadBack
  BY <1>6 DEF BatchesReadBack
<1> QED  BY <1>1, <1>5, <1>7 DEF PackedFaithfully

\* A flush packs each candidate once, the most urgent first, into packets that fit
\* the MTU and read back channel by channel, whatever mixture of fragments and single
\* messages is offered, whatever compression saves and whatever the bandwidth limiter
\* refuses (build_next_packet, try_append_single_candidate, buffer_send).
THEOREM PackedFaithfullyAlways == PackingSpec => []PackedFaithfully
<1>1. PackingInit => PackInv
  BY PackInitInv
<1>2. PackInv /\ [PackingNext]_packingVars => PackInv'
  BY PackNextInv
<1>3. PackInv => PackedFaithfully
  BY PackInvSays
<1> QED  BY <1>1, <1>2, <1>3, PTL DEF PackingSpec
=============================================================================
