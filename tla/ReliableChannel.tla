--------------------------- MODULE ReliableChannel ---------------------------
(***************************************************************************)
(* One reliable channel, from buffer_send on one peer to read_message on   *)
(* the other: ReliableSendState, which keeps every message or fragment     *)
(* until it is acknowledged and sends it again after the resend delay, and *)
(* ChannelReceive with its FragmentReceiver, in one of the three reliable  *)
(* modes.  The packets between them are lost, duplicated and reordered;    *)
(* that an acknowledged packet was received is what PacketAck shows.       *)
(*                                                                         *)
(* Messages are numbered by sent; seq is the number of the message that a  *)
(* unit belongs to, and only the properties look at it.  The code sees the *)
(* wrapping MessageId.                                                     *)
(***************************************************************************)
EXTENDS WrappingId, Sequences, FiniteSets, SequencesExt

CONSTANTS Channels,         \* the channels registered: the mode of each, the numbers of
                            \* fragments its messages have, and how many are sent on it
          NoMessage,        \* None
          ResendDelay,      \* resend_delay(rtt): 0 while the round trip time is 0
          MaxOutstanding,   \* messages between the oldest undelivered and the newest
          MaxLifetime,      \* messages sent while a packet or its acknowledgement travels
          MaxWire           \* bound: units travelling, and acknowledgements travelling

Modes == {"OrderedReliable", "UnorderedReliable", "SequencedReliable"}

ASSUME ChannelAssumption == /\ \A c \in Channels : /\ c.mode \in Modes
                                                   /\ c.counts \subseteq Nat \ {0}
                                                   /\ c.messages \in Nat
                            /\ NoMessage \notin WireId
                            /\ ResendDelay \in Nat
                            /\ MaxOutstanding \in Nat
                            /\ MaxLifetime \in Nat
                            /\ MaxWire \in Nat

VARIABLES channel,          \* which channel of Channels this is; it never changes
          nextId,           \* sender: next_message_id
          unacked,          \* sender: the units of pending not yet acknowledged
          lastSent,         \* sender: the units of unacked whose last_sent is not None
          wire,             \* units travelling to the receiver
          acks,             \* received units whose acknowledgement travels back
          pending,          \* receiver: pending
          received,         \* receiver: received
          ready,            \* receiver: ready, in the order of completion
          newestSeen,       \* receiver: newest_seen
          newestCompleted,  \* receiver: newest_completed
          partial,          \* receiver: the fragments held by fragment_messages
          sent,             \* history: how many messages were sent
          delivered         \* history: the messages read, as sets of seq

sender == <<nextId, unacked, lastSent>>
receiver == <<pending, received, ready, newestSeen, newestCompleted, partial>>
vars == <<channel, sender, wire, acks, receiver, sent, delivered>>

Mode == channel.mode
FragmentCounts == channel.counts
MaxMessages == channel.messages

Init ==
    /\ channel \in Channels
    /\ nextId = 0
    /\ unacked = {}
    /\ lastSent = {}
    /\ wire = {}
    /\ acks = {}
    /\ pending = 0
    /\ received = {}
    /\ ready = <<>>
    /\ newestSeen = NoMessage
    /\ newestCompleted = NoMessage
    /\ partial = {}
    /\ sent = 0
    /\ delivered = <<>>

(***************************************************************************)
(* The sender.                                                             *)
(***************************************************************************)

\* A unit is a whole message (count = 1) or one of its fragments.
Units(id, count, seq) == {[id |-> id, count |-> count, frag |-> k, seq |-> seq] : k \in 1 .. count}

\* The oldest message that is not acknowledged or, in the modes that deliver
\* every message, not yet read by the receiving application.
Oldest ==
    Min({sent} \cup {u.seq : u \in unacked}
          \cup (IF Mode = "SequencedReliable" THEN {}
               ELSE {m \in 0 .. (sent - 1) : \A i \in DOMAIN delivered : m \notin delivered[i]}))

\* buffer_send: a new entry of pending, in place of one with the same identifier.
BufferSend ==
    /\ sent < MaxMessages
    /\ sent - Oldest < MaxOutstanding
    /\ \E count \in FragmentCounts :
          unacked' = {u \in unacked : u.id # nextId} \cup Units(nextId, count, sent)
    /\ lastSent' = lastSent \cap unacked'
    /\ nextId' = NextId(nextId)
    /\ sent' = sent + 1
    /\ UNCHANGED <<channel, wire, acks, receiver, delivered>>

\* Mutant of Transmit: only the newest message is sent again.
TransmitNewest(u) ==
    /\ u \in unacked
    /\ u \notin wire
    /\ u.seq = sent - 1
    /\ Cardinality(wire) < MaxWire
    /\ wire' = wire \cup {u}
    /\ lastSent' = lastSent \cup {u}
    /\ UNCHANGED <<channel, nextId, unacked, acks, receiver, sent, delivered>>

\* collect_candidates and commit_send: a unit that was never sent, or whose
\* resend delay has passed, leaves in a packet.
Transmit(u) ==
    /\ u \in unacked
    /\ u \notin wire
    /\ u \in lastSent => ResendDelay # 0
    /\ Cardinality(wire) < MaxWire
    /\ wire' = wire \cup {u}
    /\ lastSent' = lastSent \cup {u}
    /\ UNCHANGED <<channel, nextId, unacked, acks, receiver, sent, delivered>>

\* Mutant of ReceiveAck: only the acknowledgement of the newest message counts.
ReceiveAckNewest(u) ==
    /\ u \in acks
    /\ sent - u.seq <= MaxLifetime
    /\ unacked' = {x \in unacked : ~(x.id = u.id /\ NextId(x.id) = nextId)}
    /\ lastSent' = lastSent \cap unacked'
    /\ acks' = acks \ {u}
    /\ UNCHANGED <<channel, nextId, wire, receiver, sent, delivered>>

\* Mutant of ReceiveAck: a fragment's acknowledgement completes the message.
ReceiveAckWhole(u) ==
    /\ u \in acks
    /\ sent - u.seq <= MaxLifetime
    /\ unacked' = {x \in unacked : x.id # u.id}
    /\ lastSent' = lastSent \cap unacked'
    /\ acks' = acks \ {u}
    /\ UNCHANGED <<channel, nextId, wire, receiver, sent, delivered>>

\* receive_ack: the entry is found by its MessageId and fragment index.
ReceiveAck(u) ==
    /\ u \in acks
    /\ sent - u.seq <= MaxLifetime
    /\ unacked' = {x \in unacked : ~(x.id = u.id /\ x.frag = u.frag)}
    /\ lastSent' = lastSent \cap unacked'
    /\ acks' = acks \ {u}
    /\ UNCHANGED <<channel, nextId, wire, receiver, sent, delivered>>

(***************************************************************************)
(* The receiver.                                                           *)
(***************************************************************************)

\* Mutant of Accepts: a message already received is accepted again.
AcceptsDuplicates(id) ==
    /\ Mode # "SequencedReliable" => WrappingDiff(id, pending) >= 0
    /\ Mode = "SequencedReliable" /\ newestSeen # NoMessage => ~IdLess(id, newestSeen)

\* prepare_receive: whether a unit of message id is looked at.
Accepts(id) ==
    CASE Mode = "OrderedReliable"   -> /\ WrappingDiff(id, pending) >= 0
                                       /\ \A i \in DOMAIN ready : ready[i].id # id
      [] Mode = "UnorderedReliable" -> /\ WrappingDiff(id, pending) >= 0
                                       /\ id \notin received
      [] Mode = "SequencedReliable" -> /\ id # newestCompleted
                                       /\ newestSeen # NoMessage => ~IdLess(id, newestSeen)

\* Mutant of Gathered: fragments are put together without looking at the message.
GatheredAny(u) ==
    IF \E f \in partial : f.frag = u.frag THEN partial ELSE partial \cup {u}

\* FragmentReceiver::receive_fragment: the fragments held for the unit's message
\* once the unit is in.  A fragment already held is kept.
Gathered(u) ==
    LET held == {f \in partial : f.id = u.id}
    IN  IF \E f \in held : f.frag = u.frag THEN held ELSE held \cup {u}

\* FragmentCountMismatch.
Mismatch(u) == \E f \in partial : f.id = u.id /\ f.count # u.count

Completes(u) == u.count = 1 \/ (~Mismatch(u) /\ Cardinality(Gathered(u)) = u.count)

\* The messages whose bytes a completed message is made of.
Origin(u) == IF u.count = 1 THEN {u.seq} ELSE {f.seq : f \in Gathered(u)}

\* prepare_receive on a newer sequenced message: whatever was ready is obsolete.
Supersedes(id) ==
    /\ Mode = "SequencedReliable"
    /\ newestSeen # NoMessage
    /\ IdLess(newestSeen, id)

\* buffer_recv: prepare_receive, reassembly, push_completed.
BufferRecv(u) ==
    IF ~Accepts(u.id) THEN UNCHANGED receiver
    ELSE LET kept == IF Supersedes(u.id) THEN <<>> ELSE ready
         IN  /\ newestSeen' = IF Mode = "SequencedReliable" THEN u.id ELSE newestSeen
             /\ partial' = IF u.count = 1 \/ Mismatch(u) THEN partial
                           ELSE {f \in partial : f.id # u.id}
                                  \cup (IF Completes(u) THEN {} ELSE Gathered(u))
             /\ IF Completes(u)
                THEN LET message == [id |-> u.id, origin |-> Origin(u)]
                     IN  /\ ready' = IF Mode = "SequencedReliable" THEN <<message>>
                                     ELSE Append(kept, message)
                         /\ received' = IF Mode = "UnorderedReliable" THEN received \cup {u.id}
                                        ELSE received
                         /\ newestCompleted' = IF Mode = "SequencedReliable" THEN u.id
                                               ELSE newestCompleted
                ELSE ready' = kept /\ UNCHANGED <<received, newestCompleted>>
             /\ UNCHANGED pending

\* A packet with the unit arrives; it may arrive again.  The packet is
\* acknowledged whatever the channel does with the unit.
Deliver(u) ==
    /\ u \in wire
    /\ sent - u.seq <= MaxLifetime
    /\ Cardinality(acks \cup {u}) <= MaxWire
    /\ BufferRecv(u)
    /\ acks' = acks \cup {u}
    /\ wire' \in {wire, wire \ {u}}
    /\ UNCHANGED <<channel, sender, sent, delivered>>

\* ReliableUnordered::read_message: how many received identifiers there are
\* from pending on without a gap.
Run == CHOOSE n \in 0 .. IdModulus :
          /\ Wrap(pending + n) \notin received \/ n = IdModulus
          /\ \A j \in 0 .. (n - 1) : Wrap(pending + j) \in received

\* ReliableOrdered::read_message.
ReadOrdered ==
    /\ Mode = "OrderedReliable"
    /\ \E i \in DOMAIN ready :
          /\ ready[i].id = pending
          /\ delivered' = Append(delivered, ready[i].origin)
          /\ ready' = RemoveAt(ready, i)
    /\ pending' = NextId(pending)
    /\ UNCHANGED received

ReadUnordered ==
    /\ Mode = "UnorderedReliable"
    /\ ready # <<>>
    /\ delivered' = Append(delivered, Head(ready).origin)
    /\ ready' = Tail(ready)
    /\ IF Head(ready).id = pending
       THEN /\ pending' = Wrap(pending + Run)
            /\ received' = received \ {Wrap(pending + j) : j \in 0 .. (Run - 1)}
       ELSE UNCHANGED <<pending, received>>

ReadSequenced ==
    /\ Mode = "SequencedReliable"
    /\ ready # <<>>
    /\ delivered' = Append(delivered, Head(ready).origin)
    /\ ready' = <<>>
    /\ UNCHANGED <<pending, received>>

\* read_message.
ReadMessage ==
    /\ ReadOrdered \/ ReadUnordered \/ ReadSequenced
    /\ UNCHANGED <<channel, sender, wire, acks, newestSeen, newestCompleted, partial, sent>>

(***************************************************************************)
(* The link, and the whole channel.                                        *)
(***************************************************************************)

Lose == /\ \/ \E u \in wire : wire' = wire \ {u} /\ UNCHANGED acks
           \/ \E u \in acks : acks' = acks \ {u} /\ UNCHANGED wire
        /\ UNCHANGED <<channel, sender, receiver, sent, delivered>>

Unit == UNION {UNION {Units(Wrap(seq), count, seq) : seq \in 0 .. (c.messages - 1), count \in c.counts}
                  : c \in Channels}

Next == \/ BufferSend
        \/ \E u \in unacked : Transmit(u)
        \/ \E u \in wire : Deliver(u)
        \/ \E u \in acks : ReceiveAck(u)
        \/ ReadMessage
        \/ Lose

Spec == Init /\ [][Next]_vars

\* Every frame collects what is due, and the receiving application reads what is
\* ready; a link that is not dead delivers a unit, or its acknowledgement, that is
\* sent again and again.
Fairness == /\ WF_vars(ReadMessage)
            /\ \A u \in Unit : /\ WF_vars(Transmit(u))
                               /\ SF_vars(Deliver(u))
                               /\ SF_vars(ReceiveAck(u))

FairSpec == Spec /\ Fairness

(***************************************************************************)
(* Properties.                                                             *)
(***************************************************************************)

TypeOK ==
    /\ channel \in Channels
    /\ nextId \in WireId
    /\ lastSent \subseteq unacked
    /\ unacked \subseteq Unit /\ wire \subseteq Unit /\ acks \subseteq Unit /\ partial \subseteq Unit
    /\ pending \in WireId
    /\ received \subseteq WireId
    /\ newestSeen \in WireId \cup {NoMessage}
    /\ newestCompleted \in WireId \cup {NoMessage}
    /\ sent \in 0 .. MaxMessages
    /\ \A i \in DOMAIN ready : ready[i].id \in WireId
    /\ \A i \in DOMAIN delivered : delivered[i] \subseteq 0 .. (MaxMessages - 1)

\* The bytes of a message that is handed to the application all come from one
\* message: fragments of different messages are never put together.
Intact == \A i \in DOMAIN delivered : Cardinality(delivered[i]) = 1

\* A message the sender has forgotten, because every unit of it was acknowledged
\* or because its identifier was taken over, is with the receiver: read, ready
\* or, on a sequenced channel, made obsolete by a newer one.
NothingForgotten ==
    \A m \in 0 .. (sent - 1) :
        \/ \E u \in unacked : u.seq = m
        \/ \E i \in DOMAIN delivered : m \in delivered[i]
        \/ \E i \in DOMAIN ready : m \in ready[i].origin
        \/ /\ Mode = "SequencedReliable"
           /\ \E n \in (m + 1) .. (sent - 1) : Wrap(n) = newestSeen

\* The sender's and the receiver's books agree (send_reliable.rs, receive.rs).
BooksAgree == TypeOK /\ NothingForgotten

\* The channel implements the delivery its mode promises.
Delivery == INSTANCE MessageDelivery
              WITH mode <- Mode, delivered <- [i \in DOMAIN delivered |-> Min(delivered[i])]
PromisedSafety == Delivery!Init /\ [][Delivery!Next]_(Delivery!vars)

MaxSent == Max({c.messages : c \in Channels})

\* Every message sent is delivered in the end; on a sequenced channel that
\* message or a newer one is.
EventuallyDelivered ==
    \A m \in 0 .. (MaxSent - 1) :
        (sent > m) ~> \E i \in DOMAIN delivered :
                         IF Mode = "SequencedReliable" THEN Min(delivered[i]) >= m ELSE m \in delivered[i]

\* The sender forgets every message in the end: it is not resent for ever.
EventuallyReleased ==
    \A m \in 0 .. (MaxSent - 1) : (sent > m) ~> \A u \in unacked : u.seq # m
=============================================================================
