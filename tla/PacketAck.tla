------------------------------ MODULE PacketAck ------------------------------
(***************************************************************************)
(* Two peers that exchange packets through an unreliable link, each with   *)
(* its own PacketHeaderManager.  Every packet carries an identifier, the   *)
(* identifier of the newest packet received from the other side and a      *)
(* bitfield for the AckBits packets below it.  A sent data packet is       *)
(* eventually acknowledged or given up as lost; an ACK-only packet is      *)
(* neither tracked nor answered.                                           *)
(*                                                                         *)
(* The code's state is next, unacked, last, bits, ackPending and the link. *)
(* sent, lastSeq and got record the history that identifiers of fixed      *)
(* width forget.                                                           *)
(***************************************************************************)
EXTENDS PacketHeader, FiniteSets

CONSTANTS Peer,         \* the two ends of the link
          MaxLag,       \* packets sent since the one a delivered header acknowledges
          MaxBurst,     \* packets sent between two updates, that is in one frame
          MaxData,      \* bound: the sequence numbers each peer uses for data
          MaxSent,      \* bound: packets each peer sends, ACK-only ones included
          MaxInFlight   \* bound: packets travelling to each peer

\* The identifier of an acknowledged packet has not come round again while
\* the acknowledgement travels, and update sees every entry before its
\* difference to next_packet_id turns negative.
ASSUME LinkAssumption == /\ MaxLag \in Nat
                         /\ MaxLag + AckBits <= IdModulus
                         /\ MaxBurst \in Nat
                         /\ MaxAge + MaxBurst <= MaxDiff
                         /\ MaxData \in [Peer -> Nat]
                         /\ MaxSent \in [Peer -> Nat]
                         /\ MaxInFlight \in [Peer -> Nat]

ASSUME PeerAssumption == \E a, b \in Peer : a # b /\ Peer = {a, b}

VARIABLES next,         \* next_packet_id
          unacked,      \* sent_packets_not_acked
          last,         \* recv_buffer.last_recv_packet_id
          bits,         \* recv_buffer.buffer
          ackPending,   \* ack_pending
          link,         \* the packets travelling to each peer
          burst,        \* packets sent since the last update
          sent,         \* history: how many packets were sent
          lastSeq,      \* history: sequence number of last (-1: none)
          got           \* history: the other side's sequence numbers received

code == <<next, unacked, last, bits, ackPending>>
history == <<sent, lastSeq, got>>
vars == <<code, link, burst, history>>

Other(p) == CHOOSE q \in Peer : q # p

Kind == {"Data", "AckOnly"}

\* A header on the link; seq and ackSeq are the sequence numbers that id and
\* lastAck stand for.
Header == [id : WireId, kind : Kind, lastAck : WireId, ackBits : SUBSET (1 .. AckBits),
           seq : Nat, ackSeq : Nat \cup {-1}]

Init ==
    /\ next = [p \in Peer |-> 0]
    /\ unacked = [p \in Peer |-> NoUnacked]
    /\ last = [p \in Peer |-> NoPacket]
    /\ bits = [p \in Peer |-> {}]
    /\ ackPending = [p \in Peer |-> FALSE]
    /\ link = [p \in Peer |-> {}]
    /\ burst = [p \in Peer |-> 0]
    /\ sent = [p \in Peer |-> 0]
    /\ lastSeq = [p \in Peer |-> -1]
    /\ got = [p \in Peer |-> {}]

\* preview_send_packet_header.
PreviewHeader(p, kind) ==
    [id |-> next[p], kind |-> kind, lastAck |-> HeaderLastAck(last[p]),
     ackBits |-> bits[p], seq |-> sent[p], ackSeq |-> lastSeq[p]]

\* What sending has in common: the header enters the link, the identifier is
\* used up, and the acknowledgements we owed have left with it.
SendPacket(p, kind) ==
    /\ sent[p] < MaxSent[p]
    /\ burst[p] < MaxBurst
    /\ Cardinality(link[Other(p)]) < MaxInFlight[Other(p)]
    /\ link' = [link EXCEPT ![Other(p)] = @ \cup {PreviewHeader(p, kind)}]
    /\ next' = [next EXCEPT ![p] = NextId(@)]
    /\ ackPending' = [ackPending EXCEPT ![p] = FALSE]
    /\ burst' = [burst EXCEPT ![p] = @ + 1]
    /\ sent' = [sent EXCEPT ![p] = @ + 1]

\* commit_send_packet.
SendData(p) ==
    /\ sent[p] < MaxData[p]
    /\ SendPacket(p, "Data")
    /\ unacked' = [unacked EXCEPT ![p][next[p]] = sent[p]]
    /\ UNCHANGED <<last, bits, lastSeq, got>>

\* commit_send_ack_only, for a frame in which nothing else was sent.
SendAckOnly(p) ==
    /\ ackPending[p]
    /\ burst[p] = 0
    /\ SendPacket(p, "AckOnly")
    /\ UNCHANGED <<unacked, last, bits, lastSeq, got>>

\* process_recv_packet_header.
Process(p, h) ==
    LET ids == NewlyAcked(unacked[p], h.lastAck, h.ackBits)
    IN  /\ last' = [last EXCEPT ![p] = RecvLast(@, h.id)]
        /\ bits' = [bits EXCEPT ![p] = RecvBits(last[p], @, h.id)]
        /\ ackPending' = [ackPending EXCEPT ![p] = @ \/ h.kind = "Data"]
        /\ unacked' = [unacked EXCEPT ![p] = Without(@, ids)]
        /\ lastSeq' = [lastSeq EXCEPT ![p] = IF RecvLast(last[p], h.id) = last[p] THEN @ ELSE h.seq]
        /\ got' = [got EXCEPT ![p] = @ \cup {h.seq}]

\* The link is slow but not that slow: it delivers a header while its fields
\* are unambiguous.
Fresh(p, h) ==
    /\ sent[p] - h.ackSeq <= MaxLag
    /\ lastSeq[p] - h.seq <= MaxDiff
    /\ h.seq - lastSeq[p] <= MaxDiff

\* The link delivers a packet, and may keep a copy of it to deliver again.
Deliver(p) ==
    \E h \in link[p] :
        /\ Fresh(p, h)
        /\ Process(p, h)
        /\ link' \in {link, [link EXCEPT ![p] = @ \ {h}]}
        /\ UNCHANGED <<next, burst, sent>>

\* The link loses a packet, or the last copy of one.
Lose(p) ==
    \E h \in link[p] :
        /\ link' = [link EXCEPT ![p] = @ \ {h}]
        /\ UNCHANGED <<code, burst, history>>

\* update, once per frame: the nack duration has passed for the packets sent
\* before cutoff.
Update(p) ==
    \E cutoff \in 0 .. sent[p] :
        LET ids == Expired(unacked[p], next[p], cutoff)
        IN  /\ unacked' = [unacked EXCEPT ![p] = Without(@, ids)]
            /\ burst' = [burst EXCEPT ![p] = 0]
            /\ UNCHANGED <<next, last, bits, ackPending, link, sent,
                           lastSeq, got>>

Next == \E p \in Peer : \/ SendData(p)
                        \/ SendAckOnly(p)
                        \/ Deliver(p)
                        \/ Lose(p)
                        \/ Update(p)

Spec == Init /\ [][Next]_vars

(***************************************************************************)
(* Properties.                                                             *)
(***************************************************************************)

TypeOK ==
    /\ next \in [Peer -> WireId]
    /\ unacked \in [Peer -> Unacked]
    /\ last \in [Peer -> WireId \cup {NoPacket}]
    /\ bits \in [Peer -> SUBSET (1 .. AckBits)]
    /\ ackPending \in [Peer -> BOOLEAN]
    /\ link \in [Peer -> SUBSET Header]
    /\ burst \in [Peer -> Nat]
    /\ sent \in [Peer -> Nat]
    /\ lastSeq \in [Peer -> Nat \cup {-1}]
    /\ got \in [Peer -> SUBSET Nat]

\* A data packet that a header acknowledges was received by the peer that sent
\* the header: an identifier that came round again, a bit shifted to the wrong
\* place, or u16::MAX sent before anything was received never takes another
\* packet out of sent_packets_not_acked.
AckedWasReceived ==
    \A p \in Peer : \A h \in link[p] :
        Fresh(p, h) => SeqsOf(unacked[p], NewlyAcked(unacked[p], h.lastAck, h.ackBits))
                         \subseteq got[Other(p)]

\* next_packet_id is never an identifier that is still in the map, so
\* commit_send_packet overwrites no entry: every data packet sent is
\* acknowledged or given up as lost, and its messages hear of it.
NoOverwrite == \A p \in Peer : unacked[p][next[p]] = NotTracked

\* The receive buffer is exact: last_recv_packet_id is the newest packet
\* received, and bit i is set if and only if the packet i below it was.
BufferExact ==
    \A p \in Peer :
        /\ \A s \in got[p] : s <= lastSeq[p]
        /\ \A i \in 1 .. AckBits : i \in bits[p] <=> lastSeq[p] - i \in got[p]

(***************************************************************************)
(* The inductive invariant: what ties the identifiers to the sequence      *)
(* numbers they stand for.                                                 *)
(***************************************************************************)

\* next_packet_id and last_recv_packet_id are the identifiers of sent and lastSeq.
IdsStandForSeqs ==
    \A p \in Peer : /\ next[p] = Wrap(sent[p])
                    /\ last[p] = NoPacket <=> lastSeq[p] = -1
                    /\ last[p] # NoPacket => last[p] = Wrap(lastSeq[p])

\* An entry of sent_packets_not_acked is under its own identifier, and at most
\* MaxAge packets older than the last update.
EntriesAreRecent ==
    \A p \in Peer :
        /\ burst[p] <= MaxBurst
        /\ \A id \in WireId :
              unacked[p][id] # NotTracked =>
                 /\ Wrap(unacked[p][id]) = id
                 /\ unacked[p][id] < sent[p]
                 /\ sent[p] - unacked[p][id] <= MaxAge + burst[p]

\* A header on the link carries the identifiers of its sequence numbers, and
\* acknowledges only packets its sender has received.
HeadersAreTrue ==
    \A p \in Peer : \A h \in link[p] :
        /\ h.id = Wrap(h.seq) /\ h.seq < sent[Other(p)]
        /\ h.lastAck = Wrap(h.ackSeq) /\ h.ackSeq < sent[p]
        /\ h.ackSeq # -1 => h.ackSeq \in got[Other(p)]
        /\ \A i \in h.ackBits : h.ackSeq - i \in got[Other(p)]

\* Only packets that were sent are received, the newest of them included.
ReceivedWasSent ==
    \A p \in Peer : /\ \A s \in got[p] : s < sent[Other(p)]
                    /\ lastSeq[p] # -1 => lastSeq[p] \in got[p]

Inductive == /\ TypeOK
             /\ IdsStandForSeqs
             /\ EntriesAreRecent
             /\ HeadersAreTrue
             /\ ReceivedWasSent
             /\ BufferExact
=============================================================================
