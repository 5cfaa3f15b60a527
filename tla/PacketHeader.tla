---------------------------- MODULE PacketHeader ----------------------------
(***************************************************************************)
(* The data structures of packet/header.rs as operators: what one          *)
(* PacketHeaderManager does to its state when it sends a packet, receives  *)
(* a header or is updated once per frame.                                  *)
(*                                                                         *)
(*   sent_packets_not_acked   a function from wire identifiers to the      *)
(*                            moment of sending (NotTracked: no entry);    *)
(*                            moments are sequence numbers, which grow     *)
(*                            with the clock                               *)
(*   recv_buffer              last_recv_packet_id (NoPacket: None) and the *)
(*                            set of offsets i in 1 .. AckBits whose bit   *)
(*                            is set, i standing for the packet i below    *)
(*                            the last one                                 *)
(***************************************************************************)
EXTENDS WrappingId

CONSTANTS AckBits,      \* ACK_BITFIELD_SIZE: 32
          NoPacket      \* last_recv_packet_id = None

\* The bitfield covers a small part of the identifier space (32 of 65536).
ASSUME AckBitsAssumption == /\ AckBits \in Nat
                            /\ 0 < AckBits
                            /\ AckBits < MaxDiff

ASSUME NoPacketAssumption == NoPacket \notin WireId

NotTracked == -1

Unacked == [WireId -> Nat \cup {NotTracked}]

\* PacketHeaderManager::new: nothing is in flight.
NoUnacked == [id \in WireId |-> NotTracked]

\* The largest age, in packets, that update leaves in the map: i16::MAX / 3.
MaxAge == MaxDiff \div 3

(***************************************************************************)
(* ReceiveBuffer.                                                          *)
(***************************************************************************)

\* Mutant of RecvLast: identifiers compared without wrapping.
RecvLastPlain(last, id) ==
    IF last = NoPacket \/ id > last THEN id ELSE last

\* recv_packet: last_recv_packet_id after packet id.
RecvLast(last, id) ==
    IF last = NoPacket \/ WrappingDiff(last, id) < 0 THEN id ELSE last

\* recv_packet: the bits after packet id.  A packet below the window changes
\* nothing, a packet inside it sets its bit, and a newer packet shifts the
\* window: the former last packet becomes bit -diff, or, far enough ahead,
\* everything is cleared.
RecvBits(last, bits, id) ==
    LET diff == WrappingDiff(last, id)
    IN  IF last = NoPacket THEN bits
        ELSE IF diff > AckBits \/ diff = 0 THEN bits
        ELSE IF diff > 0 THEN bits \cup {diff}
        ELSE IF diff < -(AckBits + 1) THEN {}
        ELSE {i \in 1 .. AckBits : i = -diff \/ (i + diff) \in bits}

\* preview_send_packet_header: with nothing received the header acknowledges
\* u16::MAX, the identifier just before the first one.
HeaderLastAck(last) == IF last = NoPacket THEN IdModulus - 1 ELSE last

(***************************************************************************)
(* PacketHeaderManager.                                                    *)
(***************************************************************************)

\* Mutant of NewlyAcked: bit i of the field is read one packet too low.
NewlyAckedShifted(unacked, lastAck, ackBits) ==
    {id \in WireId : /\ unacked[id] # NotTracked
                     /\ \/ id = lastAck
                        \/ \E i \in ackBits : id = Wrap(lastAck - i - 1)}

\* process_recv_packet_header: the identifiers a header's acknowledgement
\* fields take out of sent_packets_not_acked.
NewlyAcked(unacked, lastAck, ackBits) ==
    {id \in WireId : /\ unacked[id] # NotTracked
                     /\ \/ id = lastAck
                        \/ \E i \in ackBits : id = Wrap(lastAck - i)}

\* Mutant of Expired: only the nack duration counts.
ExpiredByTimeOnly(unacked, next, cutoff) ==
    {id \in WireId : unacked[id] # NotTracked /\ unacked[id] < cutoff}

\* update: the identifiers given up as lost.  The entries older than the nack
\* duration are those sent before cutoff; the entries too many packets old are
\* dropped as well, before their identifier comes round again.
Expired(unacked, next, cutoff) ==
    {id \in WireId : /\ unacked[id] # NotTracked
                     /\ \/ unacked[id] < cutoff
                        \/ WrappingDiff(next, id) > MaxAge}

\* swap_remove / retain: the map without the identifiers ids.
Without(unacked, ids) ==
    [id \in WireId |-> IF id \in ids THEN NotTracked ELSE unacked[id]]

\* The sequence numbers the identifiers ids stand for.
SeqsOf(unacked, ids) == {unacked[id] : id \in ids}
=============================================================================
