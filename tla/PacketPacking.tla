---------------------------- MODULE PacketPacking ----------------------------
(***************************************************************************)
(* One send flush of a transport: the candidates of all channels, in the   *)
(* order that PriorityManager::prioritize gives them, are packed into      *)
(* packets by PacketBuilder::build_next_packet, and each packet is offered *)
(* to the BandwidthLimiter before it enters Link.send.                     *)
(*                                                                         *)
(* A candidate is a fragment or a single message; sizes are serialized     *)
(* bytes.  gain is what compression saves on a single message.             *)
(***************************************************************************)
EXTENDS Naturals, Sequences, FiniteSets, FiniteSetsExt

CONSTANTS Candidate,        \* [frag, last, size, gain, prio, chan] records
          MaxCandidates,    \* bound: candidates of one flush
          HeaderBytes,      \* HEADER_BYTES
          ChannelBytes,     \* serialized ChannelId
          MaxBatch,         \* MAX_MESSAGES_PER_CHANNEL_BATCH: the largest count byte
          Mtu,
          MinPayload,       \* CompressionConfig::min_payload_size
          MaxPayload,       \* CompressionConfig::max_decompressed_payload_size
          Quotas            \* what the rate limiter may have left

ASSUME PackingAssumption ==
    /\ {MaxCandidates, HeaderBytes, ChannelBytes, MaxBatch, Mtu, MinPayload, MaxPayload} \subseteq Nat
    /\ MaxBatch > 0
    /\ Quotas \subseteq Nat
    /\ \A c \in Candidate : /\ {c.size, c.gain, c.prio} \subseteq Nat
                            /\ {c.frag, c.last} \subseteq BOOLEAN

VARIABLES candidates,       \* PriorityManager::candidates
          index,            \* CandidateCursor::index, from 1
          singleIndex,      \* CandidateCursor::single_index, from 1
          packets,          \* the packets that entered Link.send
          quota,            \* bytes the rate limiter still admits
          outcome           \* SendFlushOutcome, or "Open" while the flush runs

packingVars == <<candidates, index, singleIndex, packets, quota, outcome>>

\* Mutant of InOrder: the packing order is applied before the priority.
InOrderByShape(a, b) ==
    \/ a.frag /\ ~b.frag
    \/ a.frag = b.frag /\ a.size <= b.size

\* The sort of prioritize: by effective priority, then fragments before singles,
\* then smaller singles first.
InOrder(a, b) ==
    \/ a.prio > b.prio
    \/ /\ a.prio = b.prio
       /\ \/ a.frag
          \/ ~b.frag /\ a.size <= b.size

PackingInit ==
    /\ candidates \in {s \in UNION {[1 .. n -> Candidate] : n \in 0 .. MaxCandidates} :
                          \A i \in 1 .. (Len(s) - 1) : InOrder(s[i], s[i + 1])}
    /\ index = 1
    /\ singleIndex = 1
    /\ packets = <<>>
    /\ quota \in Quotas
    /\ outcome = "Open"

(***************************************************************************)
(* Batches: consecutive single messages of one channel share a channel     *)
(* identifier and a count byte.                                            *)
(***************************************************************************)

\* Mutant of CountAt: the count byte may overflow.
CountAtUnbounded(from, i) ==
    LET count[j \in from .. Len(candidates)] ==
            IF j > from /\ candidates[j].chan = candidates[j - 1].chan
            THEN count[j - 1] + 1 ELSE 1
    IN  count[i]

\* SingleBatchState::count after single i is appended to a packet whose singles
\* start at from.
CountAt(from, i) ==
    LET count[j \in from .. Len(candidates)] ==
            IF /\ j > from
               /\ candidates[j].chan = candidates[j - 1].chan
               /\ count[j - 1] < MaxBatch
            THEN count[j - 1] + 1 ELSE 1
    IN  count[i]

\* The positions at which a batch is opened.
BatchStarts(from, to) == {i \in from .. to : CountAt(from, i) = 1}

\* A batch starts with its channel identifier and a count byte.
BatchBytes == ChannelBytes + 1

\* Serialized size of the batches that hold the singles from .. to.
SinglesSize(from, to) ==
    LET size(i) == candidates[i].size
    IN  MapThenSumSet(size, from .. to) + BatchBytes * Cardinality(BatchStarts(from, to))

Gain(from, to) == LET gain(i) == candidates[i].gain IN MapThenSumSet(gain, from .. to)

\* evaluate_packet_compression of a packet without a fragment.
Compresses(size, gain) ==
    /\ size - HeaderBytes >= MinPayload
    /\ size - HeaderBytes <= MaxPayload
    /\ gain > 0
    /\ size - gain <= Mtu

\* Mutant of Fits: the size of the batch headers is forgotten.
FitsWithoutBatches(base, from, to, compress) ==
    LET size == base + SinglesSize(from, to) - BatchBytes * Cardinality(BatchStarts(from, to))
    IN  size <= Mtu \/ (compress /\ Compresses(size, Gain(from, to)))

\* try_append_single_candidate: the packet with base bytes holds the singles
\* from .. to.
Fits(base, from, to, compress) ==
    LET size == base + SinglesSize(from, to)
    IN  size <= Mtu \/ (compress /\ Compresses(size, Gain(from, to)))

\* The position of the last single that the appending loop takes, starting at
\* from: it stops at the first one that is not eligible or does not fit.
LastTaken(base, from, compress, eligible) ==
    Max({from - 1} \cup
        {to \in from .. Len(candidates) :
            \A i \in from .. to : i \in eligible /\ Fits(base, from, i, compress)})

Bytes(base, from, to, compress) ==
    LET size == base + SinglesSize(from, to)
    IN  IF compress /\ Compresses(size, Gain(from, to)) THEN size - Gain(from, to) ELSE size

\* A packet as the receiver reads it: a fragment or 0, then batches of singles.
\* from .. to are the candidates meant by them.
Packet(frag, from, to, base, compress) ==
    [frag |-> frag, from |-> from, to |-> to, bytes |-> Bytes(base, from, to, compress),
     batches |-> [i \in BatchStarts(from, to) |->
                    [chan |-> candidates[i].chan,
                     count |-> Max({CountAt(from, j) : j \in {k \in i .. to :
                                        \A b \in BatchStarts(from, to) : ~(b > i /\ b <= k)}})]]]

(***************************************************************************)
(* build_next_packet.                                                      *)
(***************************************************************************)

\* Mutant of Start: singles that travelled with a final fragment are not skipped.
StartNoSkip == index

\* The next candidate: singles that a final fragment's packet has taken are skipped.
Start == Min({i \in index .. (Len(candidates) + 1) :
                 i > Len(candidates) \/ i >= singleIndex \/ candidates[i].frag})

\* A fragment, and behind a message's last fragment the singles of its priority.
FragmentPacket(i) ==
    LET base == HeaderBytes + ChannelBytes + candidates[i].size
        same == {j \in DOMAIN candidates : ~candidates[j].frag /\ candidates[j].prio = candidates[i].prio}
        from == Min({j \in Max({singleIndex, i + 1}) .. (Len(candidates) + 1) :
                       \/ j > Len(candidates)
                       \/ ~candidates[j].frag
                       \/ candidates[j].prio # candidates[i].prio})
        to == IF candidates[i].last THEN LastTaken(base, from, FALSE, same) ELSE from - 1
    IN  [packet |-> Packet(i, from, to, base, FALSE),
         index |-> i + 1,
         singleIndex |-> IF candidates[i].last THEN to + 1 ELSE singleIndex,
         ok |-> base <= Mtu]

\* As many single messages as fit.
DataPacket(i) ==
    LET single == {j \in DOMAIN candidates : ~candidates[j].frag}
        to == LastTaken(HeaderBytes, i, TRUE, single)
    IN  [packet |-> Packet(0, i, to, HeaderBytes, TRUE),
         index |-> to + 1,
         singleIndex |-> Max({singleIndex, to + 1}),
         ok |-> to >= i]

BuildNext == IF candidates[Start].frag THEN FragmentPacket(Start) ELSE DataPacket(Start)

(***************************************************************************)
(* The loop of buffer_send.                                                *)
(***************************************************************************)

HasNext == outcome = "Open" /\ Start <= Len(candidates)

\* The packet enters Link.send.
Admit ==
    /\ HasNext
    /\ BuildNext.ok
    /\ BuildNext.packet.bytes <= quota
    /\ packets' = Append(packets, BuildNext.packet)
    /\ quota' = quota - BuildNext.packet.bytes
    /\ index' = BuildNext.index
    /\ singleIndex' = BuildNext.singleIndex
    /\ UNCHANGED <<candidates, outcome>>

\* consume_packet_quota refuses the packet, and the flush stops.
Refuse ==
    /\ HasNext
    /\ BuildNext.ok
    /\ BuildNext.packet.bytes > quota
    /\ outcome' = "BandwidthLimited"
    /\ UNCHANGED <<candidates, index, singleIndex, packets, quota>>

\* PacketTooLarge: a candidate alone exceeds the MTU, which may have shrunk since
\* the message was fragmented.
Fail ==
    /\ HasNext
    /\ ~BuildNext.ok
    /\ outcome' = "StagingFailed"
    /\ UNCHANGED <<candidates, index, singleIndex, packets, quota>>

Finish ==
    /\ outcome = "Open"
    /\ Start > Len(candidates)
    /\ outcome' = "Complete"
    /\ UNCHANGED <<candidates, index, singleIndex, packets, quota>>

PackingNext == Admit \/ Refuse \/ Fail \/ Finish

PackingSpec == PackingInit /\ [][PackingNext]_packingVars

(***************************************************************************)
(* Properties.                                                             *)
(***************************************************************************)

\* The candidates that a packet carries.
Carried(p) == (p.from .. p.to) \cup (IF p.frag = 0 THEN {} ELSE {p.frag})

Sent == UNION {Carried(packets[k]) : k \in DOMAIN packets}

\* The two cursors of the packet builder never put a candidate into two packets,
\* and a flush that ends normally has left none out.
EachCandidateOnce ==
    /\ \A j, k \in DOMAIN packets : j # k => Carried(packets[j]) \cap Carried(packets[k]) = {}
    /\ outcome = "Complete" => Sent = DOMAIN candidates

\* No packet is larger than the link's MTU, batch headers and compression included.
WithinMtu == \A k \in DOMAIN packets : packets[k].bytes <= Mtu

\* What bandwidth leaves behind is not more urgent than anything that was sent
\* (the comment on BandwidthLimited in buffer_send).
MostUrgentFirst ==
    \A i \in Sent, j \in DOMAIN candidates \ Sent : candidates[i].prio >= candidates[j].prio

\* The count bytes delimit the batches as the receiver reads them: each message
\* is handed to the channel it was sent on.
BatchesReadBack ==
    \A k \in DOMAIN packets :
        LET p == packets[k]
        IN  \A b \in DOMAIN p.batches :
               LET next == b + (p.batches[b].count % (MaxBatch + 1))
               IN  /\ next \in DOMAIN p.batches \cup {p.to + 1}
                   /\ next > b
                   /\ \A i \in b .. (next - 1) : candidates[i].chan = p.batches[b].chan

\* A flush (PriorityManager, PacketBuilder): whatever mixture of fragments and single
\* messages is offered, each travels once, the most urgent first, in packets that fit
\* and that the receiver reads channel by channel.
PackedFaithfully == EachCandidateOnce /\ WithinMtu /\ MostUrgentFirst /\ BatchesReadBack
=============================================================================
