------------------------------ MODULE Transport ------------------------------
(***************************************************************************)
(* The frames of a transport: buffer_send packs what the channels offer    *)
(* into packets and commits it packet by packet; buffer_receive turns the  *)
(* acknowledgements and the losses of packets into acknowledgements and    *)
(* losses of messages.  This is where the packet layer (PacketAck) and the *)
(* channels (ReliableChannel) meet: packet_message_acks says which         *)
(* messages a packet carried.                                              *)
(*                                                                         *)
(* Packets and messages are numbered without wrapping, since PacketAck and *)
(* ReliableChannel treat the wrapping.  One peer sends, the other receives *)
(* and acknowledges.  A packet that was sent may arrive at any later time, *)
(* more than once or never; a link that drops what a failed drain did not  *)
(* reach is the same as a link that loses it.                              *)
(***************************************************************************)
EXTENDS Naturals, Sequences, FiniteSets, FiniteSetsExt

CONSTANTS ChannelsUsed,     \* channels in use: "Reliable", "WithAcks", "Plain"
          Unreadable,       \* those the receiving transport has no receiver for
          RetryUnsent,      \* retry_unsent_messages of the unreliable channels
          Lengths,          \* the numbers of fragments a message may have
          AckWindow,        \* packets below the newest that a header acknowledges
          MaxPerPacket,     \* messages that fit into a packet
          MaxTransported,   \* bound: messages sent
          MaxPackets        \* bound: packets sent

ASSUME TransportAssumption ==
    /\ ChannelsUsed \subseteq {"Reliable", "WithAcks", "Plain"}
    /\ Unreadable \subseteq ChannelsUsed
    /\ RetryUnsent \in BOOLEAN
    /\ Lengths \subseteq Nat \ {0}
    /\ {AckWindow, MaxPerPacket, MaxTransported, MaxPackets} \subseteq Nat

VARIABLES info,             \* the channel and the number of fragments of each message
          queue,            \* unreliable channels: singles and fragments not yet sent
          started,          \* unreliable channels: messages with fragment_started
          unacknowledged,   \* reliable channel: units not acknowledged
          ackTrackers,      \* fragment_acks: the messages with a FragmentAckTracker
          fragAcks,         \* fragment_acks: the fragments they have received
          packets,          \* history: the units of each packet sent
          notAcked,         \* sent_packets_not_acked
          tracked,          \* packet_message_acks, as pairs of packet and unit
          acked,            \* history: how often each message was in message_acks
          nacked,           \* history: how often each message was in message_nacks
          lostPackets,      \* history: the packets a PacketLost was triggered for
          packetsOut,       \* every packet sent, with the units its receiver can read
          headers,          \* the acknowledgements of the header travelling back, if any
          got,              \* receiver: the packets received
          accepted          \* receiver: the units given to their channel

channels == <<info, queue, started, unacknowledged, ackTrackers, fragAcks>>
tracker == <<packets, notAcked, tracked>>
reports == <<acked, nacked, lostPackets>>
link == <<packetsOut, headers>>
peer == <<got, accepted>>
transportVars == <<channels, tracker, reports, link, peer>>

TransportInit ==
    /\ info = <<>>
    /\ queue = {}
    /\ started = {}
    /\ unacknowledged = {}
    /\ ackTrackers = {}
    /\ fragAcks = {}
    /\ packets = <<>>
    /\ notAcked = {}
    /\ tracked = {}
    /\ acked = <<>>
    /\ nacked = <<>>
    /\ lostPackets = {}
    /\ packetsOut = {}
    /\ headers = {}
    /\ got = {}
    /\ accepted = {}

\* A unit <<m, k>> is fragment k of message m; message m is single when it has
\* one fragment.
UnitsOf(m) == {<<m, k>> : k \in 1 .. info[m].count}
ChannelOf(u) == info[u[1]].chan
IsFragment(u) == info[u[1]].count > 1
IsLast(u) == u[2] = info[u[1]].count

\* watches_acks.
Watched(u) == ChannelOf(u) \in {"Reliable", "WithAcks"}

(***************************************************************************)
(* Sending.                                                                *)
(***************************************************************************)

\* send_mut: buffer_send of the channel.
SendMut(c, count) ==
    LET m == Len(info) + 1
        units == {<<m, k>> : k \in 1 .. count}
    IN  /\ m <= MaxTransported
        /\ info' = Append(info, [chan |-> c, count |-> count])
        /\ acked' = Append(acked, 0)
        /\ nacked' = Append(nacked, 0)
        /\ IF c = "Reliable"
           THEN unacknowledged' = unacknowledged \cup units /\ UNCHANGED <<queue, ackTrackers>>
           ELSE /\ queue' = queue \cup units
                /\ ackTrackers' = IF c = "WithAcks" /\ count > 1 THEN ackTrackers \cup {m} ELSE ackTrackers
                /\ UNCHANGED unacknowledged
        /\ UNCHANGED <<started, fragAcks, tracker, lostPackets, link, peer>>

\* What a packet can carry: single messages, or one fragment, which singles may
\* follow when it is the last of its message.
Packable(units) ==
    /\ Cardinality(units) \in 1 .. MaxPerPacket
    /\ \A u, v \in units : IsFragment(u) /\ u # v => IsLast(u) /\ ~IsFragment(v)

\* The packets of a flush: disjoint, at most two of them.
Flushes(eligible) ==
    LET one == {units \in SUBSET eligible : Packable(units)}
    IN  {<<>>} \cup {<<a>> : a \in one}
          \cup {s \in one \X one : s[1] \cap s[2] = {}}

\* Mutant of FinishSend: fragments of a started message are discarded as well.
FinishSendAll(sent, discard) ==
    LET begun == started \cup {u[1] : u \in {v \in sent : IsFragment(v)}}
    IN  /\ started' = begun
        /\ queue' = IF discard THEN {} ELSE queue \ sent
        /\ ackTrackers' = IF discard THEN ackTrackers \ {u[1] : u \in {v \in queue \ sent : v[1] \notin begun}} ELSE ackTrackers
        /\ fragAcks' = {u \in fragAcks : u[1] \in ackTrackers'}

\* Mutant of FinishSend: the trackers of discarded messages stay.
FinishSendLeak(sent, discard) ==
    LET begun == started \cup {u[1] : u \in {v \in sent : IsFragment(v)}}
    IN  /\ started' = begun
        /\ queue' = {u \in queue \ sent : discard => u[1] \in begun}
        /\ UNCHANGED <<ackTrackers, fragAcks>>

\* Mutant of FinishSend: what was sent stays in the queue.
FinishSendKeep(sent, discard) == UNCHANGED <<started, queue, ackTrackers, fragAcks>>

\* commit_send and finish_send of the unreliable channels.
FinishSend(sent, discard) ==
    LET begun == started \cup {u[1] : u \in {v \in sent : IsFragment(v)}}
        dropped == {u \in queue \ sent : discard /\ u[1] \notin begun}
    IN  /\ started' = begun
        /\ queue' = queue \ (sent \cup dropped)
        /\ ackTrackers' = ackTrackers \ {u[1] : u \in {v \in dropped : IsFragment(v) /\ v[2] = 1}}
        /\ fragAcks' = {u \in fragAcks : u[1] \in ackTrackers'}

\* The units of a packet that the receiver can read: none behind one of a channel
\* it does not have.  first tells whether such a one comes first.
Readable(units, first) ==
    LET bad == {u \in units : ChannelOf(u) \in Unreadable}
    IN  IF bad # {} /\ first THEN {} ELSE units \ bad

\* buffer_send: flush is what was staged and admitted of the candidates, until
\* nothing was left or bandwidth or staging ended it.  A channel whose timer has
\* not finished, and a reliable unit that is not due, offer nothing.  discard: an
\* unreliable channel was ready and bandwidth refused a candidate.
BufferSendAll(flush, discard, first) ==
    LET sent == UNION {flush[k] : k \in DOMAIN flush}
        ids == (Len(packets) + 1) .. (Len(packets) + Len(flush))
        new == {[id |-> i, units |-> flush[i - Len(packets)]] : i \in ids}
    IN  /\ discard => ~RetryUnsent /\ sent # queue \cup unacknowledged
        /\ Len(packets) + Len(flush) <= MaxPackets
        /\ packets' = packets \o flush
        /\ notAcked' = notAcked \cup ids
        /\ tracked' = tracked \cup UNION {{<<p.id, u>> : u \in {v \in p.units : Watched(v)}} : p \in new}
        /\ FinishSend(sent \ unacknowledged, discard)
        /\ packetsOut' = packetsOut \cup {[id |-> p.id, units |-> Readable(p.units, first)] : p \in new}
        /\ UNCHANGED <<info, unacknowledged, reports, headers, peer>>

(***************************************************************************)
(* The receiving peer and the link.                                        *)
(***************************************************************************)

\* buffer_receive of the other peer on one packet: the header is processed before
\* the messages are read, so the packet counts as received whatever they are.
Arrive(p) ==
    /\ p \in packetsOut
    /\ got' = got \cup {p.id}
    /\ accepted' = accepted \cup p.units
    /\ UNCHANGED <<channels, tracker, reports, link>>

\* A packet of the other peer: its header acknowledges the newest packets.
SendHeader ==
    /\ got # {}
    /\ headers' = {{i \in got : i + AckWindow >= Max(got)}}
    /\ UNCHANGED <<channels, tracker, reports, packetsOut, peer>>

(***************************************************************************)
(* Acknowledgements and losses.                                            *)
(***************************************************************************)

\* Mutant of Completed: one fragment completes its message.
CompletedByAny(units, trackers) == {u[1] : u \in units}

\* The messages completed by an acknowledgement of units, once losses have been
\* applied to the trackers: receive_ack of each channel.
Completed(units, trackers) ==
    {m \in DOMAIN info :
        CASE info[m].chan = "Reliable" ->
                UnitsOf(m) \cap unacknowledged # {} /\ UnitsOf(m) \cap unacknowledged \subseteq units
          [] info[m].chan = "WithAcks" /\ info[m].count = 1 -> <<m, 1>> \in units
          [] info[m].chan = "WithAcks" /\ info[m].count > 1 ->
                m \in trackers /\ UnitsOf(m) \subseteq fragAcks \cup units
          [] OTHER -> FALSE}

\* Mutant of Discarded: the loss of a fragment leaves the tracker.
DiscardedNone(units) == {}

\* receive_nack: the trackers that can no longer complete.
Discarded(units) == {u[1] : u \in {v \in units : IsFragment(v) /\ ChannelOf(v) = "WithAcks"}}

\* Mutant of Pushed: once, however many units were lost.
PushedOnce(lost, m) == IF \E x \in tracked : x[1] \in lost /\ x[2][1] = m THEN 1 ELSE 0

\* message_nacks of a message when packets are lost: its identifier is pushed once
\* for each of its units that they carried.
Pushed(lost, m) == Cardinality({x \in tracked : x[1] \in lost /\ x[2][1] = m})

\* Mutant of TakeAcks: the entries of lost packets stay.
TakeAcksKeepingLost(newly, lost) ==
    LET lostUnits == {x[2] : x \in {y \in tracked : y[1] \in lost}}
        ackedUnits == {x[2] : x \in {y \in tracked : y[1] \in newly}}
        trackers == ackTrackers \ Discarded(lostUnits)
        done == Completed(ackedUnits, trackers)
    IN  /\ tracked' = {x \in tracked : x[1] \notin newly}
        /\ nacked' = [m \in DOMAIN info |-> nacked[m] + Pushed(lost, m)]
        /\ lostPackets' = lostPackets \cup lost
        /\ acked' = [m \in DOMAIN info |-> IF m \in done THEN acked[m] + 1 ELSE acked[m]]
        /\ unacknowledged' = unacknowledged \ ackedUnits
        /\ ackTrackers' = trackers \ done
        /\ fragAcks' = {u \in fragAcks \cup ackedUnits : u[1] \in ackTrackers'}

\* Mutant of TakeAcks: a lost packet's messages are taken for delivered.
TakeAcksLostToo(newly, lost) ==
    LET ackedUnits == {x[2] : x \in {y \in tracked : y[1] \in newly \cup lost}}
    IN  /\ tracked' = {x \in tracked : x[1] \notin newly \cup lost}
        /\ unacknowledged' = unacknowledged \ ackedUnits
        /\ UNCHANGED <<reports, ackTrackers, fragAcks>>

\* The two drains at the end of buffer_receive: lost packets, then acknowledged
\* ones, each with the messages packet_message_acks has for it.
TakeAcks(newly, lost) ==
    LET lostUnits == {x[2] : x \in {y \in tracked : y[1] \in lost}}
        ackedUnits == {x[2] : x \in {y \in tracked : y[1] \in newly}}
        trackers == ackTrackers \ Discarded(lostUnits)
        done == Completed(ackedUnits, trackers)
    IN  /\ tracked' = {x \in tracked : x[1] \notin newly \cup lost}
        /\ nacked' = [m \in DOMAIN info |-> nacked[m] + Pushed(lost, m)]
        /\ lostPackets' = lostPackets \cup lost
        /\ acked' = [m \in DOMAIN info |-> IF m \in done THEN acked[m] + 1 ELSE acked[m]]
        /\ unacknowledged' = unacknowledged \ ackedUnits
        /\ ackTrackers' = trackers \ done
        /\ fragAcks' = {u \in fragAcks \cup ackedUnits : u[1] \in ackTrackers'}

\* buffer_receive: the headers that have arrived, then the packets whose time is
\* up (header_manager.update), then the messages of both.
BufferReceive(some, lost) ==
    LET newly == notAcked \cap UNION some
    IN  /\ some \subseteq headers
        /\ lost \subseteq notAcked \ newly
        /\ notAcked' = notAcked \ (newly \cup lost)
        /\ headers' = headers \ some
        /\ TakeAcks(newly, lost)
        /\ UNCHANGED <<info, queue, started, packets, packetsOut, peer>>

TransportNext ==
    \/ \E c \in ChannelsUsed, count \in Lengths : SendMut(c, count)
    \/ \E flush \in Flushes(queue \cup unacknowledged), discard \in BOOLEAN,
          first \in (IF Unreadable = {} THEN {FALSE} ELSE BOOLEAN) : BufferSendAll(flush, discard, first)
    \/ \E p \in packetsOut : Arrive(p)
    \/ SendHeader
    \/ \E some \in SUBSET headers, lost \in SUBSET notAcked : BufferReceive(some, lost)

TransportSpec == TransportInit /\ [][TransportNext]_transportVars

\* buffer_receive resolves packet i: it is acknowledged or its time is up.
Resolve(i) ==
    /\ i \in notAcked
    /\ \E some \in SUBSET headers, lost \in SUBSET notAcked : BufferReceive(some, lost)
    /\ i \notin notAcked'

\* buffer_send admits the queued unit u.
Admits(u) ==
    /\ u \in queue
    /\ \E discard \in BOOLEAN, flush \in Flushes(queue) :
          /\ u \in UNION {flush[k] : k \in DOMAIN flush}
          /\ BufferSendAll(flush, discard, FALSE)

\* Both systems run every frame, timeouts are finite and bandwidth is replenished.
TransportFairness ==
    /\ \A i \in 1 .. MaxPackets : WF_transportVars(Resolve(i))
    /\ \A m \in 1 .. MaxTransported, k \in 1 .. Max(Lengths) : WF_transportVars(Admits(<<m, k>>))

TransportFairSpec == TransportSpec /\ TransportFairness

(***************************************************************************)
(* Properties.                                                             *)
(***************************************************************************)

\* packet_message_acks has an entry for exactly the watched messages of the
\* packets that are neither acknowledged nor lost: nothing is forgotten before its
\* packet is resolved, and nothing stays behind.
TrackerExact ==
    tracked = UNION {{<<i, u>> : u \in {v \in packets[i] : Watched(v)}} : i \in notAcked}

\* A message reported as acknowledged was received: every fragment of it was in a
\* packet the other peer got.
AckIsTrue ==
    \A m \in DOMAIN info : acked[m] > 0 =>
        \A u \in UnitsOf(m) : \E i \in got : u \in packets[i]

\* A message is reported as lost once for each lost packet that carried a watched
\* unit of it and each such unit: no loss is missed, told twice or made up.
NackIsTrue ==
    \A m \in DOMAIN info :
        nacked[m] = Cardinality({x \in lostPackets \X UnitsOf(m) : x[2] \in packets[x[1]] /\ Watched(x[2])})

\* A message is reported at most once as acknowledged.  On an unreliable channel
\* with acknowledgements it is never reported both as acknowledged and as lost, and
\* as lost at most once for each of its fragments.
ReportedOnce ==
    \A m \in DOMAIN info :
        /\ acked[m] <= 1
        /\ info[m].chan = "WithAcks" => nacked[m] <= info[m].count /\ (acked[m] > 0 => nacked[m] = 0)

\* Once a fragment of an unreliable message has been sent, no other fragment of it
\* is discarded unsent (ChannelSettings::retry_unsent_messages).
StartedIsFinished ==
    \A m \in DOMAIN info :
        LET sent == {u \in UnitsOf(m) : \E i \in DOMAIN packets : u \in packets[i]}
        IN  info[m].chan # "Reliable" /\ sent # {} => UnitsOf(m) \ sent \subseteq queue

\* A tracker of fragment acknowledgements can still complete or be discarded: some
\* fragment of its message waits to be sent or is in a packet not yet resolved.
NoTrackerLeak ==
    \A m \in ackTrackers : \E u \in UnitsOf(m) : u \in queue \/ \E i \in notAcked : u \in packets[i]

\* The two maps of packets (packet_message_acks, sent_packets_not_acked) and the
\* fragment trackers follow each other through losses, late acknowledgements and
\* flushes that end early.
TrackersFollow == TrackerExact /\ StartedIsFinished /\ NoTrackerLeak

\* What the application is told of a message in message_acks and message_nacks is
\* true: every acknowledgement and every loss, and how often it is told of each.
ReportsAreTrue == AckIsTrue /\ NackIsTrue /\ ReportedOnce

\* The reliable channel drops a unit only when the channel at the other end has it.
ReliableUntilAccepted ==
    \A m \in DOMAIN info : info[m].chan = "Reliable" => UnitsOf(m) \ unacknowledged \subseteq accepted

\* A message with acknowledgements of which something was sent is reported in the
\* end, as acknowledged or as lost, and with it its trackers are gone.
EventuallyReported ==
    \A m \in 1 .. MaxTransported :
        (\E i \in DOMAIN packets : \E u \in packets[i] : u[1] = m)
            ~> (m \in DOMAIN info /\ (acked[m] > 0 \/ nacked[m] > 0) /\ m \notin ackTrackers)
=============================================================================
