# A TLA+ verification of lightyear

lightyear is a Rust library for networked games in the bevy engine. This
directory holds TLA+ models of its core protocols, the TLC configurations that
check them on small instances, and theorems about them with proofs checked by
TLAPS. `PROJECT.json` lists components, runs, mutants, the map from definitions
to source lines, hazards, findings and theorems.

Everything from the packets up to inputs, prediction, interpolation and the
deterministic session is modelled where it keeps state of its own; section 6 says
what is not, and why.

## 1. The system

### Layers and how they interact

    application / ECS world
      inputs          InputBuffer, Inputs
      prediction      Prediction, RollbackSpawns, Histories
      interpolation   Interpolation, Histories
      deterministic   PredictionWindow, Checksum, LateJoin
      (replication: bevy_replicon, third-party)
      messages        Messages, NetworkTarget
      time            TimeSync
    ------------------------------------------------------------
      transport       WrappingId, PacketHeader, PacketAck, ReliableChannel,
                      UnreliableChannel, PacketPacking, Transport
      connection      Netcode, ReplayProtection, P2PSession
      link, io        the networks of the models

Everything runs as bevy systems, once per frame, in a fixed order: io receive,
connection receive, transport receive, message receive, rollback and fixed ticks,
application, message send, transport send, connection send, io send. Inside one
process there is hardly any true parallelism on the state modelled here; what is
hard comes from the **network between the processes** (loss, duplication, delay,
reordering), from **state that two layers keep about one thing** (the packet table
and the per-packet message table; the netcode cache, the ECS markers and the peer
map; the lists of prespawned entities and the entities), from **identifiers that come
round again** and **histories that leave out what did not change**, from **errors in
the middle of a frame**, and from **peers that wait for each other**. For that reason
most actions here are whole frames or whole handlers, and the network is what
interleaves.

### Components

| Component | State it keeps | Operations | What makes it correct |
|---|---|---|---|
| Wrapping identifiers (`core/utils/src/wrapping_id.rs`) | none | difference, order, successor | the order is that of the sequence numbers while they are less than half a cycle apart |
| Packet acknowledgement (`transport/src/packet/header.rs`) | `next_packet_id`, `sent_packets_not_acked`, `ReceiveBuffer`, `ack_pending` | prepare a header, send ACK-only, process a header, expire in `update` | an acknowledged packet was received; the table never loses an entry to a reused identifier; the bit field is exact |
| Reliable channels (`transport/src/channel/send_reliable.rs`, `receive.rs`, `fragments/`) | `unacked_messages`, `next_message_id`, pending/received/ready/newest on the receiver, partial messages | `buffer_send`, collecting what is due, `receive_ack`, `buffer_recv`, `read_message` | each mode delivers what its documentation promises; nothing is forgotten before it was accepted; everything is delivered and released in the end |
| Unreliable channels (`channel/send.rs`, `receive.rs`) | queue, partial messages with time stamps, `newest_seen`, `newest_completed` | `buffer_send`, expiry, `buffer_recv`, `read_message` | no message is put together from two; a sequenced channel never goes back |
| Packing and priority (`packet/packet_builder.rs`, `priority_manager.rs`) | candidates and cursor of one flush, quota | build the next packet, admit, refuse, fail | every candidate at most once, every packet within the MTU, the most urgent first, batches decode to what was put in |
| Transport frames (`transport/src/plugin.rs`) | `packet_message_acks`, `fragment_acks`, `message_acks`, `message_nacks` | `buffer_send`, `buffer_receive` | the two packet tables agree; a message is acknowledged at most once and truthfully, and reported lost once for each watched part in each lost packet; a started message is finished |
| Netcode (`connection/netcode`, parts of `connection/connection`, `io/udp`) | client state machine and token; `ConnectionCache`, send queue; link entities with markers; peer map | connect, disconnect, client frame, server frame, kick | the limit on clients holds; cache, markers and peer map agree; a connected client was accepted |
| Replay protection (`netcode/src/replay.rs`, `packet.rs`) | ring of 256 sequence numbers | read, advance | no packet is read twice, none inside the window is refused unread |
| P2P session barrier (`connection/p2p/src/session.rs`) | generation, cohort, proposals, acknowledgements, start tick, phase | begin, a frame that drives the session, stop, fail | whoever starts does so at one tick, and everybody had acknowledged that tick |
| Messages and targets (`transport/messages`, `connection/src/network_target.rs`) | writer and queue of a type, ready and waiting messages, resolver scratch sets | send a frame, receive a frame, end of a connection, combine and resolve targets | messages reach the application in time, in order, in their own connection, at exactly their target |
| Time synchronisation (`core/sync`) | ping store, samples, sync state, error count | send ping, answer, process pong, pace or resync, reset | a round trip is measured with its own ping; the clock is paced on errors that agree |
| Inputs (`inputs/`) | input buffers with `SameAsPrecedent` entries, `last_remote_tick`, mismatch | capture, send, merge a message, predict, replay, clean up | a tick is simulated with the input that was given for it once it arrived |
| Prediction and rollback (`replication/prediction`, `core/core` histories) | predicted and confirmed histories, pending mismatches, rollback state | write history, check, restore, replay | what was checked agrees with the server |
| Local spawns (`prespawn.rs`, `despawn.rs`, `rollback.rs`) | unmatched and matched lists, despawn and skip lists | spawn, match, disable, reclaim, roll back, shift | what the simulation wants exists once |
| Interpolation (`replication/interpolation`, `diff_history.rs`) | confirmed history, diff receiver | write, complete, drain, show | what is shown is what the server had |
| Prediction window (`deterministic/.../prediction_window.rs`, `timeline/input.rs`) | wait flag, origin tick, frontier | frame, receive | never further ahead than a rollback repairs; never all waiting |
| Checksums (`deterministic/.../checksum.rs`) | samples by tick, local and per peer | record local, record remote, clean | two samples that meet are compared once, and differ only if the simulations do |
| Late join (`deterministic/.../late_join`) | requests, snapshots, gates, suppression of checksums | request, answer, receive, activate, give up | a client that joined simulates on the snapshot it asked for |
| Link, other io, serialization, physics, tools, metrics, UI, web | - | - | outside the models |

`PROJECT.json` "components" names the sources and the status of each.

### Behaviours that are hard to test

The full list, with lines, is `PROJECT.json` "hazards". The groups:

* *wrap-around*: packet, message and ping identifiers are u16; the header of a peer
  that has received nothing acknowledges `u16::MAX`; fragments of an abandoned
  message wait for the message that reuses its identifier; a ping's slot is used again
  after 128 pings;
* *two tables for one thing*: `sent_packets_not_acked` and `packet_message_acks`;
  the netcode cache and the markers; prespawned entities and their lists; both are
  changed in different places;
* *late answers*: an acknowledgement after the packet was declared lost, a
  challenge or keep-alive of an earlier attempt, a Ready message of an earlier
  generation, an input older than the last one, a snapshot asked for twice;
* *compressed histories*: `SameAsPrecedent` entries and diffs mean something only
  together with an entry that may be late, dropped or drained;
* *errors half way*: a payload that cannot be read after its header was
  acknowledged; a message that fails to serialize; bandwidth that ends between two
  fragments;
* *everyone waits for everyone*: the start barrier and the prediction window;
* *eventually*: resending, fragment trackers, acknowledgement reports.

## 2. Modules

    WrappingId ------- PacketHeader -- PacketAck      (CommonLemmas, PacketProofs)
        |
        +---- ReliableChannel -- INSTANCE MessageDelivery
        +---- UnreliableChannel                       (both: ChannelProofs)
    Transport                                         (ChannelProofs)
    PacketPacking                                     (PacketProofs)
    Netcode            ReplayProtection               (both: NetcodeProofs)
    P2PSession         Messages      NetworkTarget    (all three: SessionProofs)
    TimeSync                                          (PacketProofs)
    InputBuffer ------ Inputs                         (SimulationProofs)
    Histories -------- Prediction, Interpolation      (PredictionProofs, WorldProofs)
    RollbackSpawns                                    (SimulationProofs)
    PredictionWindow - Checksum, LateJoin             (all three: WorldProofs)

A module `MC...` instantiates one or several of them for TLC. Those that hold several
(`MCPackets`, `MCTransport`, `MCSession`, `MCSimulation`, `MCWorld`,
`MCLive`) have a variable `part`: a behaviour belongs to one part, and only that part's
state changes. The parts share no state; they are run together because they
answer questions about one layer. `CommonLemmas` has no state: it holds the lemmas about
loops, about least numbers, about what is left of a sequence and about wrapping
identifiers that the proof modules share.

**WrappingId** - `wrapping_id.rs`. `IdModulus` stands for 65536; `WrappingDiff`
is the signed difference, `IdLess` the order, `NextId` the successor.

**PacketHeader** - the functions of `header.rs` on one peer's values: what
`recv_packet` makes of the last identifier and of the bit field
(`RecvLast`, `RecvBits`), what a header announces (`HeaderLastAck`), which
entries it acknowledges (`NewlyAcked`) and which ones `update` expires (`Expired`).
A bit field is the set of the distances whose bit is set.

**PacketAck** - two peers that exchange headers. `SendData`, `SendAckOnly`,
`Deliver` (with or without consuming the packet: duplication), `Lose`, `Update`.
`link` holds headers in any order. The history variables `sent`, `lastSeq`, `got`
number packets without wrapping, so that properties can speak of packets and not
of identifiers. `Fresh` is the assumption on the link: a packet is not delivered
more than `MaxLag` packets late, and the receiver is less than half a cycle away.

**MessageDelivery** - the abstract specification of a reliable channel: messages
are sent and delivered, and each mode says which may be delivered next.

**ReliableChannel** - the sender and receiver of one reliable channel in any of
the three modes (`channel` is chosen in Init and never changes). `BufferSend`
fragments and numbers a message; `Transmit(u)` is the collection of a unit that
is new or whose resend delay has passed; `Deliver(u)` and `BufferRecv` are
`buffer_recv` with reassembly; `ReadMessage` drains as the receive system does;
`ReceiveAck(u)` releases. `ReliableChannel` implements `MessageDelivery`.

**UnreliableChannel** - both unreliable modes with time in frames:
`FragmentReceiver::cleanup` is the only thing that removes an incomplete message.

**PacketPacking** - one flush. `Start`, `FragmentPacket`, `DataPacket` are
`CandidateCursor` and `build_next_packet`; `CountAt` and `BatchStarts` are the
one-byte count of messages of a channel; `Fits` is the size decision with and
without compression. `Admit`, `Refuse`, `Fail`, `Finish` are the outcomes.
A cursor packet and its size are computed by quantifiers over index ranges instead
of the byte loop of the code.

**Transport** - whole frames of `plugin.rs`. `BufferSendAll` plans and commits
packet by packet, then discards or keeps what was not sent; `BufferReceive` first
turns acknowledged packets and then lost ones into reports. `Arrive` is the other
peer's `buffer_receive`, with the error that ends the drain in the middle.
Identifiers do not wrap here, which PacketAck and the channels justify.

**Netcode** - clients and one server over a network that keeps every packet ever
sent and lets a frame read any few of them in any order. `ClientFrame` and
`ServerFrame` are the systems of one frame in the order the plugins run them:
receive, timeouts, callbacks into markers, draining, sending. `Kick` is the
`Disconnecting`/despawn path of the connection crate. Encryption is assumed to
work: a packet is only opened under the token it was made with.

**ReplayProtection** - the ring of `replay.rs` as `Packet::read` uses it.

**P2PSession** - `session.rs`. `SessionFrame(p, ...)` is a whole frame of a peer:
the messages of the frame are merged (`SessionBody`), `drive_session` proposes,
agrees, acknowledges, times out or fails, and before each of the frame's fixed ticks
`start_session_before_agreed_tick` starts the session at the agreed boundary or fails
when it was passed. `Begin`, `Stop`, `Restart` (the application starts again and counts its
generations from the beginning), links that go down, Links taken out of the session
and timelines that jump are actions; a fault budget bounds them.

**Messages** - the life of messages of one type: `SendMessage` queues, `SendFrame`
serializes what is queued one after the other (`SendOne`, the loop `SendAll`; a message may
fail half way), `ReceiveFrame` reads the channel, releases what the delivery timeline has
reached, in an order that keeps the ticks in order (`Released`), lets the application read
or not, and clears. `EndConnection` is `handle_disconnection`.

**NetworkTarget** - the six forms of a target (`Rewrite` combines two of them in
place, with the code's short and long list paths) next to the set it should stand
for, and the resolver whose scratch sets are used again for every message.

**TimeSync** - pings, pongs, store, samples, readiness and the decisions of the
controller over several sessions. The size of an error and of a correction is
abstracted to its side and whether it is within the margin.

**InputBuffer, Inputs** - the run-length buffer and the merging of a message into it
as operators; a player's inputs on their way to a server or to another client that
predicts and replays. `role` says which receiver the behaviour is about, and
`Overtaking` names the receivers whose messages may overtake each other on the way.

**Histories, Prediction** - the two histories as operators; state rollback of several
entities: receiving, the check at receive time and at a completed tick, the decision
with its limit, restoring, replaying, and a rollback caused by inputs. Two history
variables say what the code does not look at: `unlooked`, the updates that arrived behind a
pending mismatch or whose mismatch a refused rollback forgot, and `untrue`, the entities whose
confirmed history was wrong for a while (finding 5).

**RollbackSpawns** - what the simulation of one client spawns: `plan` says what each
step spawns and despawns, and changes with a rollback. `StepFrame` is a frame with a
fixed tick, `RollbackFrame` one with `check_rollback` and replay before it, `SpawnOnce`,
`Match` and `TimelineShift` come from outside. `expired` remembers which prespawned entities
nobody matched in time: what the plan spawned is there, unless it is one of these.

**Interpolation** - one interpolated component replicated by value or by diffs: a value
is the number of diffs applied. `WriteHistory`, `CompleteTick` and `InterpFrame`
(draining and showing) are the client, `ServerSend` and `AckMutation` stand for
bevy_replicon. A message that is lost is one that `WriteHistory` never reads.

**PredictionWindow** - peers that simulate ahead of each other's inputs and stop their
virtual time at the window. `Frame(p, n)` runs n fixed ticks, sends the redundant inputs
and takes the wait decision for the next frame.

**Checksum** - extends PredictionWindow with what the players did, what each tick was
simulated with, the replay of contradicted ticks, and the samples by which peers compare
each other's state. A state is the sequence of inputs that led to it, so two checksums are
equal exactly when the simulations are. `SumNext` steps are `WindowNext` steps or leave
the window alone.

**LateJoin** - client and server side of catch-up, with requests, snapshot events and
replicated state that overtake each other.

Definitions named as a mutant in a comment are wrong on purpose: variants of the
definition below them that a plausible bug would give. `PROJECT.json` "mutants"
says which property each one violates. Nothing else refers to them.

## 3. Runs

Run each with `tlc -config <cfg> <module>`. A property that is a conjunction stands
for its named parts, each of which has its own comment in its module.

| Run | Part: properties | Shows |
|---|---|---|
| `packets` (`MCPackets`) | ack: `TypeOK` `AckedWasReceived` `NoOverwrite` `BufferExact`; packing: `PackedFaithfully` (each candidate once, within the MTU, most urgent first, batches read back); ping: `SamplesAreTrue` (a sample is of its own ping, synchronised only on samples of the session) `ClockSteps` (samples advance, paced on agreement) | acknowledgements and round trips are truthful across wrap-around, loss, duplication and reordering; packing is complete and ordered |
| `transport` (`MCTransport`) | reliable: `Intact` `BooksAgree` `PromisedSafety`; unreliable: `WholeAndNewer`; transport: `TrackersFollow` `ReportsAreTrue` `ReliableUntilAccepted` | the three reliable modes implement `MessageDelivery` step by step; no message is a mixture; acknowledgements and losses are reported as often as they happened, and only then |
| `session` (`MCSession`) | netcode: `CapacityRespected` `TablesAgree` `ConnectedIsAccepted`; replay: `NoReplay` `FreshAccepted`; p2p: `OneStartTick` `StartedIsBacked` `AgreedBarrierHolds`; targets: `TargetsExact` | overlapping handshakes, timeouts, reconnects and kicks keep cache, markers and peer map together; peers that start do so at one acknowledged tick whatever goes wrong around it; a message goes to its target |
| `simulation` (`MCSimulation`) | inputs: `InputsAreTrue`; prediction: `Reconciled`; spawns: `SpawnsSound`; window: `WindowRespected` `NoInputGap` `FrontierAdvances` | a simulation that runs ahead ends up with the true inputs, the server's state and each entity once, and never gets further ahead than it can repair |
| `world` (`MCWorld`) | join: `CatchUpIsHonest`; interpolation: `HistorySound` `ShownNeverGoesBack`; checksum: `ChecksumsAgree`; messages: `DeliveredAsSent` `OnlyTheFailingIsLost` | late joiners simulate on the snapshot they asked for; what is shown is what the server had; peers never report each other falsely; messages arrive in time, in order, in their own connection |
| `live` (`MCLive`) | `EventuallyDelivered` `EventuallyReleased` `EventuallyReported` `SessionsAdvance` `AttemptEnds` | what must happen in the end |
| `sequenced_fragment_reuse` | `Intact` is **violated** | finding 1 |
| `transport_unreadable` | `ReliableUntilAccepted` is **violated** | finding 2 |
| `netcode_pending_left` | `PendingIsLive` is **violated** | finding 3 |
| `message_residue` | `OneMessagePerPayload` is **violated** | finding 4 |
| `confirmed_history` | `ConfirmedExact` is **violated** | finding 5 |
| `inputs_overtaken` | `AppliedIsTrue` is **violated** | finding 6 |

### Bounds, and why they are enough

* ack: `IdModulus` 6 and 7 packets from one side, so the first identifier is used
  twice and every comparison is made across the wrap; one bit of history, so packets
  fall in, at and below the window; the other side sends two headers, enough for an
  acknowledgement that is overtaken. The theorems remove all these bounds.
* packing: four candidates of two single sizes and one fragment size, last or not
  last, two channels, two priorities, a batch limit of two, MTU 8: every packet boundary
  (fragment first, single behind the last fragment, too large, batch limit, compressed
  only when it gains) occurs.
* ping: two slots, four identifiers, five pings, two sessions: a slot is used twice, an
  identifier wraps, the second session meets the pongs of the first. The theorems remove
  the bounds.
* reliable: 6 identifiers with 7 single messages or 5 messages of one or
  two fragments, at most 2 outstanding (`MaxOutstanding`) and units that travel
  while at most 3 messages are sent (`MaxLifetime`), so units and acknowledgements
  arrive again after their message was delivered and released, and identifiers come
  round. **The sender of the code has no such window.** Identifiers are unambiguous
  while fewer than half a cycle of messages is outstanding, 32768 in the code; with
  `MaxOutstanding` 4 of 6 TLC refutes `NothingForgotten` within a few thousand states
  (the hazard at `send_reliable.rs:129`). Half a cycle is also what the theorems of section 4
  need, so the bound is tight.
* unreliable: 6 identifiers, 8 frames and one message per frame, at most 3 messages
  waiting to be read; a unit arrives any number of times in its frame and the next, or never: every
  identifier is reused after the time at which `cleanup` must have removed the old
  fragments. The instance satisfies `UnreliableWindow`, the assumption of the theorem.
* transport: two messages on any of the three kinds of channel and three packets;
  a fragmented message can be split over two of them and a third acknowledges or
  outlives both. Acknowledgements reach one packet below the newest. Both fragments of a
  message may be lost, in one packet or in two, and a reliable message is lost again each
  time it is resent, so `message_nacks` names a message several times.
* netcode: a limit of one client and two clients, the first with two tokens for the
  same user, two of the three tokens in use; two packets per frame; two link entities.
  replay: ring of 3 and 8 sequence numbers; the theorems remove both.
* p2p: two peers that try twice and may stop; two peers with one fault of any kind and frames of
  up to two ticks; three peers, one of which may be taken out. Two attempts are needed for
  messages of an earlier one, three peers for a maximum that two of them learn in different
  orders: one tick with a peer taken out, two without.
* messages: four messages over two channels, two ticks, two connections: a message
  waits over the end of its connection. targets: three peers and one stray entity,
  lists of up to two with one stored inline, any number of combinations.
* inputs: four ticks, two actions, redundancy 3, buffers of depth 2, two messages
  under way. Messages to another client overtake each other; those to the server may be lost but keep
  their order, without which the server's half is false (finding 6, `inputs_overtaken`: three
  messages under way). prediction: two entities, two values, two server ticks in any
  order, rollbacks of depth 2 and a client that gets up to four ticks ahead; `MaxEffort` 6
  bounds its ticks, its own acts (which count twice) and the server's changes together.
  A rollback to a tick two before the present, a refused one that forgets a second
  mismatch, a tick found wrong after it was processed, an input rollback that rewrites the tick
  just checked and a late older update all occur. spawns: four
  steps and three spawns or despawns of the plan, every mixture of kinds the settings
  name, shifts by one tick. window: a window of one tick, redundancy 3, five ticks.
* join: two clients, two joins in all (both, or one twice), three ticks; each join may ask twice
  (`MaxRequests`), so that answers to both requests are under way; a third request panics.
  A request is repeated while no other connected client waits for an answer (`OneRepeats`).
  interpolation: four ticks, by value and by diffs. checksum: three ticks, a window
  of one tick, a delay of one tick, three messages under way, samples cleaned at once
  (`ChecksumTicks` 0, the sharpest case for comparing late samples).

`CHECK_DEADLOCK FALSE` stands where a bounded instance ends: all messages sent and
nothing under way. Bounds (`MaxWire`, `MaxSent`, `MaxFrames`, ...) are named constants.

### Fairness

* reliable: weak fairness of `ReadMessage` and of `Transmit(u)`, because both
  systems run every frame and, with a resend delay that is not zero, a
  due unit is collected (`send_reliable.rs:147`); strong fairness of `Deliver(u)` and
  `ReceiveAck(u)`, because a link that loses some packets but not all of a kind for
  ever delivers what is sent infinitely often. The resend delay must not be zero:
  the default is a multiple of the round trip time, and while that is zero the code
  does not resend (`builder.rs:604`).
* transport: weak fairness of `Resolve(i)` for each packet, because
  `update` runs every frame and every packet is acknowledged or reaches the age at
  which it is lost; weak fairness of `Admits(u)`, because bandwidth is replenished. It
  says nothing about a bandwidth limit smaller than one packet.
* window: weak fairness of a peer's frames with and without a tick (frames go on, and
  virtual time that is not stopped fills a tick sooner or later); strong fairness of
  receiving a peer's inputs, since the same message is sent again every frame.
* barrier: weak fairness of frames that run a fixed tick. Messages need none: an
  attempt whose messages are lost or late ends by its timeout.

## 4. What is proved

TLAPS proves these for all values of the constants that satisfy the named
assumptions (`tlapm <module>.tla`).

**CommonLemmas.** `WrappingDiffExact`: for every even modulus, if x and y are at
most `MaxDiff` (half a cycle less one) apart, the signed difference of their
identifiers is x - y. It rests on lemmas on `%` (`ModUnique`, `WrapInjective`,
`WrapSub`).

**PacketProofs**, packet acknowledgement. `TypeCorrect`, `AckedWasReceivedAlways`, `NoOverwriteAlways`,
`BufferExactAlways`. The inductive invariant `Inductive` has six parts. That an
acknowledged packet was received is not inductive: it needs that a header told the
truth when it was made and still does (`HeadersAreTrue`), that every identifier stands
for one sequence number (`IdsStandForSeqs`), and that a table entry is so young that
its identifier has not come round (`EntriesAreRecent`); `BufferExact` says that the bit
field is the truth of the receiver, and `ReceivedWasSent` bounds it. The assumptions:
`LinkAssumption` - a packet's identifier does not come round while an acknowledgement
of it travels (`MaxLag + AckBits <= IdModulus`), and fewer than a bounded number of
packets are sent between two calls of `update`
(`MaxAge + MaxBurst <= MaxDiff`, in the code about 10900 + burst <= 32767);
`PeerAssumption` - there are two peers.

**ChannelProofs.** Reliable channels, under `ChannelWindow`: at most half a cycle of
messages is outstanding and no packet outlives half a cycle; and, on a sequenced channel,
no message has fragments or the identifiers do not come round, which is exactly what
finding 1 (`sequenced_fragment_reuse`) needs to go wrong. `IntactAlways`,
`BooksAgreeAlways`, and `PromisedSafetyAlways`: every behaviour of `ReliableChannel` is one of
`MessageDelivery` under the mapping that the runs use. None of the three is inductive: what
an identifier means depends on where the receiver is. `ChannelInv` says that there is a
position x, the number its pending identifier stands for (`At`), such that every identifier
in flight is within half a cycle of what is compared with it, that acknowledged units are in
the receiver's hands or superseded (`HeldAt`), and that what is at x or above and not there
is still with the sender (`KeptAt`). The refinement then goes action by action: `ReadMessage`
is a delivery that the mode permits, `BufferSend` a send, everything else a stutter
(`PromisedStep`).
`WholeAndNewerAlways` of unreliable channels, under `UnreliableWindow`: time bounds age, the
rate of messages turns age into a distance of numbers (`UnreliableInv`: `NothingStale`), and
numbers that are close are told apart by their identifiers.

**ChannelProofs**, transport. `TrackersFollowAlways`, `ReportsAreTrueAlways` for any channels, lengths,
losses and acknowledgements, `ReliableUntilAcceptedAlways` where every payload can be
read (`Unreadable = {}`; with one that cannot, finding 2 is the counterexample). In
`TransportInv`, a unit of an unreliable channel is in one packet (`SentOnce`), a message
is queued, sent or discarded as a whole (`Together`), a tracker has seen every settled unit of
its message acknowledged (`TrackersKnow`), and of what is reported nothing more is heard
(`ReportIsFinal`): without the last two, an acknowledgement could come once more.
`message_nacks` is counted: a packet is lost at most once, and what it carried of a message
(`Pushed`) is what is added to the units of that message in lost packets (`LossesGrow`), so the
count stays exact (`NackIsTrue`); a unit of an unreliable channel is in one packet, so it is
counted once (`ReportedOnce`).

**NetcodeProofs.** `CapacityRespectedAlways`, for any ids, tokens and limits, without a
hypothesis. `TablesAgreeAlways` where no two clients share an id (`OneUserEach`; the
observation at `server.rs:152` below is what happens otherwise).
`ConnectedIsAcceptedAlways` where, besides, no token is used for two attempts (`~
ReuseTokens`; see the observations). A frame reads any number of packets, one after the
other, and the tables disagree in the middle of it: `Sound` says how much. A live link
has one owner (`LinksOwned`), the id map leads from it to the connection of that user
(`LinksKnown`), a marker or a callback is about a connection over its link unless the link
is about to be despawned (`MarksKnown`, `CallbacksKnown`, `ConnectedKnown`), and what is read
came over the link of its sender (`InboxKnown`). Every packet keeps `Sound`, draining the
callbacks turns it into `TablesAgree`. `Trusted` follows tokens: a keep-alive, queued or on
the wire, is for a token that was accepted. That a loop keeps what its body keeps is
proved once, in `CommonLemmas`, for the recursive functions of the models (`RunExists`,
`RunStays`), as a statement on sets of states: the least number of steps for which no run
exists is not zero and has a predecessor.
`NoReplayAlways` and `FreshAcceptedAlways` of ReplayProtection, for every ring size, from
`ReplayTypeOK`, `RingExact` (a slot holds the newest sequence number read of its residue) and
`NoReplay`. Two numbers of one residue less than `Size` apart are equal
(`SameSlot`), which is why the ring has no false positives.

**WorldProofs.** `WindowHolds` (`SingleTickFrames => (WindowSpec =>
[]WindowRespected)`), `ConfirmedInputsAreHeld` (also `EnoughRedundancy`, for
`NoInputGap`) and `FrontierAdvancesAlways`, for any number of peers, window, delay and length of
session. The first two are not inductive: the frontier is a minimum over peers, so the
invariant `WindowInv` bounds each *pair* (`PairBound`), relative to the last input received or,
before the first message, to the origin; two such bounds, one in each direction, limit how far
a message can be past what its receiver has. The result names the redundancy that the code
needs: at least 2 (window + delay) and 2 window + delay + 1 ticks.
`ChecksumsAgreeAlways` under `DelayedWindow` (the two conditions above and an input delay
of at least one tick: with delay 0 it is false, see the observations). `SumInv` says what the
others' inputs a peer holds (`HeldSoFar`), that every tick was simulated with what it holds or
stands to be replayed (`SimulatedAsKnown`), that the replay that is due is never deeper than
the window (`ReplayIsAllowed`), and so that each sum is that of the true inputs
(`SumsAreTrue`) of confirmed ticks (`HashedIsConfirmed`); two sums of one tick are equal
then, and no comparison fails (`ComparisonKnown`).
`CatchUpIsHonestAlways`, for any number of clients and joins, where an entity does not
outlive its connection (`~ KeepsEntity`, see the observations): in `JoinInv` the end of a
connection forgets everything about it (`GoneIsForgotten`), and a client is told to be in the
game only with a snapshot it asked for in this connection (`ToldIsCaughtUp`).

**WorldProofs**, interpolation. `HistorySoundAlways` and `ShownNeverGoesBackAlways`, for any
values, number of ticks, losses, reorderings and acknowledgements, under `BasesStay`: a
component replicated by value may be presented any distance past the completed tick, one
replicated by diffs not past it (beyond, `BasesAreHeld` is false, see the observations).
`InterpInv` relates three places. The server: a tick without a message is one whose value was
acknowledged (`Served`, `Settled`). The history: its entries are of ticks whose messages were
all read, those that say a value say the one of their tick, and the oldest does and is not
newer than what is presented (`Kept`); the value of an entry that only says "unchanged" stands
before it in the history (`Backed`) or will, when the diffs that wait are applied (`Carried`).
The receiver: the base of every diff under
way, and of those that wait, is a value of the history (`BaseHeld`, `KnownHeld`), and what
waits lies ahead of it (`PendingIsAhead`). Two loops change the history: draining the
diffs that wait, which stops at the first gap and drops nothing that is needed (`Drained`), and
`clear_before_tick`, which leaves the newest value before the presented tick as the new base
(`BaseIsNewest`). That the proof needs `CompleteTick` to ask for the messages of the tick itself
was how a guard of the model came to light that let a tick complete with its message unread.

**PacketProofs**, time. `SamplesAreTrueAlways` and `ClockStepsAlways` under
`SyncConditions`: packets of an ended session do not arrive, the number of slots divides
the number of identifiers and is at most half of it, a pong is no older than the store,
and a correction takes more than one error. The invariant `SyncInv` says which ping each
slot holds (`StoreExact`), that what is under way belongs to this session and is as
recent as the store (`UnderWay`), and which side the last errors were on (`ErrorsAgree`).

**PacketProofs**, packing. `PackedFaithfullyAlways`, without a hypothesis: any candidates,
any MTU, whatever is refused. In `PackInv`, the cursors know what was sent: everything
before them in their list is in a packet, discarded or the other list's (`Passed`), and no
candidate between the cursors is more urgent than what comes next (`Cursors`). Every packet
made reads back as what was put in (`Reads`): the count byte at a candidate says how many of its
channel follow (`CountIs`), so that a batch ends exactly where the reader stops (`BatchEnds`).
The size of a packet stays an opaque sum: that it fits is what the guard of its step says.

**SessionProofs**, the barrier. For any scenario, that is any set of peers, timeouts, numbers of
attempts and faults. `StartedIsBackedAlways`: `P2PInv` adds to it that the acknowledgements
in a session's notes and in the mail were really queued for that generation and tick
(`MailQueued`, `Noted`). `OneStartTickAlways`, where no application restarts
(`NoRestarts`; see the observations): a peer's acknowledgement of its latest generation is
of its own start tick and never changes (`StartIsLatest`, `AckIsStart`), so two peers that
started in an attempt have each the other's. `AgreedBarrierHoldsAlways`: from agreement on,
the agreed boundary lies ahead of the peer's tick as long as nothing jumps (`Calm`), so the
next fixed tick starts the session at it or fails, but never runs past it.

**SessionProofs**, messages. `DeliveredAsSentAlways`, without a hypothesis. Its invariant
`MsgInv` follows a timed message through the five places it can be in: what was handed out
was sent before what waits for the timeline, that before what is on the wire, that before
what the writer holds, and that before what is queued (`Chain`: `Past`, `Kept`, `Wired`,
`Unsent`); a message moves from the end of one to the beginning of the next, also in the
middle of a frame and also when one fails. `OnlyTheFailingIsLostAlways`, where every message can be
serialized (`Unserializable = {}`): `LossInv` says in which place each message is
(`NoneLost`). With one that fails, its bytes stay in front of the next message, which then
reaches the application under the other one's name: finding 4, the run `message_residue`.

**SessionProofs**, targets. `TargetsExactAlways`, for any peers, lists of any length and any
inline capacity. A target is well formed (`WellFormed`: what is in a form for one peer is
one peer) and stands for the set that the history says (`Stands`). One lemma for each operation
says that it makes such a target of such ones (`IntersectionStands`, `UnionStands`,
`ExcludeStands`, `InsertStands`, `ExtendStands`, ...), from what the list operations do to the set
of a list's elements, with duplicates and on both sides of the inline capacity
(`AppendNewIs`, `SelectIs`, `AppendUniqueIs`, `RetainMembershipIs`). `ReachedIs` is then the
resolution of any such target.

**SimulationProofs**, inputs. `InputsAreTrueAlways` where messages reach the server in the order in which they
were sent (`"server" \notin Overtaking`; they may be lost. Finding 6 is the counterexample
otherwise); of another client, `ClientInputsAreTrue` says it without a hypothesis: for any
actions, delay, redundancy, depth of the buffer, length of a replay, losses and order. What a
buffer says of a tick is the last entry up to it that is not `SameAsPrecedent` (`Says`). That
what was simulated is true is not inductive; `InputInv` adds where the truth comes from.
`SenderOK`: the player's buffer says what the player did, in every entry. `MessagesOK`: so
does a message, although it may begin anywhere in the buffer. `ServerHas`: the server's buffer ends at
the last message and says of each tick that came in time what the player did. `ClientOK`: an
accepted tick is still said truly by the buffer, or left it after it was simulated so; and what the
buffer says of a simulated tick is what the tick was simulated with, up to the tick that the
next replay starts from. Two loops are followed with the lemmas of `CommonLemmas`: that of
`update_buffer`, which either finds that a message continues what the buffer held (`Agreed`) or
takes it over from the first tick at which they differ (`Differed`), and that of a replay
(`Simulated`).

**SimulationProofs**, spawns. `SpawnsSoundAlways`, for any plan, limits, rollbacks and shifts, in
the settings in which the code keeps its books right (`Supported`): a simulation that spawns "Det"
entities never rolls back to an earlier start than before; a "PreSkip" entity stands neither that, nor
a forced rollback, nor simulated prespawns; and the timeline is shifted only where nothing but
simulated prespawns is listed. Each exception is an observation below; the three settings of
the run `simulation` are in `Supported`.
`SpawnInv` relates the world to the plan (`Standing`). Each entity is one that the plan, or the one
who spawns from outside, spawned at that step; each of these is there, or excused (`Excused`):
it waited for its match too long, or the plan despawned it so long ago that no replay reaches the
tick. Each list names what it must: the despawn list all "Det" entities of steps after the
latest start, the two lists of prespawned entities each of these once (`Tracked`), in the order of
ticks (`Rising`); what is disabled was despawned by the plan, in its tick. `Standing` has the step of
the world and that of the plan as parameters, so that it holds in the middle of a replay, too: it is
what the restart of a rollback establishes (`RestartStands`) and each simulated step
keeps (`StepStands`), so the loop of `ReplayedFrom` keeps it. That no prespawned entity is
spawned twice is the restart's work, which finds those after the start because the list is
sorted; the frame's end finds exactly those that are late, for the same reason (`InTime`).
An entity spawned once outlives a rollback because the skip list still names it, with the tick from
which on a rollback may despawn it (`Skipping`).

**PredictionProofs.** `ReconciledAlways`, for any entities, values, reach of a rollback, loss, delay
and order of the updates, where the simulation writes values and does not remove the component
(`KeepsComponents`; a removal is recorded out of order, see the observations). The assumption
`PredictionConstants` says that the values are not the names that stand for no value.
What is to be shown is about one step: a tick was processed as completely confirmed, and the
client's past must agree with the server there. The invariant `Reconcilable` says, for the server's
tick n, where both sides stand. `Served(n)`: an update carries what the server had, and the value of
each tick was received, is under way, or did not change since a tick that was received (`Known`);
nothing of a complete tick is under way. `Reconciling(n)`: both histories are in the
order of ticks, the confirmed one says the truth unless the entity is in `untrue`
(`ConfirmedTrue`), the prediction history reaches back as far as a rollback may go (`ClientTyped`),
what was received of a tick to come is deferred (`Waiting`), and what was received of the past
agrees with the prediction, waits to be compared, or is behind a pending mismatch (`Compared`),
and what its simulation wrote in a tick not yet processed is what was predicted (`Written`), so that
an act which contradicts the server is found where no update of the tick came.
A frame keeps what was predicted of a tick, restores it or replays it (`Left`), with or without a
tick of its own, by state or by input. `Past` and `Confirming` say what
the operations of the two histories keep and what they do to what is said of a tick: a history split
at a tick (`Counted`) makes `UpTo`, the clearing and the last entry statements about an index.
A replay is followed by `Replaying` with the lemmas on loops: until a tick is reached nothing
is said of it, and once it is, the snap to the confirmed history makes it true
(`ReplayTick`, `ReplayedIs`). The attempt showed that the model's exception had been too weak: it
excused an entity only while its confirmed history is wrong. A later update can heal the history
after a replay has snapped to the lie; with four ticks of the server TLC finds that behaviour, which three,
the bound of the run, do not reach. `untrue` remembers it.

### Only model-checked

Liveness and everything with fairness or ENABLED: the run `live`.
Each safety invariant and each action property of a passing run is stated by a theorem; the
hypotheses some of them have are named above.
Loops are written as recursive functions, about which the least counterexample can be argued where
no induction is available; no module of the project declares a RECURSIVE operator.

## 5. Findings

1. **Fragments of a superseded message are reused** (`channel/receive.rs:179`).
   A sequenced reliable channel neither expires nor removes the partial message that a
   newer one supersedes. After one cycle of identifiers, a message with the same
   identifier and fragment count is completed with the old fragment.
2. **A packet is acknowledged before it is read** (`plugin.rs:137`). When a message of a
   packet cannot be read (no receiver for its channel, bad fragment), the rest of
   the packet is dropped; the header was processed already, so reliable messages in
   that rest are acknowledged and never delivered.
3. **A Disconnect during the handshake leaves the pending connection** (`server.rs:184`).
   The link is despawned, but the entry in the cache and its entity stay, as a disabled
   test of the repository expects they do not.
4. **A message that fails to serialize leaves its bytes** (`messages/src/send.rs:142`)
   in the writer; they become the beginning of the next message of that type.
5. **A late older update changes a newer tick** (`confirmed_history.rs:209`): a value
   stored as equal to its predecessor gets another predecessor.
6. **Inputs received in time are dropped** (`input_message.rs:226`). On the server a message
   that a newer one overtook moves `last_remote_tick` back. A second late message then
   finds a mismatch at a tick before the buffer; `clip_after` empties it, and with
   it what was received for later ticks. The client skips late messages (`client.rs:1072`).

### Observations

Met while modelling or checking; no run states them, since the repository promises
nothing that they contradict, or because the properties above are stated with the
condition under which they hold.

*Sessions and windows.*
With input delay 0 the first gameplay tick of a session cannot be corrected by a peer
that fills its window before the first remote input: `PredictionWindowWait.origin_tick`
(`timeline/input.rs:236`) is the tick at the end of the first frame, but a correction of
the first tick restores the tick before it (`rollback.rs:275`), one deeper than
`check_rollback` allows; TLC refutes `NoFalseAlarm` with `WindowDelay = 0`, and the run has
a delay of one tick.
Several fixed ticks in one frame pass the window, since the decision is taken
once a frame (`prediction_window.rs:26`), and a window of zero is passed by one tick.
The default redundancy of input messages (5 ticks) is below what
`ConfirmedInputsAreHeld` needs for the default windows.
An application that restarts forgets its attempt while the acknowledgements of the forgotten
one are still in the other peers' notes: with two restarts TLC finds a peer that started with
one of these while the restarted peer has fixed another tick. `OneStartTick` speaks of peers
that have fixed a tick, started or not; that two peers that both *started* agree held in all
1,366,402 states of that instance. The run has one fault, and `OneStartTickAlways` assumes
`NoRestarts`.
One peer may receive the last acknowledgement too late and fail while the others start,
so a session that started on one peer has not started "on every peer" (`session.rs:39`).

*Prediction.*
`Reconciled` leaves out a frame that refuses its rollback as too deep, and has three exceptions,
named in its comment: an entity whose confirmed history was once wrong; an update that nobody
looks at, because it arrived behind a pending mismatch of another tick (`registry.rs:531`)
or because a refused rollback cleared the pending mismatches, its own among them
(`rollback.rs:624`); and a tick in which the simulation itself writes another value, of an updated
component or by the input rollback of that very frame. A removal is added to a history out of order (`history_buffer.rs:207`).
The confirmed history of predicted entities is never pruned.
`check_rollback` drains the despawn list, "since future rollbacks will happen even more in
the future" (`rollback.rs:829`); the input rollbacks of two peers need not be in that order, and TLC
then finds an entity twice (`SpawnedOnce` with `revisits` for "Det" entities). A shift of the
timeline moves only the lists of prespawned entities; a forced rollback drains the skip
list, so an entity that is both prespawned and skipped may be despawned by a later one; and
`remove_prediction_disable` re-enables entities that were disabled before the rollback's start.
An entity that is both prespawned and skipped stays in the list of the unmatched through a rollback,
and the replay appends simulated prespawns of earlier ticks behind it: the list that is "Sorted in
ascending order of Tick" (`prespawn.rs:279`) is not, and the cleanup, a `partition_point` over it
(`prespawn.rs:132`), may miss those that are late (TLC refutes `UnmatchedSorted` with "Pre" simulated and
"PreSkip" spawned once).

*Inputs.*
The documentation of `InputChannel` calls it sequenced (`inputs/src/lib.rs:27`); the plugin
registers it unordered (`plugin.rs:31`), and the models allow any order.

*Time.*
The count of consecutive errors is not reset when the side of the error changes
(`timeline/sync.rs:262`): `PacedOnAgreement` states what is left. Over a connection
that lets packets of an ended session through, a stale pong is taken for one of the new
session (`StaleDelivery`).

*Late join.*
A client entity that is kept over a reconnect keeps `CatchUpManager.completed` and is never
gated again (`KeepsEntity`). A client that waits for inputs of peers that leave stays
gated (`late_join/client.rs:161`). `CatchUpClientTimeout` is never used.

*Interpolation.*
With a presentation ahead of the completed tick (`InterpLead` 2) a base is drained that the
diff receiver still counts on (`BasesAreHeld`).

*Transport and netcode.*
No resend while the round trip time is zero; no send window; a token used twice lets stale
packets connect a client that the server did not accept in this attempt (`ReuseTokens`); a
request with another id over a link that has a pending connection changes its id in place
(`server.rs:152`); a client that connects again starts at sequence 0 while a late packet
of its previous session may have moved the window (`client.rs:308`).

## 6. Not modelled, and why

* Cryptography and token bytes: assumed to work. Byte encodings: the models use decoded
  values; sizes are numbers.
* The arithmetic of estimators (round trip time, jitter), of the pace of clocks, of
  interpolation and visual correction: floating point.
* Sockets, WebTransport, WebSocket, Steam, crossbeam, the link conditioner: adapters. Their
  loss and reordering is what the networks of the models do.
* bevy_replicon and the physics engine: third-party. Rooms and visibility are filters without
  state of their own on top of bevy_replicon.
* Host clients, topology and the life cycle observers of `connection/connection`: what they do
  depends on the order in which bevy applies commands and runs observers, which the
  source does not fix.
* The leafwing and BEI input back ends adapt third-party action types to the same buffer.
* Tools, metrics, UI, web, examples: no protocol state.
* Of modelled parts: priority accumulation between flushes and send timers (a unit is offered
  or not, at any frame), statistics, stopping and restarting the netcode server, local
  loopback, hashing of component state, the server's side of checksum comparison.

The share of source lines the map covers is small for this reason: most of the repository is
generic registration code, adapters, arithmetic, tests and examples around the
state machines above.

## 7. Plan

1. Theorems: `Reconciled` where the simulation removes components, which needs an invariant on
   histories that are out of order; `InputsAreTrue` of a server whose messages overtake each other.
2. Stop and restart of the netcode server; Netcode composed with ReplayProtection;
   liveness of the handshake.
3. Inputs composed with Prediction; rebroadcast to several clients; the checksum
   comparison of a server.
