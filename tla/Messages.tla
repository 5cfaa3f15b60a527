------------------------------ MODULE Messages ------------------------------
(***************************************************************************)
(* Messages of one type between two connected entities (transport/messages *)
(* /src): MessageSender, the channels of the transport as FIFO queues, and *)
(* MessageReceiver with its ready list and the messages that wait for the  *)
(* receiver's delivery timeline.  A trigger (receive_event.rs) has the     *)
(* same life: what becomes ready is triggered instead of listed.           *)
(*                                                                         *)
(* SendFrame is MessagePlugin::send; ReceiveFrame is recv, then            *)
(* release_timeline, then the application's systems, then clear.           *)
(***************************************************************************)
EXTENDS Integers, FiniteSets, Sequences

CONSTANTS
    MaxPending,        \* MAX_PENDING_TIMELINE_PAYLOADS
    MaxLag,            \* MAX_TIMELINE_LAG_TICKS
    Unserializable,    \* messages whose serialization fails
    MaxMessages,       \* bound: messages sent
    MaxMsgTick,        \* bound: ticks of the sender
    MaxEpochs          \* bound: connections

ASSUME MessagesAssumption ==
    /\ {MaxPending, MaxLag, MaxMessages, MaxMsgTick, MaxEpochs} \subseteq Nat
    /\ Unserializable \subseteq 1..MaxMessages

MsgChannels == {"Plain", "Timed"}

VARIABLES
    sendq,      \* MessageSender::send: the messages of this frame
    writer,     \* MessageSender::writer: bytes of messages that failed
    inq,        \* what the transport has ready, per channel
    present,    \* the entity has a MessageReceiver
    ready,      \* MessageReceiver::ready
    timed,    \* MessageReceiver::pending of the timeline, by (tick, sequence)
    nextSeq,    \* TimelineMessageBuffer::next_sequence
    sendTick,   \* tick of the sender
    lineTick,   \* tick of the receiver's delivery timeline
    epoch,      \* number of the connection
    numSent,    \* messages sent so far; the identity of a message
    taken,      \* history: what the application was given, in order
    failed,     \* history: messages that ended in an error of their own
    unread      \* history: messages cleared because nobody read them

msgVars == <<sendq, writer, inq, present, ready, timed, nextSeq, sendTick, lineTick, epoch,
             numSent, taken, failed, unread>>

MsgInit ==
    /\ sendq = <<>> /\ writer = <<>>
    /\ inq = [ch \in MsgChannels |-> <<>>]
    /\ present = FALSE /\ ready = <<>> /\ timed = {} /\ nextSeq = 0
    /\ sendTick = 0 /\ lineTick = 0 /\ epoch = 1
    /\ numSent = 0 /\ taken = <<>> /\ failed = {} /\ unread = {}

-----------------------------------------------------------------------------
(* The sender.                                                             *)

\* MessageSender::send
SendMessage(ch) ==
    /\ numSent < MaxMessages
    /\ numSent' = numSent + 1
    /\ sendq' = Append(sendq, [id |-> numSent + 1, ch |-> ch])
    /\ UNCHANGED <<writer, inq, present, ready, timed, nextSeq, sendTick, lineTick, epoch,
                   taken, failed, unread>>

\* What send_message_typed holds while it drains the queue.
Outgoing == [queue |-> sendq, writer |-> writer, wire |-> inq, failed |-> {}]

\* One turn of drain(..).try_for_each.  The writer still holds what a failed
\* serialization has written, and take_written hands it out with the next
\* message; an error drops the rest of the queue.
SendOne(h) ==
    LET m == Head(h.queue)
        bytes == Append(h.writer, m.id)
    IN  IF m.id \in Unserializable
        THEN [h EXCEPT !.queue = <<>>, !.writer = bytes,
                       !.failed = {h.queue[k].id : k \in 1..Len(h.queue)}]
        ELSE [h EXCEPT !.queue = Tail(@), !.writer = <<>>,
                       !.wire[m.ch] = Append(@, [ids |-> bytes, ch |-> m.ch,
                                                 tick |-> sendTick, epoch |-> epoch])]

\* The queue after all turns.
SendAll == LET after[k \in 0..Len(sendq)] ==
                   IF k = 0 THEN Outgoing
                   ELSE IF after[k - 1].queue = <<>> THEN after[k - 1]
                   ELSE SendOne(after[k - 1])
           IN  after[Len(sendq)]

SendFrame ==
    \E h \in {SendAll} :
        /\ sendq # <<>>
        /\ sendq' = <<>>
        /\ inq' = h.wire
        /\ writer' = h.writer
        /\ failed' = failed \cup h.failed
        /\ UNCHANGED <<present, ready, timed, nextSeq, sendTick, lineTick, epoch, numSent, taken, unread>>

-----------------------------------------------------------------------------
(* The receiver.                                                           *)

\* receive_message_bytes: the timeline is too far behind.
TooFarBehind(m) == m.ch = "Timed" /\ m.tick - lineTick > MaxLag

\* What the frame holds while recv runs over the messages of the transport.
Progress == [ready |-> ready, timed |-> timed, seq |-> nextSeq,
             left |-> inq, failed |-> {}, stopped |-> FALSE]

\* Mutant: an error takes the rest of the channel with it.
AfterErrorDropsChannel(g, ch, m) ==
    [g EXCEPT !.failed = @ \cup {m.ids[1]}, !.left[ch] = <<>>, !.stopped = TRUE]

\* The message was read from its channel and is gone; the others stay.
AfterError(g, ch, m) ==
    [g EXCEPT !.failed = @ \cup {m.ids[1]}, !.left[ch] = Tail(@), !.stopped = TRUE]

\* Mutant: messages of one tick are kept in no particular order.
KeyTickOnly(m, seq) == [tick |-> m.tick, seq |-> 0 - seq]

\* TimelineMessageBuffer::push: the key of a timed message.
Key(m, seq) == [tick |-> m.tick, seq |-> seq]

\* A receiver that does not exist yet is inserted by a command, after recv: a
\* message it has no room for is logged, and recv goes on.
AfterLazyError(g, ch, m) == [g EXCEPT !.failed = @ \cup {m.ids[1]}, !.left[ch] = Tail(@)]

\* receive_message_bytes and push_received for the next message of a channel.
ReceiveOne(g, ch) ==
    LET m == Head(g.left[ch])
        full == ch = "Timed" /\ Cardinality(g.timed) >= MaxPending
    IN  IF TooFarBehind(m) \/ (full /\ present) THEN AfterError(g, ch, m)
        ELSE IF full THEN AfterLazyError(g, ch, m)
        ELSE IF ch = "Timed"
        THEN [g EXCEPT !.timed = @ \cup {[key |-> Key(m, g.seq), msg |-> m]},
                       !.seq = @ + 1, !.left[ch] = Tail(@)]
        ELSE [g EXCEPT !.ready = Append(@, m), !.left[ch] = Tail(@)]

\* while let Some(..) = channel_receive.read_message(), until an error
DrainChannel(g, ch) ==
    LET after[k \in 0..Len(g.left[ch])] ==
            IF k = 0 THEN g
            ELSE IF after[k - 1].stopped \/ after[k - 1].left[ch] = <<>> THEN after[k - 1]
            ELSE ReceiveOne(after[k - 1], ch)
    IN  after[Len(g.left[ch])]

\* try_for_each over the channels, in any order.
Drained(first) == LET second == CHOOSE ch \in MsgChannels : ch # first
                  IN  DrainChannel(DrainChannel(Progress, first), second)

KeyLess(w, v) == w.key.tick < v.key.tick \/ (w.key.tick = v.key.tick /\ w.key.seq < v.key.seq)

\* Mutant: everything that waits is released.
DueAny(w) == {v \in w : TRUE}

\* drain_until((tick, MAX))
DueNow(w) == {v \in w : v.key.tick <= lineTick}

\* The orders in which a heap pops w: there is one, as no two keys are equal.
InOrder(w) == {s \in [1..Cardinality(w) -> w] :
                  /\ \A v \in w : \E k \in DOMAIN s : s[k] = v
                  /\ \A j, k \in DOMAIN s : j < k => KeyLess(s[j], s[k])}

\* release_until: the messages that are due, the least key first.
Released(w) == {[k \in DOMAIN s |-> s[k].msg] : s \in InOrder(DueNow(w))}

MsgIds(s) == {s[k].ids[1] : k \in 1..Len(s)}

Given(m) == [id |-> m.ids[1], ch |-> m.ch, tick |-> m.tick, at |-> lineTick,
             sent |-> m.epoch, taken |-> epoch, whole |-> Len(m.ids) = 1]

\* A frame; `reads` says whether a system of the application reads the type.
ReceiveFrame(first, reads) ==
    \E g \in {Drained(first)} : \E due \in Released(g.timed) :
    LET all == g.ready \o due
    IN  /\ (g.left # inq \/ all # <<>>)
        /\ inq' = g.left
        /\ nextSeq' = g.seq
        /\ present' = (present \/ g.left # inq)
        /\ timed' = g.timed \ DueNow(g.timed)
        /\ ready' = <<>>
        /\ taken' = IF reads THEN taken \o [k \in 1..Len(all) |-> Given(all[k])] ELSE taken
        /\ unread' = IF reads THEN unread ELSE unread \cup MsgIds(all)
        /\ failed' = failed \cup g.failed
        /\ UNCHANGED <<sendq, writer, sendTick, lineTick, epoch, numSent>>

\* Mutant: the messages that wait for the timeline survive the connection.
EndConnectionKeepsWaiting ==
    /\ epoch < MaxEpochs
    /\ epoch' = epoch + 1
    /\ inq' = [ch \in MsgChannels |-> <<>>]
    /\ ready' = <<>> /\ present' = FALSE
    /\ failed' = failed \cup (1..numSent \ {sendq[k].id : k \in 1..Len(sendq)})
    /\ UNCHANGED <<sendq, writer, timed, nextSeq, sendTick, lineTick, numSent, taken, unread>>

\* handle_disconnection: the receivers are removed, and the transport starts
\* anew; what MessageSender holds is sent over the next connection.
EndConnection ==
    /\ epoch < MaxEpochs
    /\ epoch' = epoch + 1
    /\ inq' = [ch \in MsgChannels |-> <<>>]
    /\ present' = FALSE /\ ready' = <<>> /\ timed' = {} /\ nextSeq' = 0
    /\ failed' = failed \cup (1..numSent \ {sendq[k].id : k \in 1..Len(sendq)})
    /\ UNCHANGED <<sendq, writer, sendTick, lineTick, numSent, taken, unread>>

SenderTick ==
    /\ sendTick < MaxMsgTick /\ sendTick' = sendTick + 1
    /\ UNCHANGED <<sendq, writer, inq, present, ready, timed, nextSeq, lineTick, epoch, numSent,
                   taken, failed, unread>>

\* The delivery timeline follows the sender's ticks.
TimelineTick ==
    /\ lineTick < sendTick /\ lineTick' = lineTick + 1
    /\ UNCHANGED <<sendq, writer, inq, present, ready, timed, nextSeq, sendTick, epoch, numSent,
                   taken, failed, unread>>

MsgNext ==
    \/ \E ch \in MsgChannels : SendMessage(ch)
    \/ SendFrame
    \/ \E ch \in MsgChannels, reads \in BOOLEAN : ReceiveFrame(ch, reads)
    \/ EndConnection \/ SenderTick \/ TimelineTick

MsgSpec == MsgInit /\ [][MsgNext]_msgVars

-----------------------------------------------------------------------------
(* Properties.                                                             *)

Timed(t) == t.ch = "Timed"

\* A message of a channel with a delivery timeline reaches the application
\* only when the timeline has reached the tick it was sent at.
NotEarly == \A k \in 1..Len(taken) : Timed(taken[k]) => taken[k].tick <= taken[k].at

\* The messages of a timeline are handed out in the order they were sent in,
\* although they wait in a heap and several share a tick.
TimelineInOrder ==
    \A j, k \in 1..Len(taken) :
        (j < k /\ Timed(taken[j]) /\ Timed(taken[k])) => taken[j].id < taken[k].id

\* Nothing of an earlier connection reaches the application: neither what was
\* ready nor what waited for the timeline.
OwnConnectionOnly == \A k \in 1..Len(taken) : taken[k].sent = taken[k].taken

\* Messages with a delivery timeline (release_timeline_until, handle_disconnection):
\* in time, in order, and in the connection they were sent in.
DeliveredAsSent == NotEarly /\ TimelineInOrder /\ OwnConnectionOnly

\* An error costs the message it is about: every other message the transport
\* has delivered is still queued, timed, or was handed to the application.
OnlyTheFailingIsLost ==
    \A i \in 1..numSent :
        \/ i \in failed \cup unread
        \/ \E k \in 1..Len(sendq) : sendq[k].id = i
        \/ \E ch \in MsgChannels : i \in MsgIds(inq[ch])
        \/ \E w \in timed : w.msg.ids[1] = i
        \/ \E k \in 1..Len(taken) : taken[k].id = i

\* send.rs: "we write the message NetId, and then serialize the message": the
\* bytes handed to the transport are those of one message.
OneMessagePerPayload ==
    \A ch \in MsgChannels : \A k \in 1..Len(inq[ch]) : Len(inq[ch][k].ids) = 1
=============================================================================
