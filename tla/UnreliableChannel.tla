-------------------------- MODULE UnreliableChannel --------------------------
(***************************************************************************)
(* One unreliable channel: UnreliableSendState on one peer, ChannelReceive *)
(* in UnorderedUnreliable or SequencedUnreliable mode on the other.        *)
(* Nothing is sent twice.  What keeps the fragments of a message that will *)
(* never be complete from being mixed with those of a message that reuses  *)
(* its identifier is time alone: FragmentReceiver::cleanup.                *)
(*                                                                         *)
(* Time is counted in frames.  seq is the number of the message a unit     *)
(* belongs to; only the properties look at it.                             *)
(***************************************************************************)
EXTENDS WrappingId, Sequences, FiniteSets, FiniteSetsExt

CONSTANTS UnreliableCounts, \* the numbers of fragments a message may have
          NoNewest,         \* None
          DiscardAfter,     \* DISCARD_AFTER, in frames
          MaxRate,          \* messages sent per frame
          MaxDelay,         \* frames a packet may travel
          MaxFrames,        \* bound: frames
          MaxReadable       \* bound: messages waiting to be read

ASSUME UnreliableAssumption ==
    /\ UnreliableCounts \subseteq Nat \ {0}
    /\ NoNewest \notin WireId
    /\ {DiscardAfter, MaxRate, MaxDelay, MaxFrames, MaxReadable} \subseteq Nat

VARIABLES sequenced,        \* SequencedUnreliable rather than UnorderedUnreliable, fixed
          now,              \* current_time
          inFrame,          \* messages sent in this frame
          nextUnreliable,   \* sender: next_message_id
          units,            \* units that may still arrive, with the frame they were sent in
          fragments,        \* receiver: the fragments held by fragment_messages
          touched,          \* receiver: last_received of each message identifier held
          readable,         \* receiver: ready
          seen,             \* receiver: newest_seen
          completed,        \* receiver: newest_completed
          sentCount,        \* history: how many messages were sent
          lastRead          \* history: the last message read, counted from 1

unreliableReceiver == <<fragments, touched, readable, seen, completed>>
unreliableVars == <<sequenced, now, inFrame, nextUnreliable, units, unreliableReceiver, sentCount, lastRead>>

UnreliableInit ==
    /\ sequenced \in BOOLEAN
    /\ now = 1
    /\ inFrame = 0
    /\ nextUnreliable = 0
    /\ units = {}
    /\ fragments = {}
    /\ touched = [id \in WireId |-> 0]
    /\ readable = <<>>
    /\ seen = NoNewest
    /\ completed = NoNewest
    /\ sentCount = 0
    /\ lastRead = 0

\* buffer_send, and the flush that sends every unit once.  A unit is lost when it
\* never arrives.
SendOnce ==
    /\ inFrame < MaxRate
    /\ \E count \in UnreliableCounts :
          units' = units \cup {[id |-> nextUnreliable, count |-> count, frag |-> k, seq |-> sentCount, at |-> now] :
                                  k \in 1 .. count}
    /\ inFrame' = inFrame + 1
    /\ nextUnreliable' = NextId(nextUnreliable)
    /\ sentCount' = sentCount + 1
    /\ UNCHANGED <<sequenced, now, unreliableReceiver, lastRead>>

\* Mutant of Keeps: a message being reassembled is never given up.
KeepsAll(id) == TRUE

\* cleanup: the message was touched less than DiscardAfter ago.
Keeps(id) == touched[id] + DiscardAfter > now + 1

\* A new frame: ChannelReceive::update, and packets that are too late are gone.
Update ==
    /\ now < MaxFrames
    /\ now' = now + 1
    /\ inFrame' = 0
    /\ units' = {u \in units : u.at + MaxDelay >= now + 1}
    /\ fragments' = {f \in fragments : Keeps(f.id)}
    /\ touched' = [id \in WireId |-> IF \E f \in fragments' : f.id = id THEN touched[id] ELSE 0]
    /\ UNCHANGED <<sequenced, nextUnreliable, readable, seen, completed, sentCount, lastRead>>

\* prepare_receive.
Admitted(id) == sequenced /\ seen # NoNewest => ~IdLess(id, seen)

\* Mutant of Takes: a message that was completed before is taken again.
TakesAgain(id) == TRUE

\* push_completed: a sequenced message is taken once.
Takes(id) == sequenced => id # completed

\* receive_fragment.
FragmentsWith(u) ==
    LET held == {f \in fragments : f.id = u.id}
    IN  IF \E f \in held : f.frag = u.frag THEN held ELSE held \cup {u}

CountDiffers(u) == \E f \in fragments : f.id = u.id /\ f.count # u.count

CompletesMessage(u) == u.count = 1 \/ (~CountDiffers(u) /\ Cardinality(FragmentsWith(u)) = u.count)

OriginOf(u) == IF u.count = 1 THEN {u.seq} ELSE {f.seq : f \in FragmentsWith(u)}

\* buffer_recv of an accepted unit.
ReceiveUnit(u) ==
    LET newer == sequenced /\ seen # NoNewest /\ IdLess(seen, u.id)
        kept == IF newer THEN <<>> ELSE readable
        done == CompletesMessage(u)
    IN  /\ seen' = IF sequenced THEN u.id ELSE seen
        /\ fragments' = IF u.count = 1 \/ CountDiffers(u) THEN fragments
                      ELSE {f \in fragments : f.id # u.id} \cup (IF done THEN {} ELSE FragmentsWith(u))
        /\ touched' = IF u.count = 1 \/ CountDiffers(u) THEN touched
                      ELSE [touched EXCEPT ![u.id] = IF done THEN 0 ELSE now]
        /\ IF done /\ Takes(u.id)
           THEN /\ readable' = IF sequenced THEN <<OriginOf(u)>> ELSE Append(kept, OriginOf(u))
                /\ completed' = IF sequenced THEN u.id ELSE completed
           ELSE readable' = kept /\ UNCHANGED completed

\* A packet with the unit arrives, perhaps not for the last time.
UnitArrives(u) ==
    /\ u \in units
    /\ Len(readable) < MaxReadable
    /\ IF Admitted(u.id) THEN ReceiveUnit(u) ELSE UNCHANGED unreliableReceiver
    /\ UNCHANGED <<sequenced, now, units, inFrame, nextUnreliable, sentCount, lastRead>>

\* read_message.
ReadNext ==
    /\ readable # <<>>
    /\ lastRead' = Min(Head(readable)) + 1
    /\ readable' = Tail(readable)
    /\ UNCHANGED <<sequenced, now, inFrame, nextUnreliable, units, fragments, touched, seen, completed, sentCount>>

UnreliableNext == SendOnce \/ Update \/ ReadNext \/ \E u \in units : UnitArrives(u)

UnreliableSpec == UnreliableInit /\ [][UnreliableNext]_unreliableVars

\* A completed message is made of the fragments of one message, although
\* identifiers are used again and again and most messages are never completed.
WholeMessages == \A i \in DOMAIN readable : Cardinality(readable[i]) = 1

\* On a sequenced channel whatever is ready is newer than what was read last,
\* also when packets are duplicated or late.
NewerOnly == sequenced => \A i \in DOMAIN readable : Min(readable[i]) + 1 > lastRead

\* What an unreliable receiver hands out: messages of one sender's message each and,
\* when sequenced, never one older than what was read.
WholeAndNewer == WholeMessages /\ NewerOnly
=============================================================================
