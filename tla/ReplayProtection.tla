-------------------------- MODULE ReplayProtection --------------------------
(***************************************************************************)
(* Replay protection of a netcode connection (netcode/src/replay.rs) as    *)
(* Packet::read uses it: a ring of Size slots remembers which sequence     *)
(* numbers were received.  One peer sends packets numbered 0, 1, 2, ...;   *)
(* they arrive in any order, any number of times, and possibly damaged.    *)
(***************************************************************************)
EXTENDS Integers

CONSTANTS
    Size,      \* REPLAY_PROTECTION_BUFFER_SIZE
    MaxSeq     \* bound: the last sequence number used

ASSUME ReplayAssumption == Size \in Nat \ {0} /\ MaxSeq \in Nat

Seqs == 0..MaxSeq

\* u64::MAX in the code: larger than every sequence number in use.
UNRECEIVED == MaxSeq + 1

VARIABLES
    next,       \* Client::sequence or Connection::sequence of the sender
    most,       \* most_recent_sequence
    received,   \* received_packet
    reads       \* history: how often each packet was read successfully

replayVars == <<next, most, received, reads>>

\* ReplayProtection::new.
ReplayInit ==
    /\ next = 0
    /\ most = 0
    /\ received = [i \in 0..(Size - 1) |-> UNRECEIVED]
    /\ reads = [s \in Seqs |-> 0]

\* Mutant: only the window is consulted, not the slot.
AlreadyReceivedWindowOnly(s) == s + Size <= most

\* Mutant: a packet one slot inside the window counts as too old.
AlreadyReceivedNarrow(s) ==
    \/ s + Size <= most + 1
    \/ received[s % Size] # UNRECEIVED /\ received[s % Size] >= s

\* is_already_received: too old, or its slot holds this or a later packet.
AlreadyReceived(s) ==
    \/ s + Size <= most
    \/ received[s % Size] # UNRECEIVED /\ received[s % Size] >= s

\* The sender numbers its packets.
Send == next <= MaxSeq /\ next' = next + 1 /\ UNCHANGED <<most, received, reads>>

\* advance_sequence.
Advance(s) ==
    /\ most' = IF s > most THEN s ELSE most
    /\ received' = [received EXCEPT ![s % Size] = s]

\* Packet::read of an intact packet: the check, decryption, then the advance.
Read(s) ==
    /\ s < next
    /\ ~AlreadyReceived(s)
    /\ Advance(s)
    /\ reads' = [reads EXCEPT ![s] = @ + 1]
    /\ UNCHANGED next

\* Mutant: the sequence is recorded before the packet is decrypted.
ReadDamagedAdvances(s) ==
    /\ ~AlreadyReceived(s)
    /\ Advance(s)
    /\ UNCHANGED <<next, reads>>

\* Packet::read of a damaged packet fails to decrypt and leaves no trace,
\* whatever its sequence number says; so does a packet already received.
ReadDamaged(s) == UNCHANGED replayVars

ReplayNext == Send \/ \E s \in Seqs : Read(s) \/ ReadDamaged(s)

ReplaySpec == ReplayInit /\ [][ReplayNext]_replayVars
-----------------------------------------------------------------------------
ReplayTypeOK ==
    /\ next \in 0..(MaxSeq + 1)
    /\ most \in Seqs
    /\ received \in [0..(Size - 1) -> Seqs \cup {UNRECEIVED}]
    /\ reads \in [Seqs -> Nat]

\* No packet is read twice in a connection, however long it was delayed.
NoReplay == \A s \in Seqs : reads[s] <= 1

\* The ring has no false positives: a packet that was not read and lies in the
\* window below the most recent one is still accepted.
FreshAccepted ==
    \A s \in Seqs : reads[s] = 0 /\ s + Size > most => ~AlreadyReceived(s)

\* Why both hold: a slot holds the latest packet read of its residue, and
\* every packet read is no later than most.
RingExact ==
    /\ \A s \in Seqs : reads[s] > 0 =>
          /\ s <= most
          /\ received[s % Size] # UNRECEIVED
          /\ received[s % Size] >= s
    /\ \A i \in 0..(Size - 1) : received[i] # UNRECEIVED =>
          /\ received[i] % Size = i
          /\ reads[received[i]] > 0
=============================================================================
