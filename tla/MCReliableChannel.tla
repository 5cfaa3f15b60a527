------------------------- MODULE MCReliableChannel -------------------------
(***************************************************************************)
(* Instances of ReliableChannel for TLC.  Six identifiers; on a channel of *)
(* single messages all of them are used and the first ones again, and on   *)
(* one with fragments up to all of them.                                   *)
(***************************************************************************)
EXTENDS ReliableChannel

Channel(m, c, n) == [mode |-> m, counts |-> c, messages |-> n]

SafeChannels == {Channel(m, {1}, 7) : m \in Modes} \cup {Channel(m, {1, 2}, 5) : m \in Modes}
LiveChannels == {Channel("OrderedReliable", {1}, 2), Channel("SequencedReliable", {1}, 2),
                 Channel("UnorderedReliable", {1}, 2)}
ReusingChannels == {Channel("SequencedReliable", {1, 2}, 7)}
=============================================================================
