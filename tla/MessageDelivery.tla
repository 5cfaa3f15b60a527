--------------------------- MODULE MessageDelivery ---------------------------
(***************************************************************************)
(* What a reliable channel promises the application, without packets,      *)
(* identifiers or retries: the documentation of ChannelMode.               *)
(*                                                                         *)
(*   OrderedReliable     every message arrives, in the order of sending    *)
(*   UnorderedReliable   every message arrives, once, in any order         *)
(*   SequencedReliable   only messages newer than the last one delivered   *)
(*                       are delivered, and in the end the newest is       *)
(*                                                                         *)
(* Messages are numbered from 0 in the order of sending.                   *)
(***************************************************************************)
EXTENDS Naturals, Sequences

VARIABLES mode,         \* the mode of the channel, which never changes
          sent,         \* how many messages the application has sent
          delivered     \* the messages the other application has received

vars == <<mode, sent, delivered>>

Init == /\ mode \in {"OrderedReliable", "UnorderedReliable", "SequencedReliable"}
        /\ sent = 0
        /\ delivered = <<>>

Send == sent' = sent + 1 /\ UNCHANGED <<mode, delivered>>

\* The messages the mode allows to be delivered next.
Deliverable ==
    {m \in 0 .. (sent - 1) :
        CASE mode = "OrderedReliable"   -> m = Len(delivered)
          [] mode = "UnorderedReliable" -> \A i \in DOMAIN delivered : delivered[i] # m
          [] mode = "SequencedReliable" -> \A i \in DOMAIN delivered : delivered[i] < m}

Deliver == \E m \in Deliverable : /\ delivered' = Append(delivered, m)
                                  /\ UNCHANGED <<mode, sent>>

Next == Send \/ Deliver

\* As long as something may be delivered, something is.
Spec == Init /\ [][Next]_vars /\ WF_vars(Deliver)
=============================================================================
