----------------------------- MODULE MCPackets -----------------------------
(***************************************************************************)
(* What travels in packets, in three parts that share no state; a          *)
(* behaviour is one of a single part.                                      *)
(*   "ack"      PacketAck with six identifiers: one peer sends enough data *)
(*              to use the first identifier twice while the other only     *)
(*              answers.                                                   *)
(*   "packing"  All flushes of PacketPacking of up to MaxCandidates        *)
(*              fragments and single messages of two priorities, two       *)
(*              channels and a few sizes, with every quota.                *)
(*   "ping"     TimeSync: the pings of a connection, over two sessions.    *)
(***************************************************************************)
EXTENDS PacketAck, PacketPacking, TimeSync, TLC

CONSTANTS a, b, SingleSizes, Gains, Priorities, ChannelIds, FragmentSizes

VARIABLE part

MCPeer == {a, b}

MCMaxData == a :> 7 @@ b :> 0
MCMaxSent == a :> 7 @@ b :> 2
MCMaxInFlight == a :> 1 @@ b :> 2

MCCandidate ==
    [frag : {FALSE}, last : {FALSE}, size : SingleSizes, gain : Gains,
     prio : Priorities, chan : ChannelIds]
    \cup
    [frag : {TRUE}, last : BOOLEAN, size : FragmentSizes, gain : {0},
     prio : Priorities, chan : {1}]

NoFlush == candidates = <<>> /\ quota = Min(Quotas)

PacketsInit ==
    /\ Init
    /\ PackingInit
    /\ SyncInit
    /\ part \in {"packing"} \cup (IF NoFlush THEN {"ack", "ping"} ELSE {})

PacketsNext ==
    \/ part = "ack" /\ Next /\ UNCHANGED <<part, packingVars, syncVars>>
    \/ part = "packing" /\ PackingNext /\ UNCHANGED <<part, vars, syncVars>>
    \/ part = "ping" /\ SyncNext /\ UNCHANGED <<part, vars, packingVars>>

PacketsSpec == PacketsInit /\ [][PacketsNext]_<<part, vars, packingVars, syncVars>>
=============================================================================
