------------------------------- MODULE MCP2P -------------------------------
(***************************************************************************)
(* Instances of P2PSession: two peers that try twice and may stop, two     *)
(* peers with every fault, and three peers, without faults or one of which *)
(* may take a Link out of the session.                                     *)
(***************************************************************************)
EXTENDS P2PSession, TLC

CONSTANTS pa, pb, pc

Scenario(peers, timeout, attempts, ticks, catchUp, kinds) ==
    [peers |-> peers, timeout |-> timeout, attempts |-> attempts, ticks |-> ticks,
     catchUp |-> catchUp, faults |-> kinds]

Pairs == kSubset(2, {pa, pb, pc})

MCScenarios ==
    {Scenario(p, 1, 2, 2, 1, {"Stop"}) : p \in Pairs}
    \cup {Scenario(p, 2, 1, 3, 2, Faults) : p \in Pairs}
    \cup {Scenario({pa, pb, pc}, 1, 1, 1, 1, {"Undeclare"}), Scenario({pa, pb, pc}, 1, 1, 2, 1, {})}

\* Two peers for the run that asks what happens in the end.
LiveScenarios == {Scenario({pa, pb}, 1, 1, 2, 1, {"LinkDown", "TickJump"})}

AnyPeer == Permutations({pa, pb, pc})
=============================================================================
