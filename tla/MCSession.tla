----------------------------- MODULE MCSession -----------------------------
(***************************************************************************)
(* Connections and the sessions of peers over them, in four parts that     *)
(* share no state; a behaviour is one of a single part.                    *)
(*   "netcode"   Netcode: the handshake and the end of a connection.       *)
(*   "replay"    ReplayProtection: the packets of one connection.          *)
(*   "p2p"       P2PSession: the barrier at which a session starts.        *)
(*   "targets"   NetworkTarget: to which peers a message goes.             *)
(***************************************************************************)
EXTENDS MCNetcode, ReplayProtection, MCP2P, NetworkTarget

VARIABLE part

SessionInit ==
    /\ NetcodeInit
    /\ ReplayInit
    /\ P2PInit
    /\ TargetInit
    /\ part \in {"p2p"} \cup (IF scenario = CHOOSE s \in Scenarios : TRUE
                              THEN {"netcode", "replay", "targets"} ELSE {})

SessionNext ==
    \/ part = "netcode" /\ NetcodeNext /\ UNCHANGED <<part, replayVars, p2pVars, targetVars>>
    \/ part = "replay" /\ ReplayNext /\ UNCHANGED <<part, netcodeVars, p2pVars, targetVars>>
    \/ part = "p2p" /\ P2PNext /\ UNCHANGED <<part, netcodeVars, replayVars, targetVars>>
    \/ part = "targets" /\ TargetNext /\ UNCHANGED <<part, netcodeVars, replayVars, p2pVars>>

SessionSpec ==
    SessionInit /\ [][SessionNext]_<<part, netcodeVars, replayVars, p2pVars, targetVars>>
=============================================================================
