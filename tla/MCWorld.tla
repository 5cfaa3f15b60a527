------------------------------ MODULE MCWorld ------------------------------
(***************************************************************************)
(* How the world is followed from other machines, in four parts that       *)
(* share no state; a behaviour is one of a single part.                    *)
(*   "join"           LateJoin: two clients that join a simulation under   *)
(*                    way.                                                 *)
(*   "interpolation"  Interpolation: the history of one component, sent as *)
(*                    values or as differences.                            *)
(*   "checksum"       Checksum: two peers of a deterministic session.      *)
(*   "messages"       Messages: the queues of one connection.              *)
(***************************************************************************)
EXTENDS LateJoin, Interpolation, Checksum, Messages, TLC

CONSTANTS p1, p2, left, right, idle

VARIABLE part

WorldInit ==
    /\ JoinInit
    /\ InterpInit
    /\ SumInit
    /\ MsgInit
    /\ part \in {"interpolation"} \cup (IF mode = "value"
                                        THEN {"join", "checksum", "messages"} ELSE {})

\* Bound: a request is repeated while no other client that is connected waits for an answer.
OneRepeats == \A c \in Joiners : manager[c].sent > 1 => \A d \in Others(c) : manager[d].sent = 0

WorldNext ==
    \/ part = "join" /\ JoinNext /\ OneRepeats' /\ UNCHANGED <<part, interpVars, sumVars, windowVars, msgVars>>
    \/ part = "interpolation" /\ InterpNext /\ UNCHANGED <<part, joinVars, sumVars, windowVars, msgVars>>
    \/ part = "checksum" /\ SumNext /\ UNCHANGED <<part, joinVars, interpVars, msgVars>>
    \/ part = "messages" /\ MsgNext /\ UNCHANGED <<part, joinVars, interpVars, sumVars, windowVars>>

WorldSpec ==
    WorldInit /\ [][WorldNext]_<<part, joinVars, interpVars, sumVars, windowVars, msgVars>>

\* One player decides in every tick, the other always does the same.
PlayerActions == p1 :> {left, right} @@ p2 :> {idle}

\* Nothing tells the clients of LateJoin apart, nor the choices of a player.
Alike == Permutations(Joiners) \cup Permutations({left, right})
=============================================================================
