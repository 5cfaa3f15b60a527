---------------------------- MODULE MCTransport ----------------------------
(***************************************************************************)
(* The channels and the transport, in three parts that share no state; a   *)
(* behaviour is one of a single part.                                      *)
(*   "reliable"    ReliableChannel, a channel of each mode with single     *)
(*                 messages and one with fragments.                        *)
(*   "unreliable"  UnreliableChannel in both delivery modes.               *)
(*   "transport"   Transport with channels of every kind.                  *)
(***************************************************************************)
EXTENDS MCReliableChannel, UnreliableChannel, Transport

VARIABLE part

AnyChannel == CHOOSE c \in Channels : TRUE

ChannelsInit ==
    /\ Init
    /\ UnreliableInit
    /\ TransportInit
    /\ part \in {"reliable", "unreliable", "transport"}
    /\ part # "unreliable" => ~sequenced
    /\ part # "reliable" => channel = AnyChannel

ChannelsNext ==
    \/ part = "reliable" /\ Next /\ UNCHANGED <<part, unreliableVars, transportVars>>
    \/ part = "unreliable" /\ UnreliableNext /\ UNCHANGED <<part, vars, transportVars>>
    \/ part = "transport" /\ TransportNext /\ UNCHANGED <<part, vars, unreliableVars>>

ChannelsSpec == ChannelsInit /\ [][ChannelsNext]_<<part, vars, unreliableVars, transportVars>>
=============================================================================
