----------------------------- MODULE MCNetcode -----------------------------
(***************************************************************************)
(* Instances of Netcode: which tokens the clients hold and which ids.      *)
(***************************************************************************)
EXTENDS Netcode, TLC

\* One client with two tokens, one after the other.
TwoInTurn == "a" :> {"t1", "t2"}
\* Two clients, the first with two tokens: with MaxTokens = 2 either both
\* clients connect, or the first connects twice.
ThreeTokens == "a" :> {"t1", "t2"} @@ "b" :> {"tb"}

\* Every token of a client is for the same user.
IdPerClient == [t \in {"t1", "t2"} |-> "i1"] @@ "tb" :> "i2"
=============================================================================
