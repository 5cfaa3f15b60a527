------------------------------- MODULE MCLive -------------------------------
(***************************************************************************)
(* What must happen in the end, in four parts that share no state; a       *)
(* behaviour is one of a single part, under the fairness of that part.     *)
(*   "reliable"   ReliableChannel, a channel of each mode.                 *)
(*   "transport"  Transport with an unreliable channel that reports.       *)
(*   "window"     PredictionWindow: two peers that wait for each other.    *)
(*   "barrier"    P2PSession: two peers that start a session.              *)
(***************************************************************************)
EXTENDS MCReliableChannel, Transport, PredictionWindow, MCP2P

VARIABLE part

LiveInit ==
    /\ Init
    /\ TransportInit
    /\ WindowInit
    /\ P2PInit
    /\ part \in {"reliable"}
                \cup (IF channel = CHOOSE ch \in Channels : TRUE THEN {"transport", "window", "barrier"} ELSE {})

LiveNext ==
    \/ part = "reliable" /\ Next /\ UNCHANGED <<part, transportVars, windowVars, p2pVars>>
    \/ part = "transport" /\ TransportNext /\ UNCHANGED <<part, vars, windowVars, p2pVars>>
    \/ part = "window" /\ WindowNext /\ UNCHANGED <<part, vars, transportVars, p2pVars>>
    \/ part = "barrier" /\ P2PNext /\ UNCHANGED <<part, vars, transportVars, windowVars>>

\* The fairness of each part.  In the other parts no action that the first two
\* are fair to is ever enabled; frames always are.
LiveSpec ==
    /\ LiveInit
    /\ [][LiveNext]_<<part, vars, transportVars, windowVars, p2pVars>>
    /\ Fairness
    /\ TransportFairness
    /\ \A p \in WindowPeers : /\ WF_windowVars(part = "window" /\ Frame(p, 0))
                               /\ WF_windowVars(part = "window" /\ Frame(p, 1))
    /\ \A p, q \in WindowPeers : p # q =>
          SF_windowVars(\E t \in 0 .. MaxWindowTick : ReceiveInput(InputMessage(p, q, t)))
    /\ \A p \in Peers : WF_p2pVars(part = "barrier" /\ p \in cohort /\ TickingFrame(p))

\* EveryoneAdvances, of the sessions there are: peers never end up waiting for
\* each other, however many of their inputs were lost (update_prediction_window_wait).
SessionsAdvance == part = "window" => EveryoneAdvances
=============================================================================
