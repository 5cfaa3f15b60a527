-------------------------- MODULE PredictionWindow --------------------------
(***************************************************************************)
(* The prediction window of a deterministic session: every peer simulates  *)
(* ahead of the inputs it has, and stops its virtual time when one more    *)
(* tick would pass what a rollback can repair (PredictionWindowWait of     *)
(* lightyear_sync, update_prediction_window_wait of                        *)
(* lightyear_deterministic_replication).                                   *)
(*                                                                         *)
(* A frame of a peer runs zero or more fixed ticks, then sends the inputs  *)
(* of the last Redundancy ticks and takes the wait decision for the next   *)
(* frame.  Input messages travel over an unordered, unreliable channel.    *)
(* Every peer waits for every other: what could go wrong is that all of    *)
(* them wait for inputs nobody will capture, or that a peer confirms ticks *)
(* whose inputs it never received.                                         *)
(***************************************************************************)
EXTENDS Integers, FiniteSets, FiniteSetsExt

CONSTANTS WindowPeers,     \* the peers of the session
          MaxPredicted,    \* effective_max_rollback_ticks: 7 with balanced()
          WindowDelay,     \* input_delay_ticks
          WindowRedundancy,\* num_ticks of an input message
          TicksPerFrame,   \* fixed ticks one frame may run
          MaxWindowTick,   \* bound: the session ends at this tick
          NoInputYet       \* no message of that peer was received: None

ASSUME WindowAssumption ==
    /\ {MaxPredicted, WindowDelay} \subseteq Nat
    /\ {WindowRedundancy, TicksPerFrame, MaxWindowTick} \subseteq Nat \ {0}
    /\ NoInputYet \notin Int
    /\ \E p, q \in WindowPeers : p # q

VARIABLES simTick,      \* per peer: LocalTimeline::tick
          waiting,      \* per peer: PredictionWindowWait::waiting
          originTick,   \* per peer: PredictionWindowWait::origin_tick
          lastRemote,   \* per peer and remote: InputBuffer::last_remote_tick
          inputsHeld,   \* per peer and remote: the ticks whose input it received
          inputNet      \* input messages under way

windowVars == <<simTick, waiting, originTick, lastRemote, inputsHeld, inputNet>>

Remotes(p) == WindowPeers \ {p}

\* PREDICTION_WINDOW_HYSTERESIS_TICKS
HysteresisTicks == 2

WindowTypeOK ==
    /\ simTick \in [WindowPeers -> 0 .. MaxWindowTick]
    /\ waiting \in [WindowPeers -> BOOLEAN]
    /\ originTick \in [WindowPeers -> Int \cup {NoInputYet}]
    /\ lastRemote \in [WindowPeers -> [WindowPeers -> Int \cup {NoInputYet}]]

WindowInit ==
    /\ simTick = [p \in WindowPeers |-> 0]
    /\ waiting = [p \in WindowPeers |-> FALSE]
    /\ originTick = [p \in WindowPeers |-> NoInputYet]
    /\ lastRemote = [p \in WindowPeers |-> [q \in WindowPeers |-> NoInputYet]]
    /\ inputsHeld = [p \in WindowPeers |-> [q \in WindowPeers |-> {}]]
    /\ inputNet = {}

\* update_last_confirmed_input: the earliest of the last remote ticks, None
\* while some stream has not received its first message.
ConfirmedInput(p) ==
    IF \E q \in Remotes(p) : lastRemote[p][q] = NoInputYet
    THEN NoInputYet
    ELSE Min({lastRemote[p][q] : q \in Remotes(p)})

\* Mutant of ResumeAt: the hysteresis is not cut off at zero.
ResumeUnclamped == MaxPredicted - HysteresisTicks

\* saturating_sub: a small window resumes at zero prediction depth.
ResumeAt == IF MaxPredicted > HysteresisTicks THEN MaxPredicted - HysteresisTicks ELSE 0

\* Mutant of MustWait: the window is passed by one tick before the wait.
MustWaitLate(p, t, confirmed, origin) ==
    LET depth == t - (IF confirmed = NoInputYet THEN origin ELSE confirmed)
    IN  /\ ~ (confirmed = NoInputYet /\ t = origin)
        /\ IF waiting[p] THEN depth > ResumeAt ELSE depth > MaxPredicted

\* PredictionWindowWait::update: the wait decision for the next frame.
MustWait(p, t, confirmed, origin) ==
    LET depth == t - (IF confirmed = NoInputYet THEN origin ELSE confirmed)
    IN  /\ ~ (confirmed = NoInputYet /\ t = origin)
        /\ IF waiting[p] THEN depth > ResumeAt ELSE depth >= MaxPredicted

\* prepare_input_message: the message for one remote, up to the delayed tick.
InputMessage(p, q, t) == [from |-> p, to |-> q, end |-> t + WindowDelay]

\* The messages of a frame that ends at tick t.  Before its first fixed tick
\* (tick 1) a peer has captured nothing, and its message names no target.
MessagesAt(p, t) == IF t = 0 THEN {} ELSE {InputMessage(p, q, t) : q \in Remotes(p)}

\* A frame that runs n fixed ticks.  A waiting peer has a virtual time of
\* relative speed zero and runs none; it still sends its latest inputs.
Frame(p, n) ==
    /\ waiting[p] => n = 0
    /\ simTick[p] + n <= MaxWindowTick
    /\ \E t \in {simTick[p] + n} :
       \E origin \in {IF originTick[p] = NoInputYet THEN t ELSE originTick[p]} :
          /\ simTick' = [simTick EXCEPT ![p] = t]
          /\ originTick' = [originTick EXCEPT ![p] = origin]
          /\ waiting' = [waiting EXCEPT ![p] = MustWait(p, t, ConfirmedInput(p), origin)]
          /\ inputNet' = inputNet \cup MessagesAt(p, t)
    /\ UNCHANGED <<lastRemote, inputsHeld>>

\* Mutant of InputsOf: a message carries one tick less than num_ticks.
InputsOfShort(m) == {t \in m.end - WindowRedundancy + 2 .. m.end : t > WindowDelay}

\* build_from_input_buffer: the inputs of the last num_ticks ticks.  The first
\* captured input is the one of the first tick plus the delay.
InputsOf(m) == {t \in m.end - WindowRedundancy + 1 .. m.end : t > WindowDelay}

\* Mutant of IsNewer: the latest arrival wins, whatever its end tick.
IsNewerAlways(m) == TRUE

\* receive_remote_player_input_messages: a message that is not newer than the
\* last one is ignored.
IsNewer(m) == \/ lastRemote[m.to][m.from] = NoInputYet
              \/ lastRemote[m.to][m.from] < m.end

ReceiveInput(m) ==
    /\ m \in inputNet
    /\ inputNet' = inputNet \ {m}
    /\ IF IsNewer(m)
       THEN /\ lastRemote' = [lastRemote EXCEPT ![m.to][m.from] = m.end]
            /\ inputsHeld' = [inputsHeld EXCEPT ![m.to][m.from] = @ \cup InputsOf(m)]
       ELSE UNCHANGED <<lastRemote, inputsHeld>>
    /\ UNCHANGED <<simTick, waiting, originTick>>

\* The channel loses a message.
LoseInputMessage(m) ==
    /\ m \in inputNet
    /\ inputNet' = inputNet \ {m}
    /\ UNCHANGED <<simTick, waiting, originTick, lastRemote, inputsHeld>>

WindowNext ==
    \/ \E p \in WindowPeers, n \in 0 .. TicksPerFrame : Frame(p, n)
    \/ \E m \in inputNet : ReceiveInput(m) \/ LoseInputMessage(m)

\* A peer's frames go on, and virtual time that is not stopped sooner or later
\* fills a tick; a message sent again every frame gets through in the end.
WindowFairness ==
    /\ \A p \in WindowPeers : WF_windowVars(Frame(p, 0)) /\ WF_windowVars(Frame(p, 1))
    /\ \A p, q \in WindowPeers : p # q =>
          SF_windowVars(\E t \in 0 .. MaxWindowTick : ReceiveInput(InputMessage(p, q, t)))

WindowSpec == WindowInit /\ [][WindowNext]_windowVars /\ WindowFairness

-----------------------------------------------------------------------------
(* The properties. *)

Depth(p) == simTick[p] - ConfirmedInput(p)

\* A peer never simulates further than MaxPredicted ticks past the inputs it
\* has of every other peer, so that whatever input still arrives is within a
\* rollback it may do: what update_prediction_window_wait promises.  It needs
\* frames of a single tick: the decision is taken once for a whole frame.
WindowRespected ==
    \A p \in WindowPeers : ConfirmedInput(p) # NoInputYet => Depth(p) <= MaxPredicted

\* A peer that confirms a tick holds the inputs of every peer for every tick up
\* to it: the messages lost on the way were covered by the redundancy of a later
\* one, because nobody can run ahead of a peer that received nothing for long.
NoInputGap ==
    \A p \in WindowPeers : \A q \in Remotes(p) : lastRemote[p][q] # NoInputYet =>
        WindowDelay + 1 .. lastRemote[p][q] \subseteq inputsHeld[p][q]

\* The confirmed frontier of a peer never moves back, so no tick that was
\* reported as final (and whose checksum was sent) is open again.
FrontierAdvances ==
    [][\A p \in WindowPeers : ConfirmedInput(p) # NoInputYet =>
          /\ ConfirmedInput(p)' # NoInputYet
          /\ ConfirmedInput(p)' >= ConfirmedInput(p)]_windowVars

\* The peers never end up waiting for each other: every one of them reaches the
\* last tick of the session, however many messages were lost on the way.
EveryoneAdvances == <>(\A p \in WindowPeers : simTick[p] = MaxWindowTick)
=============================================================================
