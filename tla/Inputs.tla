------------------------------- MODULE Inputs -------------------------------
(***************************************************************************)
(* The inputs of one player, on their way from the client that captures    *)
(* them to one receiver: the server, which simulates a tick with the input *)
(* it holds for it, or another client, which gets the same messages        *)
(* rebroadcast by the server (or directly from a peer), simulates ahead    *)
(* with predicted inputs and replays when a message contradicts them.      *)
(*                                                                         *)
(* A client captures the input of tick + delay, keeps it in its own        *)
(* InputBuffer and sends the last ticks of that buffer every frame.  The   *)
(* input channel is unordered and unreliable: messages are lost and        *)
(* overtake each other.  The receiver handles the messages of a frame one  *)
(* by one; the InputBuffer of a new player is inserted by a command, at    *)
(* the end of the frame's messages.  A frame then simulates at most one    *)
(* tick.                                                                   *)
(***************************************************************************)
EXTENDS InputBuffer, SequencesExt

CONSTANTS
    Actions,       \* what a player may do in a tick
    Delay,         \* ticks of input delay of the player
    Redundancy,    \* ticks that a message repeats
    HistoryDepth,  \* ticks kept by a client for a replay
    MaxRollback,   \* the deepest replay
    Lookahead,     \* how far ahead of the server an input may be
    Overtaking,    \* receivers whose messages may overtake each other
    MaxInFlight,   \* bound on messages under way
    MaxInputTick   \* bound on ticks

ASSUME InputConstants ==
    /\ None \notin Actions /\ Same \notin Actions /\ None # Same
    /\ Delay \in Nat /\ Redundancy \in Nat \ {0} /\ HistoryDepth \in Nat \ {0}
    /\ MaxRollback \in Nat /\ Lookahead \in Nat
    /\ Overtaking \subseteq {"server", "client"}

VARIABLES
    role,       \* which receiver: "server" or "client"
    cTick, cBuffer,   \* the player's client: LocalTimeline and InputBuffer
    truth,      \* history: what the player did in each tick
    inFlight,   \* the InputMessages under way, oldest first
    rTick,      \* the receiver's LocalTimeline
    rBuffer,    \* its InputBuffer for the player, or EmptyBuffer
    exists,     \* whether that component is on the entity
    queued,     \* the InputBuffers that commands will insert
    rAction,    \* its ActionState for the player
    earliest,   \* earliest_mismatch_input
    used,       \* history: the input each tick was simulated with
    known,      \* history: ticks whose input was accepted in time
    rejected    \* history: ticks whose replay was refused

inputVars == <<role, cTick, cBuffer, truth, inFlight, rTick, rBuffer, exists, queued,
               rAction, earliest, used, known, rejected>>

senderVars == <<cTick, cBuffer, truth>>

InputInit ==
    /\ role \in {"server", "client"}
    /\ cTick = 0 /\ cBuffer = EmptyBuffer /\ truth = <<>>
    /\ inFlight = <<>>
    /\ rTick = 0 /\ rBuffer = EmptyBuffer /\ exists = FALSE /\ queued = <<>>
    /\ rAction = None /\ earliest = NoTick
    /\ used = <<>> /\ known = {} /\ rejected = {}

-----------------------------------------------------------------------------
(***************************************************************************)
(* The player's client.  A frame that simulates a tick buffers what the    *)
(* player does for the delayed tick; every frame sends the last ticks, and *)
(* then cleans the buffer.                                                 *)
(***************************************************************************)
Capture(value) == Set(cBuffer, cTick + 1 + Delay, value)

PrepareMessage(b, tick) ==
    [end |-> tick + Delay, states |-> StateSequence(b, Redundancy, tick + Delay)]

CleanBuffer(b, tick) == Pop(b, Before(tick, HistoryDepth))

CaptureFrame(value) ==
    /\ cTick < MaxInputTick /\ Len(inFlight) < MaxInFlight
    /\ cTick' = cTick + 1
    /\ \E b \in {Capture(value)} :
        /\ inFlight' = Append(inFlight, PrepareMessage(b, cTick'))
        /\ cBuffer' = CleanBuffer(b, cTick')
    \* The delayed ticks before the first one captured have no input.
    /\ truth' = IF truth = <<>> THEN [t \in 1..(1 + Delay) |-> IF t = 1 + Delay THEN value ELSE None]
                ELSE Append(truth, value)
    /\ UNCHANGED <<role, rTick, rBuffer, exists, queued, rAction, earliest, used, known, rejected>>

\* A frame without a tick sends the same inputs once more.
IdleFrame ==
    /\ cTick > 0 /\ Len(inFlight) < MaxInFlight
    /\ inFlight' = Append(inFlight, PrepareMessage(cBuffer, cTick))
    /\ cBuffer' = CleanBuffer(cBuffer, cTick)
    /\ UNCHANGED <<role, cTick, truth, rTick, rBuffer, exists, queued, rAction, earliest,
                   used, known, rejected>>

\* The input channel neither orders nor repeats; a link that keeps the order
\* delivers the oldest of the messages that it does not lose.
Arrival(i) ==
    /\ i = 1 \/ role \in Overtaking
    /\ inFlight' = RemoveAt(inFlight, i)

LoseInput(i) ==
    /\ inFlight' = RemoveAt(inFlight, i)
    /\ UNCHANGED <<role, rTick, rBuffer, exists, queued, rAction, earliest, used, known, rejected>>
    /\ UNCHANGED senderVars

Covered(m) == (m.end - Len(m.states) + 1)..m.end

-----------------------------------------------------------------------------
(***************************************************************************)
(* The server.  A message from too far away is dropped; the others update  *)
(* the buffer, or the new buffer that the entity will get.                 *)
(***************************************************************************)
WithinLookahead(end) == end <= rTick + Lookahead

\* A mutant of TakenByServer: what was received for these ticks is dropped.
TakenByServerFresh(m) == UpdateBuffer(EmptyBuffer, m.states, m.end).buffer

TakenByServer(m) == UpdateBuffer(rBuffer, m.states, m.end).buffer

ServerReceive(i) ==
    /\ role = "server"
    /\ Arrival(i)
    /\ LET m == inFlight[i]
       IN  IF ~WithinLookahead(m.end) THEN UNCHANGED <<rBuffer, queued, known>>
           ELSE /\ IF exists THEN /\ rBuffer' = TakenByServer(m) /\ queued' = queued
                             ELSE /\ queued' = <<TakenByServer(m)>> /\ rBuffer' = rBuffer
                /\ known' = (IF exists THEN known ELSE {})
                                \cup {t \in Covered(m) : t > rTick /\ t > rBuffer.lastRemote}
    /\ UNCHANGED <<role, rTick, exists, rAction, earliest, used, rejected>>
    /\ UNCHANGED senderVars

\* update_action_state: apply the input held or predicted for the tick, if
\* any, and drop the ticks that are over; the last input stays.
ServerTick ==
    /\ role = "server" /\ rTick < MaxInputTick
    /\ rTick' = rTick + 1
    /\ \E b \in {IF queued # <<>> THEN queued[1] ELSE rBuffer} :
        /\ rAction' = IF GetPredict(b, rTick') # None THEN GetPredict(b, rTick') ELSE rAction
        /\ rBuffer' = PopKeepingLast(b, Before(rTick', 1))
    /\ exists' = (exists \/ queued # <<>>)
    /\ queued' = <<>>
    /\ used' = Append(used, rAction')
    /\ UNCHANGED <<role, inFlight, earliest, known, rejected>>
    /\ UNCHANGED senderVars

-----------------------------------------------------------------------------
(***************************************************************************)
(* Another client.  A message that is not newer than the last one is       *)
(* skipped; a contradiction of a tick that was simulated asks for a replay *)
(* from it.                                                                *)
(***************************************************************************)
Newer(b, m) == b.lastRemote = NoTick \/ m.end > b.lastRemote

EarlierOf(a, b) == IF a = NoTick THEN b ELSE IF b = NoTick THEN a ELSE Min({a, b})

\* The first contradiction is at a tick that was already dropped from the
\* buffer: clip_after then drops everything.
OutOfReach(u) == u.mismatch # NoTick /\ u.mismatch < rBuffer.start

ClientReceive(i) ==
    /\ role = "client"
    /\ Arrival(i)
    /\ LET m == inFlight[i]
       IN  IF ~Newer(rBuffer, m) THEN UNCHANGED <<rBuffer, queued, earliest, known, rAction>>
           ELSE \E u \in {UpdateBuffer(rBuffer, m.states, m.end)} :
                /\ IF exists THEN /\ rBuffer' = u.buffer
                                  /\ UNCHANGED <<queued, rAction>>
                             ELSE /\ queued' = <<u.buffer>> /\ rBuffer' = rBuffer
                                  /\ rAction' = GetLast(u.buffer)
                /\ earliest' = IF u.mismatch <= rTick THEN EarlierOf(earliest, u.mismatch)
                               ELSE earliest
                /\ known' = CASE ~exists -> Covered(m)
                               [] exists /\ OutOfReach(u) -> {}
                               [] exists /\ ~OutOfReach(u) ->
                                    known \cup {t \in Covered(m) : t > rBuffer.lastRemote}
    /\ UNCHANGED <<role, rTick, exists, used, rejected>>
    /\ UNCHANGED senderVars

\* get_action_state for one tick: the input of exactly this tick, or the
\* last one again, which is then recorded as the prediction.
SimulateTick(s, tick) ==
    LET got == Get(s.buffer, tick)
    IN  IF got # None \/ ~s.exists
        THEN [s EXCEPT !.action = IF got # None THEN got ELSE s.action,
                       !.used = [t \in 1..Max({tick, Len(s.used)}) |->
                                    IF t = tick THEN IF got # None THEN got ELSE s.action
                                    ELSE s.used[t]]]
        ELSE [s EXCEPT !.buffer = Set(s.buffer, tick, s.action),
                       !.used = [t \in 1..Max({tick, Len(s.used)}) |->
                                    IF t = tick THEN s.action ELSE s.used[t]]]

Simulate(s, from, to) ==
    LET run[k \in 0..(to - from + 1)] ==
            IF k = 0 THEN s ELSE SimulateTick(run[k - 1], from + k - 1)
    IN  run[to - from + 1]

\* A mutant of ReplayFrom: the tick that was contradicted is not replayed.
ReplayFromNext(tick) == tick + 1

ReplayFrom(tick) == tick

\* check_rollback on an input mismatch: restore the tick before it, unless
\* that is too long ago, and simulate again up to the current tick.
TooDeep(tick) == rTick - Before(tick, 1) > MaxRollback

ClientFrame(ticks) ==
    /\ role = "client" /\ rTick + ticks <= MaxInputTick
    /\ rTick' = rTick + ticks
    /\ exists' = (exists \/ queued # <<>>)
    /\ queued' = <<>>
    /\ \E s \in {[buffer |-> IF queued # <<>> THEN queued[1] ELSE rBuffer,
                  action |-> rAction, used |-> used, exists |-> exists']} :
       \E r \in {IF earliest = NoTick \/ TooDeep(earliest) THEN s
                 ELSE Simulate(s, ReplayFrom(earliest), rTick)} :
       \E f \in {Simulate(r, rTick + 1, rTick')} :
        /\ rBuffer' = CleanBuffer(f.buffer, rTick')
        /\ rAction' = f.action
        /\ used' = f.used
    /\ rejected' = IF earliest # NoTick /\ TooDeep(earliest)
                   THEN rejected \cup earliest..rTick ELSE rejected
    /\ earliest' = NoTick
    /\ UNCHANGED <<role, inFlight, known>>
    /\ UNCHANGED senderVars

InputNext ==
    \/ \E v \in Actions : CaptureFrame(v)
    \/ IdleFrame
    \/ \E i \in DOMAIN inFlight : ServerReceive(i) \/ ClientReceive(i) \/ LoseInput(i)
    \/ ServerTick
    \/ \E n \in 0..1 : ClientFrame(n)

InputSpec == InputInit /\ [][InputNext]_inputVars

-----------------------------------------------------------------------------
(***************************************************************************)
(* An input that reached the server before its tick is the one the server  *)
(* simulates the tick with, whatever was lost, merged or dropped from the  *)
(* buffer in between (update_buffer, pop_keeping_last, get_predict).       *)
(***************************************************************************)
AppliedIsTrue ==
    role = "server" => \A t \in known \cap DOMAIN used : used[t] = truth[t]

(***************************************************************************)
(* Another client ends up with what the player did: every tick it has      *)
(* simulated and whose input it has accepted was simulated with that       *)
(* input, if need be in a replay, unless a replay is still owed or was     *)
(* refused because it was too deep.                                        *)
(***************************************************************************)
ReplayedIsTrue ==
    role = "client" /\ earliest = NoTick /\ queued = <<>> =>
        \A t \in (known \cap DOMAIN used) \ rejected : used[t] = truth[t]

(***************************************************************************)
(* What a client holds as confirmed, up to last_remote_tick, is what the   *)
(* player did: predictions, replays and the cleaning of the buffer never   *)
(* change an input that was received.                                      *)
(***************************************************************************)
ConfirmedIsTrue ==
    role = "client" /\ exists =>
        \A t \in known \cap Ticks(rBuffer) : t <= rBuffer.lastRemote =>
            Get(rBuffer, t) = truth[t]

\* The input that is applied to a tick, by the server, in a rollback and behind the
\* frontier of confirmed inputs, is the one the player gave for it, when it came in
\* time: InputBuffer's compressed entries survive loss, reordering and cleaning.
InputsAreTrue == AppliedIsTrue /\ ReplayedIsTrue /\ ConfirmedIsTrue
=============================================================================
