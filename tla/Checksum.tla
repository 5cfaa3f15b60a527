------------------------------ MODULE Checksum ------------------------------
(***************************************************************************)
(* The checksums by which the peers of a deterministic session find out    *)
(* that their simulations have parted (checksum.rs, the peer-to-peer       *)
(* side), over the inputs and the waiting of PredictionWindow.             *)
(*                                                                         *)
(* A frame replays the ticks whose predicted inputs a message has          *)
(* contradicted, runs its fixed ticks with the inputs it holds or guesses, *)
(* and sends the checksum of the newest tick whose inputs are all          *)
(* confirmed.  A sample waits for its counterpart: peers confirm the same  *)
(* tick in different frames, and the channel loses and reorders.           *)
(*                                                                         *)
(* The state after a tick is the sequence of inputs it was simulated with, *)
(* and a checksum is that state: the simulation is deterministic and       *)
(* collisions are left out.                                                *)
(***************************************************************************)
EXTENDS PredictionWindow, Sequences

CONSTANTS PeerActions,     \* per peer: what its player may do in a tick
          ChecksumTicks,   \* CHECKSUM_HISTORY_TICKS: 30
          MaxUnderway      \* bound: messages under way

ASSUME ChecksumAssumption == {ChecksumTicks, MaxUnderway} \subseteq Nat

VARIABLES played,     \* per peer: the inputs its player gave, from tick 1 on
          simulated,  \* per peer and tick: the inputs the tick was simulated with
          contested,  \* per peer: earliest_mismatch_input, NoInputYet when none
          pending,    \* per peer: PendingP2PChecksums, by tick
          sumNet,     \* ChecksumMessages under way
          verdicts,   \* history: the comparisons that were made
          twice       \* history: a sample was compared again

sumVars == <<played, simulated, contested, pending, sumNet, verdicts, twice>>

\* No input for a tick; Option<u64>::None of a local checksum.
NoAction == "none"
NoSum == <<>>

\* The delayed ticks before the first captured one have no input.
SumInit ==
    /\ WindowInit
    /\ played = [p \in WindowPeers |-> [t \in 1 .. WindowDelay |-> NoAction]]
    /\ simulated = [p \in WindowPeers |-> <<>>]
    /\ contested = [p \in WindowPeers |-> NoInputYet]
    /\ pending = [p \in WindowPeers |-> <<>>]
    /\ sumNet = {} /\ verdicts = {} /\ twice = FALSE

-----------------------------------------------------------------------------
(* Simulating and replaying.                                               *)

\* get_action_state: the input held for the tick, or the last one before it again.
InputFor(p, q, t, plays) ==
    LET held == {i \in (IF q = p THEN DOMAIN plays[p] ELSE inputsHeld[p][q]) : i <= t}
    IN  IF held = {} THEN NoAction ELSE plays[q][Max(held)]

\* Mutant of ReplayTick: a replay as deep as the window is refused.
ReplayTickShallow(p) ==
    IF contested[p] # NoInputYet /\ simTick[p] - (contested[p] - 1) < MaxPredicted
    THEN contested[p] ELSE simTick[p] + 1

\* check_rollback on an input mismatch: the first tick that is simulated again,
\* unless that is deeper than a rollback may go.
ReplayTick(p) ==
    IF contested[p] # NoInputYet /\ simTick[p] - (contested[p] - 1) <= MaxPredicted
    THEN contested[p] ELSE simTick[p] + 1

\* The ticks of p after a frame that ends at tick t.
SimulatedTo(p, t, plays) ==
    [i \in 1 .. t |-> IF i < ReplayTick(p) THEN simulated[p][i]
                      ELSE [q \in WindowPeers |-> InputFor(p, q, i, plays)]]

\* The inputs of a message that its receiver has simulated otherwise.
Contradicted(m) ==
    {t \in InputsOf(m) : t <= simTick[m.to] /\ simulated[m.to][t][m.from] # played[m.from][t]}

EarlierTick(a, ticks) ==
    IF ticks = {} THEN a ELSE IF a = NoInputYet THEN Min(ticks) ELSE Min({a} \cup ticks)

-----------------------------------------------------------------------------
(* PendingP2PChecksums.                                                    *)

Entry(pend, t) == IF t \in DOMAIN pend THEN pend[t] ELSE [local |-> NoSum, remote |-> <<>>]

With(f, x, v) == [y \in DOMAIN f \cup {x} |-> IF y = x THEN v ELSE f[y]]

\* log_p2p_comparison, for the remote samples in `remote`.
Compared(p, t, local, remote) ==
    {[at |-> p, of |-> q, tick |-> t, match |-> remote[q] = local] : q \in DOMAIN remote}

\* Mutant of LocalVerdicts: samples that were waiting are not compared.
LocalVerdictsNone(p, t, sum) == {}

\* record_local: the samples that waited for this tick are compared with it, once.
LocalVerdicts(p, t, sum) ==
    LET e == Entry(pending[p], t)
    IN  IF e.local = sum THEN {} ELSE Compared(p, t, sum, e.remote)

RecordLocal(p, t, sum) == With(pending[p], t, [Entry(pending[p], t) EXCEPT !.local = sum])

\* Mutant of RemoteVerdicts: a sample that is known is compared again.
RemoteVerdictsAgain(m) ==
    LET e == Entry(pending[m.to], m.tick)
    IN  IF e.local = NoSum THEN {} ELSE Compared(m.to, m.tick, e.local, With(<<>>, m.from, m.sum))

\* record_remote: a sample that is new is compared if this peer has computed the tick.
RemoteVerdicts(m) ==
    LET e == Entry(pending[m.to], m.tick)
        known == m.from \in DOMAIN e.remote /\ e.remote[m.from] = m.sum
    IN  IF known \/ e.local = NoSum THEN {}
        ELSE Compared(m.to, m.tick, e.local, With(<<>>, m.from, m.sum))

RecordRemote(m) ==
    LET e == Entry(pending[m.to], m.tick)
    IN  With(pending[m.to], m.tick, [e EXCEPT !.remote = With(@, m.from, m.sum)])

\* clean
Cleaned(pend, t) == [i \in {j \in DOMAIN pend : j >= t - ChecksumTicks} |-> pend[i]]

Judged(new) ==
    /\ verdicts' = verdicts \cup new
    /\ twice' = (twice \/ \E v \in new, w \in verdicts : v.at = w.at /\ v.of = w.of /\ v.tick = w.tick)

-----------------------------------------------------------------------------

\* Mutant of SumTick: the checksum is that of the newest tick.
SumTickNewest(p, t) == IF ConfirmedInput(p) = NoInputYet THEN NoInputYet ELSE t

\* compute_and_send_checksum: the tick to hash at the end of a frame at tick t.
SumTick(p, t) ==
    IF ConfirmedInput(p) # NoInputYet /\ ConfirmedInput(p) <= t THEN ConfirmedInput(p) ELSE NoInputYet

SendChecksum(p, c, sum) ==
    IF c = NoInputYet THEN UNCHANGED <<pending, sumNet, verdicts, twice>>
    ELSE /\ pending' = [pending EXCEPT ![p] = Cleaned(RecordLocal(p, c, sum), c)]
         /\ Judged(LocalVerdicts(p, c, sum))
         /\ sumNet' = sumNet \cup {[from |-> p, to |-> q, tick |-> c, sum |-> sum] : q \in Remotes(p)}

\* A frame of p that runs n fixed ticks, with the inputs `acts` of its player.
SumFrame(p, n, acts) ==
    /\ Frame(p, n)
    /\ played' = [played EXCEPT ![p] = @ \o acts]
    /\ \E t \in {simTick[p] + n} :
       \E ran \in {SimulatedTo(p, t, played')} :
          /\ simulated' = [simulated EXCEPT ![p] = ran]
          /\ SendChecksum(p, SumTick(p, t),
                          IF SumTick(p, t) = NoInputYet THEN NoSum ELSE SubSeq(ran, 1, SumTick(p, t)))
    /\ contested' = [contested EXCEPT ![p] = NoInputYet]
    /\ Cardinality(inputNet') + Cardinality(sumNet') <= MaxUnderway

\* An input message; what it contradicts is replayed in the next frame.
SumReceiveInput(m) ==
    /\ ReceiveInput(m)
    /\ contested' = IF IsNewer(m)
                    THEN [contested EXCEPT ![m.to] = EarlierTick(@, Contradicted(m))] ELSE contested
    /\ UNCHANGED <<played, simulated, pending, sumNet, verdicts, twice>>

SumLoseInput(m) == LoseInputMessage(m) /\ UNCHANGED sumVars

\* receive_p2p_checksum_messages
ReceiveChecksum(m) ==
    /\ m \in sumNet
    /\ sumNet' = sumNet \ {m}
    /\ pending' = [pending EXCEPT ![m.to] = RecordRemote(m)]
    /\ Judged(RemoteVerdicts(m))
    /\ UNCHANGED <<played, simulated, contested, windowVars>>

LoseChecksum(m) ==
    /\ m \in sumNet
    /\ sumNet' = sumNet \ {m}
    /\ UNCHANGED <<played, simulated, contested, pending, verdicts, twice, windowVars>>

SumNext ==
    \/ \E p \in WindowPeers, n \in 0 .. TicksPerFrame : \E acts \in [1 .. n -> PeerActions[p]] :
          SumFrame(p, n, acts)
    \/ \E m \in inputNet : SumReceiveInput(m) \/ SumLoseInput(m)
    \/ \E m \in sumNet : ReceiveChecksum(m) \/ LoseChecksum(m)

SumSpec == SumInit /\ [][SumNext]_<<sumVars, windowVars>>

-----------------------------------------------------------------------------
(* The properties.                                                         *)

\* Peers that simulate deterministically never report each other: a checksum is
\* taken of a tick only when no input that can still arrive would change it.
NoFalseAlarm == \A v \in verdicts : v.match

\* Two samples of one tick that meet are compared, whichever came first.
MeetingIsCompared ==
    \A p \in WindowPeers : \A t \in DOMAIN pending[p] : \A q \in DOMAIN pending[p][t].remote :
        pending[p][t].local # NoSum =>
            \E v \in verdicts : v.at = p /\ v.of = q /\ v.tick = t

\* A tick whose checksum was sent is final: no replay that is due goes back to it.
HashedIsFinal ==
    \A p \in WindowPeers : \A t \in DOMAIN pending[p] :
        contested[p] # NoInputYet /\ pending[p][t].local # NoSum => t < contested[p]

\* Samples are compared only once, although a peer sends the checksum of a tick in every frame
\* until the next one is confirmed, and old entries are cleaned away.
ComparedOnce == ~ twice

\* What a deterministic session may rely on in its checksums, whatever is lost, late
\* or overtaken (compute_and_send_checksum, record_local, record_remote, clean).
ChecksumsAgree == NoFalseAlarm /\ MeetingIsCompared /\ ComparedOnce /\ HashedIsFinal
=============================================================================
