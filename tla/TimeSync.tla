------------------------------ MODULE TimeSync ------------------------------
(***************************************************************************)
(* Time synchronisation of a client with its remote (lightyear_sync): the  *)
(* ping manager of the client, the pongs of the remote, the readiness of   *)
(* the remote timeline, and the controller that shifts or paces the local  *)
(* timeline.                                                               *)
(*                                                                         *)
(* A ping is identified for the properties by its session and its number;  *)
(* on the wire it carries only the number modulo PingIds.  The store keeps *)
(* StoreSize pings, found by the number modulo StoreSize.                  *)
(***************************************************************************)
EXTENDS Integers, FiniteSets

CONSTANTS PingIds,          \* 65536: the number of PingId values
          StoreSize,        \* PING_BUFFER_SIZE: 128
          HandshakePings,   \* SyncConfig::handshake_pings: 3
          ErrorsThreshold,  \* SyncConfig::consecutive_errors_threshold: 3
          MaxPongAge,       \* a pong arrives before this many newer pings
          StaleDelivery,    \* BOOLEAN: the connection lets packets of an ended
                            \* session through (no netcode keys around them)
          MaxPings,         \* bound: pings of one session
          MaxSessions,      \* bound: sessions
          NoPing            \* None

ASSUME SyncAssumption ==
    /\ {PingIds, StoreSize, HandshakePings, ErrorsThreshold, MaxPongAge} \subseteq Nat \ {0}
    /\ {MaxPings, MaxSessions} \subseteq Nat
    /\ StaleDelivery \in BOOLEAN
    /\ NoPing \notin Nat \cup (Nat \X Nat) \cup ((Nat \X Nat) \X (Nat \X Nat))

VARIABLES linkUp,       \* the link has the Connected component
          session,      \* the number of the session
          pingStore,    \* slot -> the ping whose time it keeps, or NoPing
          pingsSent,    \* pings of this session; the next PingId is this, wrapped
          mostRecent,   \* most_recent_received_ping
          samples,      \* latency_samples_recv
          pongsToSend,  \* of the remote: pings it has not answered yet
          pings,        \* pings under way
          pongs,        \* pongs under way
          remoteSeen,   \* RemoteTimeline::received_packet
          isSynced,     \* LocalTimelineSync::is_synced
          errors,       \* SyncContext::consecutive_errors
          errorAhead,   \* SyncContext::previous_error_sign: the clock was ahead
          speed,        \* relative_speed, as its side of 1.0
          taken,        \* the pair <<ping the pong answers, ping that was measured>>
          ownSamples,   \* samples that measured a ping of this session
          streak        \* errors in a row on the side of the last one

pingVars == <<pingStore, pingsSent, mostRecent, samples, pongsToSend, pings, pongs>>
clockVars == <<remoteSeen, isSynced, errors, errorAhead, speed, streak>>
syncVars == <<linkUp, session, pingVars, clockVars, taken, ownSamples>>

Speeds == {"slow", "normal", "fast"}

\* An error of the clock: how large (2: beyond max_error_margin, 1: beyond
\* error_margin, 0: within), and on which side.
Offsets == [size : 0 .. 2, ahead : BOOLEAN]

\* Identifiers stay inside u16, and a session has no more samples than pings.
SyncTypeOK ==
    /\ linkUp \in BOOLEAN /\ isSynced \in BOOLEAN /\ remoteSeen \in BOOLEAN
    /\ session \in 0 .. MaxSessions /\ pingsSent \in 0 .. MaxPings
    /\ DOMAIN pingStore = 0 .. StoreSize - 1
    /\ mostRecent \in {NoPing} \cup 0 .. PingIds - 1
    /\ samples \in 0 .. MaxPings /\ ownSamples \in 0 .. MaxPings
    /\ {errors, streak} \subseteq 0 .. ErrorsThreshold /\ speed \in Speeds

\* PingManager::default, SyncContext::default
SyncInit ==
    /\ linkUp = FALSE /\ session = 0
    /\ pingStore = [i \in 0 .. StoreSize - 1 |-> NoPing]
    /\ pingsSent = 0 /\ mostRecent = NoPing /\ samples = 0
    /\ pongsToSend = {} /\ pings = {} /\ pongs = {}
    /\ remoteSeen = FALSE /\ isSynced = FALSE
    /\ errors = 0 /\ errorAhead = TRUE /\ speed = "normal" /\ streak = 0
    /\ taken = NoPing /\ ownSamples = 0

-----------------------------------------------------------------------------
(* The ping manager. *)

\* Mutant of WirePing: the identifier is wider than it is on the wire.
WirePingWide(ping) == ping[2]

\* PingId
WirePing(ping) == ping[2] % PingIds

\* Mutant of Slot: the buffer uses one slot less than it has.
SlotShort(id) == id % (StoreSize - 1)

\* SequenceBuffer::index
Slot(id) == id % StoreSize

\* maybe_prepare_ping: the interval has passed, a new ping is stored and sent.
SendPing ==
    /\ linkUp /\ pingsSent < MaxPings
    /\ \E ping \in {<<session, pingsSent>>} :
          /\ pingStore' = [pingStore EXCEPT ![Slot(WirePing(ping))] = ping]
          /\ pings' = pings \cup {ping}
    /\ pingsSent' = pingsSent + 1
    /\ UNCHANGED <<linkUp, session, mostRecent, samples, pongsToSend, pongs, clockVars, taken,
                   ownSamples>>

\* The network: what arrives is at most MaxPongAge pings old.
Arrives(ping) == ping[1] = session => pingsSent - ping[2] <= MaxPongAge

\* buffer_pending_pong at the remote.
ReceivePing(ping) ==
    /\ linkUp /\ ping \in pings /\ Arrives(ping)
    /\ pings' = pings \ {ping}
    /\ pongsToSend' = pongsToSend \cup {ping}
    /\ UNCHANGED <<linkUp, session, pingStore, pingsSent, mostRecent, samples, pongs, clockVars,
                   taken, ownSamples>>

\* drain_pending_pongs at the remote.
SendPongs ==
    /\ linkUp /\ pongsToSend # {}
    /\ pongs' = pongs \cup pongsToSend
    /\ pongsToSend' = {}
    /\ UNCHANGED <<linkUp, session, pingStore, pingsSent, mostRecent, samples, pings, clockVars,
                   taken, ownSamples>>

\* Mutant of MoreRecent: every pong that finds its ping is used.
MoreRecentAny(id) == TRUE

\* pong.ping_id > latest, for wrapping identifiers
MoreRecent(id) == mostRecent = NoPing \/ (id - mostRecent) % PingIds \in 1 .. (PingIds \div 2) - 1

\* process_pong: the stored ping is taken out of its slot; an older pong than
\* the most recent one is not used.
ProcessPong(ping) ==
    \E id \in {WirePing(ping)} : \E stored \in {pingStore[Slot(WirePing(ping))]} :
        /\ pingStore' = [pingStore EXCEPT ![Slot(id)] = NoPing]
        /\ IF stored # NoPing /\ MoreRecent(id)
           THEN /\ mostRecent' = id
                /\ samples' = samples + 1
                /\ taken' = <<ping, stored>>
                /\ ownSamples' = IF ping[1] = session THEN ownSamples + 1 ELSE ownSamples
           ELSE UNCHANGED <<mostRecent, samples, taken, ownSamples>>

ReceivePong(ping) ==
    /\ linkUp /\ ping \in pongs /\ Arrives(ping)
    /\ pongs' = pongs \ {ping}
    /\ ProcessPong(ping)
    /\ UNCHANGED <<linkUp, session, pingsSent, pongsToSend, pings, clockVars>>

LosePing ==
    /\ \/ \E ping \in pings : pings' = pings \ {ping} /\ UNCHANGED pongs
       \/ \E ping \in pongs : pongs' = pongs \ {ping} /\ UNCHANGED pings
    /\ UNCHANGED <<linkUp, session, pingStore, pingsSent, mostRecent, samples, pongsToSend,
                   clockVars, taken, ownSamples>>

-----------------------------------------------------------------------------
(* The connection. *)

\* Mutant of PingReset: the samples of the previous session are kept.
PingResetKeepsSamples ==
    /\ pingStore' = [i \in 0 .. StoreSize - 1 |-> NoPing]
    /\ pingsSent' = 0 /\ mostRecent' = NoPing /\ samples' = samples
    /\ pongsToSend' = {}

\* PingManager::reset, here and at the remote.
PingReset ==
    /\ pingStore' = [i \in 0 .. StoreSize - 1 |-> NoPing]
    /\ pingsSent' = 0 /\ mostRecent' = NoPing /\ samples' = 0
    /\ pongsToSend' = {}

\* LocalTimelineSync::reset
SyncReset == /\ isSynced' = FALSE
             /\ errors' = 0 /\ errorAhead' = TRUE /\ speed' = "normal" /\ streak' = 0

\* RemoteTimeline::handle_connect
RemoteReset == remoteSeen' = FALSE

\* Connected is added: the observers of the ping manager, of the remote
\* timeline and of the local timeline.
Connect ==
    /\ ~ linkUp /\ session < MaxSessions
    /\ linkUp' = TRUE /\ session' = session + 1
    /\ PingReset
    /\ SyncReset
    /\ RemoteReset
    /\ taken' = NoPing /\ ownSamples' = 0
    /\ \/ StaleDelivery /\ UNCHANGED <<pings, pongs>>
       \/ ~ StaleDelivery /\ pings' = {} /\ pongs' = {}

\* Disconnected is added: handle_disconnect.
Disconnect ==
    /\ linkUp
    /\ linkUp' = FALSE /\ isSynced' = FALSE
    /\ UNCHANGED <<session, pingVars, remoteSeen, errors, errorAhead, speed, streak, taken,
                   ownSamples>>

-----------------------------------------------------------------------------
(* The timelines. *)

\* RemoteTimeline::update for a packet that is not older than the last one.
RemotePacket ==
    /\ linkUp /\ ~ remoteSeen
    /\ samples >= HandshakePings
    /\ remoteSeen' = TRUE
    /\ UNCHANGED <<linkUp, session, pingVars, isSynced, errors, errorAhead, speed, streak, taken,
                   ownSamples>>

\* A count of errors that is only compared with ErrorsThreshold.
OneMore(n) == IF n < ErrorsThreshold THEN n + 1 ELSE n

\* Mutant of Decision: the side of the previous error does not matter.
DecisionEitherSide(offset) ==
    CASE offset.size = 2 -> "resync"
      [] offset.size = 1 /\ OneMore(errors) >= ErrorsThreshold -> "adjust"
      [] OTHER -> "nothing"

\* SyncContext::speed_adjustment: what to do about an error.  The ranges of an
\* error decide; a change of side postpones the correction by one sample.
Decision(offset) ==
    CASE offset.size = 2 -> "resync"
      [] /\ offset.size = 1 /\ offset.ahead = errorAhead
         /\ OneMore(errors) >= ErrorsThreshold -> "adjust"
      [] OTHER -> "nothing"

\* The counters that speed_adjustment leaves behind.
CountError(offset) ==
    /\ errorAhead' = offset.ahead
    /\ errors' = IF offset.size = 1 THEN OneMore(errors) ELSE 0
    /\ streak' = IF offset.size # 1 THEN 0
                 ELSE IF offset.ahead = errorAhead THEN OneMore(streak) ELSE 1

\* TimelineSync::speed_adjustment: without an error the speed goes a tenth of
\* the way back to 1.0, which it reaches after several samples.
AdjustSpeed(offset) ==
    \/ Decision(offset) = "adjust" /\ speed' = (IF offset.ahead THEN "slow" ELSE "fast")
    \/ Decision(offset) = "nothing" /\ speed' \in {speed, "normal"}
    \/ Decision(offset) = "resync" /\ UNCHANGED speed

\* TimelineSync::sync: the first time the timeline jumps to its objective, from
\* then on it is paced.
Sync(offset) ==
    /\ samples >= HandshakePings
    /\ \/ isSynced /\ AdjustSpeed(offset) /\ CountError(offset)
       \/ ~ isSynced /\ UNCHANGED <<errors, errorAhead, speed, streak>>
    /\ isSynced' = TRUE

\* sync_client_server in a frame in which a packet of the remote arrived; the
\* flag is reset at the end of the frame.
SyncTimelines(offset) ==
    /\ linkUp /\ remoteSeen
    /\ Sync(offset)
    /\ remoteSeen' = FALSE
    /\ UNCHANGED <<linkUp, session, pingVars, taken, ownSamples>>

SyncNext ==
    \/ SendPing \/ SendPongs \/ LosePing \/ Connect \/ Disconnect \/ RemotePacket
    \/ \E ping \in pings : ReceivePing(ping)
    \/ \E ping \in pongs : ReceivePong(ping)
    \/ \E offset \in Offsets : SyncTimelines(offset)

SyncSpec == SyncInit /\ [][SyncNext]_syncVars

-----------------------------------------------------------------------------
(* The properties. *)

\* A round trip time is measured with the send time of the very ping that the
\* pong answers: slots that are used again, identifiers that wrap and sessions
\* that start at PingId 0 never pair a pong with another ping.  It needs a
\* connection that drops the packets of an ended session (StaleDelivery).
SampleIsTrue == taken # NoPing => taken[1] = taken[2]

\* Round trip times are taken of ever newer pings: a pong that was overtaken
\* does not put an old measure in the place of a newer one.
SamplesAdvance ==
    [][taken # NoPing /\ taken' # NoPing /\ session' = session
          => taken'[1][2] >= taken[1][2]]_syncVars

\* The local timeline counts as synchronised only on latency samples of the
\* session it is in, so that no input of a new session is given a tick that
\* was derived from the round trip time of an earlier one.
SyncedOnOwnSamples == isSynced => ownSamples >= HandshakePings

\* The clock is never paced on a single stray sample: a correction follows two
\* errors in a row on the side it corrects, and ErrorsThreshold errors in a row on
\* whatever side (the count is not started again when the side changes).
PacedOnAgreement ==
    [][speed' # speed /\ speed' # "normal" => streak' >= 2 /\ errors' >= ErrorsThreshold]_syncVars

\* Every round trip time of PingManager is that of one ping of this session.
SamplesAreTrue == SyncTypeOK /\ SampleIsTrue /\ SyncedOnOwnSamples

\* What one more pong or packet may do to the clock (process_pong, speed_adjustment).
ClockSteps == SamplesAdvance /\ PacedOnAgreement
=============================================================================
