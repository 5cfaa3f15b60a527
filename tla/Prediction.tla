----------------------------- MODULE Prediction -----------------------------
(***************************************************************************)
(* State-based prediction of replicated components, one component for each *)
(* entity, with the default policy: a client simulates ahead of what it    *)
(* has received, compares what arrives with what it predicted, and rolls   *)
(* back to the last tick the server has confirmed completely when the two  *)
(* disagree.                                                               *)
(*                                                                         *)
(* The server and the replication protocol (bevy_replicon) are external: a *)
(* tick is sent as one message for each entity that changed since the last *)
(* tick the client acknowledged for it, or as one empty message.  The      *)
(* messages arrive late, out of order or never; a tick is complete when    *)
(* all its messages have arrived.                                          *)
(*                                                                         *)
(* A frame of the client handles the messages that have arrived, one step  *)
(* each, and then checks, rolls back, replays and simulates in one step.   *)
(* The simulation writes what `acts' says for a tick; an input rollback    *)
(* comes with another act for the first tick to be replayed.               *)
(***************************************************************************)
EXTENDS Histories

CONSTANTS
    PredEntities,   \* predicted entities
    PredValues,     \* values of the component
    Acts,           \* what the simulation may do in a tick: Keep or write a state
    Keep,
    MaxChanges,     \* bound on changes of components on the server
    RollbackLimit,  \* max_rollback_ticks
    MaxServerTick, MaxClientTick   \* bounds on ticks

ASSUME PredictionConstants ==
    /\ Acts \subseteq PredValues \cup {Gone, Keep} /\ Keep \in Acts
    /\ {Gone, Unchanged, NoState, Keep} \cap PredValues = {} /\ Gone # NoState
    /\ RollbackLimit \in Nat
    /\ PredEntities # {} /\ PredValues # {} /\ NoState \notin PredEntities

NoneTick == -1
Initial == CHOOSE v \in PredValues : TRUE

VARIABLES
    server,        \* the server's value of each entity in each tick so far
    acked,         \* the last tick the server knows to be received, per entity
    updates,       \* messages under way
    confirmedAt,   \* ConfirmHistory: ticks received for each entity
    confirmed,     \* ConfirmedHistory of each entity
    predicted,     \* PredictionHistory of each entity
    live,          \* the component itself
    acts,          \* the acts of the ticks simulated so far
    now,           \* LocalTimeline
    completed,     \* last_confirmed_tick of the ReplicationCheckpointMap
    processed,     \* last_processed_tick
    pending,       \* earliest_pending_mismatch_tick
    deferred,      \* PendingEntityStateChecks: <<tick, entity>>
    unlooked,      \* history: updates that arrived behind a pending mismatch, or that a
                   \* refused rollback forgot
    untrue         \* history: entities whose confirmed history was once wrong

predVars == <<server, acked, updates, confirmedAt, confirmed, predicted, live, acts, now,
              completed, processed, pending, deferred, unlooked, untrue>>

serverVars == <<server, acked, updates>>

\* The entity was spawned on the server in tick 0 and has just arrived.
PredInit ==
    /\ server = [e \in PredEntities |-> [t \in {0} |-> Initial]]
    /\ acked = [e \in PredEntities |-> 0]
    /\ updates = {}
    /\ confirmedAt = [e \in PredEntities |-> {0}]
    /\ confirmed = [e \in PredEntities |-> [t \in {0} |-> Initial]]
    /\ predicted = [e \in PredEntities |-> <<>>]
    /\ live = [e \in PredEntities |-> Initial]
    /\ acts = [e \in PredEntities |-> <<>>]
    /\ now = 0
    /\ completed = NoneTick /\ processed = NoneTick /\ pending = NoneTick
    /\ deferred = {}
    /\ unlooked = {} /\ untrue = {}

-----------------------------------------------------------------------------
(***************************************************************************)
(* The server and bevy_replicon.                                           *)
(***************************************************************************)
Now(e) == Max(DOMAIN server[e])

ChangesOf(h) == {t \in DOMAIN h \ {0} : h[t] # h[t - 1]}

ServerStep(values) ==
    LET t == 1 + Max({Now(e) : e \in PredEntities})
        next == [e \in PredEntities |-> InsertRaw(server[e], t, values[e])]
        included == {e \in PredEntities : \E c \in ChangesOf(next[e]) : c > acked[e]}
    IN  /\ t <= MaxServerTick
        /\ Cardinality(UNION {{e} \X ChangesOf(next[e]) : e \in PredEntities}) <= MaxChanges
        /\ server' = next
        /\ updates' = updates \cup
                IF included = {} THEN {[tick |-> t, entity |-> NoState, value |-> NoState]}
                ELSE {[tick |-> t, entity |-> e, value |-> values[e]] : e \in included}
        /\ UNCHANGED <<acked, confirmedAt, confirmed, predicted, live, acts, now, completed,
                       processed, pending, deferred, unlooked, untrue>>

AckArrives(e) ==
    /\ \E t \in confirmedAt[e] : t > acked[e] /\ acked' = [acked EXCEPT ![e] = t]
    /\ UNCHANGED <<server, updates, confirmedAt, confirmed, predicted, live, acts, now,
                   completed, processed, pending, deferred, unlooked, untrue>>

-----------------------------------------------------------------------------
(***************************************************************************)
(* Receiving one message: every confirmed value goes into the history; it  *)
(* is compared with the prediction of its tick unless that cannot matter   *)
(* any more, or cannot be known yet.                                       *)
(***************************************************************************)
ShouldCheckAt(tick) == tick >= processed /\ (pending = NoneTick \/ tick < pending)

\* (Some, Some) with other values, or only one of the two present.
Disagree(a, b) == a # b

PrunedPast(h, tick) == h # <<>> /\ h[1].tick > tick

\* HistoryBuffer::get conflates what is not in the history with what was removed.
GetPredicted(h, tick) == IF GetState(h, tick) = NoState THEN Gone ELSE GetState(h, tick)

MismatchOnArrival(m) ==
    /\ ShouldCheckAt(m.tick) /\ m.tick <= now
    /\ ~PrunedPast(predicted[m.entity], m.tick)
    /\ Disagree(m.value, GetPredicted(predicted[m.entity], m.tick))

\* A mutant of DeferredOnArrival: an update from the future is not looked at again.
DeferNothing(m) == FALSE

DeferredOnArrival(m) == ShouldCheckAt(m.tick) /\ m.tick > now

Complete(tick) == ~\E m \in updates' : m.tick = tick

\* The confirmed history says what the server had, entry by entry.
SaysTheTruth(c, e) == \A t \in DOMAIN c : StateAt(c, t) = server[e][t]

ReceiveUpdate(m) ==
    /\ updates' = updates \ {m}
    /\ completed' = IF Complete(m.tick) /\ m.tick > completed THEN m.tick ELSE completed
    /\ IF m.entity = NoState THEN UNCHANGED <<confirmedAt, confirmed, pending, deferred, unlooked, untrue>>
       ELSE /\ confirmedAt' = [confirmedAt EXCEPT ![m.entity] = @ \cup {m.tick}]
            /\ confirmed' = [confirmed EXCEPT ![m.entity] = InsertConfirmed(@, m.tick, m.value)]
            /\ pending' = IF MismatchOnArrival(m) THEN m.tick ELSE pending
            /\ deferred' = IF DeferredOnArrival(m) THEN deferred \cup {<<m.tick, m.entity>>}
                           ELSE deferred
            /\ unlooked' = IF pending # NoneTick /\ m.tick >= pending
                           THEN unlooked \cup {<<m.tick, m.entity>>} ELSE unlooked
            /\ untrue' = IF SaysTheTruth(confirmed'[m.entity], m.entity) THEN untrue
                         ELSE untrue \cup {m.entity}
    /\ UNCHANGED <<server, acked, predicted, live, acts, now, processed>>

-----------------------------------------------------------------------------
(***************************************************************************)
(* check_rollback.  A completed tick that was not processed yet is checked *)
(* once the client has reached it.                                         *)
(***************************************************************************)
Checkable == completed # NoneTick /\ completed > processed /\ completed <= now

DeferredThrough(tick) == {d[2] : d \in {x \in deferred : x[1] <= tick}}

\* A mutant of Scanned: entities with a newer update are left out as well.
ScannedUnlessNewer(tick) ==
    {e \in PredEntities : Max(confirmedAt[e]) < tick \/ e \in DeferredThrough(tick)}

\* The entities whose value at the tick was not compared when it arrived.
Scanned(tick) ==
    {e \in PredEntities : tick \notin confirmedAt[e] \/ e \in DeferredThrough(tick)}

\* A mutant of ScanMismatch: an entity without an update is taken to be right.
ScanMismatchExplicitOnly(e, tick) ==
    /\ GetState(predicted[e], tick) # NoState
    /\ StateAt(confirmed[e], tick) # NoState
    /\ Disagree(StateAt(confirmed[e], tick), GetState(predicted[e], tick))

ScanMismatch(e, tick) ==
    /\ StateAtOrBefore(confirmed[e], tick) # NoState
    /\ GetState(predicted[e], tick) # NoState
    /\ Disagree(StateAtOrBefore(confirmed[e], tick), GetState(predicted[e], tick))

PendingMismatch(tick) == pending # NoneTick /\ pending <= tick

\* The scan stops at the first entity that disagrees, in any order: those it
\* has visited are now confirmed to be unchanged.
StateCheck(tick, visited) ==
    IF PendingMismatch(tick) THEN visited = {}
    ELSE LET wrong == {e \in Scanned(tick) : ScanMismatch(e, tick)}
         IN  /\ visited \subseteq Scanned(tick)
             /\ IF wrong = {} THEN visited = Scanned(tick)
                ELSE Cardinality(visited \cap wrong) = 1

WantsStateRollback(tick) ==
    PendingMismatch(tick) \/ \E e \in Scanned(tick) : ScanMismatch(e, tick)

WithinLimit(tick) == now - tick <= RollbackLimit

\* do_rollback: too deep; the tick counts as processed all the same.
Refusing == Checkable /\ WantsStateRollback(completed) /\ ~WithinLimit(completed)

\* Clearing the pending mismatch of a refused rollback forgets the later ones with
\* it: the updates of ticks still to be processed that the prediction contradicts.
Forgotten ==
    {x \in ((completed + 1)..now) \X PredEntities :
        /\ x[1] \in confirmedAt[x[2]] /\ x \notin deferred
        /\ Disagree(StateAt(confirmed[x[2]], x[1]), GetPredicted(predicted[x[2]], x[1]))}

-----------------------------------------------------------------------------
(***************************************************************************)
(* prepare_rollback and run_rollback, for one entity.  c, p and v are its  *)
(* confirmed history, its prediction history and the component.  Removing  *)
(* the component before the replay is recorded by an observer under the    *)
(* tick of the timeline, which has not been set back yet.                  *)
(***************************************************************************)
Restored(c, p, tick, fromState) ==
    IF fromState THEN StateAtOrBefore(c, tick) ELSE GetState(p, tick)

Prepared(c, p, v, tick, fromState) ==
    LET state == Restored(c, p, tick, fromState)
        kept == ClearAfter(p, tick)
    IN  CASE state = NoState /\ v = Gone -> [p |-> kept, v |-> v]
          [] state = NoState /\ v # Gone -> [p |-> AddState(kept, tick, v), v |-> v]
          [] state = Gone /\ v # Gone ->
                [p |-> AddState(AddState(kept, tick, Gone), now, Gone), v |-> Gone]
          [] state = Gone /\ v = Gone -> [p |-> AddState(kept, tick, Gone), v |-> Gone]
          [] state \notin {NoState, Gone} -> [p |-> AddState(kept, tick, state), v |-> state]

\* A tick of the simulation, recorded and pruned in FixedPostUpdate.  A write
\* of the value that is there is not told from no write.
SimulateOne(s, act, tick) ==
    LET v == IF act = Keep THEN s.v ELSE act
        p == IF v # GetPredicted(s.p, tick) \/ (v = Gone /\ s.v # Gone) THEN AddState(s.p, tick, v) ELSE s.p
    IN  [p |-> IF v = Gone THEN p
               ELSE ClearUntil(p, IF tick > RollbackLimit THEN tick - RollbackLimit ELSE 0),
         v |-> v]

\* A mutant of Snapped: the replay ignores what was confirmed after its start.
SnapNothing(c, s, tick) == s

\* During a replay a tick starts from its confirmed value, if it has one.
Snapped(c, s, tick) ==
    IF StateAt(c, tick) = NoState \/ StateAt(c, tick) = s.v THEN s
    ELSE [s EXCEPT !.v = StateAt(c, tick),
                   !.p = IF StateAt(c, tick) = Gone THEN AddState(@, tick, Gone) ELSE @]

Replayed(c, start, tick, acted) ==
    LET run[k \in 0..(now - tick)] ==
            IF k = 0 THEN start
            ELSE SimulateOne(Snapped(c, run[k - 1], tick + k), acted[tick + k], tick + k)
    IN  run[now - tick]

\* A rollback of one entity; p and v are unchanged without one.
RolledBack(e, c, tick, fromState, acted) ==
    IF tick = NoneTick THEN [p |-> predicted[e], v |-> live[e]]
    ELSE Replayed(c, Prepared(c, predicted[e], live[e], tick, fromState), tick, acted)

-----------------------------------------------------------------------------
(***************************************************************************)
(* The rest of a frame.  `input' is the tick an input rollback would start *)
(* from, `changed' the acts that differ in the tick after it; a state      *)
(* rollback takes precedence.  Then at most one tick is simulated.         *)
(***************************************************************************)
ByState == Checkable /\ WantsStateRollback(completed) /\ WithinLimit(completed)

Target(input) ==
    CASE ByState -> completed
      [] ~ByState /\ input # NoneTick /\ WithinLimit(input) -> input
      [] OTHER -> NoneTick

Visit(visited) ==
    [e \in PredEntities |-> IF e \in visited THEN AddUnchanged(confirmed[e], completed)
                            ELSE confirmed[e]]

Acted(e, tick, change) ==
    [t \in DOMAIN acts[e] |-> IF ~ByState /\ tick # NoneTick /\ t = tick + 1 THEN change ELSE acts[e][t]]

PredFrame(visited, input, changed, advance, next) ==
    /\ IF Checkable THEN StateCheck(completed, visited) ELSE visited = {}
    /\ confirmed' = Visit(visited)
    /\ processed' = IF Checkable THEN completed ELSE processed
    /\ deferred' = IF Checkable THEN {d \in deferred : d[1] > completed} ELSE deferred
    /\ pending' = IF Checkable /\ (PendingMismatch(completed) \/ ByState) THEN NoneTick ELSE pending
    /\ unlooked' = unlooked \cup (IF Refusing /\ PendingMismatch(completed) THEN Forgotten ELSE {})
    /\ now' = now + advance
    /\ \E target \in {Target(input)} :
       \E acted \in {[e \in PredEntities |-> Acted(e, target, changed[e])]} :
       \E r \in {[e \in PredEntities |->
                    RolledBack(e, confirmed'[e], target, ByState, acted[e])]} :
       \E s \in {[e \in PredEntities |->
                    IF advance = 1 THEN SimulateOne(r[e], next[e], now') ELSE r[e]]} :
        /\ acts' = [e \in PredEntities |->
                        IF advance = 1 THEN Append(acted[e], next[e]) ELSE acted[e]]
        /\ predicted' = [e \in PredEntities |-> s[e].p]
        /\ live' = [e \in PredEntities |-> s[e].v]
    /\ UNCHANGED <<server, acked, updates, confirmedAt, completed, untrue>>

\* One tick; all entities but one keep their value.
Single(S, none) == {f \in [PredEntities -> S] : Cardinality({e \in PredEntities : f[e] # none}) <= 1}

TickFrame == \E visited \in SUBSET PredEntities, next \in Single(Acts, Keep) :
    /\ now < MaxClientTick
    /\ PredFrame(visited, NoneTick, [e \in PredEntities |-> Keep], 1, next)

CheckFrame == \E visited \in SUBSET PredEntities :
    PredFrame(visited, NoneTick, [e \in PredEntities |-> Keep], 0, [e \in PredEntities |-> Keep])

InputFrame == \E visited \in SUBSET PredEntities, input \in 0..(now - 1) :
              \E changed \in Single(Acts, Keep) : PredFrame(visited, input, changed, 0, changed)

PredNext ==
    \/ \E values \in [PredEntities -> PredValues] : ServerStep(values)
    \/ \E e \in PredEntities : AckArrives(e)
    \/ \E m \in updates : ReceiveUpdate(m)
    \/ TickFrame
    \/ CheckFrame
    \/ InputFrame

PredSpec == PredInit /\ [][PredNext]_predVars

-----------------------------------------------------------------------------
\* The client's past differs from the server's at the tick.
Differs(e, tick) == GetState(predicted'[e], tick) \notin {NoState, server[e][tick]}

\* What the client may not be told of, or may do by itself.
Excepted(e, tick) ==
    \/ e \in untrue
    \/ <<tick, e>> \in unlooked
    \/ /\ acts'[e][tick] \notin {Keep, server[e][tick]}
       /\ tick \in confirmedAt[e] \/ acts'[e][tick] # acts[e][tick]

(***************************************************************************)
(* Once a tick that the server has confirmed completely was processed, the *)
(* client's past agrees with the server at that tick, however the messages *)
(* were delayed and however far the client is ahead: check_rollback finds  *)
(* every disagreement, of entities that were updated in the tick and of    *)
(* those that were not, in frames with and without a tick and with an      *)
(* input rollback. A frame that refuses its state rollback as too deep is  *)
(* left out; what it leaves wrong must be found at the next completed      *)
(* tick. There are three exceptions: a confirmed history that did not      *)
(* always say the truth (see ConfirmedExact), since a replay may have      *)
(* snapped to what it said; an update that arrived behind a pending        *)
(* mismatch of another tick, or whose mismatch a refused rollback cleared; *)
(* and a simulation that itself writes another value in that very tick, of *)
(* an updated component, since a replay snaps to a tick's value before it  *)
(* runs the tick, or by the act that an input rollback of this very frame  *)
(* gives the tick after the comparison.                                    *)
(***************************************************************************)
Reconciled ==
    [][processed' # processed /\ ~Refusing =>
        \A e \in PredEntities : Differs(e, processed') => Excepted(e, processed')]_predVars

(***************************************************************************)
(* A confirmed value is what the server had in that tick, whatever arrived *)
(* before or after it: get_state_at, "Get the authoritative state exactly  *)
(* at `tick`", which rollback and replay rely on.                          *)
(***************************************************************************)
ConfirmedExact == \A e \in PredEntities : SaysTheTruth(confirmed[e], e)
=============================================================================
