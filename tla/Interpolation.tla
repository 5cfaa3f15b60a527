--------------------------- MODULE Interpolation ---------------------------
(***************************************************************************)
(* One component of an interpolated entity, from the mutations the server  *)
(* sends to the value the client presents: ConfirmedHistory, and for a     *)
(* component that is replicated by diffs the HistoryDiffReceiver that      *)
(* turns diffs into values of ticks.                                       *)
(*                                                                         *)
(* A value is the number of diffs that have been applied to the component, *)
(* which is also its diff cursor.  Mutations are lost, late and reordered; *)
(* what is not acknowledged is sent again with the next change.  Removal   *)
(* of the component is left to Prediction, where its histories are.        *)
(***************************************************************************)
EXTENDS Histories, SequencesExt

CONSTANTS
    InterpModes,        \* "value" and "diff": how the component is replicated
    InterpLead,         \* bound: ticks that may be presented past the completed one
    MaxInterpTick,      \* bound: the last server tick
    NoCursor            \* None

ASSUME InterpAssumption ==
    /\ InterpModes \subseteq {"value", "diff"}
    /\ {InterpLead, MaxInterpTick} \subseteq Nat
    /\ {NoCursor, Gone, Unchanged, NoState} \cap Int = {}
    /\ Unchanged \notin {Gone, NoState}

VARIABLES
    mode,           \* how the component is replicated
    valueAt,        \* the server's value at each of its ticks
    acked,          \* the newest value the server knows to be received
    mutations,      \* the mutation messages that were sent: [tick, first, last]
    got,            \* those that were received; the others are under way or lost
    complete,       \* last_confirmed_tick, or NoCursor
    receiver,       \* HistoryDiffReceiver: [base, baseTick, known, pending]
    history,        \* ConfirmedHistory: ticks to entries
    shownTick       \* the tick of the InterpolationTimeline

serverSide == <<mode, valueAt, acked>>
interpVars == <<serverSide, mutations, got, complete, receiver, history, shownTick>>

serverNow == Max(DOMAIN valueAt)

\* The history holds nothing of ticks that the server has not simulated.
InterpTypeOK ==
    /\ mode \in InterpModes
    /\ DOMAIN valueAt \subseteq 0 .. MaxInterpTick
    /\ complete \in {NoCursor} \cup DOMAIN valueAt
    /\ DOMAIN history \subseteq DOMAIN valueAt

-----------------------------------------------------------------------------
(* HistoryDiffReceiver. *)

\* is_retired_cursor: the cursor is not newer than the retained base
Retired(r, cursor) == IF r.base = NoCursor THEN FALSE ELSE cursor <= r.base

\* The retain of record_cursor: what the cursor covers is pending no longer.
StillPending(pending, cursor) ==
    LET kept[n \in 0 .. Len(pending)] ==
            IF n = 0 THEN <<>>
            ELSE IF pending[n].last > cursor THEN Append(kept[n - 1], pending[n])
            ELSE kept[n - 1]
    IN  kept[Len(pending)]

\* record_cursor, for the cursor of a snapshot or of diffs that were applied
RecordCursor(r, tick, cursor) ==
    LET stillPending == StillPending(r.pending, cursor)
    IN  IF Retired(r, cursor) /\ cursor # r.base THEN r
        ELSE IF cursor = r.base
             THEN [r EXCEPT !.baseTick = IF r.baseTick = NoCursor \/ tick >= r.baseTick THEN tick ELSE @,
                            !.known = {k \in r.known : k.cursor > cursor},
                            !.pending = stillPending]
             ELSE [r EXCEPT !.known = {k \in r.known : k.cursor # cursor}
                                        \cup {[cursor |-> cursor, tick |-> tick]},
                            !.pending = stillPending]

TickForCursor(r, cursor) ==
    IF cursor = r.base THEN r.baseTick
    ELSE IF \E k \in r.known : k.cursor = cursor
         THEN (CHOOSE k \in r.known : k.cursor = cursor).tick
         ELSE NoCursor

\* queue_diff and queue_diffs: known and retired cursors are ignored, an overlap
\* with the retained base is cut off.
QueueDiffs(r, tick, first, last) ==
    LET message == [tick  |-> tick,
                    first |-> IF Retired(r, first - 1) THEN r.base + 1 ELSE first,
                    last  |-> last]
    IN  IF \/ Retired(r, last) \/ TickForCursor(r, last) # NoCursor
           \/ \E i \in DOMAIN r.pending : r.pending[i] = message
        THEN r
        ELSE [r EXCEPT !.pending = Append(@, message)]

\* The condition of take_ready_update: the value of the message's base is at hand.
IsReady(r, h, p) ==
    \E baseTick \in {TickForCursor(r, p.first - 1)} \ {NoCursor} :
        baseTick <= p.tick /\ StateAtOrBefore(h, baseTick) # NoState

\* take_ready_update, and the insertion of its value: the first message that is
\* ready is applied to its base.
TakeReady(s) ==
    LET ready == {i \in DOMAIN s.r.pending : IsReady(s.r, s.h, s.r.pending[i])}
    IN  IF ready = {} THEN s
        ELSE LET p    == s.r.pending[Min(ready)]
                 base == StateAtOrBefore(s.h, TickForCursor(s.r, p.first - 1))
                 rest == [s.r EXCEPT !.pending = RemoveAt(@, Min(ready))]
             IN  [r |-> RecordCursor(rest, p.tick, p.last),
                  h |-> InsertConfirmed(s.h, p.tick, base + (p.last - p.first + 1))]

\* The loop of write_history_diff
TakeAllReady(s) ==
    LET rounds[n \in 0 .. Len(s.r.pending)] == IF n = 0 THEN s ELSE TakeReady(rounds[n - 1])
    IN  rounds[Len(s.r.pending)]

\* Mutant of CursorAtOrBefore: the tick does not matter.
CursorNewest(r, tick) ==
    IF r.known = {} THEN r.base ELSE Max({k.cursor : k \in r.known})

\* cursor_at_or_before: the newest cursor recorded at or before the tick
CursorAtOrBefore(r, tick) ==
    LET held == {k \in r.known \cup (IF r.baseTick = NoCursor THEN {}
                                     ELSE {[cursor |-> r.base, tick |-> r.baseTick]}) : k.tick <= tick}
    IN  IF held = {} THEN NoCursor
        ELSE (CHOOSE k \in held : \A o \in held : o.tick <= k.tick).cursor

\* clear_before_tick
ClearBeforeTick(r, tick, h) ==
    LET cursor == CursorAtOrBefore(r, tick)
        usable == StateAtOrBefore(h, tick) # NoState /\ cursor # NoCursor
    IN  IF r.pending # <<>> \/ (IF r.baseTick = NoCursor THEN FALSE ELSE tick < r.baseTick)
        THEN r
        ELSE [base     |-> IF usable THEN cursor ELSE NoCursor,
              baseTick |-> IF usable THEN tick ELSE NoCursor,
              known    |-> {k \in r.known : k.tick >= tick /\ (usable => k.cursor > cursor)},
              pending  |-> <<>>]

-----------------------------------------------------------------------------
(* ConfirmedHistory, as interpolation uses it. *)

\* Mutant of PushUnchanged: the tick after the completed one is called unchanged.
PushUnchangedNext(h, tick) == IF DOMAIN h = {} THEN h ELSE AddUnchanged(h, tick + 1)

\* push_unchanged
PushUnchanged(h, tick) ==
    IF DOMAIN h = {} THEN h
    ELSE IF tick <= Max(DOMAIN h) \/ Resolve(h, Max(DOMAIN h)) \in {NoState, Gone} THEN h
    ELSE AddUnchanged(h, tick)

\* Mutant of PopPresent: the entry that refers to the popped one is left as it is.
PopPresentOnly(h) == [t \in DOMAIN h \ {Min(DOMAIN h)} |-> h[t]]

\* pop_present: what the second entry refers to is kept in it.
PopPresent(h) ==
    LET rest == DOMAIN h \ {Min(DOMAIN h)}
    IN  [t \in rest |-> IF t = Min(rest) THEN Resolve(h, t) ELSE h[t]]

\* Mutant of DrainOldHistory: nothing is kept behind the presented tick.
DrainOldHistoryEarly(h, tick) ==
    IF Cardinality(DOMAIN h) >= 2 /\ Min(DOMAIN h) < tick THEN PopPresent(h) ELSE h

\* drain_old_history: while there are three entries and the second one is passed.
DrainOldHistory(h, tick) ==
    LET drained[n \in 0 .. Cardinality(DOMAIN h)] ==
            IF n = 0 THEN h
            ELSE LET g == drained[n - 1]
                 IN  IF Cardinality(DOMAIN g) >= 3 /\ Min(DOMAIN g \ {Min(DOMAIN g)}) <= tick
                     THEN PopPresent(g) ELSE g
    IN  drained[Cardinality(DOMAIN h)]

\* Mutant of Sample: the oldest entry is taken for the one before the tick.
SampleOldest(h, tick) == IF \E t \in DOMAIN h : t <= tick THEN Resolve(h, Min(DOMAIN h)) ELSE NoState

\* The start of the pair that sample_history_with_interpolation takes: the last
\* entry up to the tick.  The value shown lies between it and the next entry.
Sample(h, tick) ==
    LET passed == {t \in DOMAIN h : t <= tick}
    IN  IF passed = {} THEN NoState ELSE Resolve(h, Max(passed))

-----------------------------------------------------------------------------

\* The entity was spawned with a snapshot of the component at tick 0.
InterpInit ==
    /\ mode \in InterpModes
    /\ valueAt = [t \in {0} |-> 0]
    /\ acked = 0
    /\ mutations = {} /\ got = {}
    /\ complete = NoCursor
    /\ receiver = RecordCursor([base |-> NoCursor, baseTick |-> NoCursor, known |-> {}, pending |-> <<>>], 0, 0)
    /\ history = [t \in {0} |-> 0]
    /\ shownTick = 0

\* A replication send pass of the server: what changed since the last known
\* acknowledgement is sent, as a value or as diffs.
ServerSend(value) ==
    /\ serverNow < MaxInterpTick
    /\ value \in {valueAt[serverNow], valueAt[serverNow] + 1}
    /\ valueAt' = [t \in DOMAIN valueAt \cup {serverNow + 1} |->
                     IF t = serverNow + 1 THEN value ELSE valueAt[t]]
    /\ mutations' = IF value = acked THEN mutations
                    ELSE mutations \cup {[tick |-> serverNow + 1, first |-> acked + 1, last |-> value]}
    /\ UNCHANGED <<mode, acked, got, complete, receiver, history, shownTick>>

\* An acknowledgement of a received mutation reaches the server.
AckMutation(m) ==
    /\ m \in got /\ m.last > acked
    /\ acked' = m.last
    /\ UNCHANGED <<mode, valueAt, mutations, got, complete, receiver, history, shownTick>>

\* write_history and write_history_diff
WriteHistory(m) ==
    /\ m \in mutations \ got
    /\ got' = got \cup {m}
    /\ IF mode = "value"
       THEN /\ history' = InsertConfirmed(history, m.tick, m.last)
            /\ UNCHANGED receiver
       ELSE \E s \in {TakeAllReady([r |-> QueueDiffs(receiver, m.tick, m.first, m.last), h |-> history])} :
               receiver' = s.r /\ history' = s.h
    /\ UNCHANGED <<serverSide, mutations, complete, shownTick>>

\* The component's message of that tick, if one was sent, has been received.
ReceivedAllOf(tick) == \A m \in mutations : m.tick = tick => m \in got

\* All mutation messages of a tick have arrived, of this and of other entities:
\* record_last_confirmed_tick
CompleteTick(tick) ==
    /\ tick \in DOMAIN valueAt \ {0}
    /\ IF complete = NoCursor THEN TRUE ELSE tick > complete
    /\ ReceivedAllOf(tick)
    /\ complete' = tick
    /\ UNCHANGED <<serverSide, mutations, got, receiver, history, shownTick>>

\* has_pending_diff_at_tick
PendingAt(tick) == \E i \in DOMAIN receiver.pending : receiver.pending[i].tick = tick

\* update_history_inner
UpdateHistory ==
    /\ history' = DrainOldHistory(IF complete = NoCursor THEN history
                                  ELSE PushUnchanged(history, complete), shownTick')
    /\ UNCHANGED receiver

\* update_history_diff_archetype_erased
UpdateHistoryDiff ==
    \E h \in {IF complete # NoCursor /\ ~ PendingAt(complete)
              THEN PushUnchanged(history, complete) ELSE history} :
       IF receiver.pending # <<>>
       THEN history' = h /\ UNCHANGED receiver
       ELSE \E d \in {DrainOldHistory(h, shownTick')} :
               /\ history' = d
               /\ receiver' = IF complete = NoCursor THEN receiver
                              ELSE ClearBeforeTick(receiver, complete, d)

\* A frame: the interpolation timeline moves on and update_interpolation_history runs.
InterpFrame(tick) ==
    /\ tick \in {shownTick, shownTick + 1}
    /\ tick <= serverNow
    /\ tick <= (IF complete = NoCursor THEN 0 ELSE complete) + InterpLead
    /\ shownTick' = tick
    /\ IF mode = "value" THEN UpdateHistory ELSE UpdateHistoryDiff
    /\ UNCHANGED <<serverSide, mutations, got, complete>>

InterpNext ==
    \/ \E value \in {valueAt[serverNow], valueAt[serverNow] + 1} : ServerSend(value)
    \/ \E m \in got : AckMutation(m)
    \/ \E m \in mutations : WriteHistory(m)
    \/ \E tick \in DOMAIN valueAt : CompleteTick(tick)
    \/ \E tick \in {shownTick, shownTick + 1} : InterpFrame(tick)

InterpSpec == InterpInit /\ [][InterpNext]_interpVars

-----------------------------------------------------------------------------
(* The properties. *)

\* Whatever was lost or late, what the history says of a tick it holds is the
\* server's value at that tick: diffs are applied to the value they were made
\* for, and a tick is called unchanged only when it was.
HistoryIsTrue ==
    \A t \in DOMAIN history :
        (mode = "diff" => \A i \in DOMAIN receiver.pending : receiver.pending[i].tick > t)
            => Resolve(history, t) = valueAt[t]

\* "base_tick is moved to the prune tick so the base can be fetched from
\* ConfirmedHistory": every cursor that the receiver takes for a base has its
\* value in the history.  (Stated for a presentation that stays behind the
\* completed tick, InterpLead = 0: beyond it the history is drained earlier.)
BasesAreHeld ==
    mode = "diff" =>
        \A k \in receiver.known \cup (IF receiver.baseTick = NoCursor THEN {}
                                      ELSE {[cursor |-> receiver.base, tick |-> receiver.baseTick]}) :
            StateAtOrBefore(history, k.tick) = k.cursor

\* Once the component is shown there is always a value to show: the history is
\* never drained past the time that is presented.
SomethingToShow == Sample(history, shownTick) # NoState

\* The history of an interpolated component (write_history, write_history_diff,
\* drain_old_history): true, complete enough to apply what comes, and never empty.
HistorySound == InterpTypeOK /\ HistoryIsTrue /\ BasesAreHeld /\ SomethingToShow

\* What is shown never goes back to an older value, even when mutations arrive
\* late or out of order.
ShownNeverGoesBack ==
    [][Sample(history', shownTick') >= Sample(history, shownTick)]_interpVars
=============================================================================
