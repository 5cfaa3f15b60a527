--------------------------- MODULE RollbackSpawns ---------------------------
(***************************************************************************)
(* The life of locally spawned entities around rollbacks of one client:    *)
(* PreSpawnedReceiver (replication/src/prespawn.rs) and the despawn lists  *)
(* of PredictionManager (prediction/src/rollback.rs, despawn.rs).          *)
(*                                                                         *)
(* Four kinds of entity:                                                   *)
(*   "Det"      DeterministicPredicted, spawned by the simulation          *)
(*   "Pre"      PreSpawned, spawned by the simulation                      *)
(*   "Skip"     DeterministicPredicted with skip_despawn, spawned once,    *)
(*              outside the simulation                                     *)
(*   "PreSkip"  PreSpawned as well as "Skip"                               *)
(* A replay runs the simulation again and spawns "Det" and "Pre" again;    *)
(* what was spawned once is never spawned again.                           *)
(*                                                                         *)
(* Steps of the simulation are numbered from 1; step s has the tick        *)
(* s + shifted on the LocalTimeline, which a LocalTimelineShift moves.     *)
(***************************************************************************)
EXTENDS Integers, FiniteSets, Sequences, SequencesExt

CONSTANTS
    SpawnSettings,   \* records of the kinds simulated and spawned once, and of
                     \* whether a rollback may start before an earlier one did
                     \* (revisits), whether rollbacks are forced (forces) and
                     \* whether the timeline is shifted (shifts)
    ReplayLimit,     \* effective_max_rollback_ticks
    EnableAfter,     \* DeterministicPredicted::enable_rollback_after
    ExpireAfter,     \* ticks a prespawned entity waits for its match (50)
    MaxStep,         \* bound on steps
    MaxActs,         \* bound on the entities spawned and despawned
    MaxShift         \* bound on the distance of a shift

ASSUME SpawnAssumption == {ReplayLimit, EnableAfter, ExpireAfter, MaxStep, MaxActs, MaxShift} \subseteq Nat

VARIABLES
    setting,     \* which of the settings; never changes
    step,        \* the latest step
    shifted,     \* the tick of step 0
    plan,        \* what the simulation did in each step, as far as it is known
    oneOffs,     \* keys of the entities spawned once
    entities,    \* the entities that exist, disabled ones included
    disabled,    \* PredictionDisable: the tick of those that have it
    despawns,    \* deterministic_despawn: entries of ticks and entities
    skips,       \* deterministic_skip_despawn, in its order
    shielded,    \* entities with DisableRollback
    unmatched,   \* unmatched_prespawn_spawn_tick_to_entities
    matched,     \* matched_prespawn_spawn_tick_to_entities
    lastStart,   \* history: the step the latest rollback started from
    expired      \* history: keys of the entities that nobody matched in time

spawnVars == <<setting, step, shifted, plan, oneOffs, entities, disabled, despawns, skips,
               shielded, unmatched, matched, lastStart, expired>>

Key(e) == <<e.kind, e.born>>
IsDeterministic(e) == e.kind # "Pre"
IsPrespawned(e) == e.kind \in {"Pre", "PreSkip"}
SkipsDespawn(e) == e.kind \in {"Skip", "PreSkip"}

TickOf(s) == s + shifted
Entry(tick, e) == [tick |-> tick, e |-> e]
EntitiesOf(list) == {list[i].e : i \in DOMAIN list}

\* retain
Without(list, S) ==
    LET kept[n \in 0..Len(list)] ==
            IF n = 0 THEN <<>>
            ELSE IF list[n].e \in S THEN kept[n - 1]
            ELSE Append(kept[n - 1], list[n])
    IN  kept[Len(list)]

SpawnInit ==
    /\ setting \in SpawnSettings
    /\ step = 0 /\ shifted = 0 /\ plan = <<>> /\ oneOffs = {}
    /\ entities = {} /\ disabled = <<>> /\ despawns = {} /\ skips = <<>> /\ shielded = {}
    /\ unmatched = <<>> /\ matched = <<>>
    /\ lastStart = 0 /\ expired = {}

-----------------------------------------------------------------------------
(***************************************************************************)
(* One step, on a record w of the variables that a replay changes.         *)
(***************************************************************************)
\* A mutant of Despawned: a despawned entity stays in the list of the matched.
DespawnedUnmatchedOnly(w, S) ==
    [w EXCEPT !.entities = @ \ S, !.unmatched = Without(@, S),
              !.disabled = [e \in DOMAIN @ \ S |-> @[e]]]

\* A despawn and the observers that clean the prespawn lists.
Despawned(w, S) ==
    [w EXCEPT !.entities = @ \ S, !.unmatched = Without(@, S), !.matched = Without(@, S),
              !.disabled = [e \in DOMAIN @ \ S |-> @[e]]]

\* A new entity, told from every other one the lists still name.
Fresh(w, kind, s) ==
    CHOOSE e \in [kind : {kind}, born : {s}, copy : 1..(MaxStep * (MaxStep + 1))] :
        e \notin w.entities \cup {d.e : d \in w.despawns}
        /\ \A c \in 1..(e.copy - 1) :
               [e EXCEPT !.copy = c] \in w.entities \cup {d.e : d \in w.despawns}

\* DeterministicPredicted::on_add and register_prespawn.
Spawned(w, kinds, s) ==
    LET new == {Fresh(w, k, s) : k \in kinds}
    IN  [w EXCEPT !.entities = @ \cup new,
                  !.despawns = @ \cup {Entry(TickOf(s), e) : e \in {x \in new : x.kind = "Det"}},
                  !.unmatched = @ \o SetToSeq({Entry(TickOf(s), e) : e \in {x \in new : x.kind = "Pre"}})]

\* PredictionDespawnCommand: the entities that the simulation despawns.
Disabled(w, kill, s) ==
    LET hit == {e \in w.entities \ DOMAIN w.disabled : Key(e) \in kill}
    IN  [w EXCEPT !.disabled = [e \in hit \cup DOMAIN @ |-> IF e \in hit THEN TickOf(s) ELSE @[e]]]

\* A mutant of Reclaimable: the window is taken to be a tick shorter.
ReclaimableEarly(w, s) ==
    {e \in DOMAIN w.disabled : IsDeterministic(e) /\ TickOf(s) - w.disabled[e] >= ReplayLimit - 1}

\* finalize_deterministic_despawns
Reclaimable(w, s) ==
    {e \in DOMAIN w.disabled : IsDeterministic(e) /\ TickOf(s) - w.disabled[e] > ReplayLimit}

OneStep(w, s, act) ==
    LET done == Disabled(Spawned(w, act.spawn, s), act.kill, s)
    IN  Despawned(done, Reclaimable(done, s))

World == [entities |-> entities, disabled |-> disabled, despawns |-> despawns,
          unmatched |-> unmatched, matched |-> matched]

-----------------------------------------------------------------------------
(***************************************************************************)
(* The rollback: the end of check_rollback, then remove_prediction_disable *)
(* and the replay of what came after the start.                            *)
(***************************************************************************)
Protected(start, forced) ==
    {x.e : x \in {y \in ToSet(skips) : y.tick > TickOf(start)}}
    \cup {e \in entities : forced /\ SkipsDespawn(e)}

\* A mutant of LaterPrespawned: matched entities are left alone.
LaterUnmatched(start, forced) ==
    {x.e : x \in {y \in ToSet(unmatched) : y.tick >= TickOf(start) + 1}} \ Protected(start, forced)

\* despawn_prespawned_after_with
LaterPrespawned(start, forced) ==
    {x.e : x \in {y \in ToSet(unmatched) \cup ToSet(matched) : y.tick >= TickOf(start) + 1}}
        \ Protected(start, forced)

\* A mutant of LaterDeterministic: what was spawned in the start is not replayed.
LaterInclusive(start) == {d.e : d \in {x \in despawns : x.tick >= TickOf(start)}}

\* deterministic_despawn.drain(..): the entities of the entries after the start.
LaterDeterministic(start) == {d.e : d \in {x \in despawns : x.tick > TickOf(start)}}

Restarted(start, forced) ==
    LET gone == LaterPrespawned(start, forced) \cup (LaterDeterministic(start) \cap entities)
    IN  [Despawned(World, gone) EXCEPT !.despawns = {}, !.disabled = <<>>]

ReplayedFrom(start, forced, acts) ==
    LET run[k \in 0..(step - start)] ==
            IF k = 0 THEN Restarted(start, forced)
            ELSE OneStep(run[k - 1], start + k, acts[start + k])
    IN  run[step - start]

\* partition_point: where `Before' turns false, if the list is partitioned.
Splits(list, tick) ==
    {i \in 0..Len(list) : /\ i > 0 => list[i].tick < tick
                          /\ i < Len(list) => list[i + 1].tick >= tick}

\* The protection of skip_despawn entities after a rollback.
Shield(start, forced) ==
    IF forced
    THEN skips' = <<>> /\ shielded' = shielded \ EntitiesOf(skips)
    ELSE \E i \in Splits(skips, TickOf(start) + 1) :
            /\ skips' = SubSeq(skips, i + 1, Len(skips))
            /\ shielded' = (shielded \cup EntitiesOf(skips'))
                             \ EntitiesOf(SubSeq(skips, 1, i))

-----------------------------------------------------------------------------
(***************************************************************************)
(* Frames.                                                                 *)
(***************************************************************************)
KeysOf(acts) == UNION {acts[s].spawn \X {s} : s \in DOMAIN acts}
Killable(s) == {k \in KeysOf(plan) \cup oneOffs : k[2] < s}

Idle == [spawn |-> {}, kill |-> {}]
CountActs(acts) == Cardinality({s \in DOMAIN acts : acts[s] # Idle}) + Cardinality(oneOffs)

\* What the simulation may do in a step: spawn one entity or despawn one.
ActsIn(s) ==
    {Idle} \cup {[spawn |-> {k}, kill |-> {}] : k \in setting.simulated}
    \cup {[spawn |-> {}, kill |-> {k}] : k \in Killable(s)}

\* pre_spawned_player_object_cleanup, in PostUpdate, and the end of the frame.
EndFrame(w, kept) ==
    \E i \in Splits(w.unmatched, TickOf(step') - ExpireAfter) :
    \E late \in {EntitiesOf(SubSeq(w.unmatched, 1, i))} :
    \E end \in {Despawned(w, late)} :
        /\ entities' = end.entities /\ disabled' = end.disabled /\ despawns' = end.despawns
        /\ unmatched' = end.unmatched /\ matched' = end.matched
        /\ expired' = kept \cup {Key(e) : e \in late}

\* A frame that simulates the next step.
StepFrame(act) ==
    /\ step < MaxStep
    /\ step' = step + 1
    /\ act = Idle \/ CountActs(plan) < MaxActs
    /\ plan' = Append(plan, act)
    /\ \E w \in {OneStep(World, step + 1, act)} : EndFrame(w, expired)
    /\ UNCHANGED <<setting, shifted, oneOffs, skips, shielded, lastStart>>

\* A frame that rolls back, because the first step after the start was not
\* what the client took it for.
RollbackFrame(start, forced, change) ==
    /\ step - start <= ReplayLimit
    /\ IF setting.revisits THEN start < step ELSE start >= lastStart
    /\ forced => setting.forces
    /\ start = step => change = Idle
    /\ plan' = IF start = step THEN plan ELSE [plan EXCEPT ![start + 1] = change]
    /\ CountActs(plan') <= MaxActs
    /\ UNCHANGED <<setting, step, shifted, oneOffs>>
    /\ \E w \in {ReplayedFrom(start, forced, plan')} :
           EndFrame(w, {k \in expired : k[2] <= start \/ k \in oneOffs})
    /\ Shield(start, forced)
    /\ lastStart' = start

\* An entity is spawned once, between two frames.
SpawnOnce(kind) ==
    \E e \in {[kind |-> kind, born |-> step, copy |-> 1]} :
        /\ Key(e) \notin oneOffs /\ CountActs(plan) < MaxActs
        /\ entities' = entities \cup {e}
        /\ oneOffs' = oneOffs \cup {Key(e)}
        /\ skips' = Append(skips, Entry(TickOf(step) + EnableAfter, e))
        /\ unmatched' = IF IsPrespawned(e) THEN Append(unmatched, Entry(TickOf(step), e))
                        ELSE unmatched
        /\ UNCHANGED <<setting, step, shifted, plan, disabled, despawns, shielded, matched,
                       lastStart, expired>>

\* bevy_replicon matches an entity of the server: cleanup_matched_prespawn.
Match(i) ==
    /\ unmatched' = RemoveAt(unmatched, i)
    /\ matched' = Append(matched, unmatched[i])
    /\ UNCHANGED <<setting, step, shifted, plan, oneOffs, entities, disabled, despawns, skips,
                   shielded, lastStart, expired>>

ShiftedBy(list, delta) == [i \in DOMAIN list |-> [list[i] EXCEPT !.tick = @ + delta]]

\* A mutant of TimelineShift: the ticks of matched entities stay.
ShiftUnmatchedOnly(delta) ==
    /\ setting.shifts /\ shifted + delta \in (-MaxShift)..MaxShift
    /\ shifted' = shifted + delta
    /\ unmatched' = ShiftedBy(unmatched, delta)
    /\ UNCHANGED <<setting, step, plan, oneOffs, entities, disabled, despawns, skips, shielded,
                   matched, lastStart, expired>>

\* handle_local_timeline_shift.  The lists of PredictionManager and the ticks
\* of PredictionDisable stay as they are, so that only settings without
\* deterministic entities shift the timeline.
TimelineShift(delta) ==
    /\ setting.shifts /\ shifted + delta \in (-MaxShift)..MaxShift
    /\ shifted' = shifted + delta
    /\ unmatched' = ShiftedBy(unmatched, delta)
    /\ matched' = ShiftedBy(matched, delta)
    /\ UNCHANGED <<setting, step, plan, oneOffs, entities, disabled, despawns, skips, shielded,
                   lastStart, expired>>

SpawnNext ==
    \/ \E act \in ActsIn(step + 1) : StepFrame(act)
    \/ \E start \in 0..step, forced \in BOOLEAN :
       \E change \in ActsIn(start + 1) : RollbackFrame(start, forced, change)
    \/ \E kind \in setting.oneOff : SpawnOnce(kind)
    \/ \E i \in DOMAIN unmatched : Match(i)
    \/ \E delta \in {-1, 1} : TimelineShift(delta)

SpawnSpec == SpawnInit /\ [][SpawnNext]_spawnVars

-----------------------------------------------------------------------------
Wanted == KeysOf(plan) \cup oneOffs
DespawnedByPlan == UNION {plan[s].kill : s \in DOMAIN plan}
Copies(k) == Cardinality({e \in entities : Key(e) = k})
EveryKey == {Key(e) : e \in entities} \cup Wanted

(***************************************************************************)
(* Whatever was rolled back and replayed, each entity that the simulation  *)
(* has spawned, or that was spawned once, exists once, unless the          *)
(* simulation despawned it or nobody matched it in time; and what was      *)
(* spawned in a step that turned out otherwise is gone: check_rollback,    *)
(* "despawn any PreSpawned/DeterministicPredicted entities that were       *)
(* spawned since the rollback tick (they will get respawned during the     *)
(* rollback)".  It holds for "Det" entities only while no rollback starts  *)
(* before an earlier one did: each rollback drains deterministic_despawn,  *)
(* "since future rollbacks will happen even more in the future", which the *)
(* input rollbacks of two peers do not keep to.                            *)
(***************************************************************************)
SpawnedOnce ==
    \A k \in EveryKey :
        /\ Copies(k) <= (IF k \in Wanted THEN 1 ELSE 0)
        /\ k \in Wanted \ (DespawnedByPlan \cup expired) => Copies(k) = 1

-----------------------------------------------------------------------------
\* Each prespawned entity is in one of the lists, once, with its tick.
PrespawnsFollow ==
    \E all \in {unmatched \o matched} :
        /\ EntitiesOf(all) = {e \in entities : IsPrespawned(e)}
        /\ Cardinality(EntitiesOf(all)) = Len(all)
        /\ \A i \in DOMAIN all : all[i].tick = TickOf(all[i].e.born)

\* "Sorted in ascending order of Tick", which partition_point relies on.
UnmatchedSorted == \A i, j \in DOMAIN unmatched : i < j => unmatched[i].tick <= unmatched[j].tick

\* What nobody matched goes after ExpireAfter ticks and not before.
ExpiredInTime ==
    /\ \A i \in DOMAIN unmatched : unmatched[i].tick >= TickOf(step) - ExpireAfter
    /\ \A k \in expired : step - k[2] > ExpireAfter

\* DisableRollback is taken away again: its entity is still in the list.
ShieldsEnd == shielded \subseteq EntitiesOf(skips)

(***************************************************************************)
(* The books kept on local entities are right: prespawned entities are     *)
(* tracked with their tick through matches, rollbacks, despawns and shifts *)
(* of the timeline; the cleanup finds exactly those that waited too long;  *)
(* and nothing keeps DisableRollback for ever.                             *)
(***************************************************************************)
SpawnBooks == PrespawnsFollow /\ UnmatchedSorted /\ ExpiredInTime /\ ShieldsEnd

(***************************************************************************)
(* Whatever the order of rollbacks, matches, despawns and shifts, the      *)
(* simulation's own spawns exist once and their books are right.           *)
(***************************************************************************)
SpawnsSound == SpawnedOnce /\ SpawnBooks
=============================================================================
