----------------------------- MODULE Histories -----------------------------
(***************************************************************************)
(* The two histories of a component on a client.                           *)
(*                                                                         *)
(* HistoryBuffer, which prediction writes: entries [tick, state] in the    *)
(* order in which they were added, each valid until the next one.  A state *)
(* is a value or Gone (HistoryState::Removed).                             *)
(*                                                                         *)
(* ConfirmedHistory, which replication writes: at most one entry for each  *)
(* tick, kept in the order of the ticks, here a function from ticks.  An   *)
(* entry is a state, or Unchanged (SameAsPrecedent).                       *)
(***************************************************************************)
EXTENDS Integers, Sequences, FiniteSetsExt, Functions

CONSTANTS
    Gone,       \* the component does not exist
    Unchanged,  \* same as the entry before
    NoState     \* the history says nothing about the tick (Option::None)

\* partition_point: the number of entries up to the tick.
UpTo(h, tick) == Cardinality({i \in DOMAIN h : h[i].tick <= tick})

GetState(h, tick) == IF UpTo(h, tick) = 0 THEN NoState ELSE h[UpTo(h, tick)].state

\* Keep the state at the tick as the new oldest entry.
ClearUntil(h, tick) ==
    IF UpTo(h, tick) = 0 THEN h
    ELSE [SubSeq(h, UpTo(h, tick), Len(h)) EXCEPT ![1].tick = tick]

ClearAfter(h, tick) == SubSeq(h, 1, UpTo(h, tick))

AddState(h, tick, state) ==
    LET kept == IF h # <<>> /\ h[Len(h)].tick = tick THEN SubSeq(h, 1, Len(h) - 1) ELSE h
    IN  Append(kept, [tick |-> tick, state |-> state])

-----------------------------------------------------------------------------
\* What the entry of a tick, or the last one before it, stands for.
Resolve(c, tick) ==
    LET said == {t \in DOMAIN c : t <= tick /\ c[t] # Unchanged}
    IN  IF said = {} THEN NoState ELSE c[Max(said)]

StateAtOrBefore(c, tick) == Resolve(c, tick)

StateAt(c, tick) == IF tick \in DOMAIN c THEN Resolve(c, tick) ELSE NoState

StateBefore(c, tick) == Resolve(c, tick - 1)

InsertRaw(c, tick, entry) == [t \in DOMAIN c \cup {tick} |-> IF t = tick THEN entry ELSE c[t]]

InsertConfirmed(c, tick, state) ==
    InsertRaw(c, tick, IF StateBefore(c, tick) = state THEN Unchanged ELSE state)

AddUnchanged(c, tick) ==
    IF StateAt(c, tick) # NoState \/ StateBefore(c, tick) = NoState THEN c
    ELSE InsertRaw(c, tick, Unchanged)
=============================================================================
