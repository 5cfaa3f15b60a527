---------------------------- MODULE InputBuffer ----------------------------
(***************************************************************************)
(* InputBuffer: the inputs of one player, one entry for each tick of a     *)
(* contiguous range, and the way a message that repeats the last ticks of  *)
(* a remote player is merged into it.  An entry is an input, None (the     *)
(* source's Absent) or Same (SameAsPrecedent).  A native input does not    *)
(* decay.  Ticks are unsigned and their subtraction saturates.             *)
(***************************************************************************)
EXTENDS Integers, Sequences, FiniteSetsExt

CONSTANTS None, Same

NoTick == -1

Before(tick, n) == IF tick > n THEN tick - n ELSE 0

EmptyBuffer == [start |-> NoTick, buffer |-> <<>>, lastRemote |-> NoTick]

EndTick(b) == b.start + Len(b.buffer) - 1

Ticks(b) == IF b.start = NoTick THEN {} ELSE b.start..EndTick(b)

GetRaw(b, tick) == IF tick \in Ticks(b) THEN b.buffer[tick - b.start + 1] ELSE None

\* The entry of a tick; Same stands for the closest entry before it that says
\* something.
Get(b, tick) ==
    LET said == {t \in Ticks(b) : t <= tick /\ GetRaw(b, t) # Same}
    IN  IF tick \in Ticks(b) /\ said # {} THEN GetRaw(b, Max(said)) ELSE None

GetLast(b) == IF Ticks(b) = {} THEN None ELSE Get(b, EndTick(b))

GetPredict(b, tick) ==
    IF Ticks(b) # {} /\ tick > EndTick(b) THEN GetLast(b) ELSE Get(b, tick)

SetRaw(b, tick, entry) ==
    CASE b.start = NoTick -> [b EXCEPT !.start = tick, !.buffer = <<entry>>]
      [] b.start # NoTick /\ tick < b.start -> b
      [] b.start # NoTick /\ tick >= b.start ->
            [b EXCEPT !.buffer =
                [i \in 1..Max({Len(b.buffer), tick - b.start + 1}) |->
                    IF i = tick - b.start + 1 THEN entry
                    ELSE IF i <= Len(b.buffer) THEN b.buffer[i] ELSE Same]]

Set(b, tick, value) ==
    SetRaw(b, tick, IF value # None /\ Get(b, Before(tick, 1)) = value THEN Same ELSE value)

ClipAfter(b, tick) ==
    CASE b.start = NoTick -> b
      [] b.start # NoTick /\ tick < b.start -> [b EXCEPT !.start = NoTick, !.buffer = <<>>]
      [] b.start # NoTick /\ tick >= b.start ->
            [b EXCEPT !.buffer = SubSeq(b.buffer, 1, Min({Len(b.buffer), tick - b.start + 1}))]

\* A mutant of Pop: the front may still say Same.
PopAsIs(b, tick) ==
    IF b.start = NoTick \/ tick < b.start THEN b
    ELSE [b EXCEPT !.start = tick + 1,
                   !.buffer = SubSeq(b.buffer, tick - b.start + 2, Len(b.buffer))]

\* Remove the ticks up to the given one.  An entry left at the front that
\* says Same takes over what the removed ones said.
Pop(b, tick) ==
    IF b.start = NoTick \/ tick < b.start THEN b
    ELSE LET rest == SubSeq(b.buffer, tick - b.start + 2, Len(b.buffer))
         IN  [b EXCEPT !.start = tick + 1,
                       !.buffer = IF rest # <<>> /\ rest[1] = Same
                                  THEN <<Get(b, tick)>> \o Tail(rest) ELSE rest]

PopKeepingLast(b, tick) ==
    Pop(b, IF GetLast(b) = None THEN tick ELSE Min({tick, Before(EndTick(b), 1)}))

-----------------------------------------------------------------------------
(***************************************************************************)
(* build_from_input_buffer: the last n ticks up to `end', the first of     *)
(* them resolved.                                                          *)
(***************************************************************************)
StateSequence(b, n, end) ==
    LET first == Max({end - n + 1, b.start})
    IN  [i \in 1..(end - first + 1) |-> IF i = 1 THEN Get(b, first) ELSE GetRaw(b, first + i - 1)]

(***************************************************************************)
(* update_buffer, one entry of the message at a time: what was predicted   *)
(* for the tick is compared with what the message says until the two       *)
(* disagree for a tick that is new; from there on the message replaces     *)
(* what the buffer holds.                                                  *)
(***************************************************************************)
MergeEntry(old, acc, tick, entry) ==
    LET predicted == IF tick <= EndTick(old) /\ old.start # NoTick
                     THEN Get(acc.buffer, tick) ELSE acc.predicted
        latest == IF entry = Same THEN acc.latest ELSE entry
        isNew == old.lastRemote = NoTick \/ tick > old.lastRemote
        beyond == old.start = NoTick \/ tick > EndTick(old)
    IN  CASE acc.mismatch # NoTick ->
                [acc EXCEPT !.buffer = SetRaw(acc.buffer, tick, entry)]
          [] acc.mismatch = NoTick /\ (~isNew \/ predicted = latest) ->
                [acc EXCEPT !.predicted = predicted, !.latest = latest,
                            !.buffer = IF isNew /\ beyond
                                       THEN SetRaw(acc.buffer, tick, latest) ELSE acc.buffer]
          [] acc.mismatch = NoTick /\ isNew /\ predicted # latest ->
                [acc EXCEPT !.mismatch = tick,
                            !.buffer = ClipAfter(SetRaw(acc.buffer, tick, latest), tick)]

\* The buffer after the message, and the first tick at which they disagreed.
UpdateBuffer(b, states, end) ==
    LET first == end - Len(states) + 1
        merge[i \in 0..Len(states)] ==
            IF i = 0
            THEN [buffer |-> b, mismatch |-> NoTick, latest |-> None,
                  predicted |-> IF b.lastRemote = NoTick THEN None ELSE Get(b, b.lastRemote)]
            ELSE MergeEntry(b, merge[i - 1], first + i - 1, states[i])
        done == merge[Len(states)]
    IN  [buffer |-> [done.buffer EXCEPT !.lastRemote = end], mismatch |-> done.mismatch]
=============================================================================
