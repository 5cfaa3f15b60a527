-------------------------- MODULE SimulationProofs --------------------------
(***************************************************************************)
(* What a client simulates is right, proved of two modules that share no   *)
(* state.                                                                  *)
(*                                                                         *)
(* Inputs: what a receiver simulates is what the player did, for any       *)
(* actions, delay, redundancy, depth of the history and of a replay.       *)
(*                                                                         *)
(* Says is what a buffer means of a tick: the closest entry up to it that  *)
(* is not Same.  The first part follows it through each operation of the   *)
(* buffer; the second through the loop of update_buffer, which either      *)
(* finds that the message continues what the buffer held, or takes the     *)
(* message over from the first tick at which they differ.  The third is    *)
(* the invariant: a message says what the player did; an accepted tick is  *)
(* still said truly by the buffer, or it left it after it was simulated    *)
(* so; and what a client's buffer says of a simulated tick is what the     *)
(* tick was simulated with, up to the one a replay starts from.  The rest  *)
(* are the steps, with the loop of a replay.                               *)
(*                                                                         *)
(* RollbackSpawns: what was spawned exists once, for any settings that the *)
(* lists of PredictionManager support (Supported), any reach of a rollback *)
(* and any time to wait for a match.                                       *)
(*                                                                         *)
(* Standing relates a world that has simulated some steps to the plan of   *)
(* them: each spawn has its entity or an excuse, and each list names what  *)
(* it must.  A step of the simulation, the despawns a rollback starts with *)
(* and so the whole replay keep it; the expired entities are those that    *)
(* waited too long because the list of the unmatched is sorted.            *)
(***************************************************************************)
EXTENDS Inputs, RollbackSpawns, CommonLemmas, SequenceTheorems, FiniteSetTheorems

(***************************************************************************)
(* Inputs.                                                                 *)
(***************************************************************************)

Values == Actions \cup {None}

Entries == Actions \cup {None, Same}

Buffers == [start : {NoTick} \cup (Nat \ {0}), buffer : Seq(Entries),
            lastRemote : {NoTick} \cup Nat]

\* A buffer that holds no tick has no entry.
BufferOK(b) == b \in Buffers /\ (b.start = NoTick => b.buffer = <<>>)

\* What a buffer says of a tick: the last entry up to it that is not Same.
Says(b, t, v) ==
    /\ t \in Ticks(b)
    /\ \E o \in Ticks(b) : /\ o <= t /\ GetRaw(b, o) = v
                           /\ \A u \in (o + 1)..t : GetRaw(b, u) = Same

-----------------------------------------------------------------------------
(* The buffer. *)

\* The later of two ticks.
LEMMA MaxOfTwo ==
    ASSUME NEW i \in Int, NEW j \in Int
    PROVE  Max({i, j}) = IF i >= j THEN i ELSE j
<1> DEFINE k == IF i >= j THEN i ELSE j
<1>1. k \in {i, j} /\ \A y \in {i, j} : k >= y
  OBVIOUS
<1>2. \A y \in {i, j} : (\A z \in {i, j} : y >= z) => y = k
  OBVIOUS
<1> HIDE DEF k
<1>3. Max({i, j}) = k
  BY <1>1, <1>2 DEF Max
<1> QED  BY <1>3 DEF k

\* The earlier of two ticks.
LEMMA MinOfTwo ==
    ASSUME NEW i \in Int, NEW j \in Int
    PROVE  Min({i, j}) = IF i <= j THEN i ELSE j
<1> DEFINE k == IF i <= j THEN i ELSE j
<1>1. k \in {i, j} /\ \A y \in {i, j} : k =< y
  OBVIOUS
<1>2. \A y \in {i, j} : (\A z \in {i, j} : y =< z) => y = k
  OBVIOUS
<1> HIDE DEF k
<1>3. Min({i, j}) = k
  BY <1>1, <1>2 DEF Min
<1> QED  BY <1>3 DEF k

\* The last of some ticks.
LEMMA MaxOfSome ==
    ASSUME NEW n \in Nat, NEW S, S \subseteq 0 .. n, S # {}
    PROVE  Max(S) \in S /\ \A x \in S : x <= Max(S)
<1> DEFINE T == {x \in Nat : \E y \in S : x = n - y}
<1>1. T \subseteq Nat /\ T # {}
  <2>1. PICK y \in S : TRUE
    OBVIOUS
  <2>2. n - y \in T
    BY <2>1
  <2> QED  BY <2>2
<1>2. PICK x \in T : \A y \in T : x <= y
  <2> HIDE DEF T
  <2> QED  BY <1>1, LeastOf
<1>3. PICK z \in S : x = n - z
  OBVIOUS
<1>4. ASSUME NEW y \in S PROVE z >= y
  <2>1. n - y \in T /\ y \in 0 .. n /\ z \in 0 .. n
    OBVIOUS
  <2>2. n - z <= n - y
    BY <1>2, <1>3, <2>1
  <2> QED  BY <2>1, <2>2
<1>5. Max(S) \in S /\ \A y \in S : Max(S) >= y
  BY <1>4 DEF Max
<1> QED  BY <1>5

\* The ticks of a buffer are numbers, and its entries are entries.
LEMMA TicksAre ==
    ASSUME NEW b, BufferOK(b)
    PROVE  /\ Ticks(b) \subseteq Nat \ {0}
           /\ Len(b.buffer) \in Nat /\ EndTick(b) \in Int
           /\ \A t \in Ticks(b) : b.start <= t /\ t <= EndTick(b) /\ GetRaw(b, t) \in Entries
                                  /\ GetRaw(b, t) = b.buffer[t - b.start + 1]
           /\ b.start # NoTick => /\ b.start \in Nat \ {0} /\ EndTick(b) >= b.start - 1
                                  /\ \A t \in Int : t \in Ticks(b) <=> b.start <= t /\ t <= EndTick(b)
           /\ b.start = NoTick => Ticks(b) = {}
<1>1. b.buffer \in Seq(Entries) /\ b.start \in {NoTick} \cup (Nat \ {0})
  BY DEF BufferOK, Buffers
<1>2. Len(b.buffer) \in Nat /\ EndTick(b) \in Int
  BY <1>1 DEF EndTick, NoTick
<1>3. CASE b.start = NoTick
  BY <1>2, <1>3 DEF Ticks
<1>4. CASE b.start # NoTick
  <2>1. b.start \in Nat \ {0} /\ EndTick(b) >= b.start - 1 /\ Ticks(b) = b.start..EndTick(b)
    BY <1>1, <1>2, <1>4 DEF Ticks, EndTick
  <2>2. ASSUME NEW t \in Ticks(b)
        PROVE  GetRaw(b, t) \in Entries /\ GetRaw(b, t) = b.buffer[t - b.start + 1]
    <3>1. t - b.start + 1 \in 1..Len(b.buffer)
      BY <2>1, <2>2, <1>2 DEF EndTick
    <3> QED  BY <3>1, <1>1, <2>2, ElementOfSeq DEF GetRaw
  <2> QED  BY <2>1, <2>2, <1>2, <1>4
<1> QED  BY <1>3, <1>4

\* Get finds what the buffer says, and nothing where it says nothing.
LEMMA GetIs ==
    ASSUME NEW b, BufferOK(b), NEW tick \in Int
    PROVE  /\ Get(b, tick) \in Values
           /\ \A v \in Actions : Says(b, tick, v) <=> Get(b, tick) = v
<1> DEFINE said == {t \in Ticks(b) : t <= tick /\ GetRaw(b, t) # Same}
<1>0. Get(b, tick) = IF tick \in Ticks(b) /\ said # {} THEN GetRaw(b, Max(said)) ELSE None
  BY DEF Get
<1>1. Ticks(b) \subseteq Nat \ {0} /\ \A t \in Ticks(b) : GetRaw(b, t) \in Entries
  BY TicksAre
<1>2. ASSUME tick \in Ticks(b), said # {}
      PROVE  Max(said) \in said /\ \A u \in said : u <= Max(said)
  <2>1. tick \in Nat /\ said \subseteq 0 .. tick
    BY <1>1, <1>2
  <2> HIDE DEF said
  <2> QED  BY <2>1, <1>2, MaxOfSome
<1>3. Get(b, tick) \in Values
  <2>1. CASE tick \in Ticks(b) /\ said # {}
    <3>1. Max(said) \in said
      BY <1>2, <2>1
    <3>2. Max(said) \in Ticks(b) /\ GetRaw(b, Max(said)) # Same
      BY <3>1
    <3> HIDE DEF said
    <3> QED  BY <3>2, <1>1, <1>0, <2>1 DEF Values, Entries
  <2>2. CASE ~ (tick \in Ticks(b) /\ said # {})
    BY <1>0, <2>2 DEF Values
  <2> QED  BY <2>1, <2>2
<1>4. ASSUME NEW v \in Actions, Says(b, tick, v) PROVE Get(b, tick) = v
  <2>1. PICK o \in Ticks(b) : o <= tick /\ GetRaw(b, o) = v
                              /\ \A u \in (o + 1)..tick : GetRaw(b, u) = Same
    BY <1>4 DEF Says
  <2>2. tick \in Ticks(b) /\ v # Same
    BY <1>4, InputConstants DEF Says
  <2>3. o \in said
    BY <2>1, <2>2
  <2>4. Max(said) \in said /\ o <= Max(said)
    BY <1>2, <2>2, <2>3
  <2>5. Max(said) \in Nat /\ Max(said) <= tick /\ GetRaw(b, Max(said)) # Same /\ o \in Nat
    BY <2>4, <1>1
  <2>6. Max(said) = o
    <3> HIDE DEF said
    <3>1. SUFFICES ASSUME Max(said) # o PROVE FALSE
      OBVIOUS
    <3>2. Max(said) \in (o + 1)..tick
      BY <2>4, <2>5, <3>1
    <3> QED  BY <3>2, <2>1, <2>5
  <2> QED  BY <1>0, <2>1, <2>2, <2>3, <2>6
<1>5. ASSUME NEW v \in Actions, Get(b, tick) = v PROVE Says(b, tick, v)
  <2>1. tick \in Ticks(b) /\ said # {}
    BY <1>0, <1>5, InputConstants
  <2>2. Max(said) \in said /\ \A u \in said : u <= Max(said)
    BY <1>2, <2>1
  <2> DEFINE o == Max(said)
  <2>3. o \in Ticks(b) /\ o <= tick /\ GetRaw(b, o) = v
    BY <1>0, <1>5, <2>1, <2>2
  <2>4. ASSUME NEW u \in (o + 1)..tick PROVE GetRaw(b, u) = Same
    <3>1. o \in Nat /\ u \in Int /\ u <= tick /\ ~ (u <= o)
      BY <2>3, <1>1, <2>4
    <3>2. u \in Ticks(b)
      BY SMTT(60), <2>1, <2>3, <3>1, TicksAre
    <3> QED  BY <2>2, <3>1, <3>2
  <2> HIDE DEF o
  <2> QED  BY <2>1, <2>3, <2>4 DEF Says
<1> QED  BY <1>3, <1>4, <1>5

\* A buffer says one thing of a tick.
LEMMA SaysOnce ==
    ASSUME NEW b, BufferOK(b), NEW tick \in Int, NEW v \in Actions, NEW w \in Actions,
           Says(b, tick, v), Says(b, tick, w)
    PROVE  v = w
BY GetIs

\* Equal entries say the same.
LEMMA SaysKept ==
    ASSUME NEW b, BufferOK(b), NEW c, BufferOK(c), NEW tick \in Int, NEW v,
           \A u \in Ticks(b) : u <= tick => u \in Ticks(c) /\ GetRaw(c, u) = GetRaw(b, u),
           Says(b, tick, v)
    PROVE  Says(c, tick, v)
<1>1. PICK o \in Ticks(b) : o <= tick /\ GetRaw(b, o) = v
                            /\ \A u \in (o + 1)..tick : GetRaw(b, u) = Same
  BY DEF Says
<1>2. tick \in Ticks(b)
  BY DEF Says
<1>3. ASSUME NEW u \in (o + 1)..tick PROVE GetRaw(c, u) = Same
  <2>0. b.start # NoTick /\ o \in Nat /\ tick \in Nat /\ b.start <= o /\ tick <= EndTick(b)
    BY <1>1, <1>2, TicksAre
  <2>1. u \in Ticks(b) /\ u <= tick
    BY <2>0, <1>3, TicksAre
  <2>2. GetRaw(c, u) = GetRaw(b, u)
    BY <2>1
  <2>3. GetRaw(b, u) = Same
    BY <1>1, <1>3
  <2> QED  BY <2>2, <2>3
<1>4. tick \in Ticks(c) /\ o \in Ticks(c) /\ GetRaw(c, o) = v
  BY <1>1, <1>2
<1> QED  BY <1>1, <1>3, <1>4 DEF Says

\* The same the other way round, for buffers with the same first tick.
LEMMA SaysBack ==
    ASSUME NEW b, BufferOK(b), NEW c, BufferOK(c), NEW tick \in Ticks(b), NEW v,
           b.start = c.start,
           \A u \in Ticks(b) : u <= tick => u \in Ticks(c) /\ GetRaw(c, u) = GetRaw(b, u),
           Says(c, tick, v)
    PROVE  Says(b, tick, v)
<1>1. b.start # NoTick /\ c.start # NoTick /\ tick \in Int
  BY TicksAre
<1>2. ASSUME NEW u \in Ticks(c), u <= tick PROVE u \in Ticks(b) /\ GetRaw(b, u) = GetRaw(c, u)
  <2>1. u \in Ticks(b)
    BY <1>1, <1>2, TicksAre
  <2> QED  BY <2>1, <1>2
<1> QED  BY <1>1, <1>2, SaysKept

\* A buffer with other entries is still one.
LEMMA BufferTyped ==
    ASSUME NEW b, b \in Buffers, NEW first \in {NoTick} \cup (Nat \ {0}),
           NEW s, s \in Seq(Entries), first = NoTick => s = <<>>,
           NEW c, c = [start |-> first, buffer |-> s, lastRemote |-> b.lastRemote]
    PROVE  BufferOK(c) /\ c.start = first /\ c.buffer = s /\ c.lastRemote = b.lastRemote
<1>1. b.lastRemote \in {NoTick} \cup Nat
  BY DEF Buffers
<1>2. c \in Buffers
  BY <1>1 DEF Buffers
<1>3. c.start = first /\ c.buffer = s /\ c.lastRemote = b.lastRemote
  OBVIOUS
<1> QED  BY <1>2, <1>3 DEF BufferOK

\* set_raw: one entry changes; ticks that were skipped are Same as before.
LEMMA SetRawIs ==
    ASSUME NEW b, BufferOK(b), NEW tick \in Nat \ {0}, NEW entry \in Entries,
           NEW c, c = SetRaw(b, tick, entry)
    PROVE  /\ BufferOK(c) /\ c.lastRemote = b.lastRemote
           /\ b.start = NoTick => /\ c.start = tick /\ EndTick(c) = tick
                                  /\ GetRaw(c, tick) = entry
           /\ b.start # NoTick /\ tick < b.start => c = b
           /\ b.start # NoTick /\ tick >= b.start =>
                /\ c.start = b.start
                /\ EndTick(c) = IF tick > EndTick(b) THEN tick ELSE EndTick(b)
                /\ GetRaw(c, tick) = entry
                /\ \A u \in Ticks(c) : u # tick =>
                     GetRaw(c, u) = IF u \in Ticks(b) THEN GetRaw(b, u) ELSE Same
<1>0. b.buffer \in Seq(Entries) /\ b.start \in {NoTick} \cup (Nat \ {0}) /\ b \in Buffers
  BY DEF BufferOK, Buffers
<1>01. b = [start |-> b.start, buffer |-> b.buffer, lastRemote |-> b.lastRemote]
  BY DEF BufferOK, Buffers
<1>1. Len(b.buffer) \in Nat
  BY <1>0
<1>2. CASE b.start = NoTick
  <2>1. c = [b EXCEPT !.start = tick, !.buffer = <<entry>>]
    BY <1>2 DEF SetRaw
  <2>2. <<entry>> \in Seq(Entries) /\ Len(<<entry>>) = 1 /\ <<entry>>[1] = entry
    OBVIOUS
  <2>3. BufferOK(c) /\ c.start = tick /\ c.buffer = <<entry>> /\ c.lastRemote = b.lastRemote
    <3>1. tick # NoTick /\ tick \in {NoTick} \cup (Nat \ {0})
      BY DEF NoTick
    <3> DEFINE s == <<entry>>
    <3>2. s \in Seq(Entries)
      OBVIOUS
    <3> DEFINE e == [b EXCEPT !.start = tick]
    <3>4. e = [start |-> tick, buffer |-> b.buffer, lastRemote |-> b.lastRemote]
      BY <1>01
    <3>5. c = [e EXCEPT !.buffer = s]
      BY <2>1
    <3> HIDE DEF s, e
    <3>6. c = [start |-> tick, buffer |-> s, lastRemote |-> b.lastRemote]
      BY <3>4, <3>5
    <3>3. BufferOK(c) /\ c.start = tick /\ c.buffer = s /\ c.lastRemote = b.lastRemote
      BY <3>1, <3>2, <3>6, <1>0, BufferTyped
    <3> QED  BY <3>3 DEF s
  <2>4. BufferOK(c)
    BY <2>3
  <2>5. EndTick(c) = tick
    BY <2>2, <2>3 DEF EndTick
  <2>6. tick \in Ticks(c)
    BY <2>3, <2>5 DEF Ticks, NoTick
  <2>7. GetRaw(c, tick) = entry
    BY <2>2, <2>3, <2>6 DEF GetRaw
  <2> QED  BY <1>2, <2>3, <2>4, <2>5, <2>7
<1>3. CASE b.start # NoTick /\ tick < b.start
  <2>1. b.start \in Nat \ {0} /\ ~ (tick >= b.start)
    BY <1>0, <1>3
  <2>2. c = b
    BY <1>3, <2>1 DEF SetRaw
  <2> QED  BY <2>2, <2>1, <1>3
<1>4. CASE b.start # NoTick /\ tick >= b.start
  <2> DEFINE n == IF Len(b.buffer) >= tick - b.start + 1 THEN Len(b.buffer)
                  ELSE tick - b.start + 1
             s == [i \in 1..n |-> IF i = tick - b.start + 1 THEN entry
                                  ELSE IF i <= Len(b.buffer) THEN b.buffer[i] ELSE Same]
  <2>0. b.start \in Nat \ {0}
    BY <1>0, <1>4
  <2>1. n \in Nat /\ Max({Len(b.buffer), tick - b.start + 1}) = n /\ tick - b.start + 1 \in 1..n
    BY <1>1, <1>4, <2>0, MaxOfTwo
  <2>2. c = [b EXCEPT !.buffer = s]
    <3>1. ~ (b.start = NoTick) /\ ~ (tick < b.start)
      BY <1>4, <2>0
    <3>2. c = [b EXCEPT !.buffer =
                [i \in 1..Max({Len(b.buffer), tick - b.start + 1}) |->
                    IF i = tick - b.start + 1 THEN entry
                    ELSE IF i <= Len(b.buffer) THEN b.buffer[i] ELSE Same]]
      BY <3>1, <1>4 DEF SetRaw
    <3> HIDE DEF n
    <3> QED  BY <3>2, <2>1
  <2>3. s \in Seq(Entries) /\ Len(s) = n
    <3>1. \A i \in 1..Len(b.buffer) : b.buffer[i] \in Entries
      BY <1>0, ElementOfSeq
    <3>2. Same \in Entries
      BY DEF Entries
    <3>3. s \in [1..n -> Entries]
      BY <3>1, <3>2, <1>1
    <3> HIDE DEF s, n
    <3> QED  BY <3>3, <2>1, SeqDef
  <2> HIDE DEF s
  <2>22. c = [start |-> b.start, buffer |-> s, lastRemote |-> b.lastRemote]
    BY <1>01, <2>2
  <2>4. c.start = b.start /\ c.buffer = s /\ c.lastRemote = b.lastRemote
    BY <2>22
  <2>5. BufferOK(c)
    <3>1. b.start = NoTick => s = <<>>
      BY <1>4
    <3> QED  BY <3>1, <1>0, <2>22, <2>3, BufferTyped
  <2>6. EndTick(c) = IF tick > EndTick(b) THEN tick ELSE EndTick(b)
    <3>1. EndTick(c) = b.start + n - 1 /\ EndTick(b) = b.start + Len(b.buffer) - 1
      <4> HIDE DEF n
      <4> QED  BY <2>3, <2>4 DEF EndTick
    <3> QED  BY <3>1, <1>1, <2>0
  <2>7. tick \in Ticks(c)
    BY <1>4, <2>0, <2>4, <2>6, <1>1 DEF Ticks, EndTick
  <2>8. GetRaw(c, tick) = entry
    BY <2>1, <2>4, <2>7 DEF GetRaw, s
  <2>9. ASSUME NEW u \in Ticks(c), u # tick
        PROVE  GetRaw(c, u) = IF u \in Ticks(b) THEN GetRaw(b, u) ELSE Same
    <3>1. u \in Nat /\ b.start <= u /\ u <= EndTick(c)
      BY <1>4, <2>4, <2>5, <2>9, TicksAre
    <3>2. GetRaw(c, u) = s[u - b.start + 1]
      BY <2>4, <2>9 DEF GetRaw
    <3>3. u - b.start + 1 \in 1..n /\ u - b.start + 1 # tick - b.start + 1
      BY SMTT(60), <3>1, <2>0, <2>4, <2>3, <2>9 DEF EndTick
    <3>4. u \in Ticks(b) <=> u - b.start + 1 <= Len(b.buffer)
      BY <3>1, <2>0, <1>1, <1>4 DEF Ticks, EndTick
    <3>5. s[u - b.start + 1] = IF u - b.start + 1 <= Len(b.buffer)
                               THEN b.buffer[u - b.start + 1] ELSE Same
      BY <3>3 DEF s
    <3> QED  BY <3>2, <3>4, <3>5 DEF GetRaw
  <2>10. ~ (b.start = NoTick) /\ ~ (tick < b.start)
    BY <1>4, <2>0
  <2> QED  BY <2>10, <2>4, <2>5, <2>6, <2>8, <2>9
<1> QED
  <2>1. b.start = NoTick \/ (b.start # NoTick /\ tick < b.start)
        \/ (b.start # NoTick /\ tick >= b.start)
    BY <1>0
  <2> QED  BY <2>1, <1>2, <1>3, <1>4

\* clip_after: what comes after the tick goes, or everything.
LEMMA ClipIs ==
    ASSUME NEW b, BufferOK(b), NEW tick \in Nat \ {0}, NEW c, c = ClipAfter(b, tick)
    PROVE  /\ BufferOK(c) /\ c.lastRemote = b.lastRemote
           /\ b.start # NoTick /\ tick < b.start => c.start = NoTick
           /\ b.start # NoTick /\ tick >= b.start =>
                /\ c.start = b.start
                /\ EndTick(c) = IF tick < EndTick(b) THEN tick ELSE EndTick(b)
                /\ \A u \in Ticks(c) : u \in Ticks(b) /\ GetRaw(c, u) = GetRaw(b, u)
<1>0. b.buffer \in Seq(Entries) /\ b.start \in {NoTick} \cup (Nat \ {0}) /\ b \in Buffers
  BY DEF BufferOK, Buffers
<1>01. b = [start |-> b.start, buffer |-> b.buffer, lastRemote |-> b.lastRemote]
  BY DEF BufferOK, Buffers
<1>1. Len(b.buffer) \in Nat
  BY <1>0
<1>2. CASE b.start = NoTick
  BY <1>2 DEF ClipAfter
<1>3. CASE b.start # NoTick /\ tick < b.start
  <2>1. c = [b EXCEPT !.start = NoTick, !.buffer = <<>>]
    BY <1>3, <1>0 DEF ClipAfter
  <2>2. <<>> \in Seq(Entries)
    OBVIOUS
  <2> DEFINE s == <<>>
         e == [b EXCEPT !.start = NoTick]
  <2>3. s \in Seq(Entries) /\ s = <<>>
    BY <2>2
  <2>5. e = [start |-> NoTick, buffer |-> b.buffer, lastRemote |-> b.lastRemote]
    BY <1>01
  <2>6. c = [e EXCEPT !.buffer = s]
    BY <2>1
  <2> HIDE DEF s, e
  <2>7. c = [start |-> NoTick, buffer |-> s, lastRemote |-> b.lastRemote]
    BY <2>5, <2>6
  <2>8. NoTick \in {NoTick} \cup (Nat \ {0})
    OBVIOUS
  <2>4. BufferOK(c) /\ c.start = NoTick /\ c.lastRemote = b.lastRemote
    <3>1. b.lastRemote \in {NoTick} \cup Nat
      BY <1>0 DEF Buffers
    <3>2. c \in Buffers
      BY <2>3, <2>7, <2>8, <3>1 DEF Buffers
    <3>3. c.start = NoTick /\ c.buffer = s /\ c.lastRemote = b.lastRemote
      BY <2>7
    <3> QED  BY <2>3, <3>2, <3>3 DEF BufferOK
  <2> QED  BY <1>3, <1>0, <2>4
<1>4. CASE b.start # NoTick /\ tick >= b.start
  <2> DEFINE n == IF Len(b.buffer) <= tick - b.start + 1 THEN Len(b.buffer)
                  ELSE tick - b.start + 1
             s == SubSeq(b.buffer, 1, n)
  <2>0. b.start \in Nat \ {0}
    BY <1>0, <1>4
  <2>1. n \in 0..Len(b.buffer) /\ Min({Len(b.buffer), tick - b.start + 1}) = n
    <3>1. tick - b.start + 1 \in Nat
      BY <1>4, <2>0
    <3>2. Min({Len(b.buffer), tick - b.start + 1}) = n
      BY ONLY <1>1, <3>1, MinOfTwo
    <3>3. n \in 0..Len(b.buffer)
      BY ONLY <1>1, <3>1
    <3> QED  BY <3>2, <3>3
  <2>2. c = [b EXCEPT !.buffer = s]
    <3>1. ~ (b.start = NoTick) /\ ~ (tick < b.start)
      BY <1>4, <2>0
    <3>2. c = [b EXCEPT !.buffer = SubSeq(b.buffer, 1, Min({Len(b.buffer), tick - b.start + 1}))]
      BY <3>1, <1>4 DEF ClipAfter
    <3> HIDE DEF n
    <3> QED  BY <3>2, <2>1
  <2>3. s \in Seq(Entries) /\ Len(s) = n /\ \A i \in 1..n : s[i] = b.buffer[i]
    <3> HIDE DEF n
    <3> QED  BY <1>0, <1>1, <2>1
  <2> HIDE DEF s
  <2>22. c = [start |-> b.start, buffer |-> s, lastRemote |-> b.lastRemote]
    BY <1>01, <2>2
  <2>4. c.start = b.start /\ c.buffer = s /\ c.lastRemote = b.lastRemote
    BY <2>22
  <2>5. BufferOK(c)
    <3>1. b.start = NoTick => s = <<>>
      BY <1>4
    <3> QED  BY <3>1, <1>0, <2>22, <2>3, BufferTyped
  <2>6. EndTick(c) = IF tick < EndTick(b) THEN tick ELSE EndTick(b)
    <3>1. EndTick(c) = b.start + n - 1 /\ EndTick(b) = b.start + Len(b.buffer) - 1
      <4> HIDE DEF n
      <4> QED  BY <2>3, <2>4 DEF EndTick
    <3> QED  BY <3>1, <1>1, <2>0
  <2>7. ASSUME NEW u \in Ticks(c) PROVE u \in Ticks(b) /\ GetRaw(c, u) = GetRaw(b, u)
    <3>1. u \in Nat /\ b.start <= u /\ u <= EndTick(c)
      BY <1>4, <2>4, <2>5, <2>7, TicksAre
    <3>2. u \in Ticks(b)
      BY <3>1, <2>6, <1>4, TicksAre
    <3>3. u - b.start + 1 \in 1..n
      BY SMTT(60), <3>1, <2>0, <2>4, <2>3 DEF EndTick
    <3>4. s[u - b.start + 1] = b.buffer[u - b.start + 1]
      BY <3>3, <2>3
    <3> QED  BY <3>2, <3>4, <2>4, <2>7 DEF GetRaw
  <2>10. ~ (b.start = NoTick) /\ ~ (tick < b.start)
    BY <1>4, <2>0
  <2> QED  BY <2>10, <2>4, <2>5, <2>6, <2>7
<1> QED
  <2>1. b.start = NoTick \/ (b.start # NoTick /\ tick < b.start)
        \/ (b.start # NoTick /\ tick >= b.start)
    BY <1>0
  <2> QED  BY <2>1, <1>2, <1>3, <1>4

\* pop: the ticks up to the given one go, and a Same at the front takes over.
LEMMA PopIs ==
    ASSUME NEW b, BufferOK(b), NEW tick \in Nat, NEW c, c = Pop(b, tick)
    PROVE  /\ BufferOK(c) /\ c.lastRemote = b.lastRemote
           /\ b.start = NoTick \/ tick < b.start => c = b
           /\ b.start # NoTick /\ tick >= b.start =>
                /\ c.start = tick + 1
                /\ EndTick(c) = IF tick > EndTick(b) THEN tick ELSE EndTick(b)
                /\ \A u \in Ticks(c) :
                     /\ u \in Ticks(b)
                     /\ GetRaw(c, u) = IF u = tick + 1 /\ GetRaw(b, u) = Same THEN Get(b, tick)
                                       ELSE GetRaw(b, u)
<1>0. b.buffer \in Seq(Entries) /\ b.start \in {NoTick} \cup (Nat \ {0}) /\ b \in Buffers
  BY DEF BufferOK, Buffers
<1>01. b = [start |-> b.start, buffer |-> b.buffer, lastRemote |-> b.lastRemote]
  BY DEF BufferOK, Buffers
<1>1. Len(b.buffer) \in Nat
  BY <1>0
<1>2. CASE b.start = NoTick \/ tick < b.start
  <2>1. c = b
    BY <1>2 DEF Pop
  <2>2. ~ (b.start # NoTick /\ tick >= b.start)
    BY <1>2, <1>0
  <2> QED  BY <2>1, <2>2
<1>4. CASE b.start # NoTick /\ tick >= b.start
  <2> DEFINE k == tick - b.start + 1
             n == IF k > Len(b.buffer) THEN 0 ELSE Len(b.buffer) - k
             rest == SubSeq(b.buffer, tick - b.start + 2, Len(b.buffer))
             s == IF rest # <<>> /\ rest[1] = Same THEN <<Get(b, tick)>> \o Tail(rest) ELSE rest
  <2>0. b.start \in Nat \ {0}
    BY <1>0, <1>4
  <2>1. n \in Nat /\ k \in Nat \ {0}
    BY <1>1, <1>4, <2>0
  <2>2. c = [b EXCEPT !.start = tick + 1, !.buffer = s]
    <3>1. ~ (b.start = NoTick \/ tick < b.start)
      BY <1>4, <2>0
    <3> QED  BY <3>1 DEF Pop
  <2>3. rest \in Seq(Entries) /\ Len(rest) = n /\ \A i \in 1..n : rest[i] = b.buffer[k + i]
    <3>1. tick - b.start + 2 = k + 1 /\ k + 1 \in Nat
      BY <2>0, <2>1
    <3>2. rest = SubSeq(b.buffer, k + 1, Len(b.buffer))
      BY <3>1
    <3> HIDE DEF k, rest
    <3> QED  BY <1>0, <1>1, <2>1, <3>1, <3>2
  <2> HIDE DEF rest
  <2>4. Get(b, tick) \in Entries
    BY GetIs DEF Values, Entries
  <2>5. /\ s \in Seq(Entries) /\ Len(s) = n
        /\ \A i \in 1..n : s[i] = IF i = 1 /\ b.buffer[k + 1] = Same THEN Get(b, tick)
                                  ELSE b.buffer[k + i]
    <3>1. CASE rest # <<>> /\ rest[1] = Same
      <4>1. n > 0 /\ b.buffer[k + 1] = Same
        BY SMTT(60), <2>1, <2>3, <3>1
      <4>2. Tail(rest) \in Seq(Entries) /\ Len(Tail(rest)) = n - 1
            /\ \A i \in 1..(n - 1) : Tail(rest)[i] = rest[i + 1]
        <5> HIDE DEF n
        <5> QED  BY <2>1, <2>3, <4>1, <3>1
      <4> DEFINE t == Tail(rest)
                 g == Get(b, tick)
      <4>3. s = <<g>> \o t
        BY <3>1
      <4> HIDE DEF t, s, g
      <4>4. s \in Seq(Entries) /\ Len(s) = n /\ s[1] = g
            /\ \A i \in 2..n : s[i] = t[i - 1]
        <5>1. t \in Seq(Entries) /\ Len(t) = n - 1 /\ g \in Entries
          BY <4>2, <2>4 DEF t, g
        <5> HIDE DEF n
        <5> QED  BY <5>1, <4>3, <4>1, <2>1
      <4>5. \A i \in 2..n : s[i] = b.buffer[k + i]
        <5>1. ASSUME NEW i \in 2..n PROVE s[i] = b.buffer[k + i]
          <6>1. i - 1 \in 1..(n - 1) /\ i \in 1..n /\ (i - 1) + 1 = i
            BY <2>1, <5>1
          <6>2. t[i - 1] = rest[i]
            BY <6>1, <4>2 DEF t
          <6> HIDE DEF n, k
          <6> QED  BY <6>1, <6>2, <4>4, <2>3, <5>1
        <5> QED  BY <5>1
      <4> HIDE DEF n, k
      <4> QED  BY <4>1, <4>4, <4>5, <2>1 DEF g
    <3>2. CASE ~ (rest # <<>> /\ rest[1] = Same)
      <4>1. s = rest
        BY <3>2
      <4>2. n > 0 => b.buffer[k + 1] # Same
        <5>1. SUFFICES ASSUME n > 0 PROVE b.buffer[k + 1] # Same
          OBVIOUS
        <5>2. 1 \in 1..n /\ rest # <<>>
          <6> HIDE DEF n
          <6> QED  BY <5>1, <2>1, <2>3
        <5> QED  BY <5>2, <2>3, <3>2
      <4> HIDE DEF s, n, k
      <4> QED  BY <4>1, <4>2, <2>1, <2>3
    <3> QED  BY <3>1, <3>2
  <2> HIDE DEF s
  <2>51. tick + 1 \in {NoTick} \cup (Nat \ {0}) /\ tick + 1 # NoTick
    BY DEF NoTick
  <2> DEFINE e == [b EXCEPT !.start = tick + 1]
  <2>52. e = [start |-> tick + 1, buffer |-> b.buffer, lastRemote |-> b.lastRemote]
    BY <1>01
  <2>53. c = [e EXCEPT !.buffer = s]
    BY <2>2
  <2> HIDE DEF e
  <2>54. c = [start |-> tick + 1, buffer |-> s, lastRemote |-> b.lastRemote]
    BY <2>52, <2>53
  <2>6. c.start = tick + 1 /\ c.buffer = s /\ c.lastRemote = b.lastRemote
    BY <2>54
  <2>7. BufferOK(c)
    <3>1. tick + 1 = NoTick => s = <<>>
      BY <2>51
    <3> QED  BY <3>1, <1>0, <2>54, <2>5, <2>51, BufferTyped
  <2>8. EndTick(c) = IF tick > EndTick(b) THEN tick ELSE EndTick(b)
    <3>1. EndTick(c) = tick + 1 + n - 1 /\ EndTick(b) = b.start + Len(b.buffer) - 1
      <4> HIDE DEF n, k
      <4> QED  BY <2>5, <2>6 DEF EndTick
    <3>2. k = tick - b.start + 1 /\ n = IF k > Len(b.buffer) THEN 0 ELSE Len(b.buffer) - k
      OBVIOUS
    <3>5. n \in Nat /\ k \in Nat
      BY <2>1
    <3> HIDE DEF n, k
    <3>3. CASE k > Len(b.buffer)
      <4>1. n = 0 /\ tick >= EndTick(b)
        BY <3>1, <3>2, <3>3, <1>1, <2>0
      <4> QED  BY <4>1, <3>1, <1>1, <2>0
    <3>4. CASE ~ (k > Len(b.buffer))
      <4>1. n = Len(b.buffer) - k /\ ~ (tick > EndTick(b))
        BY SMTT(60), <3>1, <3>2, <3>4, <1>1, <2>0
      <4>2. EndTick(c) = EndTick(b)
        <5>1. k = tick - b.start + 1 /\ n = Len(b.buffer) - k
          BY <4>1, <3>2
        <5>2. \A l, f \in Nat : l - (tick - f + 1) + tick + 1 - 1 = f + l - 1
          OBVIOUS
        <5>3. EndTick(c) = Len(b.buffer) - (tick - b.start + 1) + tick + 1 - 1
          BY <5>1, <3>1, <3>5, <1>1, <2>0
        <5> QED  BY <5>2, <5>3, <3>1, <1>1, <2>0
      <4> QED  BY <4>1, <4>2
    <3> QED  BY <3>3, <3>4
  <2>9. ASSUME NEW u \in Ticks(c)
        PROVE  /\ u \in Ticks(b)
               /\ GetRaw(c, u) = IF u = tick + 1 /\ GetRaw(b, u) = Same THEN Get(b, tick)
                                 ELSE GetRaw(b, u)
    <3>1. c.start # NoTick
      BY <2>6 DEF NoTick
    <3>2. u \in Nat /\ tick + 1 <= u /\ u <= EndTick(c)
      BY <2>6, <2>7, <2>9, <3>1, TicksAre
    <3>3. u \in Ticks(b)
      BY <3>2, <2>8, <2>0, <1>4, TicksAre
    <3>4. u - tick \in 1..n /\ u - b.start + 1 = k + (u - tick)
          /\ u - (tick + 1) + 1 = u - tick
      <4>1. tick + 1 <= u /\ u <= EndTick(b)
        BY <3>2, <3>3, <1>4, TicksAre
      <4>2. u <= b.start + Len(b.buffer) - 1
        BY <4>1 DEF EndTick
      <4> QED  BY SMTT(60), <4>1, <4>2, <2>0, <1>1, <3>2
    <3>5. GetRaw(c, u) = s[u - tick] /\ GetRaw(b, u) = b.buffer[k + (u - tick)]
      <4>1. GetRaw(c, u) = s[u - (tick + 1) + 1]
        BY <2>6, <2>9 DEF GetRaw
      <4>2. GetRaw(b, u) = b.buffer[u - b.start + 1]
        BY <3>3 DEF GetRaw
      <4> HIDE DEF k
      <4> QED  BY <4>1, <4>2, <3>4
    <3>6. u - tick = 1 <=> u = tick + 1
      BY <3>2
    <3>7. GetRaw(c, u) = IF u - tick = 1 /\ b.buffer[k + 1] = Same THEN Get(b, tick)
                         ELSE b.buffer[k + (u - tick)]
      BY <3>4, <3>5, <2>5
    <3> HIDE DEF k, n
    <3>8. CASE u = tick + 1
      <4>1. u - tick = 1 /\ GetRaw(b, u) = b.buffer[k + 1]
        BY <3>5, <3>6, <3>8
      <4>2. GetRaw(c, u) = IF b.buffer[k + 1] = Same THEN Get(b, tick) ELSE b.buffer[k + 1]
        BY <4>1, <3>7
      <4> QED  BY <4>1, <4>2, <3>3, <3>8
    <3>9. CASE u # tick + 1
      <4>1. GetRaw(c, u) = b.buffer[k + (u - tick)]
        BY <3>6, <3>7, <3>9
      <4> QED  BY <4>1, <3>3, <3>5, <3>9
    <3> QED  BY <3>8, <3>9
  <2>10. ~ (b.start = NoTick) /\ ~ (tick < b.start)
    BY <1>4, <2>0
  <2> QED  BY <2>10, <2>6, <2>7, <2>8, <2>9
<1> QED
  <2>1. (b.start = NoTick \/ tick < b.start) \/ (b.start # NoTick /\ tick >= b.start)
    BY <1>0
  <2> QED  BY <2>1, <1>2, <1>4

\* What is left after a pop says what it said before.
LEMMA PopSays ==
    ASSUME NEW b, BufferOK(b), NEW tick \in Nat, NEW t \in Nat, NEW v \in Actions,
           t \in Ticks(Pop(b, tick))
    PROVE  Says(Pop(b, tick), t, v) <=> Says(b, t, v)
<1> DEFINE c == Pop(b, tick)
<1>0. /\ BufferOK(c)
      /\ b.start = NoTick \/ tick < b.start => c = b
      /\ b.start # NoTick /\ tick >= b.start =>
           /\ c.start = tick + 1
           /\ EndTick(c) = IF tick > EndTick(b) THEN tick ELSE EndTick(b)
           /\ \A u \in Ticks(c) :
                /\ u \in Ticks(b)
                /\ GetRaw(c, u) = IF u = tick + 1 /\ GetRaw(b, u) = Same THEN Get(b, tick)
                                  ELSE GetRaw(b, u)
  BY PopIs
<1> HIDE DEF c
<1>1. b.start \in {NoTick} \cup (Nat \ {0})
  BY DEF BufferOK, Buffers
<1>2. CASE b.start = NoTick \/ tick < b.start
  <2>1. c = b
    BY <1>0, <1>2
  <2> QED  BY <2>1 DEF c
<1>3. CASE b.start # NoTick /\ tick >= b.start
  <2>0. b.start \in Nat \ {0} /\ c.start = tick + 1 /\ c.start # NoTick
    BY <1>0, <1>1, <1>3 DEF NoTick
  <2>1. /\ t \in Ticks(c) /\ t \in Ticks(b) /\ tick + 1 <= t /\ t <= EndTick(c)
        /\ EndTick(c) \in Int /\ EndTick(b) \in Int
    <3>1. t \in Ticks(c)
      BY DEF c
    <3>2. t \in Ticks(b)
      BY <3>1, <1>0, <1>3
    <3> QED  BY <3>1, <3>2, <1>0, <2>0, TicksAre
  <2>2. tick <= EndTick(b) /\ tick \in Ticks(b) /\ EndTick(c) = EndTick(b)
    <3>1. t <= EndTick(b)
      BY <2>1, TicksAre
    <3>2. tick <= EndTick(b)
      BY <3>1, <2>1
    <3> QED  BY <3>2, <2>1, <1>0, <1>3, <2>0, TicksAre
  <2>3. \A u \in Int : tick < u /\ u <= t => u \in Ticks(c) /\ u \in Ticks(b)
    <3>1. ASSUME NEW u \in Int, tick < u, u <= t PROVE u \in Ticks(c)
      <4>1. tick + 1 <= u /\ u <= EndTick(c)
        BY <3>1, <2>1
      <4> QED  BY <4>1, <2>0, <1>0, TicksAre
    <3> QED  BY <3>1, <1>0, <1>3
  <2>4. \A u \in Ticks(c) : u # tick + 1 => GetRaw(c, u) = GetRaw(b, u)
    BY <1>0, <1>3
  <2>5. tick + 1 \in Ticks(c)
        /\ GetRaw(c, tick + 1) = IF GetRaw(b, tick + 1) = Same THEN Get(b, tick)
                                 ELSE GetRaw(b, tick + 1)
    <3>1. tick + 1 \in Ticks(c)
      BY <2>3, <2>1
    <3> QED  BY <3>1, <1>0, <1>3
  <2>6. v # Same
    BY InputConstants
  <2>7. ASSUME Says(b, t, v) PROVE Says(c, t, v)
    <3>1. PICK o \in Ticks(b) : o <= t /\ GetRaw(b, o) = v
                                /\ \A u \in (o + 1)..t : GetRaw(b, u) = Same
      BY <2>7 DEF Says
    <3>2. o \in Nat
      BY TicksAre
    <3>3. CASE tick < o
      <4>1. o \in Ticks(c)
        BY <2>3, <3>1, <3>2, <3>3
      <4>2. GetRaw(c, o) = v
        <5>1. CASE o = tick + 1
          BY <2>5, <2>6, <3>1, <5>1
        <5>2. CASE o # tick + 1
          BY <2>4, <3>1, <4>1, <5>2
        <5> QED  BY <5>1, <5>2
      <4>3. ASSUME NEW u \in (o + 1)..t PROVE GetRaw(c, u) = Same
        <5>1. u \in Ticks(c) /\ u # tick + 1
          BY <2>3, <3>2, <3>3, <4>3
        <5>2. GetRaw(b, u) = Same
          BY <3>1, <4>3
        <5> QED  BY <5>1, <5>2, <2>4
      <4> QED  BY <2>1, <3>1, <4>1, <4>2, <4>3 DEF Says
    <3>4. CASE o <= tick
      <4>1. tick + 1 \in (o + 1)..t /\ \A u \in (o + 1)..tick : u \in (o + 1)..t
        BY <2>1, <3>2, <3>4
      <4>2. GetRaw(b, tick + 1) = Same
        BY <3>1, <4>1
      <4>3. Says(b, tick, v)
        BY <2>2, <3>1, <3>4, <4>1 DEF Says
      <4>4. Get(b, tick) = v
        BY <4>3, GetIs
      <4>5. GetRaw(c, tick + 1) = v
        BY <2>5, <4>2, <4>4
      <4>6. ASSUME NEW u \in (tick + 1 + 1)..t PROVE GetRaw(c, u) = Same
        <5>1. u \in Ticks(c) /\ u # tick + 1 /\ u \in (o + 1)..t
          BY <2>3, <3>2, <3>4, <4>6
        <5>2. GetRaw(b, u) = Same
          BY <3>1, <5>1
        <5> QED  BY <5>1, <5>2, <2>4
      <4> QED  BY <2>1, <2>5, <4>5, <4>6 DEF Says
    <3> QED  BY <3>2, <3>3, <3>4
  <2>8. ASSUME Says(c, t, v) PROVE Says(b, t, v)
    <3>1. PICK o \in Ticks(c) : o <= t /\ GetRaw(c, o) = v
                                /\ \A u \in (o + 1)..t : GetRaw(c, u) = Same
      BY <2>8 DEF Says
    <3>2. o \in Nat /\ tick + 1 <= o /\ o \in Ticks(b)
      <4>1. o \in Nat /\ tick + 1 <= o
        BY <1>0, <2>0, TicksAre
      <4> QED  BY <4>1, <1>0, <1>3
    <3>3. ASSUME NEW u \in (o + 1)..t PROVE u \in Int /\ GetRaw(b, u) = Same
      <4>1. u \in Ticks(c) /\ u # tick + 1
        BY <2>3, <3>2, <3>3
      <4> QED  BY <4>1, <2>4, <3>1, <3>3
    <3>4. CASE GetRaw(b, o) = v
      BY <2>1, <3>1, <3>2, <3>3, <3>4 DEF Says
    <3>5. CASE GetRaw(b, o) # v
      <4>1. o = tick + 1
        BY <2>4, <3>1, <3>5
      <4>2. GetRaw(b, tick + 1) = Same /\ Get(b, tick) = v
        BY <2>5, <3>1, <3>5, <4>1
      <4>3. PICK p \in Ticks(b) : p <= tick /\ GetRaw(b, p) = v
                                  /\ \A u \in (p + 1)..tick : GetRaw(b, u) = Same
        BY <4>2, GetIs DEF Says
      <4>4. p \in Nat
        BY TicksAre
      <4>5. ASSUME NEW u \in (p + 1)..t PROVE GetRaw(b, u) = Same
        <5>1. u \in (p + 1)..tick \/ u = tick + 1 \/ u \in (o + 1)..t
          BY <4>1, <4>4, <4>5
        <5> QED  BY <5>1, <3>3, <4>2, <4>3
      <4>6. p <= t
        BY <2>1, <4>3, <4>4
      <4> QED  BY <2>1, <4>3, <4>5, <4>6 DEF Says
    <3> QED  BY <3>4, <3>5
  <2> QED  BY <2>7, <2>8 DEF c
<1> QED
  <2>1. (b.start = NoTick \/ tick < b.start) \/ (b.start # NoTick /\ tick >= b.start)
    BY <1>1
  <2> QED  BY <2>1, <1>2, <1>3

\* What is set for a tick of which the buffer says nothing.
WasSet(b, tick, value, c) ==
    /\ BufferOK(c) /\ c.lastRemote = b.lastRemote
    /\ c.start = IF b.start = NoTick THEN tick ELSE b.start
    /\ EndTick(c) \in Int /\ EndTick(c) >= tick
    /\ b.start # NoTick => EndTick(c) >= EndTick(b)
    /\ \A t \in Nat : t > tick /\ t > EndTick(b) => t \notin Ticks(c)
    /\ \A t \in Nat, v \in Actions : Says(b, t, v) => Says(c, t, v)
    /\ \A t \in Ticks(b), v \in Actions : t < tick /\ Says(c, t, v) => Says(b, t, v)
    /\ \A v \in Actions : Says(c, tick, v) => v = value

\* set, on a tick of which the buffer says nothing.
LEMMA SetIs ==
    ASSUME NEW b, BufferOK(b), NEW tick \in Nat \ {0}, NEW value \in Values,
           Get(b, tick) = None
    PROVE  WasSet(b, tick, value, Set(b, tick, value))
<1> DEFINE entry == IF value # None /\ Get(b, Before(tick, 1)) = value THEN Same ELSE value
           c == SetRaw(b, tick, entry)
<1>0. Set(b, tick, value) = c
  BY DEF Set
<1>1. entry \in Entries
  BY DEF Entries, Values
<1> HIDE DEF entry
<1>2. /\ BufferOK(c) /\ c.lastRemote = b.lastRemote
      /\ b.start = NoTick => /\ c.start = tick /\ EndTick(c) = tick
                             /\ GetRaw(c, tick) = entry
      /\ b.start # NoTick /\ tick < b.start => c = b
      /\ b.start # NoTick /\ tick >= b.start =>
           /\ c.start = b.start
           /\ EndTick(c) = IF tick > EndTick(b) THEN tick ELSE EndTick(b)
           /\ GetRaw(c, tick) = entry
           /\ \A u \in Ticks(c) : u # tick =>
                GetRaw(c, u) = IF u \in Ticks(b) THEN GetRaw(b, u) ELSE Same
  BY <1>1, SetRawIs
<1> HIDE DEF c
<1>3. b.start \in {NoTick} \cup (Nat \ {0}) /\ EndTick(b) \in Int /\ EndTick(c) \in Int
  BY <1>2, TicksAre DEF BufferOK, Buffers
<1>4. \A v \in Actions : ~ Says(b, tick, v)
  BY GetIs, InputConstants
<1>5. ASSUME b.start = NoTick PROVE WasSet(b, tick, value, c)
  <2>1. Ticks(b) = {} /\ c.start = tick /\ EndTick(c) = tick /\ GetRaw(c, tick) = entry
    BY <1>2, <1>5, TicksAre
  <2>2. Get(b, Before(tick, 1)) = None
    BY <2>1 DEF Get
  <2>3. entry = value
    BY <2>2 DEF entry
  <2>4. tick # NoTick
    BY DEF NoTick
  <2>5. \A t \in Ticks(c) : t = tick
    BY <1>2, <2>1, <2>4, TicksAre
  <2>6. ASSUME NEW v \in Actions, Says(c, tick, v) PROVE v = value
    BY <2>1, <2>3, <2>5, <2>6 DEF Says
  <2>7. \A t, v : ~ Says(b, t, v)
    BY <2>1 DEF Says
  <2>8. \A t \in Nat : t > tick => t \notin Ticks(c)
    BY <2>5
  <2> QED  BY <1>2, <1>5, <1>3, <2>1, <2>6, <2>7, <2>8 DEF WasSet
<1>6. ASSUME b.start # NoTick /\ tick < b.start PROVE WasSet(b, tick, value, c)
  <2>1. c = b /\ EndTick(b) >= b.start - 1 /\ b.start \in Nat
    BY <1>2, <1>6, <1>3, TicksAre
  <2>2. \A t \in Nat : t > EndTick(b) => t \notin Ticks(b)
    BY <1>3, TicksAre
  <2>3. EndTick(b) >= tick
    BY <1>3, <1>6, <2>1
  <2> QED  BY <1>2, <1>3, <1>4, <1>6, <2>1, <2>2, <2>3 DEF WasSet
<1>7. ASSUME b.start # NoTick /\ tick >= b.start PROVE WasSet(b, tick, value, c)
  <2>1. /\ c.start = b.start /\ b.start \in Nat \ {0} /\ c.start # NoTick
        /\ EndTick(c) = IF tick > EndTick(b) THEN tick ELSE EndTick(b)
        /\ GetRaw(c, tick) = entry
        /\ \A u \in Ticks(c) : u # tick =>
             GetRaw(c, u) = IF u \in Ticks(b) THEN GetRaw(b, u) ELSE Same
    BY <1>2, <1>3, <1>7
  <2>2. /\ \A t \in Int : t \in Ticks(c) <=> b.start <= t /\ t <= EndTick(c)
        /\ \A t \in Int : t \in Ticks(b) <=> b.start <= t /\ t <= EndTick(b)
        /\ Ticks(b) \subseteq Nat /\ Ticks(c) \subseteq Nat
    BY <1>2, <1>7, <2>1, TicksAre
  <2>3. tick \in Ticks(c) /\ Ticks(b) \subseteq Ticks(c)
    BY <1>3, <1>7, <2>1, <2>2
  <2>4. \A u \in Ticks(b) : u # tick => GetRaw(c, u) = GetRaw(b, u)
    BY <2>1, <2>3
  <2>5. ASSUME NEW t \in Nat, NEW v \in Actions, Says(b, t, v) PROVE Says(c, t, v)
    <3>1. PICK o \in Ticks(b) : o <= t /\ GetRaw(b, o) = v
                                /\ \A u \in (o + 1)..t : GetRaw(b, u) = Same
      BY <2>5 DEF Says
    <3>2. t \in Ticks(b) /\ o \in Nat
      BY <2>5, <2>2 DEF Says
    \* Otherwise the buffer would say something of the tick that is set.
    <3>3. ~ (o <= tick /\ tick <= t)
      <4>1. SUFFICES ASSUME o <= tick, tick <= t PROVE FALSE
        OBVIOUS
      <4>2. tick \in Ticks(b)
        <5>1. b.start <= o /\ t <= EndTick(b)
          BY <2>2, <3>1, <3>2
        <5> QED  BY <5>1, <4>1, <2>1, <2>2, <1>3, <3>2
      <4>3. \A u \in (o + 1)..tick : u \in (o + 1)..t
        BY <4>1, <3>2
      <4>4. Says(b, tick, v)
        BY <4>1, <4>2, <4>3, <3>1 DEF Says
      <4> QED  BY <4>4, <1>4
    <3>4. o # tick /\ o \in Ticks(c) /\ GetRaw(c, o) = v
      <4>1. o # tick
        BY <3>1, <3>3, <3>2
      <4> QED  BY <4>1, <2>3, <2>4, <3>1
    <3>5. ASSUME NEW u \in (o + 1)..t PROVE GetRaw(c, u) = Same
      <4>1. u # tick /\ u \in Int
        BY <3>2, <3>3, <3>5
      <4>2. u \in Ticks(b)
        BY <2>2, <3>1, <3>2, <3>5, <1>3, <2>1
      <4>3. GetRaw(b, u) = Same
        BY <3>1, <3>5
      <4> QED  BY <4>1, <4>2, <4>3, <2>4
    <3> QED  BY <2>3, <3>1, <3>2, <3>4, <3>5 DEF Says
  <2>6. ASSUME NEW t \in Ticks(b), NEW v \in Actions, t < tick, Says(c, t, v)
        PROVE  Says(b, t, v)
    <3>1. t \in Int /\ \A u \in Ticks(b) : u <= t => u \in Ticks(c) /\ GetRaw(c, u) = GetRaw(b, u)
      BY <2>2, <2>3, <2>4, <2>6
    <3> QED  BY <3>1, <2>1, <2>6, <1>2, SaysBack
  <2>7. ASSUME NEW v \in Actions, Says(c, tick, v) PROVE v = value
    <3>0. v # None /\ v # Same
      BY InputConstants
    <3>1. PICK o \in Ticks(c) : o <= tick /\ GetRaw(c, o) = v
                                /\ \A u \in (o + 1)..tick : GetRaw(c, u) = Same
      BY <2>7 DEF Says
    <3>2. o \in Nat
      BY <2>2
    <3>3. CASE o = tick
      <4>1. entry = v
        BY <2>1, <3>1, <3>3
      <4> QED  BY <4>1, <3>0 DEF entry
    <3>4. CASE o # tick
      <4>0. o < tick /\ tick - 1 \in Nat /\ o <= tick - 1 /\ tick \in (o + 1)..tick
        BY <3>1, <3>2, <3>4
      <4>1. entry = Same
        BY <2>1, <3>1, <4>0
      <4>2. value # None /\ Get(b, Before(tick, 1)) = value
        BY <4>1, InputConstants DEF entry, Values
      <4>3. Before(tick, 1) = tick - 1
        <5>1. tick > 1
          BY <4>0, <2>1, <2>2, <3>1
        <5> QED  BY <5>1 DEF Before
      <4>4. value \in Actions /\ Says(b, tick - 1, value)
        BY <4>2, <4>3, <4>0, GetIs DEF Values
      <4>5. Says(c, tick - 1, v)
        <5>1. tick - 1 \in Ticks(c)
          BY <4>4, <2>3 DEF Says
        <5>2. \A u \in (o + 1)..(tick - 1) : u \in (o + 1)..tick
          BY <3>2
        <5> QED  BY <5>1, <5>2, <4>0, <3>1 DEF Says
      <4>6. Says(b, tick - 1, v)
        <5>1. tick - 1 \in Ticks(b)
          BY <4>4 DEF Says
        <5> QED  BY <5>1, <2>6, <4>0, <4>5
      <4> QED  BY <4>4, <4>6, <4>0, SaysOnce
    <3> QED  BY <3>3, <3>4
  <2>8. \A t \in Nat : t > tick /\ t > EndTick(b) => t \notin Ticks(c)
    BY <2>1, <2>2, <1>3
  <2>9. EndTick(c) >= tick /\ EndTick(c) >= EndTick(b)
    BY <2>1, <1>3
  <2> QED  BY <1>2, <1>3, <1>7, <2>1, <2>5, <2>6, <2>7, <2>8, <2>9 DEF WasSet
<1>8. WasSet(b, tick, value, c)
  <2>1. b.start = NoTick \/ (b.start # NoTick /\ tick < b.start)
        \/ (b.start # NoTick /\ tick >= b.start)
    BY <1>3
  <2> QED  BY <2>1, <1>5, <1>6, <1>7
<1> QED  BY <1>0, <1>8

-----------------------------------------------------------------------------
(* A message and the buffer it is merged into. *)

\* The entries of a message, from its first tick on, say what the player did.
Faithful(tr, first, states) ==
    /\ first \in Nat \ {0} /\ states \in Seq(Entries) /\ Len(states) >= 1
    /\ \A i \in 1..Len(states) :
         /\ first + i - 1 \in DOMAIN tr /\ tr[first + i - 1] \in Actions
         /\ \/ states[i] = tr[first + i - 1]
            \/ i > 1 /\ states[i] = Same /\ tr[first + i - 1] = tr[first + i - 2]

\* The buffer has taken what is new of the ticks first..t.
SaysNew(b, tr, first, t, c) == \A u \in first..t : u > b.lastRemote => Says(c, u, tr[u])

\* No entry up to t contradicts the buffer b, and c is b after them.
Agreed(b, tr, first, t, c) ==
    /\ c.start = b.start
    /\ b.start = NoTick => \A u \in first..t : u <= b.lastRemote
    /\ EndTick(c) = IF first <= t /\ t > b.lastRemote /\ t > EndTick(b) THEN t ELSE EndTick(b)
    /\ \A u \in Ticks(b) : u \in Ticks(c) /\ GetRaw(c, u) = GetRaw(b, u)
    /\ SaysNew(b, tr, first, t, c)

\* The entry of x contradicts b, and c is b after the entries up to t: what b
\* held before x and the message from there on, or only the message if x is
\* before all that b held.
Differed(b, tr, first, t, x, c) ==
    /\ x \in first..t /\ x > b.lastRemote
    /\ b.start = NoTick \/ x >= b.start =>
         /\ c.start = IF b.start = NoTick THEN x ELSE b.start
         /\ EndTick(c) = t
         /\ \A u \in Ticks(b) : u < x => u \in Ticks(c) /\ GetRaw(c, u) = GetRaw(b, u)
         /\ SaysNew(b, tr, first, t, c)
    /\ b.start # NoTick /\ x < b.start =>
         c.start = NoTick \/ (c.start > x /\ EndTick(c) = t)

\* The loop of update_buffer after k entries.
Merging(b, tr, first, k) ==
    {acc \in [buffer : Buffers, mismatch : Int, latest : Entries, predicted : Entries] :
        /\ BufferOK(acc.buffer) /\ acc.buffer.lastRemote = b.lastRemote
        /\ acc.mismatch = NoTick =>
             /\ k >= 1 => acc.latest = tr[first + k - 1]
             /\ b.start = NoTick => acc.predicted = None
             /\ Agreed(b, tr, first, first + k - 1, acc.buffer)
        /\ acc.mismatch # NoTick =>
             Differed(b, tr, first, first + k - 1, acc.mismatch, acc.buffer)}

\* Only the entries matter for what a buffer says.
LEMMA SameEntries ==
    ASSUME NEW b, NEW c, b.start = c.start, b.buffer = c.buffer
    PROVE  /\ EndTick(b) = EndTick(c) /\ Ticks(b) = Ticks(c)
           /\ \A t : GetRaw(b, t) = GetRaw(c, t)
           /\ \A t, v : Says(b, t, v) <=> Says(c, t, v)
<1>1. EndTick(b) = EndTick(c)
  BY DEF EndTick
<1>2. Ticks(b) = Ticks(c)
  BY <1>1 DEF Ticks
<1>3. \A t : GetRaw(b, t) = GetRaw(c, t)
  BY <1>2 DEF GetRaw
<1> QED  BY <1>1, <1>2, <1>3 DEF Says

\* A Same after something that is said says it again.
LEMMA SaysOn ==
    ASSUME NEW b, BufferOK(b), NEW t \in Ticks(b), NEW v, Says(b, t - 1, v),
           GetRaw(b, t) = Same
    PROVE  Says(b, t, v)
<1>1. PICK o \in Ticks(b) : o <= t - 1 /\ GetRaw(b, o) = v
                            /\ \A u \in (o + 1)..(t - 1) : GetRaw(b, u) = Same
  BY DEF Says
<1>2. o \in Nat /\ t \in Nat
  BY TicksAre
<1>3. o <= t
  BY <1>1, <1>2
<1>4. ASSUME NEW u \in (o + 1)..t PROVE GetRaw(b, u) = Same
  <2>1. u = t \/ u \in (o + 1)..(t - 1)
    BY <1>2, <1>4
  <2> QED  BY <2>1, <1>1
<1> QED  BY <1>1, <1>3, <1>4 DEF Says

\* An entry that is not Same is what the buffer says of its tick.
LEMMA SaysAt ==
    ASSUME NEW b, BufferOK(b), NEW t \in Ticks(b), NEW v, GetRaw(b, t) = v
    PROVE  Says(b, t, v)
<1>1. t \in Nat
  BY TicksAre
<1>2. t <= t /\ \A u \in (t + 1)..t : GetRaw(b, u) = Same
  BY <1>1
<1> QED  BY <1>2 DEF Says

\* A buffer that is continued by one tick, or by more with Same in between.
LEMMA Continued ==
    ASSUME NEW b, BufferOK(b), b.start # NoTick, NEW t \in Nat \ {0}, t > EndTick(b),
           NEW entry \in Entries, NEW c, c = SetRaw(b, t, entry)
    PROVE  /\ BufferOK(c) /\ c.lastRemote = b.lastRemote /\ c.start = b.start
           /\ EndTick(c) = t /\ t \in Ticks(c) /\ GetRaw(c, t) = entry
           /\ \A u \in Ticks(b) : u \in Ticks(c) /\ GetRaw(c, u) = GetRaw(b, u)
           /\ \A u \in Int : \A v : Says(b, u, v) => Says(c, u, v)
<1>0. b.start \in Nat \ {0} /\ EndTick(b) >= b.start - 1 /\ EndTick(b) \in Int
  BY TicksAre
<1>1. t >= b.start
  BY <1>0
<1>2. /\ BufferOK(c) /\ c.lastRemote = b.lastRemote /\ c.start = b.start
      /\ EndTick(c) = t /\ GetRaw(c, t) = entry
      /\ \A u \in Ticks(c) : u # t => GetRaw(c, u) = IF u \in Ticks(b) THEN GetRaw(b, u) ELSE Same
  BY <1>0, <1>1, SetRawIs
<1>3. t \in Ticks(c)
  BY <1>0, <1>1, <1>2, TicksAre
<1>4. ASSUME NEW u \in Ticks(b) PROVE u \in Ticks(c) /\ GetRaw(c, u) = GetRaw(b, u)
  <2>1. u \in Nat /\ b.start <= u /\ u <= EndTick(b)
    BY TicksAre
  <2>2. u \in Ticks(c) /\ u # t
    BY <2>1, <1>0, <1>2, TicksAre
  <2> QED  BY <2>2, <1>2, <1>4
<1>5. ASSUME NEW u \in Int, NEW v, Says(b, u, v) PROVE Says(c, u, v)
  BY <1>2, <1>4, <1>5, SaysKept
<1> QED  BY <1>2, <1>3, <1>4, <1>5

\* One entry more, when an earlier one contradicted the buffer.
LEMMA MergeAfter ==
    ASSUME NEW b, BufferOK(b), NEW tr, NEW first, NEW states, Faithful(tr, first, states),
           NEW k \in 1..Len(states), NEW acc \in Merging(b, tr, first, k - 1),
           acc.mismatch # NoTick
    PROVE  MergeEntry(b, acc, first + k - 1, states[k]) \in Merging(b, tr, first, k)
<1> DEFINE t == first + k - 1
           x == acc.mismatch
           c == acc.buffer
           d == SetRaw(c, t, states[k])
           next == [acc EXCEPT !.buffer = d]
<1>0. MergeEntry(b, acc, t, states[k]) = next
  BY DEF MergeEntry
<1>1. /\ first \in Nat \ {0} /\ k \in Nat \ {0} /\ t \in Nat \ {0} /\ t - 1 = first + (k - 1) - 1
      /\ states[k] \in Entries /\ tr[t] \in Actions
      /\ \/ states[k] = tr[t]
         \/ k > 1 /\ states[k] = Same /\ tr[t] = tr[t - 1]
  <2>1. first \in Nat \ {0} /\ states \in Seq(Entries) /\ Len(states) \in Nat
    BY DEF Faithful
  <2>2. k \in Nat \ {0} /\ t \in Nat \ {0} /\ t - 1 = first + (k - 1) - 1 /\ t - 1 = first + k - 2
    BY <2>1
  <2>3. states[k] \in Entries
    BY <2>1, ElementOfSeq
  <2> QED  BY <2>1, <2>2, <2>3 DEF Faithful
<1>2. /\ acc \in [buffer : Buffers, mismatch : Int, latest : Entries, predicted : Entries]
      /\ BufferOK(c) /\ c.lastRemote = b.lastRemote
      /\ Differed(b, tr, first, t - 1, x, c)
  BY <1>1 DEF Merging
<1> HIDE DEF t
<1>3. x \in Nat /\ x \in first..(t - 1) /\ x > b.lastRemote /\ x # NoTick
      /\ b.start \in {NoTick} \cup (Nat \ {0})
      /\ c.start \in {NoTick} \cup (Nat \ {0}) /\ b.lastRemote \in Int
  <2>1. x \in first..(t - 1) /\ x > b.lastRemote
    BY <1>2 DEF Differed
  <2>2. b.start \in {NoTick} \cup (Nat \ {0}) /\ b.lastRemote \in Int
    BY DEF BufferOK, Buffers, NoTick
  <2>3. c.start \in {NoTick} \cup (Nat \ {0})
    BY <1>2 DEF BufferOK, Buffers
  <2> QED  BY <1>1, <2>1, <2>2, <2>3
<1>4. BufferOK(d) /\ d.lastRemote = c.lastRemote /\ d \in Buffers
  <2>1. BufferOK(d) /\ d.lastRemote = c.lastRemote
    <3> DEFINE entry == states[k]
    <3>1. entry \in Entries /\ d = SetRaw(c, t, entry) /\ BufferOK(c) /\ t \in Nat \ {0}
      BY <1>1, <1>2
    <3> HIDE DEF c, d, entry
    <3> QED  BY <3>1, SetRawIs
  <2> QED  BY <2>1 DEF BufferOK
<1>5. Differed(b, tr, first, t, x, d)
  <2>0. x \in first..t /\ x > b.lastRemote
    BY <1>1, <1>3
  <2>1. ASSUME b.start = NoTick \/ x >= b.start
        PROVE  /\ d.start = IF b.start = NoTick THEN x ELSE b.start
               /\ EndTick(d) = t
               /\ \A u \in Ticks(b) : u < x => u \in Ticks(d) /\ GetRaw(d, u) = GetRaw(b, u)
               /\ SaysNew(b, tr, first, t, d)
    <3>1. /\ c.start = IF b.start = NoTick THEN x ELSE b.start
          /\ EndTick(c) = t - 1
          /\ \A u \in Ticks(b) : u < x => u \in Ticks(c) /\ GetRaw(c, u) = GetRaw(b, u)
          /\ SaysNew(b, tr, first, t - 1, c)
      BY <1>2, <2>1 DEF Differed
    <3>2. c.start # NoTick /\ t > EndTick(c)
      BY <1>1, <1>3, <3>1
    <3>3. /\ d.start = c.start /\ EndTick(d) = t /\ t \in Ticks(d) /\ GetRaw(d, t) = states[k]
          /\ \A u \in Ticks(c) : u \in Ticks(d) /\ GetRaw(d, u) = GetRaw(c, u)
          /\ \A u \in Int : \A v : Says(c, u, v) => Says(d, u, v)
      BY <1>1, <1>2, <3>2, Continued
    <3>4. Says(d, t, tr[t])
      <4>1. CASE states[k] = tr[t]
        BY <4>1, <1>4, <3>3, SaysAt
      <4>2. CASE states[k] = Same /\ tr[t] = tr[t - 1]
        <5>1. t - 1 \in first..(t - 1) /\ t - 1 > b.lastRemote /\ t - 1 \in Int
          BY <1>1, <1>3
        <5>2. Says(d, t - 1, tr[t])
          BY <5>1, <4>2, <3>1, <3>3 DEF SaysNew
        <5> QED  BY <5>2, <4>2, <1>4, <3>3, SaysOn
      <4> QED  BY <4>1, <4>2, <1>1
    <3>5. ASSUME NEW u \in first..t, u > b.lastRemote PROVE Says(d, u, tr[u])
      <4>1. u = t \/ u \in first..(t - 1)
        BY <1>1, <3>5
      <4>2. CASE u \in first..(t - 1)
        <5>1. Says(c, u, tr[u]) /\ u \in Int
          BY <4>2, <3>1, <3>5 DEF SaysNew
        <5> QED  BY <5>1, <3>3
      <4> QED  BY <4>1, <4>2, <3>4
    <3>6. SaysNew(b, tr, first, t, d)
      BY <3>5 DEF SaysNew
    <3> QED  BY <3>1, <3>3, <3>6
  <2>2. ASSUME b.start # NoTick /\ x < b.start
        PROVE  d.start = NoTick \/ (d.start > x /\ EndTick(d) = t)
    <3>1. c.start = NoTick \/ (c.start > x /\ EndTick(c) = t - 1)
      BY <1>2, <2>2 DEF Differed
    <3>2. CASE c.start = NoTick
      <4>1. d.start = t /\ EndTick(d) = t
        <5> DEFINE entry == states[k]
        <5>1. entry \in Entries /\ d = SetRaw(c, t, entry) /\ BufferOK(c) /\ t \in Nat \ {0}
          BY <1>1, <1>2
        <5> HIDE DEF c, d, entry
        <5> QED  BY <5>1, <3>2, SetRawIs
      <4> QED  BY <4>1, <1>1, <1>3
    <3>3. CASE c.start # NoTick
      <4>1. d.start = c.start /\ EndTick(d) = t
        <5>1. t > EndTick(c)
          BY <3>1, <3>3, <1>1
        <5> QED  BY <5>1, <1>1, <1>2, <3>3, Continued
      <4> QED  BY <4>1, <3>1, <3>3
    <3> QED  BY <3>2, <3>3
  <2> HIDE DEF d, c, x
  <2> QED  BY <2>0, <2>1, <2>2 DEF Differed
<1>6. /\ next \in [buffer : Buffers, mismatch : Int, latest : Entries, predicted : Entries]
      /\ next.buffer = d /\ next.mismatch = x
  <2> HIDE DEF d
  <2> QED  BY <1>2, <1>4
<1>7. next \in Merging(b, tr, first, k)
  <2> HIDE DEF d, next, c, x
  <2>1. BufferOK(next.buffer) /\ next.buffer.lastRemote = b.lastRemote
    BY <1>2, <1>4, <1>6
  <2>2. next.mismatch # NoTick
    BY <1>3, <1>6
  <2>3. Differed(b, tr, first, first + k - 1, next.mismatch, next.buffer)
    BY <1>5, <1>6 DEF t
  <2> QED  BY <2>1, <2>2, <2>3, <1>6 DEF Merging
<1> QED  BY <1>0, <1>7 DEF t

\* What the message is compared with: nothing if the buffer is empty, what the
\* buffer says of the tick if it reaches it, and anything otherwise.
Compared(b, c, t, predicted) ==
    /\ b.start = NoTick => predicted = None
    /\ b.start # NoTick /\ t <= EndTick(b) => predicted = Get(c, t)

\* One entry more that agrees, or that is not new.
LEMMA MergeAgrees ==
    ASSUME NEW b, BufferOK(b), NEW tr, NEW first \in Nat \ {0}, NEW t \in Nat, first <= t,
           tr[t] \in Actions,
           NEW c, BufferOK(c), c.lastRemote = b.lastRemote, Agreed(b, tr, first, t - 1, c),
           NEW predicted, Compared(b, c, t, predicted),
           t <= b.lastRemote \/ predicted = tr[t],
           NEW d, d = IF t > b.lastRemote /\ (b.start = NoTick \/ t > EndTick(b))
                      THEN SetRaw(c, t, tr[t]) ELSE c
    PROVE  BufferOK(d) /\ d.lastRemote = b.lastRemote /\ Agreed(b, tr, first, t, d)
<1>1. /\ b.start \in {NoTick} \cup (Nat \ {0}) /\ b.lastRemote \in Int
      /\ EndTick(b) \in Int /\ tr[t] # None /\ tr[t] \in Entries
  BY TicksAre, InputConstants DEF BufferOK, Buffers, NoTick, Entries
<1>2. /\ c.start = b.start
      /\ b.start = NoTick => \A u \in first..(t - 1) : u <= b.lastRemote
      /\ EndTick(c) = IF first <= t - 1 /\ t - 1 > b.lastRemote /\ t - 1 > EndTick(b)
                      THEN t - 1 ELSE EndTick(b)
      /\ \A u \in Ticks(b) : u \in Ticks(c) /\ GetRaw(c, u) = GetRaw(b, u)
      /\ SaysNew(b, tr, first, t - 1, c)
  BY DEF Agreed
<1>3. \A u \in first..t : u \in Int /\ (u = t \/ u \in first..(t - 1))
  OBVIOUS
<1>4. b.start = NoTick => t <= b.lastRemote
  BY <1>1 DEF Compared
<1>5. b.start = NoTick => \A u \in first..t : u <= b.lastRemote
  BY <1>2, <1>3, <1>4
<1>6. ASSUME NEW u \in first..t, u > b.lastRemote, u # t PROVE Says(c, u, tr[u])
  BY <1>2, <1>3, <1>6 DEF SaysNew
<1>7. CASE t <= b.lastRemote
  <2>1. d = c
    BY <1>1, <1>7
  <2>2. \A u \in first..t : ~ (u > b.lastRemote)
    BY <1>1, <1>7
  <2>3. SaysNew(b, tr, first, t, c)
    BY <2>2 DEF SaysNew
  <2>4. EndTick(c) = IF first <= t /\ t > b.lastRemote /\ t > EndTick(b) THEN t ELSE EndTick(b)
    BY <1>1, <1>2, <1>7
  <2> QED  BY <1>2, <1>5, <2>1, <2>3, <2>4 DEF Agreed
<1>8. CASE t > b.lastRemote /\ t <= EndTick(b)
  <2>0. b.start # NoTick
    BY <1>1, <1>4, <1>8
  <2>1. d = c
    BY <1>1, <1>8, <2>0
  <2>2. Get(c, t) = tr[t]
    BY <1>1, <1>8, <2>0 DEF Compared
  <2>3. Says(c, t, tr[t])
    BY <2>2, GetIs
  <2>4. SaysNew(b, tr, first, t, c)
    BY <1>6, <2>3 DEF SaysNew
  <2>5. EndTick(c) = IF first <= t /\ t > b.lastRemote /\ t > EndTick(b) THEN t ELSE EndTick(b)
    BY <1>1, <1>2, <1>8
  <2> QED  BY <1>2, <1>5, <2>1, <2>4, <2>5 DEF Agreed
<1>9. CASE t > b.lastRemote /\ t > EndTick(b)
  <2>0. b.start # NoTick /\ c.start # NoTick /\ t \in Nat \ {0}
    BY <1>1, <1>2, <1>4, <1>9
  <2>1. d = SetRaw(c, t, tr[t])
    BY <1>9
  <2>2. t > EndTick(c)
    BY <1>1, <1>2, <1>9
  <2> DEFINE entry == tr[t]
  <2>3. entry \in Entries /\ d = SetRaw(c, t, entry)
    BY <1>1, <2>1
  <2> HIDE DEF entry
  <2>4. /\ BufferOK(d) /\ d.lastRemote = c.lastRemote /\ d.start = c.start
        /\ EndTick(d) = t /\ t \in Ticks(d) /\ GetRaw(d, t) = entry
        /\ \A u \in Ticks(c) : u \in Ticks(d) /\ GetRaw(d, u) = GetRaw(c, u)
        /\ \A u \in Int : \A v : Says(c, u, v) => Says(d, u, v)
    BY <2>0, <2>2, <2>3, Continued
  <2>5. Says(d, t, tr[t])
    BY <2>4, SaysAt DEF entry
  <2>6. \A u \in first..t : u > b.lastRemote => Says(d, u, tr[u])
    BY <1>3, <1>6, <2>4, <2>5
  <2>7. \A u \in Ticks(b) : u \in Ticks(d) /\ GetRaw(d, u) = GetRaw(b, u)
    BY <1>2, <2>4
  <2>8. EndTick(d) = IF first <= t /\ t > b.lastRemote /\ t > EndTick(b) THEN t ELSE EndTick(b)
    BY <1>9, <2>4
  <2> QED  BY <1>2, <1>5, <2>4, <2>6, <2>7, <2>8 DEF Agreed, SaysNew
<1> QED
  <2>1. t <= b.lastRemote \/ (t > b.lastRemote /\ t <= EndTick(b))
        \/ (t > b.lastRemote /\ t > EndTick(b))
    BY <1>1
  <2> QED  BY <2>1, <1>7, <1>8, <1>9

\* The first entry that contradicts the buffer.
LEMMA MergeDiffers ==
    ASSUME NEW b, BufferOK(b), NEW tr, NEW first \in Nat \ {0}, NEW t \in Nat, first <= t,
           tr[t] \in Actions,
           NEW c, BufferOK(c), c.lastRemote = b.lastRemote, Agreed(b, tr, first, t - 1, c),
           t > b.lastRemote,
           NEW d, d = ClipAfter(SetRaw(c, t, tr[t]), t)
    PROVE  BufferOK(d) /\ d.lastRemote = b.lastRemote /\ Differed(b, tr, first, t, t, d)
<1> DEFINE entry == tr[t]
           e == SetRaw(c, t, entry)
<1>0. d = ClipAfter(e, t) /\ entry \in Entries /\ e = SetRaw(c, t, entry) /\ t \in Nat \ {0}
  BY DEF Entries
<1>1. /\ b.start \in {NoTick} \cup (Nat \ {0}) /\ b.lastRemote \in Int
      /\ EndTick(b) \in Int
  BY TicksAre DEF BufferOK, Buffers, NoTick
<1>2. /\ c.start = b.start
      /\ b.start = NoTick => \A u \in first..(t - 1) : u <= b.lastRemote
      /\ \A u \in Ticks(b) : u \in Ticks(c) /\ GetRaw(c, u) = GetRaw(b, u)
      /\ SaysNew(b, tr, first, t - 1, c)
  BY DEF Agreed
<1>3. \A u \in first..t : u \in Int /\ (u = t \/ u \in first..(t - 1))
  OBVIOUS
<1> HIDE DEF entry, e
<1>4. /\ BufferOK(e) /\ e.lastRemote = b.lastRemote
      /\ c.start = NoTick => e.start = t /\ EndTick(e) = t /\ GetRaw(e, t) = entry
      /\ c.start # NoTick /\ t < c.start => e = c
      /\ c.start # NoTick /\ t >= c.start =>
           /\ e.start = c.start
           /\ EndTick(e) = IF t > EndTick(c) THEN t ELSE EndTick(c)
           /\ GetRaw(e, t) = entry
           /\ \A u \in Ticks(e) : u # t =>
                GetRaw(e, u) = IF u \in Ticks(c) THEN GetRaw(c, u) ELSE Same
  BY <1>0, SetRawIs
<1>5. /\ BufferOK(d) /\ d.lastRemote = b.lastRemote
      /\ e.start # NoTick /\ t < e.start => d.start = NoTick
      /\ e.start # NoTick /\ t >= e.start =>
           /\ d.start = e.start
           /\ EndTick(d) = IF t < EndTick(e) THEN t ELSE EndTick(e)
           /\ \A u \in Ticks(d) : u \in Ticks(e) /\ GetRaw(d, u) = GetRaw(e, u)
  BY <1>0, <1>4, ClipIs
<1>6. EndTick(c) \in Int /\ EndTick(e) \in Int /\ t # NoTick
  BY <1>4, TicksAre DEF NoTick
<1>7. t \in first..t
  OBVIOUS
<1>8. ASSUME b.start = NoTick \/ t >= b.start
      PROVE  /\ d.start = IF b.start = NoTick THEN t ELSE b.start
             /\ EndTick(d) = t
             /\ \A u \in Ticks(b) : u < t => u \in Ticks(d) /\ GetRaw(d, u) = GetRaw(b, u)
             /\ SaysNew(b, tr, first, t, d)
  <2>1. /\ e.start = IF b.start = NoTick THEN t ELSE b.start
        /\ e.start # NoTick /\ e.start \in Nat \ {0} /\ t >= e.start
        /\ EndTick(e) >= t /\ GetRaw(e, t) = entry
    BY <1>0, <1>1, <1>2, <1>4, <1>6, <1>8
  <2>2. d.start = e.start /\ EndTick(d) = t
        /\ \A u \in Ticks(d) : u \in Ticks(e) /\ GetRaw(d, u) = GetRaw(e, u)
    BY <1>5, <1>6, <2>1
  <2>3. t \in Ticks(d) /\ GetRaw(d, t) = entry
    <3>1. t \in Ticks(d)
      BY <1>5, <2>1, <2>2, TicksAre
    <3> QED  BY <3>1, <2>1, <2>2
  <2>4. Says(d, t, tr[t])
    BY <1>5, <2>3, SaysAt DEF entry
  <2>5. ASSUME NEW u \in Ticks(c), u < t PROVE u \in Ticks(d) /\ GetRaw(d, u) = GetRaw(c, u)
    <3>1. c.start # NoTick /\ u \in Nat /\ c.start <= u /\ u <= EndTick(c)
      BY <2>5, TicksAre
    <3>2. u \in Ticks(d)
      BY <1>2, <1>5, <2>1, <2>2, <2>5, <3>1, TicksAre
    <3>3. GetRaw(e, u) = GetRaw(c, u)
      BY <1>2, <1>4, <1>8, <2>2, <2>5, <3>1, <3>2
    <3> QED  BY <3>2, <3>3, <2>2
  <2>6. \A u \in Ticks(b) : u < t => u \in Ticks(d) /\ GetRaw(d, u) = GetRaw(b, u)
    BY <1>2, <2>5
  <2>7. ASSUME NEW u \in first..t, u > b.lastRemote PROVE Says(d, u, tr[u])
    <3>1. CASE u = t
      BY <2>4, <3>1
    <3>2. CASE u # t
      <4>1. Says(c, u, tr[u]) /\ u \in Int /\ u < t
        BY <1>2, <1>3, <2>7, <3>2 DEF SaysNew
      <4>2. \A w \in Ticks(c) : w <= u => w \in Ticks(d) /\ GetRaw(d, w) = GetRaw(c, w)
        <5>1. \A w \in Ticks(c) : w \in Nat
          BY TicksAre
        <5> QED  BY <5>1, <4>1, <2>5
      <4> QED  BY <4>1, <4>2, <1>5, SaysKept
    <3> QED  BY <3>1, <3>2
  <2>8. SaysNew(b, tr, first, t, d)
    BY <2>7 DEF SaysNew
  <2> QED  BY <2>1, <2>2, <2>6, <2>8
<1>9. ASSUME b.start # NoTick /\ t < b.start PROVE d.start = NoTick
  BY <1>2, <1>4, <1>5, <1>9
<1> QED  BY <1>5, <1>7, <1>8, <1>9 DEF Differed

\* One entry more, when none contradicted the buffer so far.
LEMMA MergeBefore ==
    ASSUME NEW b, BufferOK(b), NEW tr, NEW first, NEW states, Faithful(tr, first, states),
           NEW k \in 1..Len(states), NEW acc \in Merging(b, tr, first, k - 1),
           acc.mismatch = NoTick
    PROVE  MergeEntry(b, acc, first + k - 1, states[k]) \in Merging(b, tr, first, k)
<1> DEFINE t == first + k - 1
           c == acc.buffer
           beyond == b.start = NoTick \/ t > EndTick(b)
           predicted == IF t <= EndTick(b) /\ b.start # NoTick THEN Get(c, t) ELSE acc.predicted
           isNew == b.lastRemote = NoTick \/ t > b.lastRemote
           latest == IF states[k] = Same THEN acc.latest ELSE states[k]
           same == IF isNew /\ beyond THEN SetRaw(c, t, latest) ELSE c
           other == ClipAfter(SetRaw(c, t, latest), t)
           agreed == [acc EXCEPT !.predicted = predicted, !.latest = latest, !.buffer = same]
           differed == [acc EXCEPT !.mismatch = t, !.buffer = other]
           result == MergeEntry(b, acc, t, states[k])
<1>0. /\ ~ isNew \/ predicted = latest => result = agreed
      /\ isNew /\ predicted # latest => result = differed
  BY DEF MergeEntry
<1>1. /\ first \in Nat \ {0} /\ k \in Nat \ {0} /\ t \in Nat \ {0} /\ t - 1 = first + (k - 1) - 1
      /\ first <= t /\ tr[t] \in Actions
      /\ \/ states[k] = tr[t]
         \/ k > 1 /\ states[k] = Same /\ tr[t] = tr[t - 1]
  <2>1. first \in Nat \ {0} /\ states \in Seq(Entries) /\ Len(states) \in Nat
    BY DEF Faithful
  <2>2. k \in Nat \ {0} /\ t \in Nat \ {0} /\ t - 1 = first + (k - 1) - 1 /\ t - 1 = first + k - 2
        /\ first <= t
    BY <2>1
  <2> QED  BY <2>1, <2>2 DEF Faithful
<1>2. /\ acc \in [buffer : Buffers, mismatch : Int, latest : Entries, predicted : Entries]
      /\ BufferOK(c) /\ c.lastRemote = b.lastRemote
      /\ k - 1 >= 1 => acc.latest = tr[first + (k - 1) - 1]
      /\ b.start = NoTick => acc.predicted = None
      /\ Agreed(b, tr, first, first + (k - 1) - 1, c)
  BY DEF Merging
<1>3. latest = tr[t]
  <2>1. CASE states[k] = tr[t]
    <3>1. states[k] # Same
      BY <1>1, <2>1, InputConstants
    <3> QED  BY <2>1, <3>1
  <2>2. CASE k > 1 /\ states[k] = Same /\ tr[t] = tr[t - 1]
    <3>1. acc.latest = tr[t - 1]
      BY <1>1, <1>2, <2>2
    <3> QED  BY <2>2, <3>1
  <2> QED  BY <1>1, <2>1, <2>2
<1>4. b.lastRemote \in Int /\ b.lastRemote >= NoTick /\ b.start \in {NoTick} \cup (Nat \ {0})
  BY DEF BufferOK, Buffers, NoTick
<1> HIDE DEF t
<1>5. isNew <=> t > b.lastRemote
  BY <1>1, <1>4 DEF NoTick
<1>6. Agreed(b, tr, first, t - 1, c)
  BY <1>1, <1>2
<1>7. Compared(b, c, t, predicted) /\ predicted \in Entries
  <2>1. Get(c, t) \in Entries
    BY <1>1, <1>2, GetIs DEF Values, Entries
  <2> HIDE DEF c
  <2> QED  BY <1>2, <2>1 DEF Compared
<1> HIDE DEF predicted, latest, isNew, c
<1>8. latest \in Entries
  BY <1>1, <1>3 DEF Entries
<1>9. CASE ~ isNew \/ predicted = latest
  <2>1. same = IF t > b.lastRemote /\ (b.start = NoTick \/ t > EndTick(b))
               THEN SetRaw(c, t, tr[t]) ELSE c
    BY <1>3, <1>5
  <2>2. t <= b.lastRemote \/ predicted = tr[t]
    BY <1>1, <1>3, <1>4, <1>5, <1>9
  <2> HIDE DEF same
  <2>3. BufferOK(same) /\ same.lastRemote = b.lastRemote /\ Agreed(b, tr, first, t, same)
    BY <1>1, <1>2, <1>6, <1>7, <2>1, <2>2, MergeAgrees
  <2>4. same \in Buffers
    BY <2>3 DEF BufferOK
  <2>5. /\ agreed \in [buffer : Buffers, mismatch : Int, latest : Entries, predicted : Entries]
        /\ agreed.buffer = same /\ agreed.mismatch = NoTick /\ agreed.latest = tr[t]
        /\ agreed.predicted = predicted
    <3> DEFINE p == [acc EXCEPT !.predicted = predicted]
               q == [p EXCEPT !.latest = latest]
    <3>1. /\ p \in [buffer : Buffers, mismatch : Int, latest : Entries, predicted : Entries]
          /\ p.predicted = predicted /\ p.mismatch = acc.mismatch
      BY <1>2, <1>7
    <3>2. agreed = [q EXCEPT !.buffer = same]
      OBVIOUS
    <3> HIDE DEF p
    <3>3. /\ q \in [buffer : Buffers, mismatch : Int, latest : Entries, predicted : Entries]
          /\ q.predicted = predicted /\ q.mismatch = acc.mismatch /\ q.latest = latest
      BY <3>1, <1>8
    <3> HIDE DEF q
    <3> QED  BY <3>2, <3>3, <2>4, <1>3
  <2> HIDE DEF agreed
  <2>6. b.start = NoTick => predicted = None
    BY <1>7 DEF Compared
  <2>7. Agreed(b, tr, first, first + k - 1, agreed.buffer) /\ agreed.latest = tr[first + k - 1]
    BY <2>3, <2>5 DEF t
  <2>8. agreed \in Merging(b, tr, first, k)
    BY <2>3, <2>5, <2>6, <2>7 DEF Merging
  <2> HIDE DEF result
  <2>9. result \in Merging(b, tr, first, k)
    BY <1>0, <1>9, <2>8
  <2> QED  BY <2>9 DEF result, t
<1>10. CASE isNew /\ predicted # latest
  <2>1. other = ClipAfter(SetRaw(c, t, tr[t]), t)
    BY <1>3
  <2> HIDE DEF other
  <2>2. BufferOK(other) /\ other.lastRemote = b.lastRemote /\ Differed(b, tr, first, t, t, other)
    BY <1>1, <1>2, <1>5, <1>6, <1>10, <2>1, MergeDiffers
  <2>3. other \in Buffers
    BY <2>2 DEF BufferOK
  <2>4. /\ differed \in [buffer : Buffers, mismatch : Int, latest : Entries, predicted : Entries]
        /\ differed.buffer = other /\ differed.mismatch = t
    <3> DEFINE p == [acc EXCEPT !.mismatch = t]
    <3>1. /\ p \in [buffer : Buffers, mismatch : Int, latest : Entries, predicted : Entries]
          /\ p.mismatch = t
      BY SMTT(60), <1>1, <1>2
    <3>2. differed = [p EXCEPT !.buffer = other]
      OBVIOUS
    <3> HIDE DEF p
    <3> QED  BY <3>1, <3>2, <2>3
  <2> HIDE DEF differed
  <2>5. differed.mismatch # NoTick
    BY <1>1, <2>4 DEF NoTick
  <2>6. Differed(b, tr, first, first + k - 1, differed.mismatch, differed.buffer)
    BY <2>2, <2>4 DEF t
  <2>7. differed \in Merging(b, tr, first, k)
    BY <2>2, <2>4, <2>5, <2>6 DEF Merging
  <2> HIDE DEF result
  <2>8. result \in Merging(b, tr, first, k)
    BY <1>0, <1>10, <2>7
  <2> QED  BY <2>8 DEF result, t
<1> QED  BY <1>9, <1>10

\* The loop of update_buffer runs to its end.
LEMMA MergeRuns ==
    ASSUME NEW b, BufferOK(b), NEW tr, NEW first, NEW states, Faithful(tr, first, states),
           NEW begin \in Merging(b, tr, first, 0), NEW n \in Nat, n = Len(states),
           NEW run,
           run = CHOOSE f : f = [i \in 0..n |->
                    IF i = 0 THEN begin ELSE MergeEntry(b, f[i - 1], first + i - 1, states[i])]
    PROVE  run[n] \in Merging(b, tr, first, n)
<1> DEFINE M(i) == Merging(b, tr, first, i)
           Turn(x, i) == MergeEntry(b, x, first + i - 1, states[i])
           After(f) == [i \in 0..n |-> IF i = 0 THEN begin ELSE Turn(f[i - 1], i)]
           S == UNION {M(i) : i \in 0..n}
           P == [i \in 0..n |-> M(i)]
           turns == [i \in 1..n |-> [x \in S |-> IF x \in M(i - 1) THEN Turn(x, i) ELSE x]]
<1>1. ASSUME NEW i \in 1..n, NEW x \in M(i - 1) PROVE Turn(x, i) \in M(i)
  <2>1. i \in 1..Len(states)
    OBVIOUS
  <2>2. CASE x.mismatch = NoTick
    BY <2>1, <2>2, <1>1, MergeBefore
  <2>3. CASE x.mismatch # NoTick
    BY <2>1, <2>3, <1>1, MergeAfter
  <2> QED  BY <2>2, <2>3
<1>2. begin \in M(0)
  OBVIOUS
<1> HIDE DEF M, Turn
<1>3. turns \in [1..n -> [S -> S]]
  <2>1. ASSUME NEW i \in 1..n, NEW x \in S
        PROVE  (IF x \in M(i - 1) THEN Turn(x, i) ELSE x) \in S
    <3>1. i \in 0..n
      OBVIOUS
    <3> QED  BY <3>1, <1>1
  <2> HIDE DEF S
  <2> QED  BY <2>1
<1>4. begin \in S
  <2>1. 0 \in 0..n
    OBVIOUS
  <2> QED  BY <2>1, <1>2
<1>5. PICK f \in [0..n -> S] : f[0] = begin /\ \A i \in 1..n : f[i] = turns[i][f[i - 1]]
  <2>0. n \in Nat
    OBVIOUS
  <2> HIDE DEF S
  <2>1. ASSUME NEW m \in Nat, NEW t \in [1..m -> [S -> S]]
        PROVE  \E f \in [0..m -> S] : f[0] = begin /\ \A i \in 1..m : f[i] = t[i][f[i - 1]]
    BY ONLY <1>4, RunExists
  <2> HIDE DEF turns
  <2> QED  BY ONLY <2>0, <1>3, <2>1
<1>6. ASSUME NEW i \in 1..n, f[i - 1] \in M(i - 1) PROVE f[i] = Turn(f[i - 1], i) /\ f[i] \in M(i)
  <2>1. i - 1 \in 0..n
    OBVIOUS
  <2>2. f[i - 1] \in S
    BY <2>1, <1>5
  <2>3. f[i] = Turn(f[i - 1], i)
    <3> HIDE DEF S
    <3> QED  BY <1>5, <1>6, <2>2
  <2> QED  BY <2>3, <1>1, <1>6
<1>7. ASSUME NEW m \in 0..n PROVE f[m] \in M(m)
  <2>1. f[0] \in P[0]
    BY <1>2, <1>5
  <2>2. \A i \in 1..m : f[i - 1] \in P[i - 1] => f[i] \in P[i]
    <3>1. ASSUME NEW i \in 1..m, f[i - 1] \in P[i - 1] PROVE f[i] \in P[i]
      <4>1. i \in 1..n /\ i \in 0..n /\ i - 1 \in 0..n
        OBVIOUS
      <4> QED  BY <4>1, <3>1, <1>6
    <3> QED  BY <3>1
  <2>3. m \in Nat
    OBVIOUS
  <2>4. f[m] \in P[m]
    <3> HIDE DEF P
    <3> QED  BY <2>1, <2>2, <2>3, RunPasses
  <2> QED  BY <2>4
<1>8. f = After(f)
  <2>1. ASSUME NEW i \in 1..n PROVE f[i] = Turn(f[i - 1], i)
    <3>1. i - 1 \in 0..n
      OBVIOUS
    <3>2. f[i - 1] \in M(i - 1)
      BY <3>1, <1>7
    <3> QED  BY <3>2, <1>6
  <2>2. f = [i \in 0..n |-> f[i]]
    BY <1>5
  <2>3. \A i \in 0..n : i # 0 => i \in 1..n
    OBVIOUS
  <2> QED  BY ONLY <1>5, <2>1, <2>2, <2>3
<1>9. run = After(run)
  <2>1. run = CHOOSE g : g = After(g)
    BY DEF Turn
  <2> HIDE DEF After
  <2> QED  BY <1>8, <2>1
<1>10. run[0] \in P[0]
  <2>1. 0 \in 0..n
    OBVIOUS
  <2>2. run[0] = begin
    BY <1>9, <2>1
  <2> QED  BY <2>1, <2>2, <1>2
<1>11. \A i \in 1..n : run[i - 1] \in P[i - 1] => run[i] \in P[i]
  <2>1. ASSUME NEW i \in 1..n, run[i - 1] \in P[i - 1] PROVE run[i] \in P[i]
    <3>1. i \in 0..n /\ i - 1 \in 0..n /\ i # 0
      OBVIOUS
    <3>2. run[i] = Turn(run[i - 1], i)
      BY <1>9, <3>1
    <3> QED  BY <3>1, <3>2, <2>1, <1>1
  <2> QED  BY <2>1
<1>12. run[n] \in P[n]
  <2>1. n \in Nat
    OBVIOUS
  <2> HIDE DEF P
  <2> QED  BY <2>1, <1>10, <1>11, RunPasses
<1> QED
  <2>1. n \in 0..n
    OBVIOUS
  <2> QED  BY <2>1, <1>12 DEF M

\* update_buffer takes a message over: the buffer is the old one continued, or
\* it differs from the first contradiction on.
TookOver(b, tr, first, last, u) ==
    /\ BufferOK(u.buffer) /\ u.buffer.lastRemote = last /\ u.mismatch \in Int
    /\ u.mismatch = NoTick => Agreed(b, tr, first, last, u.buffer)
    /\ u.mismatch # NoTick => Differed(b, tr, first, last, u.mismatch, u.buffer)

\* update_buffer: the buffer goes on, or a message takes over.
LEMMA MergeIs ==
    ASSUME NEW b, BufferOK(b), NEW tr, NEW first, NEW states, Faithful(tr, first, states),
           NEW last, last = first + Len(states) - 1
    PROVE  TookOver(b, tr, first, last, UpdateBuffer(b, states, last))
<1> DEFINE n == Len(states)
           begin == [buffer |-> b, mismatch |-> NoTick, latest |-> None,
                     predicted |-> IF b.lastRemote = NoTick THEN None ELSE Get(b, b.lastRemote)]
           run == CHOOSE f : f = [i \in 0..n |->
                    IF i = 0 THEN begin ELSE MergeEntry(b, f[i - 1], first + i - 1, states[i])]
           done == run[n]
           u == UpdateBuffer(b, states, last)
<1>1. first \in Nat \ {0} /\ n \in Nat /\ n >= 1 /\ last \in Nat /\ last - n + 1 = first
      /\ first + n - 1 = last
  <2>1. first \in Nat \ {0} /\ states \in Seq(Entries) /\ n >= 1
    BY DEF Faithful
  <2>2. n \in Nat
    BY <2>1
  <2> QED  BY <2>1, <2>2
<1>2. u = [buffer |-> [done.buffer EXCEPT !.lastRemote = last], mismatch |-> done.mismatch]
  <2>1. u = LET g[i \in 0..n] == IF i = 0 THEN begin
                                 ELSE MergeEntry(b, g[i - 1], last - n + 1 + i - 1, states[i])
            IN  [buffer |-> [g[n].buffer EXCEPT !.lastRemote = last], mismatch |-> g[n].mismatch]
    BY DEF UpdateBuffer
  <2> QED  BY <2>1, <1>1
<1>3. begin \in Merging(b, tr, first, 0)
  <2>1. b \in Buffers /\ b.lastRemote \in Int
    BY DEF BufferOK, Buffers, NoTick
  <2>2. None \in Entries /\ Get(b, b.lastRemote) \in Entries
    BY <2>1, GetIs DEF Entries, Values
  <2> DEFINE p == IF b.lastRemote = NoTick THEN None ELSE Get(b, b.lastRemote)
  <2>3. p \in Entries
    BY <2>2
  <2>4. b.start = NoTick => p = None
    <3>1. SUFFICES ASSUME b.start = NoTick PROVE p = None
      OBVIOUS
    <3>2. Ticks(b) = {}
      BY <3>1, TicksAre
    <3> QED  BY <3>2 DEF Get
  <2>5. begin = [buffer |-> b, mismatch |-> NoTick, latest |-> None, predicted |-> p]
    OBVIOUS
  <2> HIDE DEF p, begin
  <2>6. begin \in [buffer : Buffers, mismatch : Int, latest : Entries, predicted : Entries]
    BY <2>1, <2>2, <2>3, <2>5 DEF NoTick
  <2>7. Agreed(b, tr, first, first + 0 - 1, b)
    <3>1. \A x \in first..(first + 0 - 1) : FALSE
      BY <1>1
    <3>2. ~ (first <= first + 0 - 1)
      BY <1>1
    <3> QED  BY <3>1, <3>2 DEF Agreed, SaysNew
  <2>8. begin.buffer = b /\ begin.mismatch = NoTick /\ begin.predicted = p
    BY <2>5
  <2> QED  BY <2>4, <2>6, <2>7, <2>8 DEF Merging
<1>4. done \in Merging(b, tr, first, n)
  <2> HIDE DEF begin
  <2>1. run = CHOOSE f : f = [i \in 0..n |->
                    IF i = 0 THEN begin ELSE MergeEntry(b, f[i - 1], first + i - 1, states[i])]
    OBVIOUS
  <2>2. n = Len(states)
    OBVIOUS
  <2> HIDE DEF run, n
  <2> QED  BY <1>1, <1>3, <2>1, <2>2, MergeRuns
<1> HIDE DEF done, u
<1> DEFINE c == done.buffer
           d == [c EXCEPT !.lastRemote = last]
<1>5. /\ BufferOK(c) /\ done.mismatch \in Int
      /\ done.mismatch = NoTick => Agreed(b, tr, first, last, c)
      /\ done.mismatch # NoTick => Differed(b, tr, first, last, done.mismatch, c)
  <2> HIDE DEF n
  <2> QED  BY <1>1, <1>4 DEF Merging
<1> HIDE DEF c, n
<1>6. BufferOK(d) /\ d.start = c.start /\ d.buffer = c.buffer /\ d.lastRemote = last
  <2>1. c \in Buffers
    BY <1>5 DEF BufferOK
  <2>2. c = [start |-> c.start, buffer |-> c.buffer, lastRemote |-> c.lastRemote]
    BY <2>1 DEF Buffers
  <2>3. d = [start |-> c.start, buffer |-> c.buffer, lastRemote |-> last]
    BY <2>2
  <2>4. d.start = c.start /\ d.buffer = c.buffer /\ d.lastRemote = last
    BY <2>3
  <2>5. c.start \in {NoTick} \cup (Nat \ {0}) /\ c.buffer \in Seq(Entries)
    BY <2>1 DEF Buffers
  <2> HIDE DEF d
  <2>6. d \in Buffers
    BY <1>1, <2>3, <2>5 DEF Buffers
  <2> QED  BY <1>5, <2>4, <2>6 DEF BufferOK
<1>7. u.buffer = d /\ u.mismatch = done.mismatch
  BY <1>2 DEF c
<1> HIDE DEF d
<1>8. /\ EndTick(d) = EndTick(c) /\ Ticks(d) = Ticks(c)
      /\ \A t : GetRaw(d, t) = GetRaw(c, t)
      /\ \A t, v : Says(d, t, v) <=> Says(c, t, v)
  BY <1>6, SameEntries
<1>9. Agreed(b, tr, first, last, c) => Agreed(b, tr, first, last, d)
  BY <1>6, <1>8 DEF Agreed, SaysNew
<1>10. Differed(b, tr, first, last, done.mismatch, c) => Differed(b, tr, first, last, done.mismatch, d)
  BY <1>6, <1>8 DEF Differed, SaysNew
<1> QED  BY <1>5, <1>6, <1>7, <1>9, <1>10 DEF TookOver, u

-----------------------------------------------------------------------------
(* The invariant. *)

\* The entries of the player's own buffer say what the player did, and a Same
\* follows an equal input.
HeldOK(b, tr) ==
    \A t \in Ticks(b) :
        /\ t \in DOMAIN tr /\ tr[t] \in Actions /\ Says(b, t, tr[t])
        /\ \/ GetRaw(b, t) = tr[t]
           \/ t > b.start /\ GetRaw(b, t) = Same /\ tr[t] = tr[t - 1]

\* What the player's client holds: the last ticks captured.
SenderOK ==
    /\ cTick \in Nat /\ truth \in Seq(Values)
    /\ Len(truth) = IF cTick = 0 THEN 0 ELSE cTick + Delay
    /\ BufferOK(cBuffer) /\ HeldOK(cBuffer, truth)
    /\ (cBuffer.start = NoTick <=> cTick = 0)
    /\ cTick > 0 => cBuffer.start <= EndTick(cBuffer) /\ EndTick(cBuffer) = cTick + Delay

FirstOf(m) == m.end - Len(m.states) + 1

MessageOK(tr, m) == m.end \in Nat /\ Faithful(tr, FirstOf(m), m.states)

MessagesOK ==
    /\ inFlight \in Seq([end : Nat, states : Seq(Entries)])
    /\ \A i \in DOMAIN inFlight : MessageOK(truth, inFlight[i])

\* The buffer that the receiver's next frame works with.
Current == IF queued # <<>> THEN queued[1] ELSE rBuffer

ReceiverOK ==
    /\ role \in {"server", "client"} /\ rTick \in Nat /\ exists \in BOOLEAN
    /\ BufferOK(rBuffer) /\ BufferOK(Current)
    /\ queued # <<>> => queued = <<Current>>
    /\ ~ exists => rBuffer = EmptyBuffer
    /\ exists => queued = <<>>
    /\ ~ exists /\ queued = <<>> => known = {}
    /\ rAction \in Values /\ used \in Seq(Values) /\ Len(used) = rTick
    /\ earliest = NoTick \/ earliest \in 1..rTick

KnownOK(tr, kn) == \A t \in kn : t \in Nat \ {0} /\ t \in DOMAIN tr /\ tr[t] \in Actions

\* The server's buffer ends where the last message did, and says of that tick
\* what the player did; a tick whose input came in time was simulated with it,
\* or the buffer says it.
ServerHas(b, tr, kn, us, now) ==
    /\ (b.start = NoTick <=> b.lastRemote = NoTick)
    /\ b.start # NoTick =>
         /\ b.start <= EndTick(b) /\ EndTick(b) = b.lastRemote
         /\ EndTick(b) \in DOMAIN tr /\ tr[EndTick(b)] \in Actions
         /\ Says(b, EndTick(b), tr[EndTick(b)])
    /\ KnownOK(tr, kn)
    /\ \A t \in kn : IF t <= now THEN us[t] = tr[t] ELSE Says(b, t, tr[t])

\* Messages that keep their order.
InOrder(msgs, last) ==
    /\ \A i \in DOMAIN msgs : last <= msgs[i].end
    /\ \A i, j \in DOMAIN msgs : i <= j => msgs[i].end <= msgs[j].end

ServerOK ==
    /\ InOrder(inFlight, Current.lastRemote)
    /\ Current.lastRemote <= cTick + Delay
    /\ ServerHas(Current, truth, known, used, rTick)

\* What a client holds of the ticks it has accepted is true, and what it has
\* dropped of them was simulated or refused.  What its buffer says of a tick it
\* has simulated is what it simulated the tick with, up to the one it is going
\* to replay from.  The buffer reaches up to the present, or to that tick, or
\* to those that are refused.
ClientOK(b, tr, kn, us, now, early, refused) ==
    /\ KnownOK(tr, kn)
    /\ \A t \in kn :
         /\ b.start # NoTick /\ t <= EndTick(b) /\ t <= b.lastRemote
         /\ t >= b.start => Says(b, t, tr[t])
         /\ t < b.start => /\ t <= now /\ (early = NoTick \/ t < early)
                           /\ t \notin refused => us[t] = tr[t]
    /\ \A t \in 1..now, v \in Actions :
         Says(b, t, v) /\ t \notin refused /\ (early = NoTick \/ t < early) => us[t] = v
    /\ b.start = NoTick \/ \A t \in 1..now :
         t > EndTick(b) => t \in refused \/ (early # NoTick /\ t >= early)

InputInv ==
    /\ SenderOK /\ MessagesOK /\ ReceiverOK
    /\ role = "server" /\ "server" \notin Overtaking => ServerOK
    /\ role = "client" => ClientOK(Current, truth, known, used, rTick, earliest, rejected)

-----------------------------------------------------------------------------
(* Another client. *)

\* A receiver that has no buffer has accepted nothing.
LEMMA ClientStarts ==
    ASSUME NEW tr, NEW us, NEW now, NEW early, NEW refused
    PROVE  BufferOK(EmptyBuffer) /\ ClientOK(EmptyBuffer, tr, {}, us, now, early, refused)
<1>1. BufferOK(EmptyBuffer)
  BY DEF BufferOK, Buffers, EmptyBuffer, NoTick
<1>2. EmptyBuffer.start = NoTick
  BY DEF EmptyBuffer
<1>3. \A t, v : ~ Says(EmptyBuffer, t, v)
  BY <1>1, <1>2, TicksAre DEF Says
<1> QED  BY <1>1, <1>2, <1>3 DEF ClientOK, KnownOK

\* What ClientOK says of one accepted tick.
Accepted(b, tr, us, now, early, refused, t) ==
    /\ b.start # NoTick /\ t <= EndTick(b) /\ t <= b.lastRemote
    /\ t >= b.start => Says(b, t, tr[t])
    /\ t < b.start => /\ t <= now /\ (early = NoTick \/ t < early)
                      /\ t \notin refused => us[t] = tr[t]

\* The ticks of a message that are new.
NewTicks(b, first, last) == {t \in first..last : t > b.lastRemote}

\* A message is newer than what the buffer b has, which is c after it; early
\* was the earliest tick to be replayed, and kn the ticks that were accepted.
Taking(b, tr, first, states, last, kn, us, now, early, refused, c, x, early2, kn2) ==
    /\ BufferOK(b) /\ Faithful(tr, first, states)
    /\ last = first + Len(states) - 1 /\ last > b.lastRemote
    /\ now \in Nat /\ (early = NoTick \/ early \in 1..now)
    /\ ClientOK(b, tr, kn, us, now, early, refused)
    /\ BufferOK(c) /\ c.lastRemote = last /\ x \in Int
    /\ x = NoTick => Agreed(b, tr, first, last, c)
    /\ x # NoTick => Differed(b, tr, first, last, x, c)
    /\ early2 = IF x <= now THEN EarlierOf(early, x) ELSE early
    /\ kn2 = IF x # NoTick /\ x < b.start THEN {} ELSE kn \cup NewTicks(b, first, last)

\* A message on another client.
LEMMA ClientTakes ==
    ASSUME NEW b, NEW tr, NEW first, NEW states, NEW last, NEW kn, NEW us, NEW now, NEW early,
           NEW refused, NEW c, NEW x, NEW early2, NEW kn2,
           Taking(b, tr, first, states, last, kn, us, now, early, refused, c, x, early2, kn2)
    PROVE  /\ early2 = NoTick \/ early2 \in 1..now
           /\ ClientOK(c, tr, kn2, us, now, early2, refused)
<1>00. /\ BufferOK(b) /\ Faithful(tr, first, states)
       /\ last = first + Len(states) - 1 /\ last > b.lastRemote
       /\ now \in Nat /\ (early = NoTick \/ early \in 1..now)
       /\ ClientOK(b, tr, kn, us, now, early, refused)
       /\ BufferOK(c) /\ c.lastRemote = last /\ x \in Int
       /\ x = NoTick => Agreed(b, tr, first, last, c)
       /\ x # NoTick => Differed(b, tr, first, last, x, c)
       /\ early2 = IF x <= now THEN EarlierOf(early, x) ELSE early
       /\ kn2 = IF x # NoTick /\ x < b.start THEN {} ELSE kn \cup NewTicks(b, first, last)
  BY DEF Taking
<1> USE <1>00
<1>1. first \in Nat \ {0} /\ last \in Nat /\ first <= last
      /\ \A t \in first..last : t \in Nat \ {0} /\ t \in DOMAIN tr /\ tr[t] \in Actions
  <2>1. first \in Nat \ {0} /\ states \in Seq(Entries) /\ Len(states) >= 1
    BY DEF Faithful
  <2>2. Len(states) \in Nat
    BY <2>1
  <2>3. ASSUME NEW t \in first..last
        PROVE  t \in Nat \ {0} /\ t \in DOMAIN tr /\ tr[t] \in Actions
    <3>1. t - first + 1 \in 1..Len(states) /\ first + (t - first + 1) - 1 = t /\ t \in Nat \ {0}
      BY <2>1, <2>2
    <3> QED  BY <3>1 DEF Faithful
  <2> QED  BY <2>1, <2>2, <2>3
<1>2. /\ b.start \in {NoTick} \cup (Nat \ {0}) /\ b.lastRemote \in Int
      /\ c.start \in {NoTick} \cup (Nat \ {0}) /\ EndTick(b) \in Int /\ EndTick(c) \in Int
      /\ b.start # NoTick => EndTick(b) >= b.start - 1
  BY TicksAre DEF BufferOK, Buffers, NoTick
<1>3. /\ KnownOK(tr, kn)
      /\ \A t \in kn : Accepted(b, tr, us, now, early, refused, t)
      /\ \A t \in 1..now, v \in Actions :
           Says(b, t, v) /\ t \notin refused /\ (early = NoTick \/ t < early) => us[t] = v
      /\ b.start = NoTick \/ \A t \in 1..now :
           t > EndTick(b) => t \in refused \/ (early # NoTick /\ t >= early)
  BY DEF ClientOK, Accepted
<1>0. kn2 = IF x # NoTick /\ x < b.start THEN {} ELSE kn \cup {t \in first..last : t > b.lastRemote}
  BY DEF NewTicks
<1>4. KnownOK(tr, kn2)
  <2>1. \A t \in kn2 : t \in kn \/ t \in first..last
    BY <1>0
  <2> QED  BY <1>1, <1>3, <2>1 DEF KnownOK
\* A mismatch of a tick that was simulated is not before the replay.
<1>5. /\ early2 = NoTick \/ early2 \in 1..now
      /\ x = NoTick => early2 = early
      /\ x # NoTick => \A t \in Int : early2 = NoTick \/ t < early2 =>
                         (early = NoTick \/ t < early) /\ (t <= now /\ x <= now => t < x)
      /\ x # NoTick /\ x <= now => early2 # NoTick /\ early2 <= x
      /\ early # NoTick => early2 # NoTick /\ early2 <= early
  <2>1. CASE x = NoTick
    <3>1. early2 = early
      BY <2>1 DEF EarlierOf, NoTick
    <3> QED  BY <2>1, <3>1 DEF NoTick
  <2>2. CASE x # NoTick
    <3>1. x \in Nat \ {0}
      BY <1>1, <2>2 DEF Differed
    <3>2. CASE x <= now /\ early = NoTick
      <4>1. early2 = x
        BY <3>2 DEF EarlierOf
      <4> QED  BY <3>1, <3>2, <4>1, <2>2
    <3>3. CASE x <= now /\ early # NoTick
      <4>1. early \in Nat /\ early2 = Min({early, x})
        BY <2>2, <3>3 DEF EarlierOf
      <4>2. early2 = IF early <= x THEN early ELSE x
        BY <3>1, <4>1, MinOfTwo
      <4>3. early \in 1..now /\ early2 \in 1..now /\ early2 # NoTick
            /\ early2 <= x /\ early2 <= early
        BY <3>1, <3>3, <4>1, <4>2 DEF NoTick
      <4>4. ASSUME NEW t \in Int, t < early2 PROVE t < early /\ t < x
        BY <3>1, <4>1, <4>3, <4>4
      <4> QED  BY <2>2, <4>3, <4>4
    <3>4. CASE ~ (x <= now)
      <4>1. early2 = early
        BY <3>4
      <4> QED  BY <2>2, <3>4, <4>1 DEF NoTick
    <3> QED  BY <3>2, <3>3, <3>4
  <2> QED  BY <2>1, <2>2
<1>6. CASE x = NoTick
  <2>0. b.start # NoTick
    <3>1. last \in first..last /\ ~ (last <= b.lastRemote)
      BY <1>1, <1>2
    <3> QED  BY <1>6, <3>1 DEF Agreed
  <2>1. /\ early2 = early /\ c.start = b.start /\ c.start # NoTick
        /\ SaysNew(b, tr, first, last, c)
        /\ \A t \in Ticks(b) : t \in Ticks(c) /\ GetRaw(c, t) = GetRaw(b, t)
        /\ EndTick(c) >= EndTick(b)
        /\ kn2 = kn \cup {t \in first..last : t > b.lastRemote}
    BY <1>0, <1>1, <1>2, <1>5, <1>6, <2>0 DEF Agreed
  <2>2. ASSUME NEW t \in kn2 PROVE Accepted(c, tr, us, now, early2, refused, t)
    <3>0. t \in Nat
      BY <1>4 DEF KnownOK
    <3>1. CASE t \in first..last /\ t > b.lastRemote
      <4>1. Says(c, t, tr[t])
        BY <2>1, <3>1 DEF SaysNew
      <4>2. t \in Ticks(c)
        BY <4>1 DEF Says
      <4>3. c.start <= t /\ t <= EndTick(c) /\ t <= last
        BY <1>1, <3>1, <4>2, TicksAre
      <4>4. ~ (t < c.start)
        BY <1>2, <2>1, <3>0, <4>3
      <4> QED  BY <2>1, <4>1, <4>3, <4>4 DEF Accepted
    <3>2. CASE t \in kn
      <4>0. Accepted(b, tr, us, now, early, refused, t)
        BY <1>3, <3>2
      <4>1. t <= EndTick(c) /\ t <= last
        BY SMTT(60), <1>1, <1>2, <2>1, <3>0, <4>0 DEF Accepted
      <4>2. ASSUME t >= c.start PROVE Says(c, t, tr[t])
        <5>1. Says(b, t, tr[t])
          BY <2>1, <4>0, <4>2 DEF Accepted
        <5> QED  BY <5>1, <2>1, <3>0, SaysKept
      <4> QED  BY <2>1, <4>0, <4>1, <4>2 DEF Accepted
    <3> QED  BY <2>1, <3>1, <3>2
  <2>3. ASSUME NEW t \in 1..now, NEW v \in Actions, Says(c, t, v), t \notin refused,
               early2 = NoTick \/ t < early2
        PROVE  us[t] = v
    <3>1. t \in Ticks(b)
      <4>1. t \in Ticks(c)
        BY <2>3 DEF Says
      <4>2. b.start <= t
        BY <2>1, <4>1, TicksAre
      <4>3. ~ (t > EndTick(b))
        BY <1>3, <2>0, <2>1, <2>3
      <4> QED  BY <1>2, <2>0, <4>2, <4>3, TicksAre
    <3>2. Says(b, t, v)
      BY <2>1, <2>3, <3>1, SaysBack
    <3> QED  BY <1>3, <2>1, <2>3, <3>2
  <2>4. \A t \in 1..now : t > EndTick(c) => t \in refused \/ (early2 # NoTick /\ t >= early2)
    BY <1>2, <1>3, <2>0, <2>1
  <2> QED  BY <1>4, <1>5, <2>2, <2>3, <2>4 DEF ClientOK, Accepted
<1>7. CASE x # NoTick /\ (b.start = NoTick \/ x >= b.start)
  <2>0. /\ x \in first..last /\ x > b.lastRemote /\ x \in Nat \ {0}
        /\ c.start = IF b.start = NoTick THEN x ELSE b.start
        /\ EndTick(c) = last
        /\ \A t \in Ticks(b) : t < x => t \in Ticks(c) /\ GetRaw(c, t) = GetRaw(b, t)
        /\ SaysNew(b, tr, first, last, c)
    BY <1>1, <1>7 DEF Differed
  <2>1. c.start # NoTick /\ c.start <= x /\ (b.start # NoTick => c.start = b.start)
        /\ (b.start = NoTick => kn = {} /\ Ticks(b) = {})
    BY <1>2, <1>3, <1>7, <2>0, TicksAre DEF NoTick, Accepted
  <2>2. kn2 = kn \cup {t \in first..last : t > b.lastRemote}
    BY <1>0, <1>2, <1>7, <2>0 DEF NoTick
  <2>3. ASSUME NEW t \in kn2 PROVE Accepted(c, tr, us, now, early2, refused, t)
    <3>0. t \in Nat
      BY <1>4 DEF KnownOK
    <3>1. CASE t \in first..last /\ t > b.lastRemote
      <4>1. Says(c, t, tr[t])
        BY <2>0, <3>1 DEF SaysNew
      <4>2. t \in Ticks(c)
        BY <4>1 DEF Says
      <4>3. c.start <= t /\ t <= EndTick(c) /\ t <= last
        BY <1>1, <3>1, <4>2, TicksAre
      <4>4. ~ (t < c.start)
        BY <1>2, <2>1, <3>0, <4>3
      <4> QED  BY <2>1, <4>1, <4>3, <4>4 DEF Accepted
    <3>2. CASE t \in kn
      <4>0. Accepted(b, tr, us, now, early, refused, t) /\ b.start # NoTick /\ c.start = b.start
        BY <1>3, <2>1, <3>2
      <4>1. t <= b.lastRemote
        BY <4>0 DEF Accepted
      <4>2. t <= last /\ t < x
        BY <1>1, <1>2, <2>0, <3>0, <4>1
      <4>3. ASSUME t >= c.start PROVE Says(c, t, tr[t])
        <5>1. Says(b, t, tr[t])
          BY <4>0, <4>3 DEF Accepted
        <5>2. \A w \in Ticks(b) : w <= t => w \in Ticks(c) /\ GetRaw(c, w) = GetRaw(b, w)
          <6>1. \A w \in Ticks(b) : w \in Nat
            BY TicksAre
          <6> QED  BY <6>1, <2>0, <3>0, <4>2
        <5> QED  BY <5>1, <5>2, <3>0, SaysKept
      <4>4. ASSUME t < c.start
            PROVE  /\ t <= now /\ (early2 = NoTick \/ t < early2)
                   /\ t \notin refused => us[t] = tr[t]
        <5>1. /\ t <= now /\ (early = NoTick \/ t < early)
              /\ t \notin refused => us[t] = tr[t]
          BY <4>0, <4>4 DEF Accepted
        <5>2. early2 = NoTick \/ t < early2
          <6>1. CASE x <= now /\ early = NoTick
            BY <6>1, <4>2 DEF EarlierOf
          <6>2. CASE x <= now /\ early # NoTick
            <7>1. early2 = IF early <= x THEN early ELSE x
              BY <6>2, <2>0, MinOfTwo DEF EarlierOf, NoTick
            <7> QED  BY <7>1, <4>2, <5>1, <6>2
          <6>3. CASE ~ (x <= now)
            BY <6>3, <5>1
          <6> QED  BY <6>1, <6>2, <6>3
        <5> QED  BY <5>1, <5>2
      <4> QED  BY <2>0, <2>1, <4>2, <4>3, <4>4 DEF Accepted
    <3> QED  BY <2>2, <3>1, <3>2
  <2>4. ASSUME NEW t \in 1..now, NEW v \in Actions, Says(c, t, v), t \notin refused,
               early2 = NoTick \/ t < early2
        PROVE  us[t] = v
    <3>0. t \in Nat /\ t <= now
      OBVIOUS
    <3>1. t < x /\ (early = NoTick \/ t < early)
      BY <1>5, <1>7, <2>0, <2>4, <3>0
    <3>2. t \in Ticks(c) /\ c.start <= t
      BY <2>4, TicksAre DEF Says
    <3>3. b.start # NoTick /\ c.start = b.start
      BY <2>0, <2>1, <3>0, <3>1, <3>2
    <3>4. t \in Ticks(b)
      <4>1. ~ (t > EndTick(b))
        BY <1>2, <1>3, <2>4, <3>1, <3>3, <3>0
      <4> QED  BY <1>2, <3>0, <3>2, <3>3, <4>1, TicksAre
    <3>5. Says(b, t, v)
      <4>1. \A w \in Ticks(b) : w <= t => w \in Ticks(c) /\ GetRaw(c, w) = GetRaw(b, w)
        <5>1. \A w \in Ticks(b) : w \in Nat
          BY TicksAre
        <5> QED  BY <5>1, <2>0, <3>0, <3>1
      <4> QED  BY <2>4, <3>3, <3>4, <4>1, SaysBack
    <3> QED  BY <1>3, <2>4, <3>1, <3>5
  <2>5. ASSUME NEW t \in 1..now, t > EndTick(c) PROVE early2 # NoTick /\ t >= early2
    <3>1. x <= now /\ x <= t
      BY <1>1, <2>0, <2>5
    <3> QED  BY <1>5, <1>7, <2>0, <3>1 DEF NoTick
  <2> QED  BY <1>4, <1>5, <2>3, <2>4, <2>5 DEF ClientOK, Accepted
<1>8. CASE x # NoTick /\ b.start # NoTick /\ x < b.start
  <2>0. /\ x \in first..last /\ x \in Nat \ {0}
        /\ c.start = NoTick \/ (c.start > x /\ EndTick(c) = last)
        /\ kn2 = {}
    BY <1>1, <1>8 DEF Differed
  <2>1. ASSUME NEW t \in 1..now, NEW v \in Actions, Says(c, t, v), t \notin refused,
               early2 = NoTick \/ t < early2
        PROVE  us[t] = v
    <3>0. t \in Nat /\ t <= now
      OBVIOUS
    <3>1. t < x \/ ~ (x <= now)
      BY <1>5, <1>8, <2>1, <3>0
    <3>2. c.start # NoTick /\ c.start <= t
      BY <2>1, TicksAre DEF Says
    <3> QED  BY <1>2, <2>0, <3>0, <3>1, <3>2
  <2>2. ASSUME c.start # NoTick, NEW t \in 1..now, t > EndTick(c)
        PROVE  early2 # NoTick /\ t >= early2
    <3>1. x <= now /\ x <= t
      BY <1>1, <2>0, <2>2
    <3> QED  BY <1>5, <1>8, <2>0, <3>1 DEF NoTick
  <2> QED  BY <1>4, <1>5, <2>0, <2>1, <2>2 DEF ClientOK
<1> QED  BY <1>2, <1>6, <1>7, <1>8

\* The buffer is cleaned of ticks that were simulated.
LEMMA ClientPops ==
    ASSUME NEW b, BufferOK(b), NEW tr, NEW kn, NEW us, NEW now \in Nat, NEW refused,
           ClientOK(b, tr, kn, us, now, NoTick, refused),
           NEW tick \in Nat, tick <= now, NEW c, c = Pop(b, tick)
    PROVE  BufferOK(c) /\ ClientOK(c, tr, kn, us, now, NoTick, refused)
<1>1. /\ BufferOK(c) /\ c.lastRemote = b.lastRemote
      /\ b.start = NoTick \/ tick < b.start => c = b
      /\ b.start # NoTick /\ tick >= b.start =>
           /\ c.start = tick + 1
           /\ EndTick(c) = IF tick > EndTick(b) THEN tick ELSE EndTick(b)
           /\ \A u \in Ticks(c) : u \in Ticks(b)
  BY PopIs
<1>2. /\ b.start \in {NoTick} \cup (Nat \ {0}) /\ EndTick(b) \in Int /\ EndTick(c) \in Int
  BY <1>1, TicksAre DEF BufferOK, Buffers
<1>3. CASE b.start = NoTick \/ tick < b.start
  BY <1>1, <1>3
<1>4. CASE b.start # NoTick /\ tick >= b.start
  <2>1. /\ c.start = tick + 1 /\ c.start # NoTick /\ EndTick(c) >= EndTick(b)
        /\ b.start \in Nat \ {0}
    BY <1>1, <1>2, <1>4 DEF NoTick
  <2>2. /\ KnownOK(tr, kn)
        /\ \A t \in kn : Accepted(b, tr, us, now, NoTick, refused, t)
        /\ \A t \in 1..now, v \in Actions : Says(b, t, v) /\ t \notin refused => us[t] = v
        /\ \A t \in 1..now : t > EndTick(b) => t \in refused
    BY <1>4 DEF ClientOK, Accepted
  <2>3. ASSUME NEW t \in kn PROVE Accepted(c, tr, us, now, NoTick, refused, t)
    <3>0. t \in Nat \ {0} /\ tr[t] \in Actions /\ Accepted(b, tr, us, now, NoTick, refused, t)
      BY <2>2 DEF KnownOK
    <3>1. t <= EndTick(c) /\ t <= c.lastRemote
      BY <1>1, <1>2, <2>1, <3>0 DEF Accepted
    <3>2. ASSUME t >= c.start PROVE Says(c, t, tr[t])
      <4>1. Says(b, t, tr[t])
        <5>1. t >= b.start
          BY <1>4, <2>1, <3>0, <3>2
        <5> QED  BY <3>0, <5>1 DEF Accepted
      <4>2. t \in Ticks(c)
        BY <1>1, <2>1, <3>0, <3>1, <3>2, TicksAre
      <4> QED  BY <1>1, <3>0, <4>1, <4>2, PopSays
    <3>3. ASSUME t < c.start PROVE t <= now /\ (t \notin refused => us[t] = tr[t])
      <4>1. t <= now /\ t \in 1..now
        BY <2>1, <3>0, <3>3
      <4>2. CASE t < b.start
        BY <3>0, <4>1, <4>2 DEF Accepted
      <4>3. CASE t >= b.start
        BY <2>2, <3>0, <4>1, <4>3 DEF Accepted
      <4> QED  BY <2>1, <3>0, <4>2, <4>3
    <3> QED  BY <2>1, <3>1, <3>2, <3>3 DEF Accepted
  <2>4. ASSUME NEW t \in 1..now, NEW v \in Actions, Says(c, t, v), t \notin refused
        PROVE  us[t] = v
    <3>1. t \in Ticks(c) /\ t \in Nat
      BY <2>4 DEF Says
    <3>2. Says(b, t, v)
      BY <1>1, <2>4, <3>1, PopSays
    <3> QED  BY <2>2, <2>4, <3>2
  <2>5. \A t \in 1..now : t > EndTick(c) => t \in refused
    BY <1>2, <2>1, <2>2
  <2> QED  BY <1>1, <2>2, <2>3, <2>4, <2>5 DEF ClientOK, Accepted
<1> QED  BY <1>2, <1>3, <1>4

\* A replay that is refused: its ticks stay as they were simulated.
LEMMA ClientRefuses ==
    ASSUME NEW b, BufferOK(b), NEW tr, NEW kn, NEW us, NEW now \in Nat, NEW early \in 1..now,
           NEW refused, ClientOK(b, tr, kn, us, now, early, refused)
    PROVE  ClientOK(b, tr, kn, us, now, NoTick, refused \cup early..now)
<1>0. early # NoTick
  BY DEF NoTick
<1>1. /\ KnownOK(tr, kn)
      /\ \A t \in kn : Accepted(b, tr, us, now, early, refused, t)
      /\ \A t \in 1..now, v \in Actions :
           Says(b, t, v) /\ t \notin refused /\ t < early => us[t] = v
      /\ b.start = NoTick \/ \A t \in 1..now : t > EndTick(b) => t \in refused \/ t >= early
  BY <1>0 DEF ClientOK, Accepted
<1>2. \A t \in kn : Accepted(b, tr, us, now, NoTick, refused \cup early..now, t)
  BY <1>1 DEF Accepted
<1>3. \A t \in 1..now : t \in early..now \/ t < early
  OBVIOUS
<1>4. \A t \in 1..now : t >= early => t \in early..now
  OBVIOUS
<1> QED  BY <1>1, <1>2, <1>3, <1>4 DEF ClientOK, Accepted

\* A replay that begins: nothing from its first tick on counts any more.
LEMMA ClientRewinds ==
    ASSUME NEW b, BufferOK(b), NEW tr, NEW kn, NEW us, NEW now \in Nat, NEW early \in 1..now,
           NEW refused, ClientOK(b, tr, kn, us, now, early, refused)
    PROVE  ClientOK(b, tr, kn, us, early - 1, NoTick, refused)
<1>0. early # NoTick
  BY DEF NoTick
<1>1. /\ KnownOK(tr, kn)
      /\ \A t \in kn : Accepted(b, tr, us, now, early, refused, t)
      /\ \A t \in 1..now, v \in Actions :
           Says(b, t, v) /\ t \notin refused /\ t < early => us[t] = v
      /\ b.start = NoTick \/ \A t \in 1..now : t > EndTick(b) => t \in refused \/ t >= early
  BY <1>0 DEF ClientOK, Accepted
<1>2. \A t \in kn : Accepted(b, tr, us, early - 1, NoTick, refused, t)
  <2>1. \A t \in kn : t \in Nat
    BY <1>1 DEF KnownOK
  <2> QED  BY <1>0, <1>1, <2>1 DEF Accepted
<1>3. \A t \in 1..(early - 1) : t \in 1..now /\ t < early /\ ~ (t >= early)
  OBVIOUS
<1> QED  BY <1>1, <1>2, <1>3 DEF ClientOK, Accepted

\* What is simulated at a later tick does not change what was simulated before.
SimStates == [buffer : Buffers, action : Values, used : Seq(Values), exists : BOOLEAN]

\* The loop of a frame after the tick k; len is the number of ticks that were
\* simulated before the frame.
Simulated(tr, kn, refused, ex, len, k) ==
    {s \in SimStates :
        /\ BufferOK(s.buffer) /\ Len(s.used) = IF len > k THEN len ELSE k
        /\ s.exists = ex
        /\ ~ s.exists => s.buffer = EmptyBuffer /\ kn = {}
        /\ ClientOK(s.buffer, tr, kn, s.used, k, NoTick, refused)}

\* One tick more is simulated, with an input that the buffer then agrees to.
LEMMA ClientTick ==
    ASSUME NEW b, BufferOK(b), NEW tr, NEW kn, NEW us, NEW k \in Nat, NEW refused,
           ClientOK(b, tr, kn, us, k, NoTick, refused),
           NEW action \in Values, NEW c,
           (c = b /\ Get(b, k + 1) # None /\ action = Get(b, k + 1))
             \/ (Get(b, k + 1) = None /\ c = Set(b, k + 1, action)),
           NEW us2, us2[k + 1] = action, \A t \in 1..k : us2[t] = us[t]
    PROVE  BufferOK(c) /\ ClientOK(c, tr, kn, us2, k + 1, NoTick, refused)
<1>1. /\ KnownOK(tr, kn)
      /\ \A t \in kn : Accepted(b, tr, us, k, NoTick, refused, t)
      /\ \A t \in 1..k, v \in Actions : Says(b, t, v) /\ t \notin refused => us[t] = v
      /\ b.start = NoTick \/ \A t \in 1..k : t > EndTick(b) => t \in refused
  BY DEF ClientOK, Accepted
<1>2. /\ b.start \in {NoTick} \cup (Nat \ {0}) /\ EndTick(b) \in Int
      /\ k + 1 \in Nat \ {0} /\ k + 1 \in Int
  BY TicksAre DEF BufferOK, Buffers
<1>3. \A t \in 1..(k + 1) : t \in Nat /\ (t = k + 1 \/ t \in 1..k)
  OBVIOUS
<1>4. CASE c = b /\ Get(b, k + 1) # None /\ action = Get(b, k + 1)
  <2>1. action \in Actions
    BY <1>4 DEF Values
  <2>2. Says(b, k + 1, action)
    BY <1>2, <1>4, <2>1, GetIs
  <2>3. k + 1 \in Ticks(b) /\ k + 1 <= EndTick(b)
    BY <2>2, TicksAre DEF Says
  <2>4. ASSUME NEW t \in kn PROVE Accepted(b, tr, us2, k + 1, NoTick, refused, t)
    <3>0. t \in Nat \ {0} /\ Accepted(b, tr, us, k, NoTick, refused, t)
      BY <1>1 DEF KnownOK
    <3>1. t < b.start => t \in 1..k /\ us2[t] = us[t] /\ t <= k + 1
      BY <3>0 DEF Accepted
    <3> QED  BY <3>0, <3>1 DEF Accepted
  <2>5. ASSUME NEW t \in 1..(k + 1), NEW v \in Actions, Says(b, t, v), t \notin refused
        PROVE  us2[t] = v
    <3>1. CASE t = k + 1
      BY <1>2, <2>1, <2>2, <2>5, <3>1, SaysOnce
    <3>2. CASE t \in 1..k
      BY <1>1, <2>5, <3>2
    <3> QED  BY <1>3, <3>1, <3>2
  <2>6. b.start = NoTick \/ \A t \in 1..(k + 1) : t > EndTick(b) => t \in refused
    <3>1. ~ (k + 1 > EndTick(b))
      BY <1>2, <2>3
    <3> QED  BY <1>1, <1>3, <3>1
  <2> QED  BY <1>1, <1>4, <2>4, <2>5, <2>6 DEF ClientOK, Accepted
<1>5. CASE Get(b, k + 1) = None /\ c = Set(b, k + 1, action)
  <2>1. WasSet(b, k + 1, action, c)
    BY <1>2, <1>5, SetIs
  <2>2. /\ BufferOK(c) /\ c.lastRemote = b.lastRemote
        /\ c.start = IF b.start = NoTick THEN k + 1 ELSE b.start
        /\ EndTick(c) \in Int /\ EndTick(c) >= k + 1
        /\ b.start # NoTick => EndTick(c) >= EndTick(b)
        /\ \A t \in Nat, v \in Actions : Says(b, t, v) => Says(c, t, v)
        /\ \A t \in Ticks(b), v \in Actions : t < k + 1 /\ Says(c, t, v) => Says(b, t, v)
        /\ \A v \in Actions : Says(c, k + 1, v) => v = action
    BY <2>1 DEF WasSet
  <2>3. ASSUME NEW t \in kn PROVE Accepted(c, tr, us2, k + 1, NoTick, refused, t)
    <3>0. t \in Nat \ {0} /\ tr[t] \in Actions /\ Accepted(b, tr, us, k, NoTick, refused, t)
      BY <1>1 DEF KnownOK
    <3>1. c.start = b.start /\ c.start # NoTick /\ t <= EndTick(c) /\ t <= c.lastRemote
      BY <1>2, <2>2, <3>0 DEF Accepted
    <3>2. t < c.start => t \in 1..k /\ us2[t] = us[t] /\ t <= k + 1
      BY <3>0, <3>1 DEF Accepted
    <3>3. t >= c.start => Says(c, t, tr[t])
      BY <2>2, <3>0, <3>1 DEF Accepted
    <3> QED  BY <3>0, <3>1, <3>2, <3>3 DEF Accepted
  <2>4. ASSUME NEW t \in 1..(k + 1), NEW v \in Actions, Says(c, t, v), t \notin refused
        PROVE  us2[t] = v
    <3>1. CASE t = k + 1
      BY <2>2, <2>4, <3>1
    <3>2. CASE t \in 1..k
      <4>1. c.start # NoTick /\ c.start <= t /\ t < k + 1 /\ t \in Nat
        BY <2>2, <2>4, <3>2, TicksAre DEF Says
      <4>2. b.start # NoTick /\ b.start <= t
        BY <1>2, <2>2, <4>1
      <4>3. t \in Ticks(b)
        <5>1. ~ (t > EndTick(b))
          BY <1>1, <2>4, <3>2, <4>2
        <5> QED  BY <1>2, <4>1, <4>2, <5>1, TicksAre
      <4>4. Says(b, t, v)
        BY <2>2, <2>4, <4>1, <4>3
      <4> QED  BY <1>1, <2>4, <3>2, <4>4
    <3> QED  BY <1>3, <3>1, <3>2
  <2>5. \A t \in 1..(k + 1) : ~ (t > EndTick(c))
    BY <2>2
  <2> QED  BY <1>1, <2>2, <2>3, <2>4, <2>5 DEF ClientOK, Accepted
<1> QED  BY <1>4, <1>5

\* A tick of a replay.
LEMMA SimulateTickIs ==
    ASSUME NEW tr, NEW kn, NEW refused, NEW ex, NEW len \in Nat, NEW k \in Nat,
           NEW s \in Simulated(tr, kn, refused, ex, len, k)
    PROVE  SimulateTick(s, k + 1) \in Simulated(tr, kn, refused, ex, len, k + 1)
<1> DEFINE b == s.buffer
           got == Get(b, k + 1)
           did == IF got # None THEN got ELSE s.action
           n == IF len > k + 1 THEN len ELSE k + 1
           us2 == [t \in 1..n |-> IF t = k + 1 THEN did ELSE s.used[t]]
           kept == [s EXCEPT !.action = did, !.used = us2]
           set == [s EXCEPT !.buffer = Set(b, k + 1, s.action), !.used = us2]
           r == SimulateTick(s, k + 1)
<1>1. /\ s \in SimStates /\ BufferOK(b) /\ Len(s.used) = IF len > k THEN len ELSE k
      /\ s.exists = ex
      /\ ~ s.exists => b = EmptyBuffer /\ kn = {}
      /\ ClientOK(b, tr, kn, s.used, k, NoTick, refused)
  BY DEF Simulated
<1>2. s.action \in Values /\ s.used \in Seq(Values) /\ s.exists \in BOOLEAN
  BY <1>1 DEF SimStates
<1>3. got \in Values /\ did \in Values
  <2>1. got \in Values
    BY <1>1, GetIs
  <2> HIDE DEF got
  <2> QED  BY <1>2, <2>1
<1>4. n \in Nat /\ k + 1 \in 1..n /\ Max({k + 1, Len(s.used)}) = n
      /\ \A t \in 1..n : t # k + 1 => t \in 1..Len(s.used)
  <2>1. Len(s.used) \in Nat
    BY <1>2
  <2>2. Max({k + 1, Len(s.used)}) = IF k + 1 >= Len(s.used) THEN k + 1 ELSE Len(s.used)
    BY <2>1, MaxOfTwo
  <2> QED  BY <1>1, <2>1, <2>2
<1>5. us2 \in Seq(Values) /\ Len(us2) = n /\ us2[k + 1] = did /\ \A t \in 1..k : us2[t] = s.used[t]
  <2>1. ASSUME NEW t \in 1..n, t # k + 1 PROVE s.used[t] \in Values
    BY <1>2, <1>4, <2>1, ElementOfSeq
  <2> HIDE DEF did
  <2>2. us2 \in [1..n -> Values]
    BY <1>3, <2>1
  <2>3. us2 \in Seq(Values) /\ Len(us2) = n
    <3> HIDE DEF us2, n
    <3> QED  BY <1>4, <2>2, SeqDef
  <2>4. \A t \in 1..k : t \in 1..n /\ t # k + 1
    BY <1>4
  <2> QED  BY <1>4, <2>3, <2>4
<1>6. /\ got # None \/ ~ s.exists => r = kept
      /\ ~ (got # None \/ ~ s.exists) => r = set
  <2>1. r = IF got # None \/ ~ s.exists
            THEN [s EXCEPT !.action = did,
                           !.used = [t \in 1..Max({k + 1, Len(s.used)}) |->
                                       IF t = k + 1 THEN did ELSE s.used[t]]]
            ELSE [s EXCEPT !.buffer = Set(b, k + 1, s.action),
                           !.used = [t \in 1..Max({k + 1, Len(s.used)}) |->
                                       IF t = k + 1 THEN s.action ELSE s.used[t]]]
    BY DEF SimulateTick
  <2>2. ~ (got # None \/ ~ s.exists) => did = s.action
    OBVIOUS
  <2> HIDE DEF r, did, got, n, b
  <2> QED  BY <1>4, <2>1, <2>2
<1> HIDE DEF got, did, n, us2, r, b
<1>7. n = IF len > k + 1 THEN len ELSE k + 1
  BY DEF n
<1>8. CASE got # None \/ ~ s.exists
  <2>1. ClientOK(b, tr, kn, us2, k + 1, NoTick, refused)
    <3>1. CASE got # None
      <4>1. did = got
        BY <3>1 DEF did
      <4>2. got = Get(b, k + 1)
        BY DEF got
      <4> QED  BY <1>1, <1>3, <1>5, <3>1, <4>1, <4>2, ClientTick
    <3>2. CASE ~ s.exists
      BY <1>1, <3>2, ClientStarts
    <3> QED  BY <1>8, <3>1, <3>2
  <2>2. kept \in SimStates /\ kept.buffer = b /\ kept.used = us2 /\ kept.exists = s.exists
    <3> DEFINE p == [s EXCEPT !.action = did]
    <3>1. p \in SimStates /\ p.buffer = b /\ p.exists = s.exists
      BY <1>1, <1>3 DEF SimStates, b
    <3>2. kept = [p EXCEPT !.used = us2]
      OBVIOUS
    <3> HIDE DEF p, kept
    <3> QED  BY <1>5, <3>1, <3>2 DEF SimStates
  <2> HIDE DEF kept
  <2>3. r = kept
    BY <1>6, <1>8
  <2>4. r \in Simulated(tr, kn, refused, ex, len, k + 1)
    BY <1>1, <1>5, <1>7, <2>1, <2>2, <2>3 DEF Simulated
  <2> QED  BY <2>4 DEF r
<1>9. CASE ~ (got # None \/ ~ s.exists)
  <2> DEFINE c == Set(b, k + 1, s.action)
  <2>1. did = s.action /\ Get(b, k + 1) = None /\ c = Set(b, k + 1, did)
    BY <1>9 DEF did, got
  <2> HIDE DEF c
  <2>10. /\ BufferOK(b) /\ ClientOK(b, tr, kn, s.used, k, NoTick, refused) /\ did \in Values
         /\ (c = b /\ Get(b, k + 1) # None /\ did = Get(b, k + 1))
              \/ (Get(b, k + 1) = None /\ c = Set(b, k + 1, did))
         /\ us2[k + 1] = did /\ \A t \in 1..k : us2[t] = s.used[t]
    BY <1>1, <1>3, <1>5, <2>1
  <2>2. BufferOK(c) /\ ClientOK(c, tr, kn, us2, k + 1, NoTick, refused)
    BY <2>10, ClientTick
  <2>3. set \in SimStates /\ set.buffer = c /\ set.used = us2 /\ set.exists = s.exists
    <3> DEFINE p == [s EXCEPT !.buffer = c]
    <3>1. p \in SimStates /\ p.buffer = c /\ p.exists = s.exists
      BY <1>1, <2>2 DEF SimStates, BufferOK
    <3>2. set = [p EXCEPT !.used = us2]
      BY DEF c
    <3> HIDE DEF p, set
    <3> QED  BY <1>5, <3>1, <3>2 DEF SimStates
  <2> HIDE DEF set
  <2>4. r = set /\ s.exists
    BY <1>2, <1>6, <1>9
  <2>5. r \in Simulated(tr, kn, refused, ex, len, k + 1)
    BY <1>1, <1>5, <1>7, <2>2, <2>3, <2>4 DEF Simulated
  <2> QED  BY <2>5 DEF r
<1> QED  BY <1>8, <1>9

\* The loop of a frame runs to its end.
LEMMA SimulateIs ==
    ASSUME NEW tr, NEW kn, NEW refused, NEW ex, NEW len \in Nat, NEW from \in Nat \ {0}, NEW to \in Nat,
           from <= to + 1, NEW s \in Simulated(tr, kn, refused, ex, len, from - 1)
    PROVE  Simulate(s, from, to) \in Simulated(tr, kn, refused, ex, len, to)
<1> DEFINE n == to - from + 1
           M(i) == Simulated(tr, kn, refused, ex, len, from + i - 1)
           Turn(x, i) == SimulateTick(x, from + i - 1)
           After(f) == [i \in 0..n |-> IF i = 0 THEN s ELSE Turn(f[i - 1], i)]
           S == UNION {M(i) : i \in 0..n}
           P == [i \in 0..n |-> M(i)]
           turns == [i \in 1..n |-> [x \in S |-> IF x \in M(i - 1) THEN Turn(x, i) ELSE x]]
           run == CHOOSE f : f = After(f)
<1>0. n \in Nat /\ from + n - 1 = to /\ from + 0 - 1 = from - 1
  OBVIOUS
<1>00. Simulate(s, from, to) = run[n]
  BY DEF Simulate
<1>1. ASSUME NEW i \in 1..n, NEW x \in M(i - 1) PROVE Turn(x, i) \in M(i)
  <2>1. from + (i - 1) - 1 \in Nat /\ from + i - 1 = (from + (i - 1) - 1) + 1
    OBVIOUS
  <2>2. SimulateTick(x, (from + (i - 1) - 1) + 1)
          \in Simulated(tr, kn, refused, ex, len, (from + (i - 1) - 1) + 1)
    BY <1>1, <2>1, SimulateTickIs
  <2> QED  BY <2>1, <2>2
<1>2. s \in M(0)
  BY <1>0
<1>20. M(n) = Simulated(tr, kn, refused, ex, len, to)
  BY <1>0
<1> HIDE DEF M, Turn, n
<1>3. turns \in [1..n -> [S -> S]]
  <2>1. ASSUME NEW i \in 1..n, NEW x \in S
        PROVE  (IF x \in M(i - 1) THEN Turn(x, i) ELSE x) \in S
    <3>1. i \in 0..n
      BY <1>0
    <3> QED  BY <3>1, <1>1
  <2> HIDE DEF S
  <2> QED  BY <2>1
<1>4. s \in S
  <2>1. 0 \in 0..n
    BY <1>0
  <2> QED  BY <2>1, <1>2
<1>5. PICK f \in [0..n -> S] : f[0] = s /\ \A i \in 1..n : f[i] = turns[i][f[i - 1]]
  <2> HIDE DEF S, turns
  <2>1. n \in Nat /\ s \in S /\ turns \in [1..n -> [S -> S]]
    BY <1>0, <1>3, <1>4
  <2> QED  BY ONLY SMTT(60), <2>1, RunExists
<1>6. ASSUME NEW i \in 1..n, f[i - 1] \in M(i - 1) PROVE f[i] = Turn(f[i - 1], i) /\ f[i] \in M(i)
  <2>1. i - 1 \in 0..n
    BY <1>0
  <2>2. f[i - 1] \in S
    BY <2>1, <1>5
  <2>3. f[i] = Turn(f[i - 1], i)
    <3> HIDE DEF S
    <3> QED  BY <1>5, <1>6, <2>2
  <2> QED  BY <2>3, <1>1, <1>6
<1>7. ASSUME NEW m \in 0..n PROVE f[m] \in M(m)
  <2>0. 0 \in 0..n
    BY <1>0
  <2>1. f[0] \in P[0]
    BY <1>2, <1>5, <2>0
  <2>2. \A i \in 1..m : f[i - 1] \in P[i - 1] => f[i] \in P[i]
    <3>1. ASSUME NEW i \in 1..m, f[i - 1] \in P[i - 1] PROVE f[i] \in P[i]
      <4>1. i \in 1..n /\ i \in 0..n /\ i - 1 \in 0..n
        BY <1>0
      <4> QED  BY <4>1, <3>1, <1>6
    <3> QED  BY <3>1
  <2>3. m \in Nat
    BY <1>0
  <2>4. f[m] \in P[m]
    <3> HIDE DEF P
    <3> QED  BY <2>1, <2>2, <2>3, RunPasses
  <2> QED  BY <2>4
<1>8. f = After(f)
  <2>1. ASSUME NEW i \in 1..n PROVE f[i] = Turn(f[i - 1], i)
    <3>1. i - 1 \in 0..n
      BY <1>0
    <3>2. f[i - 1] \in M(i - 1)
      BY <3>1, <1>7
    <3> QED  BY <3>2, <1>6
  <2>2. f = [i \in 0..n |-> f[i]]
    BY <1>5
  <2>3. \A i \in 0..n : i # 0 => i \in 1..n
    BY <1>0
  <2> QED  BY ONLY <1>5, <2>1, <2>2, <2>3
<1>9. run = After(run)
  <2> HIDE DEF After
  <2> QED  BY <1>8
<1> HIDE DEF run
<1>10. run[0] \in P[0]
  <2>1. 0 \in 0..n
    BY <1>0
  <2>2. run[0] = s
    BY <1>9, <2>1
  <2> QED  BY <2>1, <2>2, <1>2
<1>11. \A i \in 1..n : run[i - 1] \in P[i - 1] => run[i] \in P[i]
  <2>1. ASSUME NEW i \in 1..n, run[i - 1] \in P[i - 1] PROVE run[i] \in P[i]
    <3>1. i \in 0..n /\ i - 1 \in 0..n /\ i # 0
      BY <1>0
    <3>2. run[i] = Turn(run[i - 1], i)
      BY <1>9, <3>1
    <3> QED  BY <3>1, <3>2, <2>1, <1>1
  <2> QED  BY <2>1
<1>12. run[n] \in P[n]
  <2> HIDE DEF P
  <2> QED  BY <1>0, <1>10, <1>11, RunPasses
<1> QED
  <2>1. n \in 0..n
    BY <1>0
  <2> QED  BY <2>1, <1>12, <1>20, <1>00

-----------------------------------------------------------------------------
(* The player's client. *)

\* The tick after the last one is captured.
LEMMA SenderCaptures ==
    ASSUME NEW b, BufferOK(b), b.start # NoTick, b.start <= EndTick(b),
           NEW tr, tr \in Seq(Values), Len(tr) = EndTick(b), HeldOK(b, tr),
           NEW v \in Actions, NEW t, t = EndTick(b) + 1, NEW c, c = Set(b, t, v)
    PROVE  /\ BufferOK(c) /\ c.start = b.start /\ EndTick(c) = t
           /\ HeldOK(c, Append(tr, v))
<1> DEFINE n == EndTick(b)
           entry == IF v # None /\ Get(b, Before(t, 1)) = v THEN Same ELSE v
           tr2 == Append(tr, v)
<1>1. /\ n \in Nat \ {0} /\ n \in Ticks(b) /\ t = n + 1 /\ t \in Nat \ {0} /\ t > EndTick(b)
      /\ Before(t, 1) = n /\ b.start \in Nat \ {0} /\ Ticks(b) \subseteq Nat \ {0}
      /\ \A u \in Ticks(b) : u <= n /\ u # t /\ b.start <= u
  BY TicksAre DEF Before
<1>2. v # None /\ v # Same /\ v \in Values /\ entry \in Entries
  BY InputConstants DEF Values, Entries
<1>3. c = SetRaw(b, t, entry)
  BY DEF Set
<1> HIDE DEF entry
<1>4. /\ BufferOK(c) /\ c.start = b.start /\ EndTick(c) = t /\ t \in Ticks(c)
      /\ GetRaw(c, t) = entry
      /\ \A u \in Ticks(b) : u \in Ticks(c) /\ GetRaw(c, u) = GetRaw(b, u)
      /\ \A u \in Int : \A w : Says(b, u, w) => Says(c, u, w)
  BY <1>1, <1>2, <1>3, Continued
<1>5. /\ tr2[t] = v /\ DOMAIN tr2 = 1..t /\ DOMAIN tr = 1..n
      /\ \A u \in 1..n : tr2[u] = tr[u]
  BY <1>1, <1>2
<1>6. tr[n] \in Actions /\ Says(b, n, tr[n])
  BY <1>1 DEF HeldOK
<1> HIDE DEF n, tr2
<1>7. ASSUME NEW u \in Ticks(c), u # t PROVE u \in Ticks(b) /\ u \in 1..n
  BY <1>1, <1>4, <1>7, TicksAre DEF n
<1>8. ASSUME NEW u \in Ticks(c)
      PROVE  /\ u \in DOMAIN tr2 /\ tr2[u] \in Actions /\ Says(c, u, tr2[u])
             /\ \/ GetRaw(c, u) = tr2[u]
                \/ u > c.start /\ GetRaw(c, u) = Same /\ tr2[u] = tr2[u - 1]
  <2>1. CASE u # t
    <3>1. u \in Ticks(b) /\ u \in 1..n /\ u \in Int
      BY <1>7, <2>1, <1>1
    <3>2. /\ tr[u] \in Actions /\ Says(b, u, tr[u])
          /\ \/ GetRaw(b, u) = tr[u]
             \/ u > b.start /\ GetRaw(b, u) = Same /\ tr[u] = tr[u - 1]
      BY <3>1 DEF HeldOK
    <3>3. u > b.start => u - 1 \in 1..n
      BY <1>1, <3>1
    <3> QED  BY <1>1, <1>4, <1>5, <3>1, <3>2, <3>3
  <2>2. CASE u = t
    <3>1. Before(t, 1) = n /\ u \in DOMAIN tr2 /\ tr2[u] = v /\ n \in 1..n /\ tr2[u - 1] = tr[n]
      BY <1>1, <1>5, <2>2
    <3>2. CASE entry = v
      <4>1. Says(c, t, v)
        BY <1>4, <3>2, SaysAt
      <4> QED  BY <1>4, <2>2, <3>1, <3>2, <4>1
    <3>3. CASE entry # v
      <4>1. entry = Same /\ Get(b, n) = v
        BY <3>1, <3>3 DEF entry
      <4>2. tr[n] = v
        BY <1>1, <1>6, <4>1, GetIs
      <4>3. Says(c, t - 1, v)
        BY <1>1, <1>4, <1>6, <4>2
      <4>4. Says(c, t, v)
        BY <1>4, <4>1, <4>3, SaysOn
      <4>5. u > c.start
        BY <1>1, <1>4, <2>2
      <4> QED  BY <1>4, <2>2, <3>1, <4>1, <4>2, <4>4, <4>5
    <3> QED  BY <3>2, <3>3
  <2> QED  BY <2>1, <2>2
<1> QED  BY <1>4, <1>8 DEF HeldOK, tr2

\* The first tick is captured.
LEMMA SenderBegins ==
    ASSUME NEW b, BufferOK(b), b.start = NoTick, NEW v \in Actions, NEW t \in Nat \ {0},
           NEW tr, t \in DOMAIN tr, tr[t] = v, NEW c, c = Set(b, t, v)
    PROVE  BufferOK(c) /\ c.start = t /\ EndTick(c) = t /\ HeldOK(c, tr)
<1> DEFINE entry == IF v # None /\ Get(b, Before(t, 1)) = v THEN Same ELSE v
<1>1. v # None /\ v # Same /\ v \in Entries
  BY InputConstants DEF Values, Entries
<1>2. entry = v
  BY <1>1 DEF Get, Ticks
<1>3. c = SetRaw(b, t, entry)
  BY DEF Set
<1> HIDE DEF entry
<1>4. BufferOK(c) /\ c.start = t /\ EndTick(c) = t /\ GetRaw(c, t) = v
  BY <1>1, <1>2, <1>3, SetRawIs
<1>5. t \in Ticks(c) /\ \A u \in Ticks(c) : u = t
  BY <1>4, TicksAre DEF NoTick
<1>6. Says(c, t, v)
  BY <1>4, <1>5, SaysAt
<1> QED  BY <1>4, <1>5, <1>6 DEF HeldOK

\* The message of a frame says what the player did.
LEMMA SenderSends ==
    ASSUME NEW b, BufferOK(b), b.start # NoTick, b.start <= EndTick(b),
           NEW tr, HeldOK(b, tr), NEW n \in Nat \ {0},
           NEW states, states = StateSequence(b, n, EndTick(b))
    PROVE  Faithful(tr, EndTick(b) - Len(states) + 1, states)
<1> DEFINE end == EndTick(b)
           first == Max({end - n + 1, b.start})
           len == end - first + 1
           entries == [i \in 1..len |-> IF i = 1 THEN Get(b, first) ELSE GetRaw(b, first + i - 1)]
<1>1. /\ end \in Nat \ {0} /\ b.start \in Nat \ {0}
      /\ \A t \in Int : t \in Ticks(b) <=> b.start <= t /\ t <= end
      /\ \A t \in Ticks(b) : GetRaw(b, t) \in Entries
  BY TicksAre
<1> HIDE DEF end
<1>2. first \in Nat \ {0} /\ b.start <= first /\ first <= end
  <2>1. first = IF end - n + 1 >= b.start THEN end - n + 1 ELSE b.start
    BY <1>1, MaxOfTwo
  <2> HIDE DEF first
  <2> QED  BY <1>1, <2>1, b.start <= end DEF end
<1>3. states = entries
  BY DEF StateSequence, end
<1> HIDE DEF first
<1>4. len \in Nat \ {0} /\ \A i \in 1..len : first + i - 1 \in Ticks(b)
  BY <1>1, <1>2
<1>5. first \in Ticks(b) /\ Get(b, first) = tr[first] /\ tr[first] \in Entries
  <2>1. first \in Ticks(b) /\ first \in Int
    BY <1>1, <1>2
  <2>2. tr[first] \in Actions /\ Says(b, first, tr[first])
    BY <2>1 DEF HeldOK
  <2> QED  BY <2>1, <2>2, GetIs DEF Entries
<1>6. states \in Seq(Entries) /\ Len(states) = len /\ DOMAIN states = 1..len
  <2>1. \A i \in 1..len : entries[i] \in Entries
    BY <1>1, <1>4, <1>5
  <2>2. states \in [1..len -> Entries]
    BY <1>3, <2>1
  <2> HIDE DEF len, entries
  <2> QED  BY <1>4, <2>2, SeqDef
<1>7. end - Len(states) + 1 = first
  BY <1>1, <1>2, <1>6
<1>8. ASSUME NEW i \in 1..len
      PROVE  /\ first + i - 1 \in DOMAIN tr /\ tr[first + i - 1] \in Actions
             /\ \/ states[i] = tr[first + i - 1]
                \/ i > 1 /\ states[i] = Same /\ tr[first + i - 1] = tr[first + i - 2]
  <2>1. first + i - 1 \in Ticks(b) /\ (first + i - 1) - 1 = first + i - 2
    BY <1>2, <1>4
  <2>2. /\ first + i - 1 \in DOMAIN tr /\ tr[first + i - 1] \in Actions
        /\ \/ GetRaw(b, first + i - 1) = tr[first + i - 1]
           \/ GetRaw(b, first + i - 1) = Same /\ tr[first + i - 1] = tr[first + i - 2]
    BY <2>1 DEF HeldOK
  <2>3. CASE i = 1
    <3>1. first + i - 1 = first
      BY <1>2, <2>3
    <3>2. states[i] = tr[first]
      BY <1>3, <1>5, <2>3
    <3> QED  BY <2>2, <3>1, <3>2
  <2>4. CASE i # 1
    <3>1. states[i] = GetRaw(b, first + i - 1) /\ i > 1
      BY <1>3, <1>4, <2>4
    <3> QED  BY <2>2, <3>1
  <2> QED  BY <2>3, <2>4
<1>9. 1..Len(states) = 1..len /\ Len(states) >= 1
  BY <1>4, <1>6
<1> HIDE DEF len, entries
<1> QED  BY <1>2, <1>6, <1>7, <1>8, <1>9 DEF Faithful, end

\* What is left after the buffer was cleaned.
LEMMA SenderCleans ==
    ASSUME NEW b, BufferOK(b), b.start # NoTick, NEW tr, HeldOK(b, tr),
           b.start <= EndTick(b), NEW tick \in Nat, tick < EndTick(b), NEW c, c = Pop(b, tick)
    PROVE  /\ BufferOK(c) /\ c.start # NoTick /\ c.start <= EndTick(c) /\ EndTick(c) = EndTick(b)
           /\ HeldOK(c, tr)
<1>1. /\ BufferOK(c)
      /\ tick < b.start => c = b
      /\ tick >= b.start =>
           /\ c.start = tick + 1
           /\ EndTick(c) = IF tick > EndTick(b) THEN tick ELSE EndTick(b)
           /\ \A u \in Ticks(c) :
                /\ u \in Ticks(b)
                /\ GetRaw(c, u) = IF u = tick + 1 /\ GetRaw(b, u) = Same THEN Get(b, tick)
                                  ELSE GetRaw(b, u)
  BY PopIs
<1>2. /\ EndTick(b) \in Int /\ b.start \in Nat \ {0}
      /\ \A t \in Int : t \in Ticks(b) <=> b.start <= t /\ t <= EndTick(b)
      /\ Ticks(b) \subseteq Nat \ {0}
  BY TicksAre
<1>3. CASE tick < b.start
  BY <1>1, <1>3
<1>4. CASE tick >= b.start
  <2>1. /\ c.start = tick + 1 /\ c.start # NoTick /\ EndTick(c) = EndTick(b)
        /\ c.start <= EndTick(c) /\ tick \in Ticks(b)
    BY <1>1, <1>2, <1>4 DEF NoTick
  <2>2. Get(b, tick) = tr[tick]
    <3>1. tr[tick] \in Actions /\ Says(b, tick, tr[tick])
      BY <2>1 DEF HeldOK
    <3> QED  BY <3>1, GetIs
  <2>3. ASSUME NEW u \in Ticks(c)
        PROVE  /\ u \in DOMAIN tr /\ tr[u] \in Actions /\ Says(c, u, tr[u])
               /\ \/ GetRaw(c, u) = tr[u]
                  \/ u > c.start /\ GetRaw(c, u) = Same /\ tr[u] = tr[u - 1]
    <3>1. /\ u \in Ticks(b) /\ u \in Nat /\ u >= c.start
          /\ GetRaw(c, u) = IF u = tick + 1 /\ GetRaw(b, u) = Same THEN Get(b, tick)
                            ELSE GetRaw(b, u)
      BY <1>1, <1>2, <1>4, TicksAre
    <3>2. /\ u \in DOMAIN tr /\ tr[u] \in Actions /\ Says(b, u, tr[u])
          /\ \/ GetRaw(b, u) = tr[u]
             \/ u > b.start /\ GetRaw(b, u) = Same /\ tr[u] = tr[u - 1]
      BY <3>1 DEF HeldOK
    <3>3. Says(c, u, tr[u])
      BY <3>1, <3>2, PopSays
    <3>4. tr[u] # Same
      BY <3>2, InputConstants
    <3>5. CASE u = tick + 1
      <4>1. u - 1 = tick
        BY <3>5
      <4>2. GetRaw(b, u) = Same => tr[u] = tr[tick]
        BY <3>2, <3>4, <4>1
      <4> QED  BY <2>2, <3>1, <3>2, <3>3, <3>5, <4>2
    <3>6. CASE u # tick + 1
      <4>1. u > c.start
        BY <2>1, <3>1, <3>6
      <4> QED  BY <3>1, <3>2, <3>3, <3>6, <4>1
    <3> QED  BY <3>5, <3>6
  <2> QED  BY <1>1, <2>1, <2>3 DEF HeldOK
<1> QED  BY <1>2, <1>3, <1>4

-----------------------------------------------------------------------------
(* The server. *)

\* A message that is not older than the last one.
LEMMA ServerTakes ==
    ASSUME NEW b, BufferOK(b), NEW tr, NEW first, NEW states, Faithful(tr, first, states),
           NEW last, last = first + Len(states) - 1, last >= b.lastRemote,
           NEW kn, NEW us, NEW now \in Nat, ServerHas(b, tr, kn, us, now),
           NEW u, TookOver(b, tr, first, last, u),
           NEW kn2, kn2 = kn \cup {t \in first..last : t > now /\ t > b.lastRemote}
    PROVE  ServerHas(u.buffer, tr, kn2, us, now)
<1> DEFINE c == u.buffer
           x == u.mismatch
<1>1. first \in Nat \ {0} /\ last \in Nat /\ first <= last
      /\ \A t \in first..last : t \in Nat \ {0} /\ t \in DOMAIN tr /\ tr[t] \in Actions
  <2>1. first \in Nat \ {0} /\ states \in Seq(Entries) /\ Len(states) >= 1
    BY DEF Faithful
  <2>2. Len(states) \in Nat
    BY <2>1
  <2>3. ASSUME NEW t \in first..last
        PROVE  t \in Nat \ {0} /\ t \in DOMAIN tr /\ tr[t] \in Actions
    <3>1. t - first + 1 \in 1..Len(states) /\ first + (t - first + 1) - 1 = t /\ t \in Nat \ {0}
      BY <2>1, <2>2
    <3> QED  BY <3>1 DEF Faithful
  <2> QED  BY <2>1, <2>2, <2>3
<1>2. /\ b.start \in {NoTick} \cup (Nat \ {0}) /\ b.lastRemote \in {NoTick} \cup Nat
      /\ b.lastRemote \in Int /\ EndTick(b) \in Int
      /\ Ticks(b) \subseteq Nat \ {0} /\ \A t \in Ticks(b) : t <= EndTick(b)
  BY TicksAre DEF BufferOK, Buffers, NoTick
<1>3. /\ (b.start = NoTick <=> b.lastRemote = NoTick)
      /\ b.start # NoTick =>
           /\ b.start <= EndTick(b) /\ EndTick(b) = b.lastRemote
           /\ EndTick(b) \in DOMAIN tr /\ tr[EndTick(b)] \in Actions
           /\ Says(b, EndTick(b), tr[EndTick(b)])
      /\ KnownOK(tr, kn)
      /\ \A t \in kn : IF t <= now THEN us[t] = tr[t] ELSE Says(b, t, tr[t])
  BY DEF ServerHas
<1>4. /\ BufferOK(c) /\ c.lastRemote = last /\ x \in Int
      /\ x = NoTick => Agreed(b, tr, first, last, c)
      /\ x # NoTick => Differed(b, tr, first, last, x, c)
  BY DEF TookOver
<1> HIDE DEF c, x
<1>5. b.start = NoTick => \A t : ~ Says(b, t, tr[t])
  BY TicksAre DEF Says
\* What the buffer said it says still, and what is new it says too.
<1>6. /\ c.start # NoTick /\ c.start <= last /\ EndTick(c) = last
      /\ \A w \in Ticks(b) : w \in Ticks(c) /\ GetRaw(c, w) = GetRaw(b, w)
      /\ SaysNew(b, tr, first, last, c)
  <2>1. CASE x = NoTick
    <3>1. /\ c.start = b.start
          /\ b.start = NoTick => \A w \in first..last : w <= b.lastRemote
          /\ EndTick(c) = IF first <= last /\ last > b.lastRemote /\ last > EndTick(b)
                          THEN last ELSE EndTick(b)
          /\ \A w \in Ticks(b) : w \in Ticks(c) /\ GetRaw(c, w) = GetRaw(b, w)
          /\ SaysNew(b, tr, first, last, c)
      BY <1>4, <2>1 DEF Agreed
    <3>2. b.start # NoTick
      <4>1. last \in first..last
        BY <1>1
      <4> QED  BY <1>1, <1>3, <3>1, <4>1 DEF NoTick
    <3> QED  BY SMTT(60), <1>1, <1>2, <1>3, <3>1, <3>2
  <2>2. CASE x # NoTick
    <3>1. /\ x \in first..last /\ x > b.lastRemote
          /\ b.start = NoTick \/ x >= b.start =>
               /\ c.start = IF b.start = NoTick THEN x ELSE b.start
               /\ EndTick(c) = last
               /\ \A w \in Ticks(b) : w < x => w \in Ticks(c) /\ GetRaw(c, w) = GetRaw(b, w)
               /\ SaysNew(b, tr, first, last, c)
      BY <1>4, <2>2 DEF Differed
    <3>2. b.start = NoTick \/ x >= b.start
      BY <1>1, <1>2, <1>3, <3>1
    <3>3. x # NoTick /\ x <= last /\ x \in Nat
      BY <1>1, <3>1 DEF NoTick
    <3>4. \A w \in Ticks(b) : w < x
      <4>1. CASE b.start = NoTick
        BY <4>1, TicksAre
      <4>2. CASE b.start # NoTick
        BY <1>2, <1>3, <3>1, <3>3, <4>2
      <4> QED  BY <4>1, <4>2
    <3>5. b.start # NoTick => b.start <= last
      BY <1>1, <1>2, <1>3
    <3> QED  BY <3>1, <3>2, <3>3, <3>4, <3>5
  <2> QED  BY <2>1, <2>2
<1>7. \A t \in Int : \A v : Says(b, t, v) => Says(c, t, v)
  BY <1>4, <1>6, SaysKept
<1>8. last \in DOMAIN tr /\ tr[last] \in Actions /\ Says(c, last, tr[last])
  <2>1. last \in first..last /\ last \in Int
    BY <1>1
  <2>0. last \in DOMAIN tr /\ tr[last] \in Actions
    BY <1>1, <2>1
  <2>2. CASE last > b.lastRemote
    <3>1. Says(c, last, tr[last])
      BY <1>6, <2>1, <2>2 DEF SaysNew
    <3> QED  BY <2>0, <3>1
  <2>3. CASE last = b.lastRemote
    <3>1. b.lastRemote # NoTick
      BY <1>1, <2>3 DEF NoTick
    <3>2. b.start # NoTick /\ EndTick(b) = last
      BY <1>3, <2>3, <3>1
    <3>3. Says(b, last, tr[last])
      BY <1>3, <3>2
    <3> QED  BY <1>7, <2>0, <2>1, <3>3
  <2>4. last > b.lastRemote \/ last = b.lastRemote
    <3>1. last \in Int /\ b.lastRemote \in Int
      BY <1>1, <1>2
    <3> QED  BY <3>1
  <2> QED  BY <2>2, <2>3, <2>4
<1>9. KnownOK(tr, kn2)
  BY <1>1, <1>3 DEF KnownOK
<1>10. ASSUME NEW t \in kn2 PROVE IF t <= now THEN us[t] = tr[t] ELSE Says(c, t, tr[t])
  <2>1. CASE t \in kn
    <3>1. t \in Int
      BY <1>3, <2>1 DEF KnownOK
    <3> QED  BY <1>3, <1>7, <2>1, <3>1
  <2>2. CASE t \notin kn
    <3>1. t \in first..last /\ t > now /\ t > b.lastRemote
      BY <2>2
    <3>2. ~ (t <= now)
      BY <1>1, <3>1
    <3> QED  BY <1>6, <3>1, <3>2 DEF SaysNew
  <2> QED  BY <2>1, <2>2
<1>11. c.lastRemote # NoTick
  BY <1>1, <1>4 DEF NoTick
<1>12. ServerHas(c, tr, kn2, us, now)
  BY <1>4, <1>6, <1>8, <1>9, <1>10, <1>11 DEF ServerHas
<1> QED  BY <1>12 DEF c

\* A buffer that will be inserted for a new player.
LEMMA ServerStarts ==
    ASSUME NEW tr, NEW us, NEW now
    PROVE  BufferOK(EmptyBuffer) /\ ServerHas(EmptyBuffer, tr, {}, us, now)
           /\ EmptyBuffer.lastRemote = NoTick /\ EmptyBuffer.start = NoTick
BY ClientStarts DEF ServerHas, KnownOK, EmptyBuffer, NoTick

\* What is popped of a buffer, and that the last tick of it is not.
LEMMA PopKeepingLastIs ==
    ASSUME NEW b, BufferOK(b), NEW tick \in Nat, NEW c, c = PopKeepingLast(b, tick)
    PROVE  /\ BufferOK(c) /\ c.lastRemote = b.lastRemote
           /\ b.start = NoTick => c = b
           /\ \A v \in Actions :
                b.start # NoTick /\ b.start <= EndTick(b) /\ Says(b, EndTick(b), v) =>
                  /\ c.start # NoTick /\ c.start <= EndTick(c) /\ EndTick(c) = EndTick(b)
                  /\ \A t \in Nat, w \in Actions :
                       (t > tick \/ t = EndTick(b)) /\ Says(b, t, w) => Says(c, t, w)
<1> DEFINE p == IF GetLast(b) = None THEN tick ELSE Min({tick, Before(EndTick(b), 1)})
<1>1. /\ EndTick(b) \in Int /\ b.start \in {NoTick} \cup (Nat \ {0})
      /\ b.start # NoTick =>
           \A t \in Int : t \in Ticks(b) <=> b.start <= t /\ t <= EndTick(b)
  BY TicksAre DEF BufferOK, Buffers
<1>2. Before(EndTick(b), 1) \in Nat /\ (EndTick(b) > 0 => Before(EndTick(b), 1) < EndTick(b))
  BY <1>1 DEF Before
<1>3. p \in Nat /\ p <= tick /\ (GetLast(b) # None => p <= Before(EndTick(b), 1))
  <2>1. Min({tick, Before(EndTick(b), 1)})
          = IF tick <= Before(EndTick(b), 1) THEN tick ELSE Before(EndTick(b), 1)
    BY <1>2, MinOfTwo
  <2> QED  BY <1>2, <2>1
<1>4. c = Pop(b, p)
  BY DEF PopKeepingLast
<1> HIDE DEF p
<1>5. /\ BufferOK(c) /\ c.lastRemote = b.lastRemote
      /\ b.start = NoTick \/ p < b.start => c = b
      /\ b.start # NoTick /\ p >= b.start =>
           /\ c.start = p + 1
           /\ EndTick(c) = IF p > EndTick(b) THEN p ELSE EndTick(b)
  BY <1>3, <1>4, PopIs
<1>6. ASSUME NEW v \in Actions, b.start # NoTick, b.start <= EndTick(b), Says(b, EndTick(b), v)
      PROVE  /\ c.start # NoTick /\ c.start <= EndTick(c) /\ EndTick(c) = EndTick(b)
             /\ \A t \in Nat, w \in Actions :
                  (t > tick \/ t = EndTick(b)) /\ Says(b, t, w) => Says(c, t, w)
  <2>1. EndTick(b) \in Ticks(b) /\ b.start \in Nat \ {0} /\ EndTick(b) > 0
    BY <1>1, <1>6
  <2>2. GetLast(b) # None
    <3>1. Get(b, EndTick(b)) = v
      BY <1>1, <1>6, GetIs
    <3> QED  BY <2>1, <3>1, InputConstants DEF GetLast
  <2>3. p < EndTick(b)
    BY <1>1, <1>2, <1>3, <2>1, <2>2
  <2>4. CASE p < b.start
    BY <1>5, <1>6, <2>4
  <2>5. CASE p >= b.start
    <3>1. /\ c.start = p + 1 /\ c.start # NoTick /\ c.start <= EndTick(c)
          /\ EndTick(c) = EndTick(b)
      BY <1>1, <1>3, <1>5, <1>6, <2>3, <2>5 DEF NoTick
    <3>2. ASSUME NEW t \in Nat, NEW w \in Actions, t > tick \/ t = EndTick(b), Says(b, t, w)
          PROVE  Says(c, t, w)
      <4>1. t \in Ticks(b)
        BY <3>2 DEF Says
      <4>2. c.start <= t /\ t <= EndTick(c) /\ t \in Int
        BY <1>1, <1>3, <1>6, <2>3, <3>1, <3>2, <4>1
      <4>3. t \in Ticks(Pop(b, p))
        BY <1>4, <1>5, <3>1, <4>2, TicksAre
      <4> QED  BY <1>3, <1>4, <3>2, <4>3, PopSays
    <3> QED  BY <3>1, <3>2
  <2>6. p < b.start \/ p >= b.start
    BY <1>3, <2>1
  <2> QED  BY <2>4, <2>5, <2>6
<1> QED  BY <1>5, <1>6

\* A tick of the server.
LEMMA ServerSimulates ==
    ASSUME NEW b, BufferOK(b), NEW tr, NEW kn, NEW us \in Seq(Values), NEW now \in Nat,
           Len(us) = now, ServerHas(b, tr, kn, us, now),
           NEW old \in Values, NEW action,
           action = IF GetPredict(b, now + 1) # None THEN GetPredict(b, now + 1) ELSE old,
           NEW c, c = PopKeepingLast(b, Before(now + 1, 1))
    PROVE  /\ BufferOK(c) /\ c.lastRemote = b.lastRemote /\ action \in Values
           /\ ServerHas(c, tr, kn, Append(us, action), now + 1)
<1> DEFINE us2 == Append(us, action)
<1>1. Before(now + 1, 1) = now
  BY DEF Before
<1>2. /\ (b.start = NoTick <=> b.lastRemote = NoTick)
      /\ b.start # NoTick =>
           /\ b.start <= EndTick(b) /\ EndTick(b) = b.lastRemote
           /\ EndTick(b) \in DOMAIN tr /\ tr[EndTick(b)] \in Actions
           /\ Says(b, EndTick(b), tr[EndTick(b)])
      /\ KnownOK(tr, kn)
      /\ \A t \in kn : IF t <= now THEN us[t] = tr[t] ELSE Says(b, t, tr[t])
  BY DEF ServerHas
<1>3. /\ BufferOK(c) /\ c.lastRemote = b.lastRemote
      /\ b.start = NoTick => c = b
      /\ b.start # NoTick =>
           /\ c.start # NoTick /\ c.start <= EndTick(c) /\ EndTick(c) = EndTick(b)
           /\ \A t \in Nat, w \in Actions :
                (t > now \/ t = EndTick(b)) /\ Says(b, t, w) => Says(c, t, w)
  BY <1>1, <1>2, PopKeepingLastIs
<1>4. GetPredict(b, now + 1) \in Values /\ action \in Values
  <2>1. GetPredict(b, now + 1) \in Values
    <3>1. Get(b, now + 1) \in Values
      BY GetIs
    <3>2. GetLast(b) \in Values
      <4>1. EndTick(b) \in Int
        BY TicksAre
      <4>2. Get(b, EndTick(b)) \in Values
        BY <4>1, GetIs
      <4> QED  BY <4>2 DEF GetLast, Values
    <3> QED  BY <3>1, <3>2 DEF GetPredict
  <2> QED  BY <2>1
<1>5. us2[now + 1] = action /\ \A t \in 1..now : us2[t] = us[t]
  BY <1>4
<1> HIDE DEF us2
<1>6. ASSUME NEW t \in kn
      PROVE  IF t <= now + 1 THEN us2[t] = tr[t] ELSE Says(c, t, tr[t])
  <2>1. t \in Nat \ {0} /\ tr[t] \in Actions
    BY <1>2 DEF KnownOK
  <2>2. CASE t <= now
    BY <1>2, <1>5, <2>1, <2>2
  <2>3. CASE t > now
    <3>1. Says(b, t, tr[t])
      BY <1>2, <2>1, <2>3
    <3>2. t \in Ticks(b) /\ t <= EndTick(b) /\ b.start # NoTick
      BY <3>1, TicksAre DEF Says
    <3>3. CASE t = now + 1
      <4>1. Get(b, now + 1) = tr[t]
        BY <2>1, <3>1, <3>3, GetIs
      <4>2. EndTick(b) \in Int
        BY TicksAre
      <4>3. GetPredict(b, now + 1) = tr[t]
        BY <3>2, <3>3, <4>1, <4>2 DEF GetPredict
      <4>4. tr[t] # None
        BY <2>1, InputConstants
      <4> QED  BY <1>5, <3>3, <4>3, <4>4
    <3>4. CASE t # now + 1
      <4>1. ~ (t <= now + 1)
        BY <2>1, <2>3, <3>4
      <4> QED  BY <1>3, <2>1, <2>3, <3>1, <3>2, <4>1
    <3> QED  BY <3>3, <3>4
  <2> QED  BY <2>1, <2>2, <2>3
<1>7. b.start # NoTick => EndTick(b) \in Nat
  <2>1. b.start # NoTick => EndTick(b) \in Ticks(b)
    BY <1>2 DEF Says
  <2> QED  BY <2>1, TicksAre
<1> QED  BY <1>2, <1>3, <1>4, <1>6, <1>7 DEF ServerHas, us2

-----------------------------------------------------------------------------
(* What the player does next changes nothing of what is known. *)

Grown(tr, tr2) == \A t \in DOMAIN tr : t \in DOMAIN tr2 /\ tr2[t] = tr[t]

\* A message stays faithful.
LEMMA FaithfulStays ==
    ASSUME NEW tr, NEW tr2, Grown(tr, tr2), NEW first, NEW states, Faithful(tr, first, states)
    PROVE  Faithful(tr2, first, states)
<1>1. first \in Nat \ {0} /\ states \in Seq(Entries) /\ Len(states) >= 1 /\ Len(states) \in Nat
  BY DEF Faithful
<1>2. ASSUME NEW i \in 1..Len(states)
      PROVE  /\ first + i - 1 \in DOMAIN tr2 /\ tr2[first + i - 1] \in Actions
             /\ \/ states[i] = tr2[first + i - 1]
                \/ i > 1 /\ states[i] = Same /\ tr2[first + i - 1] = tr2[first + i - 2]
  <2>1. /\ first + i - 1 \in DOMAIN tr /\ tr[first + i - 1] \in Actions
        /\ \/ states[i] = tr[first + i - 1]
           \/ i > 1 /\ states[i] = Same /\ tr[first + i - 1] = tr[first + i - 2]
    BY DEF Faithful
  <2>2. i > 1 => first + i - 2 \in DOMAIN tr
    <3>1. SUFFICES ASSUME i > 1 PROVE first + i - 2 \in DOMAIN tr
      OBVIOUS
    <3>2. i - 1 \in 1..Len(states) /\ first + (i - 1) - 1 = first + i - 2
      BY <1>1, <3>1
    <3> QED  BY <3>2 DEF Faithful
  <2> QED  BY <2>1, <2>2 DEF Grown
<1> QED  BY <1>1, <1>2 DEF Faithful

\* Nor of what a client holds.
LEMMA ClientStays ==
    ASSUME NEW tr, NEW tr2, Grown(tr, tr2),
           NEW b, NEW kn, NEW us, NEW now, NEW early, NEW refused,
           ClientOK(b, tr, kn, us, now, early, refused)
    PROVE  ClientOK(b, tr2, kn, us, now, early, refused)
<1>1. \A t \in kn : t \in DOMAIN tr2 /\ tr2[t] = tr[t]
  BY DEF ClientOK, KnownOK, Grown
<1> QED  BY <1>1 DEF ClientOK, KnownOK

\* Nor of what the server holds.
LEMMA ServerStays ==
    ASSUME NEW tr, NEW tr2, Grown(tr, tr2), NEW b, NEW kn, NEW us, NEW now,
           ServerHas(b, tr, kn, us, now)
    PROVE  ServerHas(b, tr2, kn, us, now)
<1>1. \A t \in kn : t \in DOMAIN tr2 /\ tr2[t] = tr[t]
  BY DEF ServerHas, KnownOK, Grown
<1>2. b.start # NoTick => EndTick(b) \in DOMAIN tr2 /\ tr2[EndTick(b)] = tr[EndTick(b)]
  BY DEF ServerHas, Grown
<1> QED  BY <1>1, <1>2 DEF ServerHas, KnownOK

\* Nor of what the player has kept.
LEMMA HeldStays ==
    ASSUME NEW tr, NEW tr2, Grown(tr, tr2), NEW b, BufferOK(b), HeldOK(b, tr)
    PROVE  HeldOK(b, tr2)
<1>1. ASSUME NEW t \in Ticks(b), t > b.start PROVE t - 1 \in Ticks(b)
  <2>1. t \in Nat /\ t <= EndTick(b) /\ EndTick(b) \in Int /\ b.start # NoTick
        /\ b.start \in Nat
        /\ \A w \in Int : w \in Ticks(b) <=> b.start <= w /\ w <= EndTick(b)
    BY TicksAre
  <2> QED  BY <1>1, <2>1
<1> QED  BY <1>1 DEF HeldOK, Grown

-----------------------------------------------------------------------------
(* The messages. *)

\* One message less.
LEMMA MessageLess ==
    ASSUME NEW S, NEW s \in Seq(S), NEW i \in DOMAIN s, NEW r, r = RemoveAt(s, i)
    PROVE  /\ r \in Seq(S) /\ s[i] \in S
           /\ \A P : (\A j \in DOMAIN s : s[j] \in P) => \A j \in DOMAIN r : r[j] \in P
<1>1. Len(s) \in Nat /\ DOMAIN s = 1..Len(s) /\ i \in 1..Len(s) /\ s[i] \in S
  OBVIOUS
<1>2. /\ r \in Seq(S) /\ Len(r) = Len(s) - 1
      /\ \A j \in 1..(Len(s) - 1) : r[j] = IF j < i THEN s[j] ELSE s[j + 1]
  BY <1>1, RemoveAtIs
<1>3. DOMAIN r = 1..(Len(s) - 1) /\ \A j \in DOMAIN r : j \in DOMAIN s /\ j + 1 \in DOMAIN s
  BY <1>1, <1>2
<1>4. ASSUME NEW P, \A j \in DOMAIN s : s[j] \in P, NEW j \in DOMAIN r PROVE r[j] \in P
  <2>1. s[j] \in P /\ s[j + 1] \in P /\ j \in 1..(Len(s) - 1)
    BY <1>3, <1>4
  <2> QED  BY <1>2, <2>1
<1> QED  BY <1>1, <1>2, <1>4

\* The rest keeps its order, and the first message comes before it.
LEMMA StillInOrder ==
    ASSUME NEW S, NEW s \in Seq(S), NEW i \in DOMAIN s, NEW r, r = RemoveAt(s, i),
           NEW last, InOrder(s, last)
    PROVE  InOrder(r, last) /\ (i = 1 => InOrder(r, s[1].end))
<1>1. Len(s) \in Nat /\ DOMAIN s = 1..Len(s) /\ i \in 1..Len(s)
  OBVIOUS
<1>2. /\ r \in Seq(S) /\ Len(r) = Len(s) - 1
      /\ \A j \in 1..(Len(s) - 1) : r[j] = IF j < i THEN s[j] ELSE s[j + 1]
  BY <1>1, RemoveAtIs
<1>3. DOMAIN r = 1..(Len(s) - 1)
  BY <1>1, <1>2
<1> DEFINE At(j) == IF j < i THEN j ELSE j + 1
<1>4. ASSUME NEW j \in DOMAIN r
      PROVE  At(j) \in DOMAIN s /\ r[j] = s[At(j)] /\ 1 <= At(j) /\ (i = 1 => At(j) = j + 1)
  <2>1. j \in 1..(Len(s) - 1)
    BY <1>3
  <2> QED  BY <1>1, <1>2, <2>1
<1>5. ASSUME NEW j \in DOMAIN r, NEW k \in DOMAIN r, j <= k PROVE At(j) <= At(k)
  <2>1. j \in Nat /\ k \in Nat
    BY <1>1, <1>3
  <2> QED  BY <1>1, <1>5, <2>1
<1>6. /\ \A j \in DOMAIN s : last <= s[j].end
      /\ \A j, k \in DOMAIN s : j <= k => s[j].end <= s[k].end
  BY DEF InOrder
<1> HIDE DEF At
<1>7. InOrder(r, last)
  BY <1>4, <1>5, <1>6 DEF InOrder
<1>8. i = 1 => \A j \in DOMAIN r : s[1].end <= r[j].end
  <2>1. 1 \in DOMAIN s
    BY <1>1
  <2> QED  BY <1>4, <1>6, <2>1
<1> QED  BY <1>7, <1>8 DEF InOrder

\* One message more.
LEMMA MessageMore ==
    ASSUME NEW S, NEW s \in Seq(S), NEW m \in S, NEW r, r = Append(s, m)
    PROVE  /\ r \in Seq(S)
           /\ \A P : (\A j \in DOMAIN s : s[j] \in P) /\ m \in P => \A j \in DOMAIN r : r[j] \in P
<1>1. Len(s) \in Nat /\ DOMAIN s = 1..Len(s) /\ r \in Seq(S) /\ DOMAIN r = 1..(Len(s) + 1)
      /\ \A j \in 1..Len(s) : r[j] = s[j]
      /\ r[Len(s) + 1] = m
  OBVIOUS
<1>2. \A j \in DOMAIN r : j \in DOMAIN s \/ j = Len(s) + 1
  BY <1>1
<1> QED  BY <1>1, <1>2

\* A message that is not older than the others comes after them.
LEMMA StillInOrderWith ==
    ASSUME NEW S, NEW s \in Seq(S), NEW m \in S, NEW r, r = Append(s, m),
           NEW last \in Int, InOrder(s, last), last <= m.end,
           m.end \in Int, \A j \in DOMAIN s : s[j].end <= m.end
    PROVE  InOrder(r, last)
<1>1. Len(s) \in Nat /\ DOMAIN s = 1..Len(s) /\ DOMAIN r = 1..(Len(s) + 1)
      /\ \A j \in 1..Len(s) : r[j] = s[j]
      /\ r[Len(s) + 1] = m
  OBVIOUS
<1>2. \A j \in DOMAIN r : j \in Nat /\ (j \in DOMAIN s \/ j = Len(s) + 1)
  BY <1>1
<1>3. ASSUME NEW j \in DOMAIN r PROVE last <= r[j].end
  BY <1>1, <1>2 DEF InOrder
<1>4. ASSUME NEW j \in DOMAIN r, NEW k \in DOMAIN r, j <= k PROVE r[j].end <= r[k].end
  <2>1. CASE k \in DOMAIN s
    <3>1. j \in DOMAIN s
      BY <1>1, <1>2, <1>4, <2>1
    <3> QED  BY <1>1, <1>4, <2>1, <3>1 DEF InOrder
  <2>2. CASE k = Len(s) + 1
    <3>1. r[k] = m
      BY <1>1, <2>2
    <3>2. CASE j \in DOMAIN s
      BY <1>1, <3>1, <3>2
    <3>3. CASE j = Len(s) + 1
      BY <1>1, <3>1, <3>3
    <3> QED  BY <1>2, <3>2, <3>3
  <2> QED  BY <1>2, <2>1, <2>2
<1> QED  BY <1>3, <1>4 DEF InOrder

-----------------------------------------------------------------------------
(* The player's client, and the messages. *)

\* The types of the parts that a step of the player leaves alone, and what it
\* does to the others.
LEMMA SenderSteps ==
    ASSUME InputInv, Grown(truth, truth'), SenderOK',
           UNCHANGED <<role, rTick, rBuffer, exists, queued, rAction, earliest, used, known, rejected>>,
           cTick' >= cTick,
           NEW m, m \in [end : Nat, states : Seq(Entries)], m.end = cTick' + Delay,
           Faithful(truth', FirstOf(m), m.states), inFlight' = Append(inFlight, m)
    PROVE  InputInv'
<1>1. SenderOK /\ MessagesOK /\ ReceiverOK
  BY DEF InputInv
<1>2. /\ Current' = Current /\ ReceiverOK'
  BY <1>1 DEF ReceiverOK, Current
<1>3. /\ cTick \in Nat /\ cTick' \in Nat /\ Delay \in Nat
      /\ Len(truth) = IF cTick = 0 THEN 0 ELSE cTick + Delay
      /\ DOMAIN truth = 1..Len(truth)
  BY <1>1, InputConstants DEF SenderOK
<1>4. ASSUME NEW i \in DOMAIN inFlight
      PROVE  MessageOK(truth', inFlight[i]) /\ inFlight[i].end <= cTick + Delay
             /\ inFlight[i].end \in Nat
  <2> DEFINE x == inFlight[i]
  <2>1. x.end \in Nat /\ Faithful(truth, FirstOf(x), x.states)
    BY <1>1 DEF MessagesOK, MessageOK
  <2>2. Faithful(truth', FirstOf(x), x.states)
    BY <2>1, FaithfulStays
  <2>3. x.end \in DOMAIN truth
    <3> DEFINE len == Len(x.states)
               first == FirstOf(x)
    <3>1. x.states \in Seq(Entries) /\ len >= 1 /\ first = x.end - len + 1
          /\ \A j \in 1..len : first + j - 1 \in DOMAIN truth
      BY <2>1 DEF Faithful, FirstOf
    <3>2. len \in 1..len /\ len \in Nat
      BY <3>1
    <3> HIDE DEF len, first, x
    <3>3. first + len - 1 = x.end
      BY <2>1, <3>1, <3>2
    <3> QED  BY <3>1, <3>2, <3>3
  <2> QED  BY <1>3, <2>1, <2>2, <2>3 DEF MessageOK
<1>5. MessageOK(truth', m)
  BY DEF MessageOK
<1> DEFINE S == [end : Nat, states : Seq(Entries)]
           P == {x \in S : MessageOK(truth', x)}
<1>6. MessagesOK'
  <2>0. inFlight \in Seq(S)
    BY <1>1 DEF MessagesOK
  <2>1. inFlight \in Seq(S) /\ \A i \in DOMAIN inFlight : inFlight[i] \in P
    <3>1. \A i \in DOMAIN inFlight : inFlight[i] \in S
      <4> HIDE DEF S
      <4> QED  BY <2>0
    <3> QED  BY <2>0, <3>1, <1>4
  <2>2. m \in P
    BY <1>5
  <2> HIDE DEF P, S
  <2>3. inFlight' \in Seq(S) /\ \A i \in DOMAIN inFlight' : inFlight'[i] \in P
    <3>1. m \in S
      BY DEF S
    <3> QED  BY <2>1, <2>2, <3>1, MessageMore
  <2> QED  BY <2>3 DEF MessagesOK, P, S
<1>7. ASSUME role = "server", ServerOK PROVE ServerOK'
  <2>1. /\ InOrder(inFlight, Current.lastRemote) /\ Current.lastRemote <= cTick + Delay
        /\ ServerHas(Current, truth, known, used, rTick)
    BY <1>7 DEF ServerOK
  <2>2. Current.lastRemote \in Int
    BY <1>1 DEF ReceiverOK, BufferOK, Buffers, NoTick
  <2>3. Current.lastRemote <= cTick' + Delay
    BY <1>3, <2>1, <2>2
  <2>4. ServerHas(Current, truth', known, used, rTick)
    BY <2>1, ServerStays
  <2>5. InOrder(inFlight', Current.lastRemote)
    <3>1. inFlight \in Seq(S) /\ m \in S /\ m.end \in Int
      BY <1>1, <1>3 DEF MessagesOK
    <3>2. \A j \in DOMAIN inFlight : inFlight[j].end <= m.end
      BY <1>3, <1>4
    <3> HIDE DEF S
    <3> QED  BY <2>1, <2>2, <2>3, <3>1, <3>2, StillInOrderWith
  <2> QED  BY <1>2, <2>3, <2>4, <2>5 DEF ServerOK
<1>8. ASSUME role = "client", ClientOK(Current, truth, known, used, rTick, earliest, rejected)
      PROVE  ClientOK(Current, truth', known, used, rTick, earliest, rejected)
  BY <1>8, ClientStays
<1> QED  BY <1>2, <1>6, <1>7, <1>8 DEF InputInv

\* A frame that captures what the player does.
LEMMA CaptureKeeps ==
    ASSUME InputInv, NEW v \in Actions, CaptureFrame(v)
    PROVE  InputInv'
<1> DEFINE n == cTick + 1 + Delay
           b == Capture(v)
           m == PrepareMessage(b, cTick')
           tick == Before(cTick', HistoryDepth)
<1>1. /\ cTick \in Nat /\ truth \in Seq(Values)
      /\ Len(truth) = IF cTick = 0 THEN 0 ELSE cTick + Delay
      /\ BufferOK(cBuffer) /\ HeldOK(cBuffer, truth)
      /\ (cBuffer.start = NoTick <=> cTick = 0)
      /\ cTick > 0 => cBuffer.start <= EndTick(cBuffer) /\ EndTick(cBuffer) = cTick + Delay
      /\ Delay \in Nat /\ Redundancy \in Nat \ {0} /\ HistoryDepth \in Nat \ {0}
  BY InputConstants DEF InputInv, SenderOK
<1>2. /\ cTick' = cTick + 1
      /\ inFlight' = Append(inFlight, m)
      /\ cBuffer' = CleanBuffer(b, cTick')
      /\ truth' = IF truth = <<>> THEN [t \in 1..(1 + Delay) |-> IF t = 1 + Delay THEN v ELSE None]
                  ELSE Append(truth, v)
      /\ UNCHANGED <<role, rTick, rBuffer, exists, queued, rAction, earliest, used, known, rejected>>
  BY DEF CaptureFrame
<1>3. n \in Nat \ {0} /\ n = cTick' + Delay /\ cTick' \in Nat \ {0} /\ cTick' >= cTick
  BY <1>1, <1>2
<1>4. v \in Values /\ None \in Values
  BY DEF Values
<1>5. b = Set(cBuffer, n, v)
  BY DEF Capture
<1>6. m = [end |-> n, states |-> StateSequence(b, Redundancy, n)]
  BY <1>3 DEF PrepareMessage
<1>7. cBuffer' = Pop(b, tick)
  BY <1>2 DEF CleanBuffer
<1>8. tick \in Nat /\ tick < n
  <2>1. \A k \in Nat \ {0} :
          Before(k, HistoryDepth) \in Nat /\ Before(k, HistoryDepth) < k + Delay
    BY <1>1 DEF Before
  <2> HIDE DEF n
  <2> QED  BY <1>3, <2>1
<1> HIDE DEF b, m, tick
<1>9. /\ truth' \in Seq(Values) /\ Len(truth') = n /\ truth'[n] = v /\ Grown(truth, truth')
      /\ n \in DOMAIN truth'
  <2>1. CASE truth = <<>>
    <3>1. cTick = 0 /\ n = 1 + Delay
      BY <1>1, <2>1
    <3>2. truth' = [t \in 1..n |-> IF t = n THEN v ELSE None]
      BY <1>2, <2>1, <3>1
    <3> HIDE DEF n
    <3>3. truth' \in [1..n -> Values]
      BY <1>4, <3>2
    <3>4. truth' \in Seq(Values) /\ Len(truth') = n
      BY <1>3, <3>3, SeqDef
    <3> QED  BY <1>3, <2>1, <3>2, <3>4 DEF Grown
  <2>2. CASE truth # <<>>
    <3>1. truth' = Append(truth, v) /\ Len(truth) = cTick + Delay
      BY <1>1, <1>2, <2>2
    <3> QED  BY <1>1, <1>3, <1>4, <3>1 DEF Grown
  <2> QED  BY <2>1, <2>2
<1>10. /\ BufferOK(b) /\ b.start # NoTick /\ b.start <= EndTick(b) /\ EndTick(b) = n
       /\ HeldOK(b, truth')
  <2>1. CASE cTick = 0
    <3>1. BufferOK(b) /\ b.start = n /\ EndTick(b) = n /\ HeldOK(b, truth')
      <4> HIDE DEF n
      <4>1. cBuffer.start = NoTick
        BY <1>1, <2>1
      <4> QED  BY <1>1, <1>3, <1>5, <1>9, <4>1, SenderBegins
    <3> QED  BY <1>3, <3>1 DEF NoTick
  <2>2. CASE cTick # 0
    <3>1. /\ cBuffer.start # NoTick /\ cBuffer.start <= EndTick(cBuffer)
          /\ EndTick(cBuffer) = cTick + Delay /\ Len(truth) = EndTick(cBuffer)
          /\ n = EndTick(cBuffer) + 1
      BY <1>1, <2>2
    <3>2. truth' = Append(truth, v)
      <4>1. truth # <<>>
        BY <1>1, <2>2
      <4> QED  BY <1>2, <4>1
    <3>3. BufferOK(b) /\ b.start = cBuffer.start /\ EndTick(b) = n /\ HeldOK(b, truth')
      <4> HIDE DEF n
      <4> QED  BY <1>1, <1>5, <3>1, <3>2, SenderCaptures
    <3>4. cBuffer.start <= n
      BY <1>1, <3>1, TicksAre
    <3> QED  BY <3>1, <3>3, <3>4
  <2> QED  BY <2>1, <2>2
<1> HIDE DEF n
<1>11. SenderOK'
  <2>1. /\ BufferOK(cBuffer') /\ cBuffer'.start # NoTick /\ cBuffer'.start <= EndTick(cBuffer')
        /\ EndTick(cBuffer') = EndTick(b) /\ HeldOK(cBuffer', truth')
    BY <1>7, <1>8, <1>10, SenderCleans
  <2> QED  BY <1>3, <1>9, <1>10, <2>1 DEF SenderOK
<1>12. m \in [end : Nat, states : Seq(Entries)] /\ m.end = n
       /\ Faithful(truth', FirstOf(m), m.states)
  <2>1. Faithful(truth', EndTick(b) - Len(m.states) + 1, m.states)
    BY <1>1, <1>6, <1>10, SenderSends
  <2>2. m.states \in Seq(Entries)
    BY <2>1 DEF Faithful
  <2> QED  BY <1>3, <1>6, <1>10, <2>1, <2>2 DEF FirstOf
<1> QED  BY <1>2, <1>3, <1>9, <1>11, <1>12, SenderSteps

\* A frame that sends the same inputs once more.
LEMMA IdleKeeps ==
    ASSUME InputInv, IdleFrame
    PROVE  InputInv'
<1> DEFINE n == cTick + Delay
           b == cBuffer
           m == PrepareMessage(b, cTick)
           tick == Before(cTick, HistoryDepth)
<1>1. /\ cTick \in Nat /\ truth \in Seq(Values)
      /\ Len(truth) = IF cTick = 0 THEN 0 ELSE cTick + Delay
      /\ BufferOK(cBuffer) /\ HeldOK(cBuffer, truth)
      /\ (cBuffer.start = NoTick <=> cTick = 0)
      /\ cTick > 0 => cBuffer.start <= EndTick(cBuffer) /\ EndTick(cBuffer) = cTick + Delay
      /\ Delay \in Nat /\ Redundancy \in Nat \ {0} /\ HistoryDepth \in Nat \ {0}
  BY InputConstants DEF InputInv, SenderOK
<1>2. /\ cTick > 0 /\ inFlight' = Append(inFlight, m) /\ cBuffer' = Pop(b, tick)
      /\ UNCHANGED <<role, cTick, truth, rTick, rBuffer, exists, queued, rAction, earliest,
                     used, known, rejected>>
  BY DEF IdleFrame, CleanBuffer
<1>3. /\ n \in Nat /\ tick \in Nat /\ tick < n /\ b.start # NoTick /\ b.start <= EndTick(b)
      /\ EndTick(b) = n
  BY <1>1, <1>2 DEF Before
<1>4. m = [end |-> n, states |-> StateSequence(b, Redundancy, n)]
  BY DEF PrepareMessage
<1> HIDE DEF m, tick, n
<1>5. SenderOK'
  <2>1. /\ BufferOK(cBuffer') /\ cBuffer'.start # NoTick /\ cBuffer'.start <= EndTick(cBuffer')
        /\ EndTick(cBuffer') = EndTick(b) /\ HeldOK(cBuffer', truth)
    BY <1>1, <1>2, <1>3, SenderCleans
  <2> QED  BY <1>1, <1>2, <1>3, <2>1 DEF SenderOK, n
<1>6. m \in [end : Nat, states : Seq(Entries)] /\ m.end = n
      /\ Faithful(truth', FirstOf(m), m.states)
  <2>1. Faithful(truth, EndTick(b) - Len(m.states) + 1, m.states)
    BY <1>1, <1>3, <1>4, SenderSends
  <2>2. m.states \in Seq(Entries)
    BY <2>1 DEF Faithful
  <2> QED  BY <1>2, <1>3, <1>4, <2>1, <2>2 DEF FirstOf
<1>7. Grown(truth, truth') /\ cTick' >= cTick /\ m.end = cTick' + Delay
  BY <1>1, <1>2, <1>6 DEF Grown, n
<1> QED  BY <1>2, <1>5, <1>6, <1>7, SenderSteps

-----------------------------------------------------------------------------
(* The receiver. *)

\* The parts that a step of the receiver, or a lost message, leaves alone.
LEMMA MessagesLeft ==
    ASSUME InputInv, NEW i \in DOMAIN inFlight, inFlight' = RemoveAt(inFlight, i),
           UNCHANGED senderVars
    PROVE  /\ SenderOK' /\ MessagesOK'
           /\ MessageOK(truth, inFlight[i]) /\ inFlight[i].states \in Seq(Entries)
           /\ \A last : InOrder(inFlight, last) =>
                          /\ InOrder(inFlight', last) /\ last <= inFlight[i].end
                          /\ i = 1 => InOrder(inFlight', inFlight[i].end)
<1> DEFINE S == [end : Nat, states : Seq(Entries)]
           P == {x \in S : MessageOK(truth, x)}
<1>1. SenderOK /\ inFlight \in Seq(S) /\ \A j \in DOMAIN inFlight : MessageOK(truth, inFlight[j])
  BY DEF InputInv, MessagesOK
<1>2. SenderOK'
  BY <1>1 DEF SenderOK, senderVars
<1>3. inFlight' \in Seq(S) /\ inFlight[i] \in S
      /\ ((\A j \in DOMAIN inFlight : inFlight[j] \in P)
            => \A j \in DOMAIN inFlight' : inFlight'[j] \in P)
  <2> HIDE DEF S, P
  <2> QED  BY <1>1, MessageLess
<1>4. \A j \in DOMAIN inFlight : inFlight[j] \in S
  <2> HIDE DEF S
  <2> QED  BY <1>1
<1>5. \A j \in DOMAIN inFlight' : MessageOK(truth, inFlight'[j])
  BY <1>1, <1>3, <1>4
<1>6. MessagesOK'
  BY <1>3, <1>5 DEF MessagesOK, senderVars
<1>7. ASSUME NEW last, InOrder(inFlight, last)
      PROVE  /\ InOrder(inFlight', last) /\ last <= inFlight[i].end
             /\ i = 1 => InOrder(inFlight', inFlight[i].end)
  <2>1. InOrder(inFlight', last) /\ (i = 1 => InOrder(inFlight', inFlight[1].end))
    <3> HIDE DEF S, P
    <3> QED  BY <1>1, <1>7, StillInOrder
  <2> QED  BY <1>7, <2>1 DEF InOrder
<1>8. inFlight[i].states \in Seq(Entries)
  BY <1>3
<1> QED  BY <1>1, <1>2, <1>6, <1>7, <1>8

\* A message is lost.
LEMMA LoseKeeps ==
    ASSUME InputInv, NEW i \in DOMAIN inFlight, LoseInput(i)
    PROVE  InputInv'
<1>1. /\ inFlight' = RemoveAt(inFlight, i) /\ UNCHANGED senderVars
      /\ UNCHANGED <<role, rTick, rBuffer, exists, queued, rAction, earliest, used, known, rejected>>
  BY DEF LoseInput
<1>2. /\ SenderOK' /\ MessagesOK'
      /\ \A last : InOrder(inFlight, last) => InOrder(inFlight', last)
  BY <1>1, MessagesLeft
<1>3. Current' = Current /\ ReceiverOK'
  BY <1>1 DEF InputInv, ReceiverOK, Current
<1>4. ServerOK => ServerOK'
  BY <1>1, <1>2, <1>3 DEF ServerOK, senderVars
<1>5. ClientOK(Current, truth, known, used, rTick, earliest, rejected)
        = ClientOK(Current, truth, known, used, rTick, earliest, rejected)'
  BY <1>1, <1>3 DEF senderVars
<1> QED  BY <1>1, <1>2, <1>3, <1>4, <1>5 DEF InputInv

\* What a message brings to a buffer.
LEMMA MessageTaken ==
    ASSUME NEW tr, NEW m, MessageOK(tr, m), m.states \in Seq(Entries), NEW b, BufferOK(b)
    PROVE  /\ TookOver(b, tr, FirstOf(m), m.end, UpdateBuffer(b, m.states, m.end))
           /\ m.end = FirstOf(m) + Len(m.states) - 1 /\ Covered(m) = FirstOf(m)..m.end
           /\ m.end \in Nat /\ Faithful(tr, FirstOf(m), m.states)
           /\ FirstOf(m) \in Nat \ {0} /\ m.end \in DOMAIN tr
<1>1. m.end \in Nat /\ Faithful(tr, FirstOf(m), m.states) /\ Len(m.states) \in Nat
  BY DEF MessageOK
<1>2. /\ FirstOf(m) \in Nat \ {0} /\ FirstOf(m) = m.end - Len(m.states) + 1
      /\ Len(m.states) \in 1..Len(m.states)
      /\ \A j \in 1..Len(m.states) : FirstOf(m) + j - 1 \in DOMAIN tr
  BY <1>1 DEF Faithful, FirstOf
<1>3. m.end = FirstOf(m) + Len(m.states) - 1
  BY <1>1, <1>2
<1>4. TookOver(b, tr, FirstOf(m), m.end, UpdateBuffer(b, m.states, m.end))
  BY <1>1, <1>3, MergeIs
<1> QED  BY <1>1, <1>2, <1>3, <1>4 DEF Covered, FirstOf

\* A message reaches the server.
LEMMA ServerReceiveKeeps ==
    ASSUME InputInv, NEW i \in DOMAIN inFlight, ServerReceive(i)
    PROVE  InputInv'
<1> DEFINE m == inFlight[i]
           u == UpdateBuffer(rBuffer, m.states, m.end)
           new == {t \in Covered(m) : t > rTick /\ t > rBuffer.lastRemote}
<1>1. /\ role = "server" /\ inFlight' = RemoveAt(inFlight, i)
      /\ (i = 1 \/ "server" \in Overtaking)
      /\ UNCHANGED <<role, rTick, exists, rAction, earliest, used, rejected>>
      /\ UNCHANGED senderVars
      /\ \/ UNCHANGED <<rBuffer, queued, known>>
         \/ /\ IF exists THEN rBuffer' = u.buffer /\ queued' = queued
                         ELSE queued' = <<u.buffer>> /\ rBuffer' = rBuffer
            /\ known' = (IF exists THEN known ELSE {}) \cup new
  BY DEF ServerReceive, Arrival, TakenByServer
<1>2. /\ SenderOK' /\ MessagesOK' /\ MessageOK(truth, m) /\ m.states \in Seq(Entries)
      /\ \A last : InOrder(inFlight, last) =>
                     /\ InOrder(inFlight', last) /\ last <= m.end
                     /\ i = 1 => InOrder(inFlight', m.end)
  BY <1>1, MessagesLeft
<1>3. ReceiverOK /\ SenderOK
  BY DEF InputInv
<1>4. truth' = truth /\ cTick' = cTick
  BY <1>1 DEF senderVars
<1> HIDE DEF m
<1>5. CASE UNCHANGED <<rBuffer, queued, known>>
  <2>1. Current' = Current /\ ReceiverOK'
    BY <1>1, <1>3, <1>5 DEF ReceiverOK, Current
  <2>2. ServerOK => ServerOK'
    BY <1>1, <1>2, <1>4, <1>5, <2>1 DEF ServerOK
  <2> QED  BY <1>1, <1>2, <2>1, <2>2 DEF InputInv
<1>6. CASE /\ IF exists THEN rBuffer' = u.buffer /\ queued' = queued
                        ELSE queued' = <<u.buffer>> /\ rBuffer' = rBuffer
           /\ known' = (IF exists THEN known ELSE {}) \cup new
  <2>1. /\ BufferOK(rBuffer) /\ exists \in BOOLEAN /\ (~ exists => rBuffer = EmptyBuffer)
        /\ (exists => queued = <<>> /\ Current = rBuffer)
        /\ rTick \in Nat
    BY <1>3 DEF ReceiverOK, Current
  <2>2. /\ TookOver(rBuffer, truth, FirstOf(m), m.end, u)
        /\ m.end = FirstOf(m) + Len(m.states) - 1 /\ Covered(m) = FirstOf(m)..m.end
        /\ m.end \in Nat /\ Faithful(truth, FirstOf(m), m.states) /\ m.end \in DOMAIN truth
    BY <1>2, <2>1, MessageTaken
  <2>3. BufferOK(u.buffer) /\ u.buffer.lastRemote = m.end
    BY <2>2 DEF TookOver
  <2> HIDE DEF u
  <2>4. /\ Current' = u.buffer
        /\ (queued' # <<>> => queued' = <<Current'>>)
        /\ (~ exists' => rBuffer' = EmptyBuffer /\ queued' # <<>>)
        /\ (exists' => queued' = <<>>)
        /\ BufferOK(rBuffer')
    <3>1. CASE exists
      BY <1>1, <1>6, <2>1, <2>3, <3>1 DEF Current
    <3>2. CASE ~ exists
      <4>1. queued' = <<u.buffer>> /\ rBuffer' = rBuffer /\ queued' # <<>>
            /\ queued'[1] = u.buffer
        BY <1>6, <3>2
      <4> QED  BY <1>1, <2>1, <3>2, <4>1 DEF Current
    <3> QED  BY <3>1, <3>2
  <2>5. ReceiverOK'
    BY <1>1, <1>3, <2>3, <2>4 DEF ReceiverOK
  <2>6. ASSUME "server" \notin Overtaking, ServerOK PROVE ServerOK'
    <3> DEFINE kn == IF exists THEN known ELSE {}
    <3>1. i = 1
      BY <1>1, <2>6
    <3>2. /\ InOrder(inFlight, Current.lastRemote)
          /\ ServerHas(Current, truth, known, used, rTick)
      BY <2>6 DEF ServerOK
    <3>3. InOrder(inFlight', m.end) /\ Current.lastRemote <= m.end
      BY <1>2, <3>1, <3>2
    <3>4. ServerHas(rBuffer, truth, kn, used, rTick) /\ m.end >= rBuffer.lastRemote
      <4>1. CASE exists
        <5>1. rBuffer.lastRemote \in Int
          BY <2>1 DEF BufferOK, Buffers, NoTick
        <5> QED  BY <2>1, <2>2, <3>2, <3>3, <4>1, <5>1
      <4>2. CASE ~ exists
        <5>1. kn = {} /\ rBuffer = EmptyBuffer
          BY <2>1, <4>2
        <5>2. ServerHas(EmptyBuffer, truth, {}, used, rTick) /\ EmptyBuffer.lastRemote = -1
          BY ServerStarts DEF NoTick
        <5>3. m.end >= -1
          BY <2>2
        <5> HIDE DEF kn
        <5> QED  BY <5>1, <5>2, <5>3
      <4> QED  BY <4>1, <4>2
    <3>5. known' = kn \cup {t \in FirstOf(m)..m.end : t > rTick /\ t > rBuffer.lastRemote}
      BY <1>6, <2>2
    <3> HIDE DEF kn
    <3>6. ServerHas(u.buffer, truth, known', used, rTick)
      BY <2>1, <2>2, <3>4, <3>5, ServerTakes
    <3>7. m.end <= cTick + Delay
      BY <1>3, <2>2, InputConstants DEF SenderOK
    <3> QED  BY <1>1, <1>4, <2>3, <2>4, <3>3, <3>6, <3>7 DEF ServerOK
  <2> QED  BY <1>1, <1>2, <2>5, <2>6 DEF InputInv
<1> QED  BY <1>1, <1>5, <1>6

\* A tick of the server.
LEMMA ServerTickKeeps ==
    ASSUME InputInv, ServerTick
    PROVE  InputInv'
<1> DEFINE b == Current
           now == rTick + 1
<1>1. /\ role = "server" /\ rTick' = now
      /\ rAction' = IF GetPredict(b, now) # None THEN GetPredict(b, now) ELSE rAction
      /\ rBuffer' = PopKeepingLast(b, Before(now, 1))
      /\ exists' = (exists \/ queued # <<>>)
      /\ queued' = <<>>
      /\ used' = Append(used, rAction')
      /\ UNCHANGED <<role, inFlight, earliest, known, rejected>>
      /\ UNCHANGED senderVars
  BY DEF ServerTick, Current
<1>2. SenderOK /\ MessagesOK /\ ReceiverOK
  BY DEF InputInv
<1>3. SenderOK' /\ MessagesOK'
  BY <1>1, <1>2 DEF SenderOK, MessagesOK, senderVars
<1>4. /\ BufferOK(b) /\ rTick \in Nat /\ rAction \in Values /\ used \in Seq(Values)
      /\ Len(used) = rTick /\ exists \in BOOLEAN
      /\ (~ exists => rBuffer = EmptyBuffer) /\ (exists => queued = <<>>)
      /\ (~ exists /\ queued = <<>> => known = {} /\ b = EmptyBuffer)
      /\ (earliest = NoTick \/ earliest \in 1..rTick)
  BY <1>2 DEF ReceiverOK, Current
<1> HIDE DEF b
<1>5. GetPredict(b, now) \in Values
  <2>1. Get(b, now) \in Values /\ Get(b, EndTick(b)) \in Values
    <3>1. EndTick(b) \in Int /\ now \in Int
      BY <1>4, TicksAre
    <3> QED  BY <1>4, <3>1, GetIs
  <2> QED  BY <2>1 DEF GetPredict, GetLast, Values
<1>6. rAction' \in Values
  BY <1>1, <1>4, <1>5
<1>7. used' \in Seq(Values) /\ Len(used') = now
  BY <1>1, <1>4, <1>6
<1>8. BufferOK(rBuffer') /\ (b.start = NoTick => rBuffer' = b)
  <2>1. Before(now, 1) \in Nat
    BY <1>4 DEF Before
  <2> QED  BY <1>1, <1>4, <2>1, PopKeepingLastIs
<1>9. Current' = rBuffer'
  BY <1>1 DEF Current
<1>10. ReceiverOK'
  <2>1. ~ exists' => rBuffer' = EmptyBuffer /\ known' = {}
    <3>1. EmptyBuffer.start = NoTick
      BY DEF EmptyBuffer
    <3> QED  BY <1>1, <1>4, <1>8, <3>1
  <2>2. earliest' = NoTick \/ earliest' \in 1..rTick'
    BY <1>1, <1>4
  <2> QED  BY <1>1, <1>2, <1>4, <1>6, <1>7, <1>8, <1>9, <2>1, <2>2 DEF ReceiverOK
<1>11. ASSUME ServerOK PROVE ServerOK'
  <2>1. /\ InOrder(inFlight, b.lastRemote) /\ b.lastRemote <= cTick + Delay
        /\ ServerHas(b, truth, known, used, rTick)
    BY <1>11 DEF ServerOK, b
  <2>2. /\ rBuffer'.lastRemote = b.lastRemote
        /\ ServerHas(rBuffer', truth, known, used', now)
    BY <1>1, <1>4, <2>1, ServerSimulates
  <2> QED  BY <1>1, <1>9, <2>1, <2>2 DEF ServerOK, senderVars
<1> QED  BY <1>1, <1>3, <1>10, <1>11 DEF InputInv

\* A message reaches another client.
LEMMA ClientReceiveKeeps ==
    ASSUME InputInv, NEW i \in DOMAIN inFlight, ClientReceive(i)
    PROVE  InputInv'
<1> DEFINE m == inFlight[i]
           u == UpdateBuffer(rBuffer, m.states, m.end)
           early == IF u.mismatch <= rTick THEN EarlierOf(earliest, u.mismatch) ELSE earliest
<1>1. /\ role = "client" /\ inFlight' = RemoveAt(inFlight, i)
      /\ UNCHANGED <<role, rTick, exists, used, rejected>>
      /\ UNCHANGED senderVars
      /\ \/ UNCHANGED <<rBuffer, queued, earliest, known, rAction>>
         \/ /\ Newer(rBuffer, m)
            /\ IF exists THEN rBuffer' = u.buffer /\ UNCHANGED <<queued, rAction>>
                         ELSE queued' = <<u.buffer>> /\ rBuffer' = rBuffer
                              /\ rAction' = GetLast(u.buffer)
            /\ earliest' = early
            /\ ~ exists => known' = Covered(m)
            /\ exists => known' = IF OutOfReach(u) THEN {}
                                  ELSE known \cup {t \in Covered(m) : t > rBuffer.lastRemote}
  BY DEF ClientReceive, Arrival
<1>2. SenderOK' /\ MessagesOK' /\ MessageOK(truth, m) /\ m.states \in Seq(Entries)
  BY <1>1, MessagesLeft
<1>3. ReceiverOK /\ ClientOK(Current, truth, known, used, rTick, earliest, rejected)
  BY <1>1 DEF InputInv
<1>4. truth' = truth
  BY <1>1 DEF senderVars
<1> HIDE DEF m
<1>5. CASE UNCHANGED <<rBuffer, queued, earliest, known, rAction>>
  <2>1. Current' = Current /\ ReceiverOK'
    BY <1>1, <1>3, <1>5 DEF ReceiverOK, Current
  <2>2. ClientOK(Current, truth, known, used, rTick, earliest, rejected)'
    BY <1>1, <1>3, <1>4, <1>5, <2>1
  <2> QED  BY <1>1, <1>2, <2>1, <2>2 DEF InputInv
<1>6. CASE /\ Newer(rBuffer, m)
           /\ IF exists THEN rBuffer' = u.buffer /\ UNCHANGED <<queued, rAction>>
                        ELSE queued' = <<u.buffer>> /\ rBuffer' = rBuffer
                             /\ rAction' = GetLast(u.buffer)
           /\ earliest' = early
           /\ ~ exists => known' = Covered(m)
           /\ exists => known' = IF OutOfReach(u) THEN {}
                                 ELSE known \cup {t \in Covered(m) : t > rBuffer.lastRemote}
  <2> DEFINE kn == IF exists THEN known ELSE {}
  <2>1. /\ BufferOK(rBuffer) /\ exists \in BOOLEAN /\ (~ exists => rBuffer = EmptyBuffer)
        /\ (exists => queued = <<>> /\ Current = rBuffer)
        /\ rTick \in Nat /\ rAction \in Values
        /\ (earliest = NoTick \/ earliest \in 1..rTick)
    BY <1>3 DEF ReceiverOK, Current
  <2>2. /\ TookOver(rBuffer, truth, FirstOf(m), m.end, u)
        /\ m.end = FirstOf(m) + Len(m.states) - 1 /\ Covered(m) = FirstOf(m)..m.end
        /\ m.end \in Nat /\ Faithful(truth, FirstOf(m), m.states)
        /\ FirstOf(m) \in Nat \ {0}
    BY <1>2, <2>1, MessageTaken
  <2> HIDE DEF u
  <2>3. /\ BufferOK(u.buffer) /\ u.buffer.lastRemote = m.end /\ u.mismatch \in Int
        /\ u.mismatch = NoTick => Agreed(rBuffer, truth, FirstOf(m), m.end, u.buffer)
        /\ u.mismatch # NoTick =>
             Differed(rBuffer, truth, FirstOf(m), m.end, u.mismatch, u.buffer)
    BY <2>2 DEF TookOver
  <2>4. m.end > rBuffer.lastRemote
    <3>1. rBuffer.lastRemote \in {NoTick} \cup Nat
      BY <2>1 DEF BufferOK, Buffers
    <3> QED  BY <1>6, <2>2, <3>1 DEF Newer, NoTick
  <2>5. ClientOK(rBuffer, truth, kn, used, rTick, earliest, rejected)
    <3>1. CASE exists
      BY <1>3, <2>1, <3>1
    <3>2. CASE ~ exists
      <4>1. rBuffer = EmptyBuffer /\ kn = {}
        BY <2>1, <3>2
      <4> HIDE DEF kn
      <4> QED  BY <4>1, ClientStarts
    <3> QED  BY <3>1, <3>2
  <2>6. known' = IF u.mismatch # NoTick /\ u.mismatch < rBuffer.start THEN {}
                 ELSE kn \cup {t \in FirstOf(m)..m.end : t > rBuffer.lastRemote}
    <3>1. CASE exists
      BY <1>6, <2>2, <3>1 DEF OutOfReach
    <3>2. CASE ~ exists
      <4>1. rBuffer.start = -1 /\ rBuffer.lastRemote = -1 /\ kn = {} /\ known' = FirstOf(m)..m.end
        BY <1>6, <2>1, <2>2, <3>2 DEF EmptyBuffer, NoTick
      <4>2. u.mismatch # NoTick => u.mismatch \in FirstOf(m)..m.end
        BY <2>3 DEF Differed
      <4>3. ~ (u.mismatch # NoTick /\ u.mismatch < -1)
        BY <2>2, <4>2
      <4>4. FirstOf(m)..m.end = {t \in FirstOf(m)..m.end : t > -1}
        BY <2>2
      <4> HIDE DEF kn
      <4> QED  BY <4>1, <4>3, <4>4
    <3> QED  BY <3>1, <3>2
  <2> HIDE DEF kn
  <2>7. /\ earliest' = NoTick \/ earliest' \in 1..rTick
        /\ ClientOK(u.buffer, truth, known', used, rTick, earliest', rejected)
    <3>1. earliest' = IF u.mismatch <= rTick THEN EarlierOf(earliest, u.mismatch) ELSE earliest
      BY <1>6
    <3> DEFINE b == rBuffer
               c == u.buffer
               x == u.mismatch
               first == FirstOf(m)
               last == m.end
               states == m.states
               early2 == earliest'
               kn2 == known'
    <3>2. Taking(b, truth, first, states, last, kn, used, rTick, earliest, rejected, c, x,
                 early2, kn2)
      BY <2>1, <2>2, <2>3, <2>4, <2>5, <2>6, <3>1 DEF Taking, NewTicks
    <3> HIDE DEF b, c, x, first, last, states, early2, kn2
    <3>3. /\ early2 = NoTick \/ early2 \in 1..rTick
          /\ ClientOK(c, truth, kn2, used, rTick, early2, rejected)
      BY <3>2, ClientTakes
    <3> QED  BY <3>3 DEF c, early2, kn2
  <2>8. /\ Current' = u.buffer
        /\ (queued' # <<>> => queued' = <<Current'>>)
        /\ (~ exists' => rBuffer' = EmptyBuffer /\ queued' # <<>>)
        /\ (exists' => queued' = <<>>)
        /\ BufferOK(rBuffer')
    <3>1. CASE exists
      BY <1>1, <1>6, <2>1, <2>3, <3>1 DEF Current
    <3>2. CASE ~ exists
      <4>1. queued' = <<u.buffer>> /\ rBuffer' = rBuffer /\ queued' # <<>>
            /\ queued'[1] = u.buffer
        BY <1>6, <3>2
      <4> QED  BY <1>1, <2>1, <3>2, <4>1 DEF Current
    <3> QED  BY <3>1, <3>2
  <2>9. rAction' \in Values
    <3>1. GetLast(u.buffer) \in Values
      <4>1. EndTick(u.buffer) \in Int
        BY <2>3, TicksAre
      <4>2. Get(u.buffer, EndTick(u.buffer)) \in Values
        BY <2>3, <4>1, GetIs
      <4> QED  BY <4>2 DEF GetLast, Values
    <3> QED  BY <1>6, <2>1, <3>1
  <2>10. ReceiverOK'
    BY <1>1, <1>3, <2>3, <2>7, <2>8, <2>9 DEF ReceiverOK
  <2>11. ClientOK(Current, truth, known, used, rTick, earliest, rejected)'
    BY <1>1, <1>4, <2>7, <2>8
  <2> QED  BY <1>1, <1>2, <2>10, <2>11 DEF InputInv
<1> QED  BY <1>1, <1>5, <1>6

\* A frame of another client: the replay that is owed, the tick, and what is
\* cleaned of the buffer.
LEMMA ClientFrameKeeps ==
    ASSUME InputInv, NEW n \in 0..1, ClientFrame(n)
    PROVE  InputInv'
<1> DEFINE b == Current
           to == rTick + n
           ex == exists \/ queued # <<>>
           s == [buffer |-> b, action |-> rAction, used |-> used, exists |-> ex]
           r == IF earliest = NoTick \/ TooDeep(earliest) THEN s
                ELSE Simulate(s, ReplayFrom(earliest), rTick)
           f == Simulate(r, rTick + 1, to)
           refused == IF earliest # NoTick /\ TooDeep(earliest)
                      THEN rejected \cup earliest..rTick ELSE rejected
<1>1. /\ role = "client" /\ rTick' = to /\ exists' = ex /\ queued' = <<>>
      /\ rBuffer' = CleanBuffer(f.buffer, to) /\ rAction' = f.action /\ used' = f.used
      /\ rejected' = refused /\ earliest' = NoTick
      /\ UNCHANGED <<role, inFlight, known>>
      /\ UNCHANGED senderVars
  BY DEF ClientFrame, Current
<1>2. SenderOK /\ MessagesOK /\ ReceiverOK
      /\ ClientOK(b, truth, known, used, rTick, earliest, rejected)
  BY <1>1 DEF InputInv
<1>3. SenderOK' /\ MessagesOK' /\ truth' = truth
  BY <1>1, <1>2 DEF SenderOK, MessagesOK, senderVars
<1>4. /\ BufferOK(b) /\ rTick \in Nat /\ rAction \in Values /\ used \in Seq(Values)
      /\ Len(used) = rTick /\ ex \in BOOLEAN
      /\ (~ ex => b = EmptyBuffer /\ known = {})
      /\ (earliest = NoTick \/ earliest \in 1..rTick)
  BY <1>2 DEF ReceiverOK, Current
<1>5. to \in Nat /\ rTick <= to /\ HistoryDepth \in Nat
  BY <1>4, InputConstants
<1>6. s \in SimStates /\ s.buffer = b /\ s.used = used /\ s.exists = ex
  BY <1>4 DEF SimStates, BufferOK
<1> HIDE DEF b, s, ex, to
<1>7. r \in Simulated(truth, known, refused, ex, rTick, rTick)
  <2>1. CASE earliest = NoTick
    <3>1. r = s /\ refused = rejected
      BY <2>1
    <3> HIDE DEF r, refused
    <3> QED  BY <1>2, <1>4, <1>6, <2>1, <3>1 DEF Simulated
  <2>2. CASE earliest # NoTick /\ TooDeep(earliest)
    <3>1. r = s /\ refused = rejected \cup earliest..rTick /\ earliest \in 1..rTick
      BY <1>4, <2>2
    <3>2. ClientOK(b, truth, known, used, rTick, NoTick, rejected \cup earliest..rTick)
      BY <1>2, <1>4, <3>1, ClientRefuses
    <3> HIDE DEF r, refused
    <3> QED  BY <1>4, <1>6, <3>1, <3>2 DEF Simulated
  <2>3. CASE earliest # NoTick /\ ~ TooDeep(earliest)
    <3>1. /\ r = Simulate(s, earliest, rTick) /\ refused = rejected /\ earliest \in 1..rTick
          /\ earliest \in Nat \ {0} /\ earliest <= rTick + 1
          /\ earliest - 1 \in Nat /\ rTick > earliest - 1
      BY <1>4, <2>3 DEF ReplayFrom
    <3>2. ClientOK(b, truth, known, used, earliest - 1, NoTick, rejected)
      BY <1>2, <1>4, <3>1, ClientRewinds
    <3>3. s \in Simulated(truth, known, rejected, ex, rTick, earliest - 1)
      BY <1>4, <1>6, <3>1, <3>2 DEF Simulated
    <3> HIDE DEF r, refused
    <3>4. Simulate(s, earliest, rTick) \in Simulated(truth, known, rejected, ex, rTick, rTick)
      BY <1>4, <3>1, <3>3, SimulateIs
    <3> QED  BY <3>1, <3>4
  <2> QED  BY <2>1, <2>2, <2>3
<1> HIDE DEF r, refused
<1>8. f \in Simulated(truth, known, refused, ex, rTick, to)
  <2>1. /\ rTick + 1 \in Nat \ {0} /\ rTick + 1 <= to + 1 /\ (rTick + 1) - 1 = rTick
    BY <1>4, <1>5
  <2>2. r \in Simulated(truth, known, refused, ex, rTick, (rTick + 1) - 1)
    BY <1>7, <2>1
  <2> QED  BY <1>4, <1>5, <2>1, <2>2, SimulateIs
<1> HIDE DEF f
<1>9. /\ f \in SimStates /\ BufferOK(f.buffer) /\ Len(f.used) = to /\ f.exists = ex
      /\ (~ f.exists => f.buffer = EmptyBuffer /\ known = {})
      /\ ClientOK(f.buffer, truth, known, f.used, to, NoTick, refused)
  <2>1. Len(f.used) = IF rTick > to THEN rTick ELSE to
    BY <1>8 DEF Simulated
  <2>2. Len(f.used) = to
    BY <1>4, <1>5, <2>1
  <2> QED  BY <1>8, <2>2 DEF Simulated
<1>10. Before(to, HistoryDepth) \in Nat /\ Before(to, HistoryDepth) <= to
  BY <1>5 DEF Before
<1>11. rBuffer' = Pop(f.buffer, Before(to, HistoryDepth))
  BY <1>1 DEF CleanBuffer
<1>12. BufferOK(rBuffer') /\ ClientOK(rBuffer', truth, known, f.used, to, NoTick, refused)
  BY <1>5, <1>9, <1>10, <1>11, ClientPops
<1>13. Current' = rBuffer'
  BY <1>1 DEF Current
<1>14. ReceiverOK'
  <2>1. ~ exists' => rBuffer' = EmptyBuffer /\ known' = {}
    <3>1. EmptyBuffer.start = NoTick
      BY DEF EmptyBuffer
    <3> QED  BY <1>1, <1>9, <1>11, <3>1 DEF Pop
  <2>2. rAction' \in Values /\ used' \in Seq(Values)
    BY <1>1, <1>9 DEF SimStates
  <2> QED  BY <1>1, <1>2, <1>4, <1>5, <1>9, <1>12, <1>13, <2>1, <2>2 DEF ReceiverOK
<1>15. ClientOK(Current, truth, known, used, rTick, earliest, rejected)'
  BY <1>1, <1>3, <1>12, <1>13
<1> QED  BY <1>1, <1>3, <1>14, <1>15 DEF InputInv

-----------------------------------------------------------------------------
(* The theorems. *)

\* Nothing was captured, sent or received.
LEMMA InputStarts ==
    ASSUME InputInit
    PROVE  InputInv
<1>1. /\ role \in {"server", "client"}
      /\ cTick = 0 /\ cBuffer = EmptyBuffer /\ truth = <<>>
      /\ inFlight = <<>>
      /\ rTick = 0 /\ rBuffer = EmptyBuffer /\ exists = FALSE /\ queued = <<>>
      /\ rAction = None /\ earliest = NoTick
      /\ used = <<>> /\ known = {} /\ rejected = {}
  BY DEF InputInit
<1>2. Current = EmptyBuffer
  BY <1>1 DEF Current
<1>3. /\ BufferOK(EmptyBuffer) /\ ServerHas(EmptyBuffer, truth, {}, used, rTick)
      /\ EmptyBuffer.lastRemote = NoTick /\ EmptyBuffer.start = NoTick
  BY ServerStarts
<1>4. SenderOK
  <2>1. HeldOK(EmptyBuffer, truth)
    BY <1>3, TicksAre DEF HeldOK
  <2> QED  BY <1>1, <1>3, <2>1 DEF SenderOK
<1>5. MessagesOK
  BY <1>1 DEF MessagesOK
<1>6. ReceiverOK
  <2>1. /\ rTick \in Nat /\ exists \in BOOLEAN /\ rAction \in Values /\ used \in Seq(Values)
        /\ Len(used) = rTick
    <3>1. exists \in BOOLEAN /\ rAction \in Values
      BY <1>1 DEF Values
    <3>2. rTick \in Nat /\ used \in Seq(Values) /\ Len(used) = rTick
      BY <1>1
    <3> QED  BY <3>1, <3>2
  <2> QED  BY <1>1, <1>2, <1>3, <2>1 DEF ReceiverOK
<1>7. ServerOK
  <2>1. NoTick <= cTick + Delay
    BY <1>1, InputConstants DEF NoTick
  <2>2. \A last : InOrder(inFlight, last)
    BY <1>1 DEF InOrder
  <2> QED  BY <1>1, <1>2, <1>3, <2>1, <2>2 DEF ServerOK
<1>8. ClientOK(Current, truth, known, used, rTick, earliest, rejected)
  BY <1>1, <1>2, ClientStarts
<1> QED  BY <1>4, <1>5, <1>6, <1>7, <1>8 DEF InputInv

\* Every step keeps the invariant.
LEMMA InputSteps ==
    ASSUME InputInv, [InputNext]_inputVars
    PROVE  InputInv'
<1>1. ASSUME NEW v \in Actions, CaptureFrame(v) PROVE InputInv'
  BY <1>1, CaptureKeeps
<1>2. CASE IdleFrame
  BY <1>2, IdleKeeps
<1>3. ASSUME NEW i \in DOMAIN inFlight, ServerReceive(i) PROVE InputInv'
  BY <1>3, ServerReceiveKeeps
<1>4. ASSUME NEW i \in DOMAIN inFlight, ClientReceive(i) PROVE InputInv'
  BY <1>4, ClientReceiveKeeps
<1>5. ASSUME NEW i \in DOMAIN inFlight, LoseInput(i) PROVE InputInv'
  BY <1>5, LoseKeeps
<1>6. CASE ServerTick
  BY <1>6, ServerTickKeeps
<1>7. ASSUME NEW n \in 0..1, ClientFrame(n) PROVE InputInv'
  BY <1>7, ClientFrameKeeps
<1>8. CASE UNCHANGED inputVars
  <2>1. Current' = Current
    BY <1>8 DEF inputVars, Current
  <2>2. SenderOK' /\ MessagesOK' /\ ReceiverOK' /\ (ServerOK => ServerOK')
    BY <1>8, <2>1 DEF InputInv, inputVars, SenderOK, MessagesOK, ReceiverOK, ServerOK
  <2>3. ClientOK(Current, truth, known, used, rTick, earliest, rejected)
          = ClientOK(Current, truth, known, used, rTick, earliest, rejected)'
    BY <1>8, <2>1 DEF inputVars
  <2> QED  BY <1>8, <2>2, <2>3 DEF InputInv, inputVars
<1> QED  BY <1>1, <1>2, <1>3, <1>4, <1>5, <1>6, <1>7, <1>8 DEF InputNext

\* Every state of the inputs is sound: of the player's client, of the messages
\* under way, and of the receiver, whichever it is.
THEOREM InputInvAlways == InputSpec => []InputInv
<1>1. InputInit => InputInv
  BY InputStarts
<1>2. InputInv /\ [InputNext]_inputVars => InputInv'
  BY InputSteps
<1> QED  BY <1>1, <1>2, PTL DEF InputSpec

\* What a client accepted it has simulated so, and its buffer says so.
LEMMA ClientInputsTrue ==
    ASSUME InputInv
    PROVE  ReplayedIsTrue /\ ConfirmedIsTrue
<1>1. ReceiverOK
  BY DEF InputInv
<1>2. ASSUME role = "client", queued = <<>>
      PROVE  /\ BufferOK(rBuffer) /\ rTick \in Nat /\ DOMAIN used = 1..rTick
             /\ ClientOK(rBuffer, truth, known, used, rTick, earliest, rejected)
             /\ \A t \in known : t \in Nat \ {0} /\ truth[t] \in Actions
  BY <1>1, <1>2 DEF InputInv, ReceiverOK, Current, ClientOK, KnownOK
<1>3. ASSUME role = "client", earliest = NoTick, queued = <<>>,
             NEW t \in (known \cap DOMAIN used) \ rejected
      PROVE  used[t] = truth[t]
  <2>1. /\ t \in known /\ t \in 1..rTick /\ t \notin rejected /\ t \in Nat
        /\ truth[t] \in Actions /\ rBuffer.start \in Int
    BY <1>2, <1>3 DEF BufferOK, Buffers, NoTick
  <2>2. CASE t >= rBuffer.start
    <3>1. Says(rBuffer, t, truth[t])
      BY <1>2, <1>3, <2>1, <2>2 DEF ClientOK
    <3> QED  BY <1>2, <1>3, <2>1, <3>1 DEF ClientOK
  <2>3. CASE t < rBuffer.start
    BY <1>2, <1>3, <2>1, <2>3 DEF ClientOK
  <2> QED  BY <2>1, <2>2, <2>3
<1>4. ASSUME role = "client", exists, NEW t \in known \cap Ticks(rBuffer)
      PROVE  Get(rBuffer, t) = truth[t]
  <2>1. queued = <<>>
    BY <1>1, <1>4 DEF ReceiverOK
  <2>2. BufferOK(rBuffer) /\ t \in Nat /\ truth[t] \in Actions
    BY <1>2, <1>4, <2>1
  <2>3. t >= rBuffer.start
    BY <2>2, <1>4, TicksAre
  <2>4. Says(rBuffer, t, truth[t])
    BY <1>2, <1>4, <2>1, <2>3 DEF ClientOK
  <2> QED  BY <2>2, <2>4, GetIs
<1> QED  BY <1>3, <1>4 DEF ReplayedIsTrue, ConfirmedIsTrue

\* What came in time the server has simulated so.
LEMMA ServerInputsTrue ==
    ASSUME InputInv, "server" \notin Overtaking
    PROVE  AppliedIsTrue
<1>1. ASSUME role = "server", NEW t \in known \cap DOMAIN used PROVE used[t] = truth[t]
  <2>1. ServerHas(Current, truth, known, used, rTick)
    BY <1>1 DEF InputInv, ServerOK
  <2>2. t <= rTick
    BY <1>1 DEF InputInv, ReceiverOK
  <2> QED  BY <1>1, <2>1, <2>2 DEF ServerHas
<1> QED  BY <1>1 DEF AppliedIsTrue

\* However the messages of a player are lost and overtake each other, another
\* client simulates every tick, in a replay if need be, with the input it
\* accepted for it, and holds no other input as confirmed.
THEOREM ClientInputsAreTrue == InputSpec => [](ReplayedIsTrue /\ ConfirmedIsTrue)
<1>1. InputInv => ReplayedIsTrue /\ ConfirmedIsTrue
  BY ClientInputsTrue
<1> QED  BY <1>1, InputInvAlways, PTL

\* And so does the server with what came in time, if messages reach it in order.
THEOREM InputsAreTrueAlways == "server" \notin Overtaking => (InputSpec => []InputsAreTrue)
<1> SUFFICES ASSUME "server" \notin Overtaking PROVE InputSpec => []InputsAreTrue
  OBVIOUS
<1>1. InputInv => InputsAreTrue
  BY ClientInputsTrue, ServerInputsTrue DEF InputsAreTrue
<1> QED  BY <1>1, InputInvAlways, PTL

-----------------------------------------------------------------------------
(***************************************************************************)
(* RollbackSpawns.                                                         *)
(***************************************************************************)

Kinds == {"Det", "Pre", "Skip", "PreSkip"}

\* An entity is told by its key: it is the only one of its kind and step.
Local == [kind : Kinds, born : Nat, copy : {1}]

Made(k) == [kind |-> k[1], born |-> k[2], copy |-> 1]

Listing == [tick : Int, e : Local]

-----------------------------------------------------------------------------
(* The lists. *)

\* An entity is in the list once.
Once(list) == \A i, j \in 1..Len(list) : list[i].e = list[j].e => i = j

Rising(list) == \A i, j \in 1..Len(list) : i < j => list[i].tick <= list[j].tick

\* What is in c is in the list, in the same order.
Inside(c, list) ==
    \E m \in [1..Len(c) -> 1..Len(list)] :
        /\ \A i, j \in 1..Len(c) : i < j => m[i] < m[j]
        /\ \A i \in 1..Len(c) : c[i] = list[m[i]]

\* A function that takes its values in C.
LEMMA Retyped ==
    ASSUME NEW A, NEW B, NEW C, NEW f \in [A -> B], \A x \in A : f[x] \in C
    PROVE  f \in [A -> C]
OBVIOUS

\* The entities of a list.
LEMMA EntitiesAre ==
    ASSUME NEW list, list \in Seq(Listing)
    PROVE  /\ EntitiesOf(list) = {list[i].e : i \in 1..Len(list)}
           /\ EntitiesOf(list) \subseteq Local
           /\ Len(list) \in Nat
           /\ \A i \in 1..Len(list) : /\ list[i] \in Listing /\ list[i].tick \in Int
                                      /\ list[i].e \in Local /\ list[i].e \in EntitiesOf(list)
<1>1. Len(list) \in Nat /\ DOMAIN list = 1..Len(list) /\ \A i \in 1..Len(list) : list[i] \in Listing
  OBVIOUS
<1>2. EntitiesOf(list) = {list[i].e : i \in 1..Len(list)}
  BY <1>1 DEF EntitiesOf
<1>3. \A i \in 1..Len(list) : list[i].tick \in Int /\ list[i].e \in Local
  BY <1>1 DEF Listing
<1> QED  BY <1>1, <1>2, <1>3

\* What lies inside a list keeps its order and its entries.
LEMMA InsideKeeps ==
    ASSUME NEW c, c \in Seq(Listing), NEW list, list \in Seq(Listing), Inside(c, list)
    PROVE  /\ EntitiesOf(c) \subseteq EntitiesOf(list)
           /\ Once(list) => Once(c)
           /\ Rising(list) => Rising(c)
           /\ \A i \in 1..Len(c) : \E j \in 1..Len(list) : c[i] = list[j]
<1>1. PICK m \in [1..Len(c) -> 1..Len(list)] :
        /\ \A i, j \in 1..Len(c) : i < j => m[i] < m[j]
        /\ \A i \in 1..Len(c) : c[i] = list[m[i]]
  BY DEF Inside
<1>2. \A i \in 1..Len(c) : m[i] \in 1..Len(list) /\ c[i] = list[m[i]]
  BY <1>1
<1>3. EntitiesOf(c) \subseteq EntitiesOf(list)
  BY <1>2, EntitiesAre
<1>4. ASSUME Once(list) PROVE Once(c)
  <2>1. ASSUME NEW i \in 1..Len(c), NEW j \in 1..Len(c), c[i].e = c[j].e PROVE i = j
    <3>0. list[m[i]].e = list[m[j]].e /\ m[i] \in 1..Len(list) /\ m[j] \in 1..Len(list)
      BY <2>1, <1>2
    <3>1. m[i] = m[j]
      BY <3>0, <1>4 DEF Once
    <3>2. i \in Int /\ j \in Int
      OBVIOUS
    <3>3. ~ (i < j) /\ ~ (j < i)
      <4>1. m[i] \in Int /\ m[j] \in Int
        BY <1>2
      <4> QED  BY <3>1, <4>1, <1>1
    <3> QED  BY <3>2, <3>3
  <2> QED  BY <2>1 DEF Once
<1>5. ASSUME Rising(list) PROVE Rising(c)
  BY <1>1, <1>2, <1>5 DEF Rising
<1> QED  BY <1>2, <1>3, <1>4, <1>5

\* What a list keeps of another one: retain.
LEMMA WithoutIs ==
    ASSUME NEW list, list \in Seq(Listing), NEW S
    PROVE  /\ Without(list, S) \in Seq(Listing)
           /\ Inside(Without(list, S), list)
           /\ EntitiesOf(Without(list, S)) = EntitiesOf(list) \ S
<1> DEFINE n == Len(list)
           Turn(k, l) == IF list[k].e \in S THEN l ELSE Append(l, list[k])
           After(f) == [k \in 0..n |-> IF k = 0 THEN <<>>
                                       ELSE IF list[k].e \in S THEN f[k - 1]
                                       ELSE Append(f[k - 1], list[k])]
           turns == [k \in 1..n |-> [l \in Seq(Listing) |-> Turn(k, l)]]
           run == CHOOSE f : f = After(f)
           Kept(k, l, m) ==
               /\ m \in [1..Len(l) -> 1..k]
               /\ \A i, j \in 1..Len(l) : i < j => m[i] < m[j]
               /\ \A i \in 1..Len(l) : l[i] = list[m[i]] /\ l[i].e \notin S
               /\ \A i \in 1..k : list[i].e \notin S => \E j \in 1..Len(l) : m[j] = i
           P == [k \in 0..n |-> {l \in Seq(Listing) : \E m : Kept(k, l, m)}]
<1>1. n \in Nat /\ <<>> \in Seq(Listing) /\ \A k \in 1..n : list[k] \in Listing
  OBVIOUS
<1>2. ASSUME NEW k \in 1..n, NEW l \in Seq(Listing)
      PROVE  Turn(k, l) \in Seq(Listing)
  BY <1>1
<1>3. turns \in [1..n -> [Seq(Listing) -> Seq(Listing)]]
  BY <1>2
<1>4. PICK f \in [0..n -> Seq(Listing)] : f[0] = <<>> /\ \A k \in 1..n : f[k] = turns[k][f[k - 1]]
  <2> DEFINE T == Seq(Listing)
             e == <<>>
  <2>1. n \in Nat /\ e \in T /\ turns \in [1..n -> [T -> T]]
    BY <1>1, <1>3
  <2> HIDE DEF turns, n, T, e
  <2>2. \E f \in [0..n -> T] : f[0] = e /\ \A k \in 1..n : f[k] = turns[k][f[k - 1]]
    BY ONLY <2>1, RunExists
  <2> QED  BY <2>2 DEF T, e
<1>5. f = After(f)
  <2>1. ASSUME NEW k \in 1..n PROVE f[k] = Turn(k, f[k - 1])
    <3>1. k - 1 \in 0..n
      BY <1>1
    <3>2. f[k - 1] \in Seq(Listing)
      <4> HIDE DEF turns, n, Turn
      <4> QED  BY <3>1
    <3>3. f[k] = turns[k][f[k - 1]]
      <4> HIDE DEF turns, n, Turn
      <4> QED  BY <1>4
    <3> HIDE DEF n, Turn
    <3> QED  BY <3>2, <3>3
  <2>2. \A k \in 0..n : k # 0 => k \in 1..n
    BY <1>1
  <2> HIDE DEF n, turns
  <2> QED  BY ONLY <1>4, <2>1, <2>2
<1>6. run = After(run)
  <2> HIDE DEF After
  <2> QED  BY <1>5
<1>7. run[0] = <<>> /\ \A k \in 1..n : run[k] = Turn(k, run[k - 1])
  <2>1. run[0] = <<>>
    <3> HIDE DEF run, n
    <3> QED  BY <1>6, <1>1
  <2>2. ASSUME NEW k \in 1..n PROVE run[k] = Turn(k, run[k - 1])
    <3>1. k \in 0..n /\ k # 0
      BY <1>1
    <3> HIDE DEF run, n
    <3> QED  BY <1>6, <3>1
  <2> QED  BY <2>1, <2>2
<1>8. ASSUME NEW k \in 1..n, NEW l \in Seq(Listing), NEW m, Kept(k - 1, l, m)
      PROVE  \E m2 : Kept(k, Turn(k, l), m2)
  <2>1. Len(l) \in Nat /\ k \in Nat /\ k - 1 \in Nat /\ \A i \in 1..(k - 1) : i \in 1..k
    BY <1>1
  <2>2. \A i \in 1..Len(l) : m[i] \in 1..(k - 1)
    BY <1>8
  <2>3. \A i \in 1..k : i \in 1..(k - 1) \/ i = k
    BY <2>1
  <2> HIDE DEF n
  <2>4. CASE list[k].e \in S
    <3>1. Kept(k, l, m)
      <4>0. m \in [1..Len(l) -> 1..(k - 1)] /\ \A i \in 1..Len(l) : m[i] \in 1..k
        BY <1>8, <2>1, <2>2
      <4>1. m \in [1..Len(l) -> 1..k]
        BY ONLY <4>0, Retyped
      <4> QED  BY <4>1, <1>8, <2>3, <2>4
    <3>2. Turn(k, l) = l
      BY <2>4
    <3> HIDE DEF Kept, Turn
    <3> QED  BY <3>1, <3>2
  <2>5. CASE list[k].e \notin S
    <3> DEFINE c == Append(l, list[k])
               m2 == [i \in 1..Len(c) |-> IF i <= Len(l) THEN m[i] ELSE k]
    <3>1. /\ Len(c) = Len(l) + 1 /\ c[Len(l) + 1] = list[k] /\ \A i \in 1..Len(l) : c[i] = l[i]
      BY <2>1, <1>1
    <3>2. \A i \in 1..Len(c) : i \in 1..Len(l) \/ i = Len(l) + 1
      BY <2>1, <3>1
    <3>3. \A i \in 1..Len(l) : i \in 1..Len(c) /\ i <= Len(l)
      BY <2>1, <3>1
    <3>4. Len(l) + 1 \in 1..Len(c) /\ ~ (Len(l) + 1 <= Len(l)) /\ k \in 1..k
      BY <2>1, <3>1
    <3> HIDE DEF c
    <3>5. (\A i \in 1..Len(l) : m2[i] = m[i]) /\ m2[Len(l) + 1] = k
      BY <3>3, <3>4
    <3>6. m2 \in [1..Len(c) -> 1..k]
      <4>1. \A i \in 1..Len(c) : m2[i] \in 1..k
        BY <3>2, <3>4, <3>5, <2>1, <2>2
      <4> QED  BY <4>1
    <3> HIDE DEF m2
    <3>7. ASSUME NEW i \in 1..Len(c), NEW j \in 1..Len(c), i < j PROVE m2[i] < m2[j]
      <4>1. i \in 1..Len(l)
        BY <3>7, <3>1, <2>1
      <4>2. CASE j \in 1..Len(l)
        BY <4>1, <4>2, <3>5, <3>7, <1>8
      <4>3. CASE j = Len(l) + 1
        BY <4>1, <4>3, <3>5, <2>2, <2>1
      <4> QED  BY <3>2, <4>2, <4>3
    <3>8. ASSUME NEW i \in 1..Len(c) PROVE c[i] = list[m2[i]] /\ c[i].e \notin S
      BY <3>1, <3>2, <3>5, <1>8, <2>5
    <3>9. ASSUME NEW i \in 1..k, list[i].e \notin S PROVE \E j \in 1..Len(c) : m2[j] = i
      <4>1. CASE i \in 1..(k - 1)
        <5>1. PICK j \in 1..Len(l) : m[j] = i
          BY <4>1, <3>9, <1>8
        <5> QED  BY <5>1, <3>3, <3>5
      <4>2. CASE i = k
        BY <4>2, <3>4, <3>5
      <4> QED  BY <2>3, <4>1, <4>2
    <3>10. Kept(k, c, m2)
      BY <3>6, <3>7, <3>8, <3>9
    <3>11. Turn(k, l) = c
      BY <2>5 DEF c
    <3> HIDE DEF Kept, Turn
    <3> QED  BY <3>10, <3>11
  <2> QED  BY <2>4, <2>5
<1>9. ASSUME NEW k \in 1..n, run[k - 1] \in P[k - 1] PROVE run[k] \in P[k]
  <2>1. k - 1 \in 0..n /\ k \in 0..n
    BY <1>1
  <2>2. PICK l : l = run[k - 1]
    OBVIOUS
  <2>3. l \in Seq(Listing) /\ \E m : Kept(k - 1, l, m)
    <3> HIDE DEF run, n, Kept
    <3> QED  BY <1>9, <2>1, <2>2
  <2>4. run[k] = Turn(k, l)
    <3> HIDE DEF run, n, Turn
    <3> QED  BY <1>7, <2>2
  <2>5. Turn(k, l) \in Seq(Listing) /\ \E m : Kept(k, Turn(k, l), m)
    <3> HIDE DEF Turn, Kept, n
    <3> QED  BY <2>3, <1>2, <1>8
  <2> HIDE DEF run, n, Turn, Kept
  <2> QED  BY <2>1, <2>4, <2>5
<1>10. run[0] \in P[0]
  <2>1. Kept(0, <<>>, <<>>)
    OBVIOUS
  <2>2. 0 \in 0..n
    BY <1>1
  <2> HIDE DEF run, n, Kept
  <2> QED  BY <1>7, <1>1, <2>1, <2>2
<1>11. run[n] \in P[n]
  <2> HIDE DEF run, P, n
  <2> QED  BY ONLY <1>1, <1>9, <1>10, RunPasses
<1>12. PICK c, m : c = run[n] /\ c \in Seq(Listing) /\ Kept(n, c, m)
  <2>1. n \in 0..n
    BY <1>1
  <2> HIDE DEF run, n, Kept
  <2> QED  BY <1>11, <2>1
<1>13. Without(list, S) = c
  <2>1. Without(list, S) = run[n]
    BY DEF Without
  <2> HIDE DEF run, n
  <2> QED  BY <2>1, <1>12
<1>14. Inside(c, list)
  BY SMT, ZenonT(60), <1>12 DEF Inside
<1>15. EntitiesOf(c) = EntitiesOf(list) \ S
  <2>0. c \in Seq(Listing)
    BY <1>12
  <2>1. EntitiesOf(c) = {c[i].e : i \in 1..Len(c)} /\ EntitiesOf(list) = {list[i].e : i \in 1..n}
    <3> HIDE DEF Kept
    <3> QED  BY <2>0, EntitiesAre
  <2>2. \A i \in 1..Len(c) : m[i] \in 1..n /\ c[i] = list[m[i]] /\ c[i].e \notin S
    BY <1>12
  <2>3. \A i \in 1..n : list[i].e \notin S => \E j \in 1..Len(c) : m[j] = i
    BY <1>12
  <2> HIDE DEF n, Kept
  <2>4. \A x \in EntitiesOf(c) : x \in EntitiesOf(list) \ S
    BY <2>1, <2>2
  <2>5. ASSUME NEW x \in EntitiesOf(list), x \notin S PROVE x \in EntitiesOf(c)
    <3>1. PICK i \in 1..n : x = list[i].e
      BY <2>1
    <3>2. PICK j \in 1..Len(c) : m[j] = i
      BY <2>3, <2>5, <3>1
    <3> QED  BY <2>1, <2>2, <3>1, <3>2
  <2> QED  BY <2>4, <2>5
<1> QED  BY <1>12, <1>13, <1>14, <1>15

\* Each entry has the tick of the step in which its entity was spawned.
Ticked(list, sh) == \A i \in 1..Len(list) : list[i].tick = list[i].e.born + sh

\* The two lists hold the prespawned entities of E, each once.
Tracked(u, m, E, sh) ==
    /\ u \in Seq(Listing) /\ m \in Seq(Listing)
    /\ EntitiesOf(u) \cup EntitiesOf(m) = {e \in E : IsPrespawned(e)}
    /\ EntitiesOf(u) \cap EntitiesOf(m) = {}
    /\ Once(u) /\ Once(m)
    /\ Ticked(u, sh) /\ Ticked(m, sh)

\* What lies inside a list keeps its ticks.
LEMMA InsideTicked ==
    ASSUME NEW c, c \in Seq(Listing), NEW list, list \in Seq(Listing), Inside(c, list),
           NEW sh, Ticked(list, sh)
    PROVE  Ticked(c, sh)
<1>1. \A i \in 1..Len(c) : \E j \in 1..Len(list) : c[i] = list[j]
  BY InsideKeeps
<1> QED  BY <1>1 DEF Ticked

\* Entities leave both lists when they are despawned.
LEMMA TrackedWithout ==
    ASSUME NEW u, NEW m, NEW E, NEW sh, Tracked(u, m, E, sh), NEW S
    PROVE  /\ Tracked(Without(u, S), Without(m, S), E \ S, sh)
           /\ Rising(u) => Rising(Without(u, S))
<1>1. u \in Seq(Listing) /\ m \in Seq(Listing)
  BY DEF Tracked
<1>2. /\ Without(u, S) \in Seq(Listing) /\ Inside(Without(u, S), u)
      /\ EntitiesOf(Without(u, S)) = EntitiesOf(u) \ S
  BY <1>1, WithoutIs
<1>3. /\ Without(m, S) \in Seq(Listing) /\ Inside(Without(m, S), m)
      /\ EntitiesOf(Without(m, S)) = EntitiesOf(m) \ S
  BY <1>1, WithoutIs
<1>4. /\ Once(u) => Once(Without(u, S))
      /\ Rising(u) => Rising(Without(u, S))
      /\ Once(m) => Once(Without(m, S))
  BY <1>1, <1>2, <1>3, InsideKeeps
<1>5. Ticked(Without(u, S), sh) /\ Ticked(Without(m, S), sh)
  BY <1>1, <1>2, <1>3, InsideTicked DEF Tracked
<1>6. EntitiesOf(u) \cup EntitiesOf(m) = {e \in E : IsPrespawned(e)}
      /\ EntitiesOf(u) \cap EntitiesOf(m) = {} /\ Once(u) /\ Once(m)
  BY DEF Tracked
<1>7. /\ EntitiesOf(Without(u, S)) \cup EntitiesOf(Without(m, S)) = {e \in E \ S : IsPrespawned(e)}
      /\ EntitiesOf(Without(u, S)) \cap EntitiesOf(Without(m, S)) = {}
  <2>1. {e \in E \ S : IsPrespawned(e)} = {e \in E : IsPrespawned(e)} \ S
    OBVIOUS
  <2> QED  BY <2>1, <1>2, <1>3, <1>6
<1> QED  BY <1>2, <1>3, <1>4, <1>5, <1>6, <1>7 DEF Tracked

\* A list with one entry more.
LEMMA AppendIs ==
    ASSUME NEW list, list \in Seq(Listing), NEW x \in Listing
    PROVE  /\ Append(list, x) \in Seq(Listing) /\ Len(Append(list, x)) = Len(list) + 1
           /\ \A i \in 1..Len(list) : Append(list, x)[i] = list[i]
           /\ Append(list, x)[Len(list) + 1] = x
           /\ \A i \in 1..(Len(list) + 1) : i \in 1..Len(list) \/ i = Len(list) + 1
           /\ EntitiesOf(Append(list, x)) = EntitiesOf(list) \cup {x.e}
<1> DEFINE c == Append(list, x)
<1>1. Len(list) \in Nat
  OBVIOUS
<1>2. c \in Seq(Listing) /\ Len(c) = Len(list) + 1
  OBVIOUS
<1>3. (\A i \in 1..Len(list) : c[i] = list[i]) /\ c[Len(list) + 1] = x
  BY <1>1
<1>4. \A i \in 1..(Len(list) + 1) : i \in 1..Len(list) \/ i = Len(list) + 1
  BY <1>1
<1> HIDE DEF c
<1>5. EntitiesOf(c) = EntitiesOf(list) \cup {x.e}
  <2>1. /\ EntitiesOf(c) = {c[i].e : i \in 1..(Len(list) + 1)}
        /\ EntitiesOf(list) = {list[i].e : i \in 1..Len(list)}
    BY <1>2, EntitiesAre
  <2>2. \A i \in 1..Len(list) : i \in 1..(Len(list) + 1)
    BY <1>1
  <2>3. Len(list) + 1 \in 1..(Len(list) + 1)
    BY <1>1
  <2>4. \A e \in EntitiesOf(c) : e \in EntitiesOf(list) \cup {x.e}
    BY <2>1, <1>3, <1>4
  <2>5. \A e \in EntitiesOf(list) : e \in EntitiesOf(c)
    BY <2>1, <2>2, <1>3
  <2>6. x.e \in EntitiesOf(c)
    BY <2>1, <2>3, <1>3
  <2> QED  BY <2>4, <2>5, <2>6
<1> QED  BY <1>2, <1>3, <1>4, <1>5 DEF c

\* What a new entry keeps.
LEMMA AppendKeeps ==
    ASSUME NEW list, list \in Seq(Listing), NEW x \in Listing, NEW sh
    PROVE  /\ Once(list) /\ x.e \notin EntitiesOf(list) => Once(Append(list, x))
           /\ Ticked(list, sh) /\ x.tick = x.e.born + sh => Ticked(Append(list, x), sh)
           /\ Rising(list) /\ (\A i \in 1..Len(list) : list[i].tick <= x.tick)
                => Rising(Append(list, x))
<1> DEFINE c == Append(list, x)
<1>1. /\ Len(c) = Len(list) + 1
      /\ \A i \in 1..Len(list) : c[i] = list[i]
      /\ c[Len(list) + 1] = x
      /\ \A i \in 1..(Len(list) + 1) : i \in 1..Len(list) \/ i = Len(list) + 1
  BY AppendIs
<1>2. Len(list) \in Nat /\ \A i \in 1..Len(list) : list[i].e \in EntitiesOf(list) /\ list[i].tick \in Int
  BY EntitiesAre
<1> HIDE DEF c
<1>3. ASSUME Once(list), x.e \notin EntitiesOf(list) PROVE Once(c)
  <2>1. ASSUME NEW i \in 1..Len(c), NEW j \in 1..Len(c), c[i].e = c[j].e PROVE i = j
    <3>1. CASE i \in 1..Len(list) /\ j \in 1..Len(list)
      BY <3>1, <2>1, <1>1, <1>3 DEF Once
    <3>2. CASE i \in 1..Len(list) /\ j = Len(list) + 1
      BY <3>2, <2>1, <1>1, <1>2, <1>3
    <3>3. CASE i = Len(list) + 1 /\ j \in 1..Len(list)
      BY <3>3, <2>1, <1>1, <1>2, <1>3
    <3>4. CASE i = Len(list) + 1 /\ j = Len(list) + 1
      BY <3>4
    <3> QED  BY <1>1, <3>1, <3>2, <3>3, <3>4
  <2> QED  BY <2>1 DEF Once
<1>4. ASSUME Ticked(list, sh), x.tick = x.e.born + sh PROVE Ticked(c, sh)
  BY <1>1, <1>4 DEF Ticked
<1>5. ASSUME Rising(list), \A i \in 1..Len(list) : list[i].tick <= x.tick PROVE Rising(c)
  <2>1. ASSUME NEW i \in 1..Len(c), NEW j \in 1..Len(c), i < j PROVE c[i].tick <= c[j].tick
    <3>1. i \in 1..Len(list)
      BY <2>1, <1>1, <1>2
    <3>2. CASE j \in 1..Len(list)
      BY <3>1, <3>2, <2>1, <1>1, <1>5 DEF Rising
    <3>3. CASE j = Len(list) + 1
      BY <3>1, <3>3, <1>1, <1>5
    <3> QED  BY <1>1, <3>2, <3>3
  <2> QED  BY <2>1 DEF Rising
<1> QED  BY <1>3, <1>4, <1>5 DEF c

\* A new prespawned entity.
LEMMA TrackedSpawn ==
    ASSUME NEW u, NEW m, NEW E, NEW sh \in Int, Tracked(u, m, E, sh),
           NEW e \in Local, e \notin E, IsPrespawned(e)
    PROVE  /\ Tracked(Append(u, Entry(e.born + sh, e)), m, E \cup {e}, sh)
           /\ Rising(u) /\ (\A i \in 1..Len(u) : u[i].tick <= e.born + sh)
                => Rising(Append(u, Entry(e.born + sh, e)))
<1> DEFINE x == Entry(e.born + sh, e)
           c == Append(u, x)
<1>1. x \in Listing /\ x.e = e /\ x.tick = e.born + sh
  BY DEF Listing, Local, Entry
<1>2. u \in Seq(Listing) /\ m \in Seq(Listing) /\ Once(u) /\ Once(m) /\ Ticked(u, sh) /\ Ticked(m, sh)
  BY DEF Tracked
<1>3. /\ EntitiesOf(u) \cup EntitiesOf(m) = {y \in E : IsPrespawned(y)}
      /\ EntitiesOf(u) \cap EntitiesOf(m) = {}
  BY DEF Tracked
<1> HIDE DEF x
<1>4. c \in Seq(Listing) /\ EntitiesOf(c) = EntitiesOf(u) \cup {e}
  BY <1>1, <1>2, AppendIs
<1>5. e \notin EntitiesOf(u) /\ e \notin EntitiesOf(m)
  BY <1>3
<1>6. Once(c) /\ Ticked(c, sh)
  BY <1>1, <1>2, <1>5, AppendKeeps
<1>7. Rising(u) /\ (\A i \in 1..Len(u) : u[i].tick <= e.born + sh) => Rising(c)
  <2>1. SUFFICES ASSUME Rising(u), \A i \in 1..Len(u) : u[i].tick <= e.born + sh PROVE Rising(c)
    OBVIOUS
  <2>2. \A i \in 1..Len(u) : u[i].tick <= x.tick
    BY <2>1, <1>1
  <2> QED  BY <2>1, <2>2, <1>1, <1>2, AppendKeeps
<1>8. /\ EntitiesOf(c) \cup EntitiesOf(m) = {y \in E \cup {e} : IsPrespawned(y)}
      /\ EntitiesOf(c) \cap EntitiesOf(m) = {}
  <2>1. {y \in E \cup {e} : IsPrespawned(y)} = {y \in E : IsPrespawned(y)} \cup {e}
    OBVIOUS
  <2> QED  BY <2>1, <1>3, <1>4, <1>5
<1> HIDE DEF c
<1>9. Tracked(c, m, E \cup {e}, sh)
  BY <1>2, <1>4, <1>6, <1>8 DEF Tracked
<1> QED  BY <1>7, <1>9 DEF c, x

\* An entity that is not prespawned is in no list.
LEMMA TrackedElse ==
    ASSUME NEW u, NEW m, NEW E, NEW F, NEW sh, Tracked(u, m, E, sh),
           {e \in F : IsPrespawned(e)} = {e \in E : IsPrespawned(e)}
    PROVE  Tracked(u, m, F, sh)
BY DEF Tracked

\* What RemoveAt leaves.
LEMMA RemovedIs ==
    ASSUME NEW list, list \in Seq(Listing), NEW i \in 1..Len(list), Once(list)
    PROVE  /\ RemoveAt(list, i) \in Seq(Listing) /\ Inside(RemoveAt(list, i), list)
           /\ EntitiesOf(RemoveAt(list, i)) = EntitiesOf(list) \ {list[i].e}
<1> DEFINE c == RemoveAt(list, i)
           n == Len(list)
           m == [j \in 1..(n - 1) |-> IF j < i THEN j ELSE j + 1]
<1>1. n \in Nat /\ i \in 1..n
  OBVIOUS
<1>2. /\ c \in Seq(Listing) /\ Len(c) = n - 1
      /\ \A j \in 1..(n - 1) : c[j] = IF j < i THEN list[j] ELSE list[j + 1]
  BY RemoveAtIs
<1> HIDE DEF c, n
<1>3. /\ m \in [1..(n - 1) -> 1..n]
      /\ \A j \in 1..(n - 1) : m[j] = (IF j < i THEN j ELSE j + 1) /\ m[j] # i /\ m[j] \in 1..n
      /\ \A j, k \in 1..(n - 1) : j < k => m[j] < m[k]
  BY <1>1
<1> HIDE DEF m
<1>4. \A j \in 1..(n - 1) : c[j] = list[m[j]]
  <2>1. ASSUME NEW j \in 1..(n - 1) PROVE c[j] = list[m[j]]
    <3>1. CASE j < i
      BY <3>1, <1>2, <1>3
    <3>2. CASE ~ (j < i)
      BY <3>2, <1>2, <1>3
    <3> QED  BY <3>1, <3>2
  <2> QED  BY <2>1
<1>5. Inside(c, list)
  BY <1>2, <1>3, <1>4 DEF Inside, n
<1>6. /\ EntitiesOf(c) = {c[j].e : j \in 1..(n - 1)}
      /\ EntitiesOf(list) = {list[j].e : j \in 1..n}
  BY <1>2, EntitiesAre DEF n
<1>7. ASSUME NEW e \in EntitiesOf(c) PROVE e \in EntitiesOf(list) \ {list[i].e}
  <2>1. PICK j \in 1..(n - 1) : e = list[m[j]].e
    BY <1>4, <1>6
  <2>2. m[j] \in 1..n /\ m[j] # i
    BY <1>3
  <2>3. list[m[j]].e # list[i].e
    BY <2>2, <1>1 DEF Once, n
  <2> QED  BY <2>1, <2>2, <2>3, <1>6
<1>8. ASSUME NEW e \in EntitiesOf(list), e # list[i].e PROVE e \in EntitiesOf(c)
  <2>1. PICK j \in 1..n : e = list[j].e
    BY <1>6
  <2>2. j # i
    BY <2>1, <1>8
  <2>3. CASE j < i
    <3>1. j \in 1..(n - 1) /\ m[j] = j
      BY <2>3, <1>1, <1>3
    <3> QED  BY <3>1, <2>1, <1>4, <1>6
  <2>4. CASE j > i
    <3>1. j - 1 \in 1..(n - 1) /\ m[j - 1] = j
      BY <2>4, <1>1, <1>3
    <3> QED  BY <3>1, <2>1, <1>4, <1>6
  <2> QED  BY <2>2, <2>3, <2>4, <1>1
<1>9. EntitiesOf(c) = EntitiesOf(list) \ {list[i].e}
  BY <1>7, <1>8
<1> QED  BY <1>2, <1>5, <1>9 DEF c

\* A prespawned entity is matched.
LEMMA TrackedMatch ==
    ASSUME NEW u, NEW m, NEW E, NEW sh, Tracked(u, m, E, sh), NEW i \in 1..Len(u)
    PROVE  /\ Tracked(RemoveAt(u, i), Append(m, u[i]), E, sh)
           /\ Rising(u) => Rising(RemoveAt(u, i))
<1>1. u \in Seq(Listing) /\ m \in Seq(Listing) /\ Once(u) /\ Once(m) /\ Ticked(u, sh) /\ Ticked(m, sh)
  BY DEF Tracked
<1>2. /\ EntitiesOf(u) \cup EntitiesOf(m) = {y \in E : IsPrespawned(y)}
      /\ EntitiesOf(u) \cap EntitiesOf(m) = {}
  BY DEF Tracked
<1>3. /\ RemoveAt(u, i) \in Seq(Listing) /\ Inside(RemoveAt(u, i), u)
      /\ EntitiesOf(RemoveAt(u, i)) = EntitiesOf(u) \ {u[i].e}
  BY <1>1, RemovedIs
<1>4. u[i] \in Listing /\ u[i].e \in EntitiesOf(u)
  BY <1>1, EntitiesAre
<1>5. u[i].e \notin EntitiesOf(m) /\ u[i].tick = u[i].e.born + sh
  BY <1>1, <1>2, <1>4 DEF Ticked
<1>6. Append(m, u[i]) \in Seq(Listing) /\ EntitiesOf(Append(m, u[i])) = EntitiesOf(m) \cup {u[i].e}
  BY <1>1, <1>4, AppendIs
<1>7. Once(Append(m, u[i])) /\ Ticked(Append(m, u[i]), sh)
  BY <1>1, <1>4, <1>5, AppendKeeps
<1>8. /\ Once(RemoveAt(u, i)) /\ Ticked(RemoveAt(u, i), sh)
      /\ Rising(u) => Rising(RemoveAt(u, i))
  BY <1>1, <1>3, InsideKeeps, InsideTicked
<1>9. /\ EntitiesOf(RemoveAt(u, i)) \cup EntitiesOf(Append(m, u[i])) = {y \in E : IsPrespawned(y)}
      /\ EntitiesOf(RemoveAt(u, i)) \cap EntitiesOf(Append(m, u[i])) = {}
  BY <1>2, <1>3, <1>4, <1>6
<1> QED  BY <1>3, <1>6, <1>7, <1>8, <1>9 DEF Tracked

\* A list whose ticks are moved.
LEMMA ShiftedIs ==
    ASSUME NEW list, list \in Seq(Listing), NEW delta \in Int
    PROVE  /\ ShiftedBy(list, delta) \in Seq(Listing)
           /\ Len(ShiftedBy(list, delta)) = Len(list)
           /\ \A i \in 1..Len(list) : /\ ShiftedBy(list, delta)[i].tick = list[i].tick + delta
                                      /\ ShiftedBy(list, delta)[i].e = list[i].e
<1> DEFINE c == ShiftedBy(list, delta)
<1>1. Len(list) \in Nat /\ DOMAIN list = 1..Len(list) /\ \A i \in 1..Len(list) : list[i] \in Listing
  OBVIOUS
<1>2. c = [i \in 1..Len(list) |-> [list[i] EXCEPT !.tick = @ + delta]]
  BY <1>1 DEF ShiftedBy
<1>3. ASSUME NEW i \in 1..Len(list)
      PROVE  c[i] \in Listing /\ c[i].tick = list[i].tick + delta /\ c[i].e = list[i].e
  BY <1>1, <1>2 DEF Listing
<1>4. c \in Seq(Listing) /\ Len(c) = Len(list)
  <2>1. c \in [1..Len(list) -> Listing]
    BY <1>2, <1>3
  <2> HIDE DEF c
  <2> QED  BY <2>1, <1>1
<1> QED  BY <1>3, <1>4

\* The timeline is shifted.
LEMMA TrackedShift ==
    ASSUME NEW u, NEW m, NEW E, NEW sh \in Int, Tracked(u, m, E, sh), NEW delta \in Int
    PROVE  /\ Tracked(ShiftedBy(u, delta), ShiftedBy(m, delta), E, sh + delta)
           /\ Rising(u) => Rising(ShiftedBy(u, delta))
<1>1. u \in Seq(Listing) /\ m \in Seq(Listing) /\ Once(u) /\ Once(m) /\ Ticked(u, sh) /\ Ticked(m, sh)
  BY DEF Tracked
<1>2. ASSUME NEW list, list \in Seq(Listing)
      PROVE  /\ ShiftedBy(list, delta) \in Seq(Listing)
             /\ EntitiesOf(ShiftedBy(list, delta)) = EntitiesOf(list)
             /\ Once(list) => Once(ShiftedBy(list, delta))
             /\ Ticked(list, sh) => Ticked(ShiftedBy(list, delta), sh + delta)
             /\ Rising(list) => Rising(ShiftedBy(list, delta))
  <2> DEFINE c == ShiftedBy(list, delta)
  <2>1. /\ c \in Seq(Listing) /\ Len(c) = Len(list)
        /\ \A i \in 1..Len(list) : c[i].tick = list[i].tick + delta /\ c[i].e = list[i].e
    BY <1>2, ShiftedIs
  <2>2. \A i \in 1..Len(list) : list[i].tick \in Int /\ list[i].e \in Local
    BY <1>2, EntitiesAre
  <2> HIDE DEF c
  <2>3. EntitiesOf(c) = EntitiesOf(list)
    <3>1. /\ EntitiesOf(c) = {c[i].e : i \in 1..Len(list)}
          /\ EntitiesOf(list) = {list[i].e : i \in 1..Len(list)}
      BY <1>2, <2>1, EntitiesAre
    <3> QED  BY <3>1, <2>1
  <2>4. Once(list) => Once(c)
    BY <2>1 DEF Once
  <2>5. Ticked(list, sh) => Ticked(c, sh + delta)
    <3>1. \A e \in Local : e.born \in Int
      BY DEF Local
    <3> QED  BY <2>1, <2>2, <3>1 DEF Ticked
  <2>6. Rising(list) => Rising(c)
    BY <2>1, <2>2 DEF Rising
  <2> QED  BY <2>1, <2>3, <2>4, <2>5, <2>6 DEF c
<1>3. /\ EntitiesOf(u) \cup EntitiesOf(m) = {y \in E : IsPrespawned(y)}
      /\ EntitiesOf(u) \cap EntitiesOf(m) = {}
  BY DEF Tracked
<1>4. Tracked(ShiftedBy(u, delta), ShiftedBy(m, delta), E, sh + delta)
  <2>1. /\ ShiftedBy(u, delta) \in Seq(Listing) /\ ShiftedBy(m, delta) \in Seq(Listing)
        /\ EntitiesOf(ShiftedBy(u, delta)) = EntitiesOf(u)
        /\ EntitiesOf(ShiftedBy(m, delta)) = EntitiesOf(m)
        /\ Once(ShiftedBy(u, delta)) /\ Once(ShiftedBy(m, delta))
        /\ Ticked(ShiftedBy(u, delta), sh + delta) /\ Ticked(ShiftedBy(m, delta), sh + delta)
    BY <1>1, <1>2
  <2> QED  BY <2>1, <1>3 DEF Tracked
<1>5. Rising(u) => Rising(ShiftedBy(u, delta))
  BY <1>1, <1>2
<1> QED  BY <1>4, <1>5

-----------------------------------------------------------------------------
(* A world, and one step of it. *)

Disabling == UNION {[S -> Int] : S \in SUBSET Local}

Worlds == [entities : SUBSET Local, disabled : Disabling, despawns : SUBSET Listing,
           unmatched : Seq(Listing), matched : Seq(Listing)]

ActRecords == [spawn : SUBSET Kinds, kill : SUBSET (Kinds \X Nat)]

\* A setting for which the code keeps its books right.  A rollback drains the
\* despawn list, so that a "Det" entity does without rollbacks to an earlier
\* start; a "PreSkip" entity does without these and without forced rollbacks,
\* which drain the list that protects it, and without simulated prespawns,
\* which are listed behind it with an earlier tick; and only prespawned
\* entities follow a shift of the timeline.
Supported(st) ==
    /\ st.simulated \subseteq {"Det", "Pre"} /\ st.oneOff \subseteq {"Skip", "PreSkip"}
    /\ "Det" \in st.simulated => ~ st.revisits
    /\ "PreSkip" \in st.oneOff => ~ st.revisits /\ ~ st.forces /\ "Pre" \notin st.simulated
    /\ st.shifts => "Det" \notin st.simulated /\ st.oneOff = {}

\* The plan, and what was spawned once.
Planned(st, acts, ones, now) ==
    /\ Supported(st)
    /\ acts \in Seq(ActRecords) /\ Len(acts) = now
    /\ \A b \in 1..now : acts[b].spawn = {} \/ \E k \in st.simulated : acts[b].spawn = {k}
    /\ now \in 0..MaxStep
    /\ ones \subseteq st.oneOff \X (0..now)

\* The plan despawned the entity so long ago that it is not replayed.
LongDespawned(k, acts, now) ==
    k[1] # "Pre" /\ \E b \in 1..now : k \in acts[b].kill /\ b + ReplayLimit < now

Excused(k, acts, ex, now) ==
    (k[1] \in {"Pre", "PreSkip"} /\ k \in ex) \/ LongDespawned(k, acts, now)

\* The world after step s: what the plan and the rest spawned is there, unless
\* it is excused, and nothing else; the despawn list has what was spawned after
\* `from'; and what is disabled was despawned by the plan, in its tick.
Standing(w, st, acts, ones, ex, sh, from, s, now) ==
    /\ w \in Worlds
    /\ \A e \in w.entities : \/ Key(e) \in ones
                             \/ e.born \in 1..s /\ e.kind \in acts[e.born].spawn
    /\ \A b \in 1..s : \A k \in acts[b].spawn :
           Made(<<k, b>>) \in w.entities \/ Excused(<<k, b>>, acts, ex, now)
    /\ \A k \in ones : Made(k) \in w.entities \/ Excused(k, acts, ex, now)
    /\ \A d \in w.despawns : /\ d.e.kind = "Det" /\ d.e.kind \in st.simulated
                             /\ d.tick = d.e.born + sh /\ d.e.born <= s
    /\ \A e \in w.entities : e.kind = "Det" /\ e.born > from => Entry(e.born + sh, e) \in w.despawns
    /\ \A e \in DOMAIN w.disabled :
           /\ e.kind \in st.simulated \cup st.oneOff
           /\ e.kind # "Pre" => \E b \in 1..s : Key(e) \in acts[b].kill /\ w.disabled[e] = b + sh
    /\ Tracked(w.unmatched, w.matched, w.entities, sh)
    /\ Rising(w.unmatched)

\* A key tells its entity.
LEMMA KeyIs ==
    /\ \A e \in Local : /\ Key(e) \in Kinds \X Nat /\ Made(Key(e)) = e
                        /\ e.kind \in Kinds /\ e.born \in Nat /\ Key(e) = <<e.kind, e.born>>
    /\ \A k \in Kinds, b \in Nat : /\ Made(<<k, b>>) \in Local /\ Key(Made(<<k, b>>)) = <<k, b>>
                                   /\ Made(<<k, b>>).kind = k /\ Made(<<k, b>>).born = b
BY DEF Local, Key, Made

\* The fields of a world.
LEMMA WorldFields ==
    ASSUME NEW w \in Worlds
    PROVE  /\ w.entities \subseteq Local /\ w.disabled \in Disabling /\ w.despawns \subseteq Listing
           /\ w.unmatched \in Seq(Listing) /\ w.matched \in Seq(Listing)
           /\ DOMAIN w.disabled \subseteq Local /\ \A e \in DOMAIN w.disabled : w.disabled[e] \in Int
<1>1. w.entities \subseteq Local /\ w.disabled \in Disabling /\ w.despawns \subseteq Listing
      /\ w.unmatched \in Seq(Listing) /\ w.matched \in Seq(Listing)
  BY DEF Worlds
<1>2. PICK S \in SUBSET Local : w.disabled \in [S -> Int]
  BY <1>1 DEF Disabling
<1> QED  BY <1>1, <1>2

\* What is left when the entities S are despawned.
LEMMA DespawnedIs ==
    ASSUME NEW w \in Worlds, NEW S
    PROVE  /\ Despawned(w, S) \in Worlds
           /\ Despawned(w, S).entities = w.entities \ S
           /\ Despawned(w, S).despawns = w.despawns
           /\ Despawned(w, S).unmatched = Without(w.unmatched, S)
           /\ Despawned(w, S).matched = Without(w.matched, S)
           /\ DOMAIN Despawned(w, S).disabled = DOMAIN w.disabled \ S
           /\ \A e \in DOMAIN w.disabled \ S : Despawned(w, S).disabled[e] = w.disabled[e]
<1> DEFINE d == [e \in DOMAIN w.disabled \ S |-> w.disabled[e]]
           r == Despawned(w, S)
<1>1. /\ w.entities \subseteq Local /\ w.disabled \in Disabling /\ w.despawns \subseteq Listing
      /\ w.unmatched \in Seq(Listing) /\ w.matched \in Seq(Listing)
      /\ DOMAIN w.disabled \subseteq Local /\ \A e \in DOMAIN w.disabled : w.disabled[e] \in Int
  BY WorldFields
<1>2. Without(w.unmatched, S) \in Seq(Listing) /\ Without(w.matched, S) \in Seq(Listing)
  BY <1>1, WithoutIs
<1>3. d \in Disabling
  <2>1. d \in [DOMAIN w.disabled \ S -> Int] /\ DOMAIN w.disabled \ S \in SUBSET Local
    BY <1>1
  <2> HIDE DEF d
  <2> QED  BY <2>1 DEF Disabling
<1>4. /\ r.entities = w.entities \ S /\ r.despawns = w.despawns
      /\ r.unmatched = Without(w.unmatched, S) /\ r.matched = Without(w.matched, S)
      /\ r.disabled = d
  BY DEF Despawned, Worlds
<1>5. r \in Worlds
  <2>1. r = [w EXCEPT !.entities = w.entities \ S, !.unmatched = Without(w.unmatched, S),
                      !.matched = Without(w.matched, S), !.disabled = d]
    BY DEF Despawned, Worlds
  <2> HIDE DEF r, d
  <2> QED  BY <2>1, <1>1, <1>2, <1>3 DEF Worlds
<1> QED  BY <1>4, <1>5

\* Entities that may be missed are despawned.
LEMMA DespawnedStands ==
    ASSUME NEW w, NEW st, NEW acts, NEW ones, NEW ex, NEW sh, NEW from, NEW s, NEW now,
           Standing(w, st, acts, ones, ex, sh, from, s, now), ones \subseteq Kinds \X Nat, NEW S, NEW ex2, ex \subseteq ex2,
           \A e \in w.entities \cap S : Excused(Key(e), acts, ex2, now)
    PROVE  Standing(Despawned(w, S), st, acts, ones, ex2, sh, from, s, now)
<1> DEFINE r == Despawned(w, S)
<1>0. w \in Worlds
  BY DEF Standing
<1>1. /\ r \in Worlds /\ r.entities = w.entities \ S /\ r.despawns = w.despawns
      /\ r.unmatched = Without(w.unmatched, S) /\ r.matched = Without(w.matched, S)
      /\ DOMAIN r.disabled = DOMAIN w.disabled \ S
      /\ \A e \in DOMAIN w.disabled \ S : r.disabled[e] = w.disabled[e]
  BY <1>0, DespawnedIs
<1> HIDE DEF r
<1>2. w.entities \subseteq Local
  BY <1>0, WorldFields
<1>3. \A k : Excused(k, acts, ex, now) => Excused(k, acts, ex2, now)
  BY DEF Excused
<1>4. ASSUME NEW k, Made(k) \in w.entities, Key(Made(k)) = k
      PROVE  Made(k) \in r.entities \/ Excused(k, acts, ex2, now)
  BY <1>1, <1>4
<1>5. \A k : Key(Made(k)) = <<k[1], k[2]>>
  BY DEF Key, Made
<1>6. ASSUME NEW b \in 1..s, NEW k \in acts[b].spawn
      PROVE  Made(<<k, b>>) \in r.entities \/ Excused(<<k, b>>, acts, ex2, now)
  <2>1. Made(<<k, b>>) \in w.entities \/ Excused(<<k, b>>, acts, ex, now)
    BY DEF Standing
  <2>2. Key(Made(<<k, b>>)) = <<k, b>>
    BY <1>5
  <2> QED  BY <2>1, <2>2, <1>3, <1>4
<1>7. ASSUME NEW k \in ones PROVE Made(k) \in r.entities \/ Excused(k, acts, ex2, now)
  <2>1. Made(k) \in w.entities \/ Excused(k, acts, ex, now)
    BY DEF Standing
  <2>2. CASE Made(k) \in w.entities /\ Made(k) \in S
    <3>1. Excused(Key(Made(k)), acts, ex2, now)
      BY <2>2
    <3>2. Key(Made(k)) = <<k[1], k[2]>> /\ k = <<k[1], k[2]>>
      BY <1>5
    <3> QED  BY <3>1, <3>2
  <2> QED  BY <2>1, <2>2, <1>1, <1>3
<1>8. Tracked(r.unmatched, r.matched, r.entities, sh) /\ Rising(r.unmatched)
  <2>1. Tracked(w.unmatched, w.matched, w.entities, sh) /\ Rising(w.unmatched)
    BY DEF Standing
  <2> QED  BY <2>1, <1>1, TrackedWithout
<1>9. \A e \in r.entities : /\ \/ Key(e) \in ones
                               \/ e.born \in 1..s /\ e.kind \in acts[e.born].spawn
                            /\ e.kind = "Det" /\ e.born > from => Entry(e.born + sh, e) \in r.despawns
  BY <1>1 DEF Standing
<1>10. \A d \in r.despawns : /\ d.e.kind = "Det" /\ d.e.kind \in st.simulated
                             /\ d.tick = d.e.born + sh /\ d.e.born <= s
  BY <1>1 DEF Standing
<1>11. \A e \in DOMAIN r.disabled :
           /\ e.kind \in st.simulated \cup st.oneOff
           /\ e.kind # "Pre" => \E b \in 1..s : Key(e) \in acts[b].kill /\ r.disabled[e] = b + sh
  <2>1. ASSUME NEW e \in DOMAIN r.disabled
        PROVE  e \in DOMAIN w.disabled /\ r.disabled[e] = w.disabled[e]
    BY <1>1
  <2> QED  BY <2>1 DEF Standing
<1> QED  BY <1>1, <1>6, <1>7, <1>8, <1>9, <1>10, <1>11 DEF Standing, r

\* No entity is listed.
LEMMA NoneListed == SetToSeq({}) = <<>>
<1>1. Cardinality({}) = 0
  BY FS_EmptySet
<1>2. <<>> \in [1..0 -> {}] /\ IsInjective(<<>>) /\ \A f \in [1..0 -> {}] : f = <<>>
  BY DEF IsInjective
<1> QED  BY <1>1, <1>2 DEF SetToSeq

\* One entity is listed.
LEMMA OneListed ==
    ASSUME NEW x
    PROVE  SetToSeq({x}) = <<x>>
<1>1. Cardinality({x}) = 1
  BY FS_Singleton
<1>2. <<x>> \in [1..1 -> {x}] /\ IsInjective(<<x>>)
  BY DEF IsInjective
<1>3. \A f \in [1..1 -> {x}] : f = <<x>>
  <2>1. ASSUME NEW f \in [1..1 -> {x}] PROVE f = <<x>>
    <3>1. DOMAIN f = 1..1 /\ f[1] = x
      OBVIOUS
    <3>2. f \in Seq({x}) /\ Len(f) = 1 /\ <<x>> \in Seq({x}) /\ Len(<<x>>) = 1 /\ <<x>>[1] = x
      <4>1. f \in Seq({x}) /\ Len(f) = 1
        OBVIOUS
      <4> QED  BY <4>1
    <3> QED  BY <3>1, <3>2
  <2> QED  BY <2>1
<1> QED  BY <1>1, <1>2, <1>3 DEF SetToSeq

\* What the plan's entity of a kind and a step is called.
LEMMA FreshIs ==
    ASSUME NEW w, NEW kind, NEW s, MaxStep \in Nat, MaxStep >= 1,
           \A e \in w.entities : ~ (e.kind = kind /\ e.born = s),
           \A d \in w.despawns : ~ (d.e.kind = kind /\ d.e.born = s)
    PROVE  Fresh(w, kind, s) = Made(<<kind, s>>)
<1> DEFINE Taken == w.entities \cup {d.e : d \in w.despawns}
           N == MaxStep * (MaxStep + 1)
           e1 == Made(<<kind, s>>)
           Names == [kind : {kind}, born : {s}, copy : 1..N]
           Free(e) == e \notin Taken /\ \A c \in 1..(e.copy - 1) : [e EXCEPT !.copy = c] \in Taken
<1>1. N \in Nat /\ 1 \in 1..N
  OBVIOUS
<1>2. e1 = [kind |-> kind, born |-> s, copy |-> 1]
  BY DEF Made
<1>3. \A e \in Names : e \notin Taken
  <2>1. \A e \in Names : e.kind = kind /\ e.born = s
    OBVIOUS
  <2> HIDE DEF Names
  <2> QED  BY <2>1
<1> HIDE DEF N, Taken
<1>4. e1 \in Names /\ e1.copy = 1
  BY <1>1, <1>2
<1>5. Free(e1)
  <2>1. 1..(e1.copy - 1) = {}
    BY <1>4
  <2> QED  BY <1>3, <1>4, <2>1
<1>6. ASSUME NEW e \in Names, Free(e) PROVE e = e1
  <2>1. e.copy \in 1..N /\ e.kind = kind /\ e.born = s
    OBVIOUS
  <2>2. CASE e.copy = 1
    BY <1>2, <2>2
  <2>3. CASE e.copy # 1
    <3>1. 1 \in 1..(e.copy - 1)
      BY <2>1, <2>3, <1>1
    <3>2. [e EXCEPT !.copy = 1] \in Taken
      BY <1>6, <3>1
    <3>3. [e EXCEPT !.copy = 1] \in Names
      BY <1>1
    <3> QED  BY <3>2, <3>3, <1>3
  <2> QED  BY <2>2, <2>3
<1>7. Fresh(w, kind, s) = CHOOSE e \in Names : Free(e)
  BY DEF Fresh, Taken, N
<1> HIDE DEF Free, Names, e1
<1>8. (CHOOSE e \in Names : Free(e)) = e1
  BY <1>4, <1>5, <1>6
<1> QED  BY <1>7, <1>8 DEF e1

\* A step that spawns nothing.
LEMMA SpawnedNothing ==
    ASSUME NEW w \in Worlds, NEW s
    PROVE  Spawned(w, {}, s) = w
<1>1. {Fresh(w, k, s) : k \in {}} = {}
  OBVIOUS
<1>2. {Entry(TickOf(s), e) : e \in {x \in {} : x.kind = "Det"}} = {}
      /\ {Entry(TickOf(s), e) : e \in {x \in {} : x.kind = "Pre"}} = {}
  OBVIOUS
<1>3. w.unmatched \o <<>> = w.unmatched
  BY WorldFields
<1>4. Spawned(w, {}, s) = [w EXCEPT !.entities = w.entities \cup {}, !.despawns = w.despawns \cup {},
                                    !.unmatched = w.unmatched]
  BY <1>1, <1>2, <1>3, NoneListed DEF Spawned
<1> QED  BY <1>4 DEF Worlds

\* The step has not spawned an entity of the kind.
Unspawned(w, kind, s) ==
    /\ w \in Worlds /\ s \in Nat /\ kind \in {"Det", "Pre"} /\ shifted \in Int
    /\ MaxStep \in Nat /\ MaxStep >= 1
    /\ \A e \in w.entities : ~ (e.kind = kind /\ e.born = s)
    /\ \A d \in w.despawns : ~ (d.e.kind = kind /\ d.e.born = s)

\* A step that spawns one entity.
LEMMA SpawnedOne ==
    ASSUME NEW w, NEW s, NEW kind, Unspawned(w, kind, s)
    PROVE  /\ Spawned(w, {kind}, s) \in Worlds
           /\ Spawned(w, {kind}, s).entities = w.entities \cup {Made(<<kind, s>>)}
           /\ Spawned(w, {kind}, s).despawns =
                  IF kind = "Det" THEN w.despawns \cup {Entry(s + shifted, Made(<<kind, s>>))}
                  ELSE w.despawns
           /\ Spawned(w, {kind}, s).unmatched =
                  IF kind = "Pre" THEN Append(w.unmatched, Entry(s + shifted, Made(<<kind, s>>)))
                  ELSE w.unmatched
           /\ Spawned(w, {kind}, s).matched = w.matched
           /\ Spawned(w, {kind}, s).disabled = w.disabled
<1> DEFINE e == Made(<<kind, s>>)
           r == Spawned(w, {kind}, s)
           x == Entry(s + shifted, e)
           D == IF kind = "Det" THEN w.despawns \cup {x} ELSE w.despawns
           U == IF kind = "Pre" THEN Append(w.unmatched, x) ELSE w.unmatched
<1>0. w \in Worlds /\ s \in Nat /\ kind \in {"Det", "Pre"} /\ shifted \in Int
  BY DEF Unspawned
<1>1. {Fresh(w, k, s) : k \in {kind}} = {e}
  BY FreshIs DEF Unspawned
<1>2. e \in Local /\ e.kind = kind /\ x \in Listing /\ TickOf(s) = s + shifted
  BY <1>0, KeyIs DEF Kinds, Entry, Listing, TickOf
<1>3. /\ w.entities \subseteq Local /\ w.despawns \subseteq Listing
      /\ w.unmatched \in Seq(Listing) /\ w.matched \in Seq(Listing) /\ w.disabled \in Disabling
  BY <1>0, WorldFields
<1>4. w.despawns \cup {Entry(TickOf(s), y) : y \in {z \in {e} : z.kind = "Det"}} = D
  BY <1>2
<1>5. w.unmatched \o SetToSeq({Entry(TickOf(s), y) : y \in {z \in {e} : z.kind = "Pre"}}) = U
  <2>1. CASE kind = "Pre"
    <3>1. {Entry(TickOf(s), y) : y \in {z \in {e} : z.kind = "Pre"}} = {x}
      BY <2>1, <1>2
    <3> HIDE DEF x
    <3>2. w.unmatched \o <<x>> = Append(w.unmatched, x)
      BY <1>2, <1>3
    <3> QED  BY <2>1, <3>1, <3>2, OneListed
  <2>2. CASE kind # "Pre"
    <3>1. {Entry(TickOf(s), y) : y \in {z \in {e} : z.kind = "Pre"}} = {}
      BY <2>2, <1>2
    <3>2. w.unmatched \o <<>> = w.unmatched
      BY <1>3
    <3> QED  BY <2>2, <3>1, <3>2, NoneListed
  <2> QED  BY <2>1, <2>2
<1>6. r = [w EXCEPT !.entities = w.entities \cup {e}, !.despawns = D, !.unmatched = U]
  <2>1. r = [w EXCEPT !.entities = w.entities \cup {Fresh(w, k, s) : k \in {kind}},
                      !.despawns = w.despawns \cup {Entry(TickOf(s), y) : y \in {z \in {Fresh(w, k, s) : k \in {kind}} : z.kind = "Det"}},
                      !.unmatched = w.unmatched \o SetToSeq({Entry(TickOf(s), y) : y \in {z \in {Fresh(w, k, s) : k \in {kind}} : z.kind = "Pre"}})]
    BY DEF Spawned
  <2> HIDE DEF D, U
  <2> QED  BY <2>1, <1>1, <1>4, <1>5
<1>7. D \subseteq Listing /\ U \in Seq(Listing)
  <2> HIDE DEF x
  <2> QED  BY <1>2, <1>3
<1> HIDE DEF x, D, U, e, r
<1>8. /\ r.entities = w.entities \cup {e} /\ r.despawns = D /\ r.unmatched = U
      /\ r.matched = w.matched /\ r.disabled = w.disabled
  BY <1>0, <1>6 DEF Worlds
<1>9. r \in Worlds
  <2>1. w.entities \cup {e} \subseteq Local
    BY <1>2, <1>3
  <2> QED  BY <1>0, <2>1, <1>6, <1>7 DEF Worlds
<1> QED  BY <1>8, <1>9 DEF D, U, x, e, r

\* What each step of the plan is.
LEMMA PlanIs ==
    ASSUME NEW st, NEW acts, NEW ones, NEW now, Planned(st, acts, ones, now)
    PROVE  /\ now \in Nat /\ now <= MaxStep /\ MaxStep \in Nat /\ ReplayLimit \in Nat /\ Len(acts) = now
           /\ st.simulated \subseteq {"Det", "Pre"} /\ st.oneOff \subseteq {"Skip", "PreSkip"}
           /\ st.simulated \subseteq Kinds /\ st.oneOff \subseteq Kinds
           /\ ones \subseteq Kinds \X Nat
           /\ \A k \in ones : k[1] \in st.oneOff /\ k[2] \in 0..now
           /\ \A b \in 1..now : /\ acts[b] \in ActRecords /\ acts[b].spawn \subseteq st.simulated
                                /\ acts[b].spawn = {} \/ \E k \in st.simulated : acts[b].spawn = {k}
<1>1. MaxStep \in Nat /\ ReplayLimit \in Nat
  BY SpawnAssumption
<1>2. now \in 0..MaxStep /\ acts \in Seq(ActRecords) /\ Len(acts) = now
  BY DEF Planned
<1>3. st.simulated \subseteq {"Det", "Pre"} /\ st.oneOff \subseteq {"Skip", "PreSkip"}
  BY DEF Planned, Supported
<1>4. ones \subseteq st.oneOff \X (0..now)
  BY DEF Planned
<1>5. \A b \in 1..now : acts[b].spawn = {} \/ \E k \in st.simulated : acts[b].spawn = {k}
  BY DEF Planned
<1>6. \A b \in 1..now : acts[b] \in ActRecords
  BY <1>2
<1>7. st.simulated \subseteq Kinds /\ st.oneOff \subseteq Kinds
  BY <1>3 DEF Kinds
<1>8. \A k \in ones : k[1] \in st.oneOff /\ k[2] \in 0..now /\ k \in Kinds \X Nat
  BY <1>1, <1>2, <1>4, <1>7
<1> QED  BY <1>1, <1>2, <1>3, <1>5, <1>6, <1>7, <1>8

\* The plan spawns.
LEMMA SpawnedStands ==
    ASSUME NEW w, NEW st, NEW acts, NEW ones, NEW ex, NEW from \in Nat, NEW now, NEW s \in 1..now,
           Planned(st, acts, ones, now), shifted \in Int, from < s,
           Standing(w, st, acts, ones, ex, shifted, from, s - 1, now)
    PROVE  Standing(Spawned(w, acts[s].spawn, s), st, acts, ones, ex, shifted, from, s, now)
<1> DEFINE r == Spawned(w, acts[s].spawn, s)
<1>0. /\ now \in Nat /\ now <= MaxStep /\ MaxStep \in Nat
      /\ st.simulated \subseteq {"Det", "Pre"} /\ st.oneOff \subseteq {"Skip", "PreSkip"}
      /\ ones \subseteq Kinds \X Nat /\ \A k \in ones : k[1] \in st.oneOff
      /\ acts[s].spawn = {} \/ \E k \in st.simulated : acts[s].spawn = {k}
      /\ \A b \in 1..now : acts[b].spawn \subseteq st.simulated
  BY PlanIs
<1>1. w \in Worlds
  BY DEF Standing
<1>2. /\ s \in Nat /\ s >= 1 /\ MaxStep >= 1 /\ s - 1 \in Nat
      /\ \A b \in 1..s : b \in 1..(s - 1) \/ b = s
      /\ \A b \in 1..(s - 1) : b \in 1..s /\ b \in 1..now
  BY <1>0
<1>3. w.entities \subseteq Local /\ w.unmatched \in Seq(Listing) /\ w.despawns \subseteq Listing
  BY <1>1, WorldFields
<1>4. CASE acts[s].spawn = {}
  <2>1. r = w
    BY <1>1, <1>4, SpawnedNothing
  <2>2. \A b \in 1..s : \A k \in acts[b].spawn :
           Made(<<k, b>>) \in w.entities \/ Excused(<<k, b>>, acts, ex, now)
    BY <1>2, <1>4 DEF Standing
  <2>3. \A e \in w.entities : \/ Key(e) \in ones
                              \/ e.born \in 1..s /\ e.kind \in acts[e.born].spawn
    BY <1>2 DEF Standing
  <2>4. \A d \in w.despawns : /\ d.e.kind = "Det" /\ d.e.kind \in st.simulated
                              /\ d.tick = d.e.born + shifted /\ d.e.born <= s
    <3>1. \A d \in w.despawns : d.e.born \in Nat
      BY <1>3 DEF Listing, Local
    <3> QED  BY <3>1, <1>2 DEF Standing
  <2>5. \A e \in DOMAIN w.disabled :
           /\ e.kind \in st.simulated \cup st.oneOff
           /\ e.kind # "Pre" => \E b \in 1..s : Key(e) \in acts[b].kill /\ w.disabled[e] = b + shifted
    BY <1>2 DEF Standing
  <2>6. Standing(w, st, acts, ones, ex, shifted, from, s, now)
    BY <2>2, <2>3, <2>4, <2>5 DEF Standing
  <2> QED  BY <2>1, <2>6
<1>5. ASSUME NEW kind \in st.simulated, acts[s].spawn = {kind}
      PROVE  Standing(r, st, acts, ones, ex, shifted, from, s, now)
  <2> DEFINE e0 == Made(<<kind, s>>)
             x == Entry(s + shifted, e0)
  <2>1. kind \in {"Det", "Pre"} /\ kind \in Kinds
    BY <1>0 DEF Kinds
  <2>2. e0 \in Local /\ Key(e0) = <<kind, s>> /\ e0.kind = kind /\ e0.born = s
    BY <2>1, <1>2, KeyIs
  <2>3. \A e \in w.entities : ~ (e.kind = kind /\ e.born = s)
    <3>1. ASSUME NEW e \in w.entities, e.kind = kind, e.born = s PROVE FALSE
      <4>1. CASE Key(e) \in ones
        <5>1. Key(e)[1] = kind
          BY <3>1 DEF Key
        <5> QED  BY <5>1, <4>1, <2>1, <1>0
      <4>2. CASE e.born \in 1..(s - 1)
        BY <4>2, <3>1, <1>2
      <4> QED  BY <4>1, <4>2 DEF Standing
    <3> QED  BY <3>1
  <2>4. \A d \in w.despawns : ~ (d.e.kind = kind /\ d.e.born = s)
    <3>1. \A d \in w.despawns : d.e.born <= s - 1
      BY DEF Standing
    <3> QED  BY <3>1, <1>2
  <2>5. /\ r \in Worlds
        /\ r.entities = w.entities \cup {e0}
        /\ r.despawns = IF kind = "Det" THEN w.despawns \cup {x} ELSE w.despawns
        /\ r.unmatched = IF kind = "Pre" THEN Append(w.unmatched, x) ELSE w.unmatched
        /\ r.matched = w.matched /\ r.disabled = w.disabled
    <3>1. r = Spawned(w, {kind}, s)
      BY <1>5
    <3>2. e0 = Made(<<kind, s>>) /\ x = Entry(s + shifted, e0) /\ s \in Nat
      BY <1>2
    <3> HIDE DEF r, e0, x
    <3>3. /\ r \in Worlds
          /\ r.entities = w.entities \cup {e0}
          /\ r.despawns = IF kind = "Det" THEN w.despawns \cup {Entry(s + shifted, e0)} ELSE w.despawns
          /\ r.unmatched = IF kind = "Pre" THEN Append(w.unmatched, Entry(s + shifted, e0)) ELSE w.unmatched
          /\ r.matched = w.matched /\ r.disabled = w.disabled
      <4>1. shifted \in Int /\ MaxStep \in Nat /\ MaxStep >= 1
          BY <1>0, <1>2
        <4>2. Unspawned(w, kind, s)
          BY <1>1, <3>2, <2>1, <2>3, <2>4, <4>1 DEF Unspawned
        <4> QED  BY ONLY <3>1, <3>2, <4>2, SpawnedOne
    <3> QED  BY <3>2, <3>3
  <2> HIDE DEF r, e0
  <2>6. \A e \in r.entities : \/ Key(e) \in ones
                              \/ e.born \in 1..s /\ e.kind \in acts[e.born].spawn
    <3>1. s \in 1..s
      BY <1>2
    <3>2. \A e \in w.entities : \/ Key(e) \in ones
                                \/ e.born \in 1..s /\ e.kind \in acts[e.born].spawn
      BY <1>2 DEF Standing
    <3>3. e0.born \in 1..s /\ e0.kind \in acts[e0.born].spawn
      BY <3>1, <2>2, <1>5
    <3> QED  BY <2>5, <3>2, <3>3
  <2>7. ASSUME NEW b \in 1..s, NEW k \in acts[b].spawn
        PROVE  Made(<<k, b>>) \in r.entities \/ Excused(<<k, b>>, acts, ex, now)
    <3>1. CASE b = s
      BY <3>1, <2>7, <1>5, <2>5 DEF e0
    <3>2. CASE b \in 1..(s - 1)
      BY <3>2, <2>7, <2>5 DEF Standing
    <3> QED  BY <1>2, <3>1, <3>2
  <2>8. \A k \in ones : Made(k) \in r.entities \/ Excused(k, acts, ex, now)
    BY <2>5 DEF Standing
  <2>9. \A d \in r.despawns : /\ d.e.kind = "Det" /\ d.e.kind \in st.simulated
                              /\ d.tick = d.e.born + shifted /\ d.e.born <= s
    <3>1. \A d \in w.despawns : d.e.born \in Nat
      BY <1>3 DEF Listing, Local
    <3>2. \A d \in w.despawns : /\ d.e.kind = "Det" /\ d.e.kind \in st.simulated
                                /\ d.tick = d.e.born + shifted /\ d.e.born <= s
      BY <3>1, <1>2 DEF Standing
    <3>3. x.e = e0 /\ x.tick = s + shifted
      BY DEF Entry
    <3>4. s <= s
      BY <1>2
    <3> HIDE DEF x
    <3> QED  BY <3>2, <3>3, <3>4, <2>2, <2>5, <1>5
  <2>10. \A e \in r.entities : e.kind = "Det" /\ e.born > from => Entry(e.born + shifted, e) \in r.despawns
    <3>1. \A e \in w.entities : e.kind = "Det" /\ e.born > from => Entry(e.born + shifted, e) \in w.despawns
      BY DEF Standing
    <3>2. kind = "Det" => Entry(e0.born + shifted, e0) \in r.despawns
      BY <2>2, <2>5
    <3> HIDE DEF x
    <3> QED  BY <3>1, <3>2, <2>2, <2>5
  <2>11. \A e \in DOMAIN r.disabled :
           /\ e.kind \in st.simulated \cup st.oneOff
           /\ e.kind # "Pre" => \E b \in 1..s : Key(e) \in acts[b].kill /\ r.disabled[e] = b + shifted
    BY <1>2, <2>5 DEF Standing
  <2>12. Tracked(r.unmatched, r.matched, r.entities, shifted) /\ Rising(r.unmatched)
    <3>1. Tracked(w.unmatched, w.matched, w.entities, shifted) /\ Rising(w.unmatched)
      BY DEF Standing
    <3>2. e0 \notin w.entities
      BY <2>2, <2>3
    <3>3. CASE kind = "Pre"
      <4>1. IsPrespawned(e0) /\ x = Entry(e0.born + shifted, e0)
        BY <3>3, <2>2 DEF IsPrespawned
      <4>2. \A i \in 1..Len(w.unmatched) : w.unmatched[i].tick <= e0.born + shifted
        <5>1. ASSUME NEW i \in 1..Len(w.unmatched) PROVE w.unmatched[i].tick <= e0.born + shifted
          <6> DEFINE e == w.unmatched[i].e
          <6>1. e \in EntitiesOf(w.unmatched) /\ e \in Local
            BY <1>3, EntitiesAre
          <6>2. e \in w.entities /\ IsPrespawned(e) /\ w.unmatched[i].tick = e.born + shifted
            BY <3>1, <6>1 DEF Tracked, Ticked
          <6>3. "PreSkip" \notin st.oneOff
            BY <3>3, <1>5 DEF Planned, Supported
          <6>4. Key(e) \notin ones
            <7>1. e.kind \in {"Pre", "PreSkip"} /\ Key(e)[1] = e.kind
              BY <6>2 DEF IsPrespawned, Key
            <7> HIDE DEF e
            <7> QED  BY <7>1, <6>3, <1>0
          <6>5. e.born \in 1..(s - 1)
            <7> HIDE DEF e
            <7> QED  BY <6>2, <6>4 DEF Standing
          <6> HIDE DEF e
          <6> QED  BY <6>2, <6>5, <2>2, <1>2
        <5> QED  BY <5>1
      <4>3. Tracked(Append(w.unmatched, x), w.matched, w.entities \cup {e0}, shifted)
            /\ Rising(Append(w.unmatched, x))
        <5> HIDE DEF x
        <5> QED  BY <3>1, <3>2, <4>1, <4>2, <2>2, TrackedSpawn
      <4> HIDE DEF x
      <4> QED  BY <4>3, <3>3, <2>5
    <3>4. CASE kind = "Det"
      <4>1. ~ IsPrespawned(e0)
        BY <3>4, <2>2 DEF IsPrespawned
      <4>2. {e \in w.entities \cup {e0} : IsPrespawned(e)} = {e \in w.entities : IsPrespawned(e)}
        BY <4>1
      <4>3. Tracked(w.unmatched, w.matched, w.entities \cup {e0}, shifted)
        BY <3>1, <4>2, TrackedElse
      <4> QED  BY <4>3, <3>1, <3>4, <2>5
    <3> QED  BY <3>3, <3>4, <2>1
  <2> QED  BY <2>5, <2>6, <2>7, <2>8, <2>9, <2>10, <2>11, <2>12 DEF Standing
<1> QED  BY <1>0, <1>4, <1>5

\* The plan despawns.
LEMMA DisabledStands ==
    ASSUME NEW w, NEW st, NEW acts, NEW ones, NEW ex, NEW from, NEW now, NEW s \in 1..now,
           Planned(st, acts, ones, now), shifted \in Int,
           Standing(w, st, acts, ones, ex, shifted, from, s, now)
    PROVE  Standing(Disabled(w, acts[s].kill, s), st, acts, ones, ex, shifted, from, s, now)
<1> DEFINE r == Disabled(w, acts[s].kill, s)
           hit == {e \in w.entities \ DOMAIN w.disabled : Key(e) \in acts[s].kill}
           d == [e \in hit \cup DOMAIN w.disabled |-> IF e \in hit THEN TickOf(s) ELSE w.disabled[e]]
<1>0. /\ now \in Nat
      /\ ones \subseteq Kinds \X Nat /\ \A k \in ones : k[1] \in st.oneOff
      /\ \A b \in 1..now : acts[b].spawn \subseteq st.simulated
  BY PlanIs
<1>1. w \in Worlds
  BY DEF Standing
<1>2. s \in Nat /\ s \in 1..s /\ TickOf(s) = s + shifted /\ TickOf(s) \in Int /\ \A b \in 1..s : b \in 1..now
  BY <1>0 DEF TickOf
<1>3. /\ w.entities \subseteq Local /\ w.unmatched \in Seq(Listing) /\ w.matched \in Seq(Listing)
      /\ w.despawns \subseteq Listing
      /\ DOMAIN w.disabled \subseteq Local /\ \A e \in DOMAIN w.disabled : w.disabled[e] \in Int
  BY <1>1, WorldFields
<1>4. r = [w EXCEPT !.disabled = d]
  BY DEF Disabled, Worlds
<1>5. hit \subseteq w.entities /\ \A e \in hit : Key(e) \in acts[s].kill
  OBVIOUS
<1> HIDE DEF hit, r
<1>6. /\ DOMAIN d = hit \cup DOMAIN w.disabled
      /\ \A e \in hit : d[e] = TickOf(s)
      /\ \A e \in DOMAIN w.disabled : e \notin hit => d[e] = w.disabled[e]
  OBVIOUS
<1>7. d \in Disabling
  <2>1. hit \cup DOMAIN w.disabled \in SUBSET Local
    BY <1>3, <1>5
  <2>2. d \in [hit \cup DOMAIN w.disabled -> Int]
    BY <1>2, <1>3
  <2> HIDE DEF d
  <2> QED  BY <2>1, <2>2 DEF Disabling
<1> HIDE DEF d
<1>8. /\ r.entities = w.entities /\ r.despawns = w.despawns /\ r.unmatched = w.unmatched
      /\ r.matched = w.matched /\ r.disabled = d
  BY <1>1, <1>4 DEF Worlds
<1>9. r \in Worlds
  BY <1>1, <1>4, <1>7 DEF Worlds
<1>10. ASSUME NEW e \in DOMAIN r.disabled
       PROVE  /\ e.kind \in st.simulated \cup st.oneOff
              /\ e.kind # "Pre" => \E b \in 1..s : Key(e) \in acts[b].kill /\ r.disabled[e] = b + shifted
  <2>1. CASE e \in hit
    <3>1. e.kind \in st.simulated \cup st.oneOff
      <4>1. e \in w.entities
        BY <2>1, <1>5
      <4>2. CASE Key(e) \in ones
        <5>1. Key(e)[1] = e.kind
          BY DEF Key
        <5> QED  BY <5>1, <4>2, <1>0
      <4>3. CASE e.born \in 1..s /\ e.kind \in acts[e.born].spawn
        BY <4>3, <1>0, <1>2
      <4> QED  BY <4>1, <4>2, <4>3 DEF Standing
    <3>2. Key(e) \in acts[s].kill /\ r.disabled[e] = s + shifted
      BY <2>1, <1>2, <1>5, <1>6, <1>8
    <3> QED  BY <3>1, <3>2, <1>2
  <2>2. CASE e \notin hit
    <3>0. e \in DOMAIN d
      BY <1>8
    <3>1. e \in DOMAIN w.disabled /\ r.disabled[e] = w.disabled[e]
      BY <3>0, <2>2, <1>6, <1>8
    <3>2. \A e2 \in DOMAIN w.disabled :
             /\ e2.kind \in st.simulated \cup st.oneOff
             /\ e2.kind # "Pre" => \E b \in 1..s : Key(e2) \in acts[b].kill /\ w.disabled[e2] = b + shifted
      BY DEF Standing
    <3> QED  BY <3>1, <3>2
  <2> QED  BY <2>1, <2>2
<1>11. Standing(r, st, acts, ones, ex, shifted, from, s, now)
  BY <1>8, <1>9, <1>10 DEF Standing
<1> QED  BY <1>11 DEF r

\* One step of the simulation.
LEMMA StepStands ==
    ASSUME NEW w, NEW st, NEW acts, NEW ones, NEW ex, NEW from \in Nat, NEW now, NEW s \in 1..now,
           Planned(st, acts, ones, now), shifted \in Int, from < s,
           Standing(w, st, acts, ones, ex, shifted, from, s - 1, now)
    PROVE  Standing(OneStep(w, s, acts[s]), st, acts, ones, ex, shifted, from, s, now)
<1> DEFINE done == Disabled(Spawned(w, acts[s].spawn, s), acts[s].kill, s)
           S == Reclaimable(done, s)
<1>1. Standing(Spawned(w, acts[s].spawn, s), st, acts, ones, ex, shifted, from, s, now)
  BY SpawnedStands
<1>2. Standing(done, st, acts, ones, ex, shifted, from, s, now)
  BY <1>1, DisabledStands
<1>3. OneStep(w, s, acts[s]) = Despawned(done, S)
  BY DEF OneStep
<1> HIDE DEF done
<1>4. ASSUME NEW e \in done.entities \cap S PROVE Excused(Key(e), acts, ex, now)
  <2>1. now \in Nat /\ s \in Nat /\ s <= now /\ ReplayLimit \in Nat
    BY PlanIs
  <2>2. e \in DOMAIN done.disabled /\ IsDeterministic(e) /\ TickOf(s) - done.disabled[e] > ReplayLimit
    BY DEF Reclaimable
  <2>3. PICK b \in 1..s : Key(e) \in acts[b].kill /\ done.disabled[e] = b + shifted
    BY <1>2, <2>2 DEF Standing, IsDeterministic
  <2>4. b \in 1..now /\ b + ReplayLimit < now
    BY <2>1, <2>2, <2>3 DEF TickOf
  <2>5. Key(e)[1] # "Pre"
    BY <2>2 DEF Key, IsDeterministic
  <2> QED  BY <2>3, <2>4, <2>5 DEF Excused, LongDespawned
<1>5. ones \subseteq Kinds \X Nat
  BY PlanIs
<1>6. Standing(Despawned(done, S), st, acts, ones, ex, shifted, from, s, now)
  <2> HIDE DEF S
  <2> QED  BY <1>2, <1>4, <1>5, DespawnedStands
<1> QED  BY <1>3, <1>6

-----------------------------------------------------------------------------
(* A rollback. *)

\* What the plan says up to a step is what it said before.
SamePlan(acts, acts2, s) == \A b \in 1..s : acts2[b] = acts[b]

\* What is excused stays so while the plan changes only where a rollback may.
LEMMA ExcusedStays ==
    ASSUME NEW st, NEW acts, NEW acts2, NEW ones, NEW now \in Nat, NEW now2 \in Nat, NEW start \in Nat,
           NEW k, NEW ex, NEW ex2, now <= now2, now - start <= ReplayLimit,
           SamePlan(acts, acts2, start), start <= now,
           k \in ex => k \in ex2, Excused(k, acts, ex, now)
    PROVE  Excused(k, acts2, ex2, now2)
<1>1. CASE k[1] \in {"Pre", "PreSkip"} /\ k \in ex
  BY <1>1 DEF Excused
<1>2. CASE LongDespawned(k, acts, now)
  <2>1. PICK b \in 1..now : k \in acts[b].kill /\ b + ReplayLimit < now
    BY <1>2 DEF LongDespawned
  <2>2. ReplayLimit \in Nat
    BY SpawnAssumption
  <2>3. b \in 1..start /\ b \in 1..now2 /\ b + ReplayLimit < now2
    BY <2>1, <2>2
  <2>4. k \in acts2[b].kill
    BY <2>1, <2>3 DEF SamePlan
  <2> QED  BY <1>2, <2>3, <2>4 DEF Excused, LongDespawned
<1> QED  BY <1>1, <1>2 DEF Excused

\* What a rollback starts from: the entities that a replay can tell.
Restarting(st, acts, acts2, ones, ex, from, start, forced, now) ==
    /\ Planned(st, acts, ones, now) /\ Planned(st, acts2, ones, now)
    /\ shifted \in Int /\ from \in Nat /\ start \in 0..now /\ now - start <= ReplayLimit
    /\ SamePlan(acts, acts2, start)
    /\ st.revisits \/ start >= from
    /\ Standing(World, st, acts, ones, ex, shifted, from, now, now)
    /\ \A x \in ToSet(skips) : x.e.kind \in st.oneOff
    /\ \A e \in entities : e.kind = "PreSkip" /\ e.born > start => e \in Protected(start, forced)

\* The fields of the variables as a world.
LEMMA WorldIs ==
    /\ World.entities = entities /\ World.disabled = disabled /\ World.despawns = despawns
    /\ World.unmatched = unmatched /\ World.matched = matched
BY DEF World

Gone(start, forced) == LaterPrespawned(start, forced) \cup (LaterDeterministic(start) \cap entities)

\* A rollback removes what the plan spawned after its start, and only that.
LEMMA GoneAre ==
    ASSUME NEW st, NEW acts, NEW acts2, NEW ones, NEW ex, NEW from, NEW start, NEW forced, NEW now,
           Restarting(st, acts, acts2, ones, ex, from, start, forced, now), NEW e \in entities
    PROVE  e \in Gone(start, forced) <=> e.born > start /\ e.kind \in {"Det", "Pre"}
<1>1. /\ World \in Worlds /\ Tracked(unmatched, matched, entities, shifted)
      /\ \A d \in despawns : d.e.kind = "Det" /\ d.tick = d.e.born + shifted
      /\ \A x \in entities : x.kind = "Det" /\ x.born > from => Entry(x.born + shifted, x) \in despawns
      /\ \A x \in entities : \/ Key(x) \in ones
                             \/ x.born \in 1..now /\ x.kind \in acts[x.born].spawn
  BY WorldIs DEF Restarting, Standing
<1>2. entities \subseteq Local /\ despawns \subseteq Listing
  BY <1>1, WorldFields, WorldIs
<1>3. unmatched \in Seq(Listing) /\ matched \in Seq(Listing)
      /\ EntitiesOf(unmatched) \cup EntitiesOf(matched) = {x \in entities : IsPrespawned(x)}
      /\ Ticked(unmatched, shifted) /\ Ticked(matched, shifted)
  BY <1>1 DEF Tracked
<1>4. e \in Local /\ e.born \in Nat /\ e.kind \in Kinds /\ shifted \in Int /\ start \in Nat /\ from \in Nat
      /\ now \in Nat
  <2>1. e \in Local
    BY <1>2
  <2>2. now \in Nat
    BY PlanIs DEF Restarting
  <2> QED  BY <2>1, <2>2, KeyIs DEF Restarting
<1>5. TickOf(start) = start + shifted
  BY DEF TickOf
<1>6. /\ ToSet(unmatched) = {unmatched[i] : i \in 1..Len(unmatched)}
      /\ ToSet(matched) = {matched[i] : i \in 1..Len(matched)}
  BY <1>3 DEF ToSet
<1>7. \A x \in ToSet(unmatched) \cup ToSet(matched) :
         x.e \in entities /\ IsPrespawned(x.e) /\ x.tick = x.e.born + shifted
  <2>1. \A i \in 1..Len(unmatched) : unmatched[i].e \in EntitiesOf(unmatched)
    BY <1>3, EntitiesAre
  <2>2. \A i \in 1..Len(matched) : matched[i].e \in EntitiesOf(matched)
    BY <1>3, EntitiesAre
  <2> QED  BY <1>3, <1>6, <2>1, <2>2 DEF Ticked
<1>8. ASSUME IsPrespawned(e)
      PROVE  \E x \in ToSet(unmatched) \cup ToSet(matched) : x.e = e
  <2>1. EntitiesOf(unmatched) = {unmatched[i].e : i \in 1..Len(unmatched)}
    BY <1>3, EntitiesAre
  <2>2. EntitiesOf(matched) = {matched[i].e : i \in 1..Len(matched)}
    BY <1>3, EntitiesAre
  <2>3. e \in EntitiesOf(unmatched) \cup EntitiesOf(matched)
    BY <1>3, <1>8
  <2> QED  BY <1>6, <2>1, <2>2, <2>3
<1>9. e \in LaterPrespawned(start, forced) <=>
         IsPrespawned(e) /\ e.born > start /\ e \notin Protected(start, forced)
  <2>1. ASSUME e \in LaterPrespawned(start, forced)
        PROVE  IsPrespawned(e) /\ e.born > start /\ e \notin Protected(start, forced)
    <3>1. PICK x \in ToSet(unmatched) \cup ToSet(matched) : x.tick >= TickOf(start) + 1 /\ x.e = e
      BY <2>1 DEF LaterPrespawned
    <3>2. IsPrespawned(e) /\ x.tick = e.born + shifted
      BY <1>7, <3>1
    <3>3. e \notin Protected(start, forced)
      BY <2>1 DEF LaterPrespawned
    <3> QED  BY <3>1, <3>2, <3>3, <1>4, <1>5
  <2>2. ASSUME IsPrespawned(e), e.born > start, e \notin Protected(start, forced)
        PROVE  e \in LaterPrespawned(start, forced)
    <3>1. PICK x \in ToSet(unmatched) \cup ToSet(matched) : x.e = e
      BY <1>8, <2>2
    <3>2. x.tick >= TickOf(start) + 1
      BY <1>4, <1>5, <1>7, <2>2, <3>1
    <3> QED  BY <3>1, <3>2, <2>2 DEF LaterPrespawned
  <2> QED  BY <2>1, <2>2
<1>10. e \in LaterDeterministic(start) <=> \E d \in despawns : d.e = e /\ d.tick > TickOf(start)
  BY DEF LaterDeterministic
<1>11. CASE e.kind = "Det"
  <2>1. ~ IsPrespawned(e)
    BY <1>11 DEF IsPrespawned
  <2>2. ASSUME e.born > start PROVE e \in LaterDeterministic(start)
    <3>1. start >= from
      <4>1. Key(e) \notin ones
        <5>1. Key(e)[1] = "Det"
          BY <1>11 DEF Key
        <5>2. \A k \in ones : k[1] \in st.oneOff /\ st.oneOff \subseteq {"Skip", "PreSkip"}
          BY PlanIs DEF Restarting
        <5> QED  BY <5>1, <5>2
      <4>2. e.kind \in acts[e.born].spawn /\ e.born \in 1..now
        BY <4>1, <1>1
      <4>3. "Det" \in st.simulated
        BY <4>2, <1>11, PlanIs DEF Restarting
      <4> QED  BY <4>3 DEF Restarting, Planned, Supported
    <3>2. Entry(e.born + shifted, e) \in despawns
      BY <1>1, <1>4, <1>11, <2>2, <3>1
    <3>3. Entry(e.born + shifted, e).e = e /\ Entry(e.born + shifted, e).tick > TickOf(start)
      BY <1>4, <1>5, <2>2 DEF Entry
    <3> QED  BY <1>10, <3>2, <3>3
  <2>3. ASSUME e \in LaterDeterministic(start) PROVE e.born > start
    BY <1>1, <1>4, <1>5, <1>10, <2>3
  <2> QED  BY <1>9, <1>11, <2>1, <2>2, <2>3 DEF Gone
<1>12. CASE e.kind # "Det"
  <2>1. e \notin LaterDeterministic(start)
    BY <1>1, <1>10, <1>12
  <2>2. CASE e.kind = "Pre"
    <3>1. e \notin Protected(start, forced)
      <4>1. \A x \in ToSet(skips) : x.e # e
        BY <2>2, PlanIs DEF Restarting
      <4> QED  BY <4>1, <2>2 DEF Protected, SkipsDespawn
    <3> QED  BY <2>1, <2>2, <3>1, <1>9 DEF IsPrespawned, Gone
  <2>3. CASE e.kind = "PreSkip"
    <3>1. e.born > start => e \in Protected(start, forced)
      BY <2>3 DEF Restarting
    <3> QED  BY <2>1, <2>3, <3>1, <1>9 DEF Gone
  <2>4. CASE e.kind = "Skip"
    BY <2>1, <2>4, <1>9 DEF IsPrespawned, Gone
  <2> QED  BY <1>4, <1>12, <2>2, <2>3, <2>4 DEF Kinds
<1> QED  BY <1>11, <1>12

\* The world that a replay starts from.
LEMMA RestartStands ==
    ASSUME NEW st, NEW acts, NEW acts2, NEW ones, NEW ex, NEW from, NEW start, NEW forced, NEW now,
           Restarting(st, acts, acts2, ones, ex, from, start, forced, now),
           NEW ex2, ex2 = {k \in ex : k[2] <= start \/ k \in ones}
    PROVE  Standing(Restarted(start, forced), st, acts2, ones, ex2, shifted, start, start, now)
<1> DEFINE r == Restarted(start, forced)
           S == Gone(start, forced)
           d == Despawned(World, S)
<1>0. /\ now \in Nat /\ start \in Nat /\ start <= now /\ now - start <= ReplayLimit
      /\ ones \subseteq Kinds \X Nat /\ \A k \in ones : k[1] \in st.oneOff
      /\ st.oneOff \subseteq {"Skip", "PreSkip"} /\ st.simulated \subseteq {"Det", "Pre"}
      /\ \A b \in 1..now : acts[b].spawn \subseteq st.simulated
      /\ \A b \in 1..start : b \in 1..now /\ acts2[b] = acts[b]
  BY PlanIs DEF Restarting, SamePlan
<1>1. World \in Worlds /\ Tracked(unmatched, matched, entities, shifted) /\ Rising(unmatched)
  BY WorldIs DEF Restarting, Standing
<1>2. /\ d \in Worlds /\ d.entities = entities \ S
      /\ d.unmatched = Without(unmatched, S) /\ d.matched = Without(matched, S)
  BY <1>1, DespawnedIs, WorldIs
<1>3. r = [d EXCEPT !.despawns = {}, !.disabled = <<>>]
  BY DEF Restarted, Gone
<1>4. \A e \in entities : e \in S <=> e.born > start /\ e.kind \in {"Det", "Pre"}
  BY GoneAre
<1>5. entities \subseteq Local
  BY <1>1, WorldFields, WorldIs
<1> HIDE DEF r, d, S
<1>6. /\ r.entities = entities \ S /\ r.despawns = {} /\ r.disabled = <<>>
      /\ r.unmatched = Without(unmatched, S) /\ r.matched = Without(matched, S)
  BY <1>2, <1>3 DEF Worlds
<1>7. r \in Worlds
  <2>1. <<>> \in [{} -> Int] /\ {} \in SUBSET Local
    OBVIOUS
  <2>2. <<>> \in Disabling
    BY <2>1 DEF Disabling
  <2> QED  BY <1>2, <1>3, <2>2 DEF Worlds
<1>8. Tracked(r.unmatched, r.matched, r.entities, shifted) /\ Rising(r.unmatched)
  BY <1>1, <1>6, TrackedWithout
<1>9. ASSUME NEW e \in r.entities
      PROVE  /\ \/ Key(e) \in ones
                \/ e.born \in 1..start /\ e.kind \in acts2[e.born].spawn
             /\ ~ (e.kind = "Det" /\ e.born > start)
  <2>1. e \in entities /\ e \notin S /\ e.born \in Nat
    BY <1>5, <1>6, KeyIs
  <2>2. ~ (e.born > start /\ e.kind \in {"Det", "Pre"})
    BY <1>4, <2>1
  <2>3. \/ Key(e) \in ones
        \/ e.born \in 1..now /\ e.kind \in acts[e.born].spawn
    BY <2>1, WorldIs DEF Restarting, Standing
  <2>4. CASE e.born \in 1..now /\ e.kind \in acts[e.born].spawn
    <3>1. e.kind \in {"Det", "Pre"}
      BY <2>4, <1>0
    <3>2. e.born \in 1..start
      BY <3>1, <2>2, <2>4, <1>0
    <3> QED  BY <3>2, <2>2, <2>4, <1>0
  <2> QED  BY <2>2, <2>3, <2>4
<1>10. ASSUME NEW b \in 1..start, NEW k \in acts2[b].spawn
       PROVE  Made(<<k, b>>) \in r.entities \/ Excused(<<k, b>>, acts2, ex2, now)
  <2>1. b \in 1..now /\ k \in acts[b].spawn /\ k \in Kinds /\ b \in Nat
    BY <1>0 DEF Kinds
  <2>2. Made(<<k, b>>) \in entities \/ Excused(<<k, b>>, acts, ex, now)
    BY <2>1, WorldIs DEF Restarting, Standing
  <2>3. Made(<<k, b>>).born = b
    BY <2>1, KeyIs
  <2>4. CASE Made(<<k, b>>) \in entities
    <3>1. Made(<<k, b>>) \notin S
      BY <2>3, <2>4, <1>4, <1>0
    <3> QED  BY <3>1, <2>4, <1>6
  <2>5. CASE Excused(<<k, b>>, acts, ex, now)
    <3>1. <<k, b>> \in ex => <<k, b>> \in ex2
      <4>1. <<k, b>>[2] <= start
        BY <1>0
      <4> QED  BY <4>1
    <3>2. SamePlan(acts, acts2, start) /\ now <= now
      BY <1>0 DEF SamePlan
    <3> QED  BY <2>5, <3>1, <3>2, <1>0, ExcusedStays
  <2> QED  BY <2>2, <2>4, <2>5
<1>11. ASSUME NEW k \in ones PROVE Made(k) \in r.entities \/ Excused(k, acts2, ex2, now)
  <2>1. Made(k) \in entities \/ Excused(k, acts, ex, now)
    BY WorldIs DEF Restarting, Standing
  <2>2. CASE Made(k) \in entities
    <3>1. Made(k).kind = k[1]
      BY DEF Made
    <3>2. k[1] \in {"Skip", "PreSkip"}
      BY <1>0
    <3>3. Made(k) \notin S
      BY <3>1, <3>2, <2>2, <1>4
    <3> QED  BY <3>3, <2>2, <1>6
  <2>3. CASE Excused(k, acts, ex, now)
    <3>1. k \in ex => k \in ex2
      OBVIOUS
    <3>2. SamePlan(acts, acts2, start) /\ now <= now
      BY <1>0 DEF SamePlan
    <3> QED  BY <2>3, <3>1, <3>2, <1>0, ExcusedStays
  <2> QED  BY <2>1, <2>2, <2>3
<1>12. Standing(r, st, acts2, ones, ex2, shifted, start, start, now)
  <2>1. \A e \in r.entities : \/ Key(e) \in ones
                              \/ e.born \in 1..start /\ e.kind \in acts2[e.born].spawn
    BY <1>9
  <2>2. \A e \in r.entities : ~ (e.kind = "Det" /\ e.born > start)
    BY <1>9
  <2>3. DOMAIN r.disabled = {}
    BY <1>6
  <2> QED  BY <1>6, <1>7, <1>8, <2>1, <2>2, <2>3, <1>10, <1>11 DEF Standing
<1> QED  BY <1>12 DEF r

\* The world after the replay.
LEMMA ReplayStands ==
    ASSUME NEW st, NEW acts, NEW acts2, NEW ones, NEW ex, NEW from, NEW start, NEW forced,
           Restarting(st, acts, acts2, ones, ex, from, start, forced, step),
           NEW ex2, ex2 = {k \in ex : k[2] <= start \/ k \in ones}
    PROVE  Standing(ReplayedFrom(start, forced, acts2), st, acts2, ones, ex2, shifted, start, step, step)
<1> DEFINE n == step - start
           w0 == Restarted(start, forced)
           M(k) == {w \in Worlds : Standing(w, st, acts2, ones, ex2, shifted, start, start + k, step)}
           Turn(w, k) == OneStep(w, start + k, acts2[start + k])
           run == CHOOSE f : f = [k \in 0..n |-> IF k = 0 THEN w0 ELSE Turn(f[k - 1], k)]
           turns == [k \in 1..n |-> [w \in Worlds |-> IF w \in M(k - 1) THEN Turn(w, k) ELSE w]]
<1>0. /\ step \in Nat /\ start \in Nat /\ start <= step /\ n \in Nat /\ start + n = step /\ shifted \in Int
      /\ Planned(st, acts2, ones, step)
  <2>1. step \in Nat
    BY PlanIs DEF Restarting
  <2> QED  BY <2>1 DEF Restarting
<1>00. ReplayedFrom(start, forced, acts2) = run[n]
  BY DEF ReplayedFrom
<1>1. ASSUME NEW k \in 1..n, NEW w \in M(k - 1) PROVE Turn(w, k) \in M(k)
  <2>1. start + k \in 1..step /\ (start + k) - 1 = start + (k - 1) /\ start < start + k
    BY <1>0
  <2>2. Standing(w, st, acts2, ones, ex2, shifted, start, (start + k) - 1, step)
    BY <1>1, <2>1
  <2>3. Standing(Turn(w, k), st, acts2, ones, ex2, shifted, start, start + k, step)
    BY <1>0, <2>1, <2>2, StepStands
  <2>4. Turn(w, k) \in Worlds
    <3> HIDE DEF Turn
    <3> QED  BY <2>3 DEF Standing
  <2> HIDE DEF Turn
  <2> QED  BY <2>3, <2>4
<1>2. w0 \in M(0)
  <2>1. Standing(w0, st, acts2, ones, ex2, shifted, start, start, step)
    BY RestartStands
  <2>2. start + 0 = start
    BY <1>0
  <2> HIDE DEF w0
  <2>3. w0 \in Worlds
    BY <2>1 DEF Standing
  <2> QED  BY <2>1, <2>2, <2>3
<1>20. \A w \in M(n) : Standing(w, st, acts2, ones, ex2, shifted, start, step, step)
  BY <1>0
<1>21. \A k : M(k) \subseteq Worlds
  OBVIOUS
<1> HIDE DEF M, Turn, n, w0
<1>3. turns \in [1..n -> [Worlds -> Worlds]]
  <2>1. ASSUME NEW k \in 1..n, NEW w \in Worlds
        PROVE  (IF w \in M(k - 1) THEN Turn(w, k) ELSE w) \in Worlds
    BY <2>1, <1>1, <1>21
  <2> QED  BY <2>1
<1>4. PICK f \in [0..n -> Worlds] : f[0] = w0 /\ \A k \in 1..n : f[k] = turns[k][f[k - 1]]
  <2>1. n \in Nat /\ w0 \in Worlds
    BY <1>0, <1>2, <1>21
  <2> HIDE DEF turns
  <2> QED  BY ONLY <2>1, <1>3, RunExists
<1>5. \A k \in 1..n : k - 1 \in 0..n /\ f[k - 1] \in Worlds
  BY <1>0, <1>4
<1>6. ASSUME NEW k \in 1..n PROVE f[k] = IF f[k - 1] \in M(k - 1) THEN Turn(f[k - 1], k) ELSE f[k - 1]
  BY <1>4, <1>5
<1> HIDE DEF turns
<1>7. \A k \in 1..n : f[k - 1] \in M(k - 1) => f[k] \in M(k)
  BY <1>1, <1>6
<1>8. \A k \in 0..n : f[k] \in M(k)
  <2>1. ASSUME NEW m \in 0..n PROVE f[m] \in M(m)
    <3> DEFINE P == [k \in 0..m |-> M(k)]
    <3>1. m \in Nat /\ \A k \in 1..m : k \in 1..n /\ k - 1 \in 0..m /\ k \in 0..m
      BY <1>0
    <3>2. f[0] \in P[0]
      BY <3>1, <1>2, <1>4
    <3>3. \A k \in 1..m : f[k - 1] \in P[k - 1] => f[k] \in P[k]
      BY <3>1, <1>7
    <3>4. f[m] \in P[m]
      <4> HIDE DEF P
      <4> QED  BY <3>1, <3>2, <3>3, RunPasses
    <3> QED  BY <3>1, <3>4
  <2> QED  BY <2>1
<1>9. f = [k \in 0..n |-> IF k = 0 THEN w0 ELSE Turn(f[k - 1], k)]
  <2>1. ASSUME NEW k \in 0..n PROVE f[k] = IF k = 0 THEN w0 ELSE Turn(f[k - 1], k)
    <3>1. CASE k = 0
      BY <3>1, <1>4
    <3>2. CASE k # 0
      <4>1. k \in 1..n /\ k - 1 \in 0..n
        BY <3>2, <1>0
      <4>2. f[k] = Turn(f[k - 1], k)
        BY <4>1, <1>6, <1>8
      <4> QED  BY <3>2, <4>2
    <3> QED  BY <3>1, <3>2
  <2> QED  BY <2>1, <1>4
<1>10. run = [k \in 0..n |-> IF k = 0 THEN w0 ELSE Turn(run[k - 1], k)]
  BY <1>9
<1> HIDE DEF run
<1>11. run[0] = w0 /\ \A k \in 1..n : run[k] = Turn(run[k - 1], k)
  <2>1. 0 \in 0..n /\ \A k \in 1..n : k \in 0..n /\ k # 0
    BY <1>0
  <2> QED  BY <2>1, <1>10
<1>12. run[n] \in M(n)
  <2> DEFINE P == [k \in 0..n |-> M(k)]
  <2>1. n \in Nat /\ \A k \in 1..n : k - 1 \in 0..n /\ k \in 0..n
    BY <1>0
  <2>2. run[0] \in P[0]
    BY <2>1, <1>2, <1>11
  <2>3. \A k \in 1..n : run[k - 1] \in P[k - 1] => run[k] \in P[k]
    BY <2>1, <1>1, <1>11
  <2>4. run[n] \in P[n]
    <3> HIDE DEF P
    <3> QED  BY <2>1, <2>2, <2>3, RunPasses
  <2> QED  BY <2>1, <2>4
<1> QED  BY <1>00, <1>12, <1>20

-----------------------------------------------------------------------------
(* The end of a frame. *)

\* The first entries of a list.
LEMMA FirstAre ==
    ASSUME NEW list, list \in Seq(Listing), NEW i \in 0..Len(list)
    PROVE  EntitiesOf(SubSeq(list, 1, i)) = {list[j].e : j \in 1..i}
<1> DEFINE c == SubSeq(list, 1, i)
<1>1. Len(list) \in Nat /\ i \in Nat /\ i <= Len(list)
  BY EntitiesAre
<1>2. c \in Seq(Listing) /\ Len(c) = i /\ \A j \in 1..i : c[j] = list[j]
  <2>1. \A j \in 1..i : list[j] \in Listing /\ j \in 1..Len(list)
    BY <1>1
  <2> QED  BY <1>1, <2>1
<1> HIDE DEF c
<1>3. EntitiesOf(c) = {c[j].e : j \in 1..i}
  BY <1>2, EntitiesAre
<1>4. EntitiesOf(c) = {list[j].e : j \in 1..i}
  BY <1>2, <1>3
<1> QED  BY <1>4 DEF c

\* pre_spawned_player_object_cleanup finds exactly those that waited too long.
LEMMA LateAre ==
    ASSUME NEW list, list \in Seq(Listing), Rising(list), NEW tick \in Int,
           NEW i \in Splits(list, tick)
    PROVE  /\ \A e \in EntitiesOf(SubSeq(list, 1, i)) :
                  \E j \in 1..Len(list) : list[j].e = e /\ list[j].tick < tick
           /\ \A j \in 1..Len(list) :
                  list[j].e \notin EntitiesOf(SubSeq(list, 1, i)) => list[j].tick >= tick
<1>1. /\ i \in 0..Len(list)
      /\ i > 0 => list[i].tick < tick
      /\ i < Len(list) => list[i + 1].tick >= tick
  BY DEF Splits
<1>2. /\ Len(list) \in Nat /\ \A j \in 1..Len(list) : list[j].tick \in Int
  BY EntitiesAre
<1>3. EntitiesOf(SubSeq(list, 1, i)) = {list[j].e : j \in 1..i}
  <2>1. list \in Seq(Listing) /\ i \in 0..Len(list)
    BY <1>1
  <2> QED  BY ONLY <2>1, FirstAre
<1>30. Len(list) \in Nat /\ i \in Nat /\ i <= Len(list)
  BY <1>1, <1>2
<1>4. ASSUME NEW j, j \in 1..i PROVE j \in 1..Len(list) /\ list[j].tick < tick
  <2>1. j \in 1..Len(list) /\ i \in 1..Len(list) /\ i > 0 /\ (j < i \/ j = i)
    BY ONLY <1>30, <1>4
  <2>2. list[j].tick <= list[i].tick
    BY <2>1, <1>2 DEF Rising
  <2>3. list[j].tick \in Int /\ list[i].tick \in Int /\ list[i].tick < tick
    BY <2>1, <1>1, <1>2
  <2> QED  BY <2>1, <2>2, <2>3
<1>5. ASSUME NEW j, j \in 1..Len(list), j \notin 1..i PROVE list[j].tick >= tick
  <2>1. i < Len(list) /\ i + 1 \in 1..Len(list) /\ (i + 1 < j \/ i + 1 = j)
    BY ONLY <1>30, <1>5
  <2>2. list[i + 1].tick <= list[j].tick
    BY <2>1, <1>2, <1>5 DEF Rising
  <2>3. list[j].tick \in Int /\ list[i + 1].tick \in Int /\ list[i + 1].tick >= tick
    BY <2>1, <1>1, <1>2, <1>5
  <2> QED  BY <2>2, <2>3
<1> QED  BY <1>3, <1>4, <1>5

\* The expired entities go, and what stays waits no longer than it may.
LEMMA EndStands ==
    ASSUME NEW w, NEW st, NEW acts, NEW ones, NEW ex, NEW sh \in Int, NEW from, NEW now,
           Standing(w, st, acts, ones, ex, sh, from, now, now), ones \subseteq Kinds \X Nat,
           NEW tick \in Int, NEW i \in Splits(w.unmatched, tick),
           NEW late, late = EntitiesOf(SubSeq(w.unmatched, 1, i)),
           NEW ex2, ex2 = ex \cup {Key(e) : e \in late}
    PROVE  /\ Standing(Despawned(w, late), st, acts, ones, ex2, sh, from, now, now)
           /\ \A j \in 1..Len(Despawned(w, late).unmatched) :
                  Despawned(w, late).unmatched[j].tick >= tick
           /\ \A e \in late : e \in Local /\ e.born + sh < tick
<1> DEFINE u == w.unmatched
<1>1. w \in Worlds /\ Tracked(u, w.matched, w.entities, sh) /\ Rising(u)
  BY DEF Standing
<1>2. u \in Seq(Listing) /\ Ticked(u, sh) /\ \A e \in EntitiesOf(u) : IsPrespawned(e)
  BY <1>1 DEF Tracked
<1>3. /\ \A e \in late : \E j \in 1..Len(u) : u[j].e = e /\ u[j].tick < tick
      /\ \A j \in 1..Len(u) : u[j].e \notin late => u[j].tick >= tick
  BY <1>1, <1>2, LateAre
<1>4. ASSUME NEW e \in late PROVE e \in Local /\ e.born + sh < tick /\ IsPrespawned(e)
  <2>1. PICK j \in 1..Len(u) : u[j].e = e /\ u[j].tick < tick
    BY <1>3
  <2>2. u[j].e \in Local /\ u[j].e \in EntitiesOf(u)
    BY <1>2, EntitiesAre
  <2>3. u[j].tick = u[j].e.born + sh
    BY <1>2 DEF Ticked
  <2> QED  BY <2>1, <2>2, <2>3, <1>2
<1>5. ASSUME NEW e \in w.entities \cap late PROVE Excused(Key(e), acts, ex2, now)
  <2>1. e \in Local /\ IsPrespawned(e) /\ Key(e) \in ex2
    BY <1>4
  <2>2. Key(e) = <<e.kind, e.born>> /\ e.kind \in {"Pre", "PreSkip"}
    BY <2>1 DEF Key, IsPrespawned
  <2>3. Key(e)[1] \in {"Pre", "PreSkip"}
    BY <2>2
  <2> QED  BY <2>1, <2>3 DEF Excused
<1>6. Standing(Despawned(w, late), st, acts, ones, ex2, sh, from, now, now)
  <2>1. ex \subseteq ex2
    OBVIOUS
  <2> QED  BY <1>5, <2>1, DespawnedStands
<1>7. Despawned(w, late).unmatched = Without(u, late)
  BY <1>1, DespawnedIs
<1>8. /\ Without(u, late) \in Seq(Listing) /\ Inside(Without(u, late), u)
      /\ EntitiesOf(Without(u, late)) = EntitiesOf(u) \ late
  BY <1>2, WithoutIs
<1>9. ASSUME NEW j \in 1..Len(Without(u, late)) PROVE Without(u, late)[j].tick >= tick
  <2>1. PICK k \in 1..Len(u) : Without(u, late)[j] = u[k]
    BY <1>2, <1>8, InsideKeeps
  <2>2. Without(u, late)[j].e \in EntitiesOf(Without(u, late))
    BY <1>8, EntitiesAre
  <2>3. u[k].e \notin late
    BY <2>1, <2>2, <1>8
  <2> QED  BY <2>1, <2>3, <1>3
<1> QED  BY <1>4, <1>6, <1>7, <1>9

-----------------------------------------------------------------------------
(* The inductive invariant. *)

\* What nobody matched goes in time.
InTime(list, ex, sh, now) ==
    /\ \A i \in 1..Len(list) : list[i].tick >= now + sh - ExpireAfter
    /\ \A k \in ex : k \in Kinds \X Nat /\ now - k[2] > ExpireAfter

\* The entities spawned once, in their order, with the tick from which on a
\* rollback may despawn them; a prespawned one stays in the list until a
\* rollback starts after that tick.
Skipping(list, shields, st, ones, sh, from, now) ==
    /\ list \in Seq(Listing)
    /\ \A i \in 1..Len(list) : /\ list[i].e.kind \in st.oneOff /\ list[i].e.born <= now
                               /\ list[i].tick = list[i].e.born + EnableAfter + sh
    /\ Rising(list)
    /\ shields \subseteq EntitiesOf(list)
    /\ \A k \in ones : k[1] = "PreSkip" /\ k[2] + EnableAfter > from => Made(k) \in EntitiesOf(list)

SpawnInv ==
    /\ Planned(setting, plan, oneOffs, step)
    /\ shifted \in Int
    /\ lastStart \in 0..step
    /\ Standing(World, setting, plan, oneOffs, expired, shifted, lastStart, step, step)
    /\ InTime(unmatched, expired, shifted, step)
    /\ Skipping(skips, shielded, setting, oneOffs, shifted, lastStart, step)

\* The bounds are numbers.
LEMMA BoundsAre ==
    /\ ReplayLimit \in Nat /\ EnableAfter \in Nat /\ ExpireAfter \in Nat
    /\ MaxStep \in Nat
BY SpawnAssumption

\* The world is made of the variables.
LEMMA WorldNextIs ==
    /\ World'.entities = entities' /\ World'.disabled = disabled'
    /\ World'.despawns = despawns' /\ World'.unmatched = unmatched'
    /\ World'.matched = matched'
BY DEF World

\* A world is told by its fields.
LEMMA WorldTold ==
    ASSUME NEW w \in Worlds
    PROVE  w = [entities |-> w.entities, disabled |-> w.disabled, despawns |-> w.despawns,
                unmatched |-> w.unmatched, matched |-> w.matched]
BY DEF Worlds

\* What stood stands on when the plan goes on.
LEMMA StandsOn ==
    ASSUME NEW w, NEW st, NEW acts, NEW acts2, NEW ones, NEW ex, NEW sh, NEW from, NEW now \in Nat,
           Standing(w, st, acts, ones, ex, sh, from, now, now), SamePlan(acts, acts2, now)
    PROVE  Standing(w, st, acts2, ones, ex, sh, from, now, now + 1)
<1>1. \A b \in 1..now : acts2[b] = acts[b]
  BY DEF SamePlan
<1>2. ASSUME NEW k, Excused(k, acts, ex, now) PROVE Excused(k, acts2, ex, now + 1)
  <2>1. /\ now + 1 \in Nat /\ now <= now + 1 /\ now - now <= ReplayLimit /\ now <= now
        /\ k \in ex => k \in ex
    BY BoundsAre
  <2> QED  BY <1>2, <2>1, ExcusedStays
<1> DEFINE A == /\ w \in Worlds
                /\ \A d \in w.despawns : /\ d.e.kind = "Det" /\ d.e.kind \in st.simulated
                                         /\ d.tick = d.e.born + sh /\ d.e.born <= now
                /\ \A e \in w.entities :
                       e.kind = "Det" /\ e.born > from => Entry(e.born + sh, e) \in w.despawns
                /\ Tracked(w.unmatched, w.matched, w.entities, sh)
                /\ Rising(w.unmatched)
<1>3. A
  BY DEF Standing
<1>4. \A e \in w.entities : \/ Key(e) \in ones
                            \/ e.born \in 1..now /\ e.kind \in acts2[e.born].spawn
  BY <1>1 DEF Standing
<1>5. \A b \in 1..now : \A k \in acts2[b].spawn :
           Made(<<k, b>>) \in w.entities \/ Excused(<<k, b>>, acts2, ex, now + 1)
  BY <1>1, <1>2 DEF Standing
<1>6. \A k \in ones : Made(k) \in w.entities \/ Excused(k, acts2, ex, now + 1)
  BY <1>2 DEF Standing
<1>7. \A e \in DOMAIN w.disabled :
           /\ e.kind \in st.simulated \cup st.oneOff
           /\ e.kind # "Pre" => \E b \in 1..now : Key(e) \in acts2[b].kill /\ w.disabled[e] = b + sh
  BY <1>1 DEF Standing
<1> QED  BY <1>3, <1>4, <1>5, <1>6, <1>7 DEF Standing

\* The end of a frame.
LEMMA FrameEnds ==
    ASSUME NEW w, NEW st, NEW acts, NEW ones, NEW ex, NEW from, NEW now \in Nat, step' = now,
           shifted \in Int, ones \subseteq Kinds \X Nat,
           Standing(w, st, acts, ones, ex, shifted, from, now, now),
           \A k \in ex : k \in Kinds \X Nat /\ now - k[2] > ExpireAfter,
           EndFrame(w, ex)
    PROVE  /\ Standing(World', st, acts, ones, expired', shifted, from, now, now)
           /\ InTime(unmatched', expired', shifted, now)
<1> DEFINE tick == now + shifted - ExpireAfter
<1>1. tick \in Int
  BY BoundsAre
<1>20. PICK i \in Splits(w.unmatched, tick) : \E late, end :
        /\ late = EntitiesOf(SubSeq(w.unmatched, 1, i)) /\ end = Despawned(w, late)
        /\ entities' = end.entities /\ disabled' = end.disabled /\ despawns' = end.despawns
        /\ unmatched' = end.unmatched /\ matched' = end.matched
        /\ expired' = ex \cup {Key(e) : e \in late}
  <2>1. TickOf(step') - ExpireAfter = tick
    BY BoundsAre DEF TickOf
  <2>2. PICK i \in Splits(w.unmatched, TickOf(step') - ExpireAfter) :
          \E late \in {EntitiesOf(SubSeq(w.unmatched, 1, i))} :
          \E end \in {Despawned(w, late)} :
             /\ entities' = end.entities /\ disabled' = end.disabled /\ despawns' = end.despawns
             /\ unmatched' = end.unmatched /\ matched' = end.matched
             /\ expired' = ex \cup {Key(e) : e \in late}
    BY DEF EndFrame
  <2>3. i \in Splits(w.unmatched, tick)
    BY <2>1, <2>2
  <2> HIDE DEF tick
  <2> QED  BY <2>2, <2>3
<1>2. PICK late, end :
        /\ late = EntitiesOf(SubSeq(w.unmatched, 1, i)) /\ end = Despawned(w, late)
        /\ entities' = end.entities /\ disabled' = end.disabled /\ despawns' = end.despawns
        /\ unmatched' = end.unmatched /\ matched' = end.matched
        /\ expired' = ex \cup {Key(e) : e \in late}
  BY <1>20
<1>3. /\ Standing(end, st, acts, ones, expired', shifted, from, now, now)
      /\ \A j \in 1..Len(end.unmatched) : end.unmatched[j].tick >= tick
      /\ \A e \in late : e \in Local /\ e.born + shifted < tick
  <2> HIDE DEF tick
  <2>1. PICK ex2 : ex2 = ex \cup {Key(e) : e \in late}
    OBVIOUS
  <2>2. /\ Standing(Despawned(w, late), st, acts, ones, ex2, shifted, from, now, now)
        /\ \A j \in 1..Len(Despawned(w, late).unmatched) :
                  Despawned(w, late).unmatched[j].tick >= tick
        /\ \A e \in late : e \in Local /\ e.born + shifted < tick
    <3>1. /\ i \in Splits(w.unmatched, tick) /\ tick \in Int
          /\ late = EntitiesOf(SubSeq(w.unmatched, 1, i))
      BY <1>1, <1>2, <1>20
    <3> QED  BY SMT, ZenonT(60), <2>1, <3>1, EndStands
  <2> QED  BY <1>2, <2>1, <2>2
<1>4. end \in Worlds
  BY <1>3 DEF Standing
<1>5. World' = end
  <2>1. World' = [entities |-> end.entities, disabled |-> end.disabled, despawns |-> end.despawns,
                  unmatched |-> end.unmatched, matched |-> end.matched]
    BY <1>2 DEF World
  <2> QED  BY <2>1, <1>4, WorldTold
<1>6. ASSUME NEW k \in expired' PROVE k \in Kinds \X Nat /\ now - k[2] > ExpireAfter
  <2>1. CASE k \in ex
    BY <2>1
  <2>2. CASE \E e \in late : k = Key(e)
    <3>1. PICK e \in late : k = Key(e)
      BY <2>2
    <3>2. e \in Local /\ e.born + shifted < tick /\ ExpireAfter \in Nat
      BY <1>3, BoundsAre
    <3>3. k \in Kinds \X Nat /\ k[2] = e.born /\ e.born \in Nat
      BY <3>1, <3>2, KeyIs
    <3>4. now - e.born > ExpireAfter
      BY <3>2, <3>3
    <3> QED  BY <3>3, <3>4
  <2> QED  BY <1>2, <2>1, <2>2
<1>7. InTime(unmatched', expired', shifted, now)
  BY <1>2, <1>3, <1>6 DEF InTime
<1> QED  BY <1>3, <1>5, <1>7

-----------------------------------------------------------------------------
(* The plan. *)

\* What the simulation may do in a step.
LEMMA ActsAre ==
    ASSUME Planned(setting, plan, oneOffs, step), NEW s, NEW act \in ActsIn(s)
    PROVE  act \in ActRecords /\ (act.spawn = {} \/ \E k \in setting.simulated : act.spawn = {k})
<1>1. /\ setting.simulated \subseteq Kinds /\ oneOffs \subseteq Kinds \X Nat /\ step \in Nat
      /\ Len(plan) = step
      /\ \A b \in 1..step : plan[b] \in ActRecords /\ plan[b].spawn \subseteq setting.simulated
  BY PlanIs
<1>2. DOMAIN plan = 1..step
  BY <1>1 DEF Planned
<1>3. KeysOf(plan) \subseteq Kinds \X Nat
  <2>1. ASSUME NEW x \in KeysOf(plan) PROVE x \in Kinds \X Nat
    <3>1. PICK b \in DOMAIN plan : x \in plan[b].spawn \X {b}
      BY <2>1 DEF KeysOf
    <3>2. b \in Nat /\ plan[b].spawn \subseteq Kinds
      BY <3>1, <1>1, <1>2
    <3> QED  BY <3>1, <3>2
  <2> QED  BY <2>1
<1>4. Killable(s) \subseteq Kinds \X Nat
  BY <1>1, <1>3 DEF Killable
<1>5. CASE act = Idle
  BY <1>5 DEF Idle, ActRecords
<1>6. CASE \E k \in setting.simulated : act = [spawn |-> {k}, kill |-> {}]
  BY <1>1, <1>6 DEF ActRecords
<1>7. CASE \E k \in Killable(s) : act = [spawn |-> {}, kill |-> {k}]
  BY <1>4, <1>7 DEF ActRecords
<1> QED  BY <1>5, <1>6, <1>7 DEF ActsIn

\* The simulation may do act in the step that comes next.
Goes(st, acts, ones, now, act, acts2) ==
    /\ Planned(st, acts, ones, now) /\ now < MaxStep
    /\ act \in ActRecords
    /\ act.spawn = {} \/ \E k \in st.simulated : act.spawn = {k}
    /\ acts2 = Append(acts, act)

\* The plan goes on for a step.
LEMMA PlannedMore ==
    ASSUME NEW st, NEW acts, NEW ones, NEW now, NEW act, NEW acts2,
           Goes(st, acts, ones, now, act, acts2)
    PROVE  /\ Planned(st, acts2, ones, now + 1)
           /\ SamePlan(acts, acts2, now) /\ acts2[now + 1] = act
<1>0. /\ Planned(st, acts, ones, now) /\ now < MaxStep /\ act \in ActRecords
      /\ act.spawn = {} \/ \E k \in st.simulated : act.spawn = {k}
  BY DEF Goes
<1>1. acts \in Seq(ActRecords) /\ Len(acts) = now /\ now \in Nat /\ MaxStep \in Nat
  BY <1>0, PlanIs DEF Planned
<1> DEFINE more == Append(acts, act)
<1>2. /\ more \in Seq(ActRecords) /\ Len(more) = now + 1 /\ more[now + 1] = act
      /\ \A b \in 1..now : more[b] = acts[b]
  BY <1>0, <1>1
<1>3. \A b \in 1..(now + 1) : b \in 1..now \/ b = now + 1
  BY <1>1
<1>4. now + 1 \in 0..MaxStep
  BY <1>0, <1>1
<1>5. ones \subseteq st.oneOff \X (0..(now + 1))
  <2>1. ones \subseteq st.oneOff \X (0..now) /\ 0..now \subseteq 0..(now + 1)
    BY <1>0, <1>1 DEF Planned
  <2> QED  BY <2>1
<1> HIDE DEF more
<1>6. Supported(st) /\ \A b \in 1..now : acts[b].spawn = {} \/ \E k \in st.simulated : acts[b].spawn = {k}
  BY <1>0 DEF Planned
<1>7. \A b \in 1..(now + 1) : more[b].spawn = {} \/ \E k \in st.simulated : more[b].spawn = {k}
  BY <1>0, <1>2, <1>3, <1>6
<1>8. Planned(st, more, ones, now + 1)
  BY <1>2, <1>4, <1>5, <1>6, <1>7 DEF Planned
<1>9. SamePlan(acts, more, now)
  BY <1>2 DEF SamePlan
<1> QED  BY <1>2, <1>8, <1>9 DEF more, Goes

\* A rollback learns what the simulation did in the step after its start.
LEMMA PlannedChanged ==
    ASSUME NEW st, NEW acts, NEW ones, NEW now, Planned(st, acts, ones, now),
           NEW start \in 0..now, start # now,
           NEW act \in ActRecords, act.spawn = {} \/ \E k \in st.simulated : act.spawn = {k}
    PROVE  /\ Planned(st, [acts EXCEPT ![start + 1] = act], ones, now)
           /\ SamePlan(acts, [acts EXCEPT ![start + 1] = act], start)
<1>1. acts \in Seq(ActRecords) /\ Len(acts) = now /\ now \in Nat
  BY PlanIs DEF Planned
<1> DEFINE other == [acts EXCEPT ![start + 1] = act]
<1>2. /\ other \in Seq(ActRecords) /\ Len(other) = now
      /\ \A b \in 1..now : other[b] = IF b = start + 1 THEN act ELSE acts[b]
  BY <1>1
<1>3. \A b \in 1..start : b \in 1..now /\ b # start + 1
  BY <1>1
<1> HIDE DEF other
<1>4. Planned(st, other, ones, now)
  BY <1>2 DEF Planned
<1>5. SamePlan(acts, other, start)
  BY <1>2, <1>3 DEF SamePlan
<1> QED  BY <1>4, <1>5 DEF other

-----------------------------------------------------------------------------
(* The list of what is spawned once. *)

\* Time goes on.
LEMMA SkippingLater ==
    ASSUME NEW list, NEW shields, NEW st, NEW ones, NEW sh, NEW from, NEW now \in Nat,
           Skipping(list, shields, st, ones, sh, from, now)
    PROVE  Skipping(list, shields, st, ones, sh, from, now + 1)
<1>1. \A i \in 1..Len(list) : list[i].e.born \in Nat
  BY EntitiesAre DEF Skipping, Local
<1>2. \A i \in 1..Len(list) : list[i].e.born <= now + 1
  BY <1>1 DEF Skipping
<1> QED  BY <1>2 DEF Skipping

\* A rollback that is not forced: what is past its tick leaves the list.
LEMMA SkippingDropped ==
    ASSUME NEW list, NEW shields, NEW st, NEW ones, NEW sh \in Int, NEW from \in Nat, NEW now,
           Skipping(list, shields, st, ones, sh, from, now), ones \subseteq Kinds \X Nat,
           NEW start \in Nat, from <= start \/ \A k \in ones : k[1] # "PreSkip",
           NEW i \in Splits(list, start + sh + 1)
    PROVE  Skipping(SubSeq(list, i + 1, Len(list)),
                    (shields \cup EntitiesOf(SubSeq(list, i + 1, Len(list))))
                        \ EntitiesOf(SubSeq(list, 1, i)), st, ones, sh, start, now)
<1> DEFINE rest == SubSeq(list, i + 1, Len(list))
           first == EntitiesOf(SubSeq(list, 1, i))
           left == (shields \cup EntitiesOf(rest)) \ first
<1>1. /\ list \in Seq(Listing) /\ Rising(list) /\ shields \subseteq EntitiesOf(list)
      /\ \A j \in 1..Len(list) : /\ list[j].e.kind \in st.oneOff /\ list[j].e.born <= now
                                 /\ list[j].tick = list[j].e.born + EnableAfter + sh
  BY DEF Skipping
<1>2. /\ i \in 0..Len(list)
      /\ i > 0 => list[i].tick < start + sh + 1
  BY DEF Splits
<1>3. Len(list) \in Nat /\ i \in Nat /\ i <= Len(list) /\ EnableAfter \in Nat
  BY <1>1, <1>2, BoundsAre
<1>4. /\ rest \in Seq(Listing) /\ Len(rest) = Len(list) - i
      /\ \A j \in 1..(Len(list) - i) : rest[j] = list[i + j]
  <2>1. \A j \in (i + 1)..Len(list) : list[j] \in Listing
    <3>1. \A j \in (i + 1)..Len(list) : j \in 1..Len(list)
      BY <1>3
    <3> QED  BY <1>1, <3>1, EntitiesAre
  <2>2. /\ rest \in Seq(Listing)
        /\ Len(rest) = IF i + 1 <= Len(list) THEN Len(list) - (i + 1) + 1 ELSE 0
        /\ \A j \in 1..(Len(list) - (i + 1) + 1) : rest[j] = list[(i + 1) + j - 1]
    <3>1. i + 1 \in Int /\ Len(list) \in Int
      BY <1>3
    <3> QED  BY <2>1, <3>1, SubSeqProperties
  <2>3. Len(list) - (i + 1) + 1 = Len(list) - i
    BY <1>3
  <2> HIDE DEF rest
  <2>4. Len(rest) = Len(list) - i
    <3>1. Len(rest) = IF i + 1 <= Len(list) THEN Len(list) - (i + 1) + 1 ELSE 0
      BY <2>2
    <3>2. CASE i = Len(list)
      BY <3>1, <3>2, <1>3
    <3>3. CASE i # Len(list)
      BY <3>1, <3>3, <1>3
    <3> QED  BY <3>2, <3>3
  <2>5. \A j \in 1..(Len(list) - i) : (i + 1) + j - 1 = i + j
    BY <1>3
  <2> QED  BY <2>2, <2>3, <2>4, <2>5
<1>5. first = {list[j].e : j \in 1..i}
  BY <1>1, <1>2, FirstAre
<1> HIDE DEF rest, first
<1>6. EntitiesOf(rest) = {rest[j].e : j \in 1..Len(rest)} /\ EntitiesOf(list) = {list[j].e : j \in 1..Len(list)}
  BY <1>1, <1>4, EntitiesAre
<1>7. \A j \in 1..Len(rest) : i + j \in 1..Len(list) /\ rest[j] = list[i + j]
  BY <1>3, <1>4
<1>8. \A j \in 1..Len(list) : j \in 1..i \/ (j - i \in 1..Len(rest) /\ i + (j - i) = j)
  BY <1>3, <1>4
<1>9. EntitiesOf(list) \subseteq first \cup EntitiesOf(rest)
  <2>1. ASSUME NEW j \in 1..Len(list) PROVE list[j].e \in first \cup EntitiesOf(rest)
    <3>1. CASE j \in 1..i
      BY <3>1, <1>5
    <3>2. CASE j - i \in 1..Len(rest) /\ i + (j - i) = j
      BY <3>2, <1>6, <1>7
    <3> QED  BY <3>1, <3>2, <1>8
  <2> QED  BY <2>1, <1>6
<1>10. left \subseteq EntitiesOf(rest)
  BY <1>1, <1>9
<1>11. Rising(rest)
  <2>1. ASSUME NEW j \in 1..Len(rest), NEW l \in 1..Len(rest), j < l
        PROVE  rest[j].tick <= rest[l].tick
    <3>1. i + j \in 1..Len(list) /\ i + l \in 1..Len(list) /\ i + j < i + l
      BY <2>1, <1>3, <1>7
    <3>2. list[i + j].tick <= list[i + l].tick
      BY <3>1, <1>1 DEF Rising
    <3> QED  BY <3>2, <1>7
  <2> QED  BY <2>1 DEF Rising
<1>12. \A j \in 1..Len(rest) : /\ rest[j].e.kind \in st.oneOff /\ rest[j].e.born <= now
                               /\ rest[j].tick = rest[j].e.born + EnableAfter + sh
  BY <1>1, <1>7
<1>13. ASSUME NEW k \in ones, k[1] = "PreSkip", k[2] + EnableAfter > start
       PROVE  Made(k) \in EntitiesOf(rest)
  <2>1. k[2] \in Nat /\ from <= start /\ k[2] + EnableAfter > from
    BY <1>13, <1>3
  <2>2. Made(k) \in EntitiesOf(list)
    BY <1>13, <2>1 DEF Skipping
  <2>3. PICK j \in 1..Len(list) : list[j].e = Made(k)
    BY <2>2, <1>6
  <2>4. list[j].tick = k[2] + EnableAfter + sh
    <3>1. Made(k).born = k[2]
      BY DEF Made
    <3> QED  BY <2>3, <3>1, <1>1
  <2>5. list[j].tick >= start + sh + 1 /\ list[j].tick \in Int
    BY <2>4, <2>1, <1>13, <1>3
  <2>6. j \notin 1..i
    <3>1. SUFFICES ASSUME j \in 1..i PROVE FALSE
      OBVIOUS
    <3>2. i \in 1..Len(list) /\ i > 0 /\ (j < i \/ j = i)
      BY ONLY <3>1, <1>3
    <3>3. list[j].tick <= list[i].tick /\ list[i].tick < start + sh + 1 /\ list[i].tick \in Int
      <4>1. list[i].tick \in Int
        BY <1>1, <3>2, EntitiesAre
      <4>2. list[j].tick <= list[i].tick
        BY <1>1, <3>2, <4>1, <2>5 DEF Rising
      <4> QED  BY <4>1, <4>2, <3>2, <1>2
    <3> QED  BY <3>3, <2>5
  <2>7. j - i \in 1..Len(rest) /\ rest[j - i] = list[j]
    BY <2>6, <1>7, <1>8
  <2> QED  BY <2>3, <2>7, <1>6
<1>14. Skipping(rest, left, st, ones, sh, start, now)
  BY <1>4, <1>10, <1>11, <1>12, <1>13 DEF Skipping
<1> QED  BY <1>14 DEF rest, first

\* An entity is spawned once.
LEMMA SkippingOnce ==
    ASSUME NEW list, NEW shields, NEW st, NEW ones, NEW sh \in Int, NEW from, NEW now \in Nat,
           Skipping(list, shields, st, ones, sh, from, now),
           NEW kind \in st.oneOff, st.oneOff \subseteq Kinds
    PROVE  Skipping(Append(list, Entry(now + sh + EnableAfter, Made(<<kind, now>>))), shields, st,
                    ones \cup {<<kind, now>>}, sh, from, now)
<1> DEFINE e == Made(<<kind, now>>)
           x == Entry(now + sh + EnableAfter, e)
           more == Append(list, x)
<1>1. e \in Local /\ e.kind = kind /\ e.born = now /\ EnableAfter \in Nat
  BY KeyIs, BoundsAre
<1> HIDE DEF e
<1>2. x \in Listing /\ x.e = e /\ x.tick = now + sh + EnableAfter
  BY <1>1 DEF Entry, Listing
<1> HIDE DEF x
<1>3. /\ list \in Seq(Listing) /\ Rising(list) /\ shields \subseteq EntitiesOf(list)
      /\ \A j \in 1..Len(list) : /\ list[j].e.kind \in st.oneOff /\ list[j].e.born <= now
                                 /\ list[j].tick = list[j].e.born + EnableAfter + sh
  BY DEF Skipping
<1>4. /\ more \in Seq(Listing) /\ Len(more) = Len(list) + 1
      /\ \A i \in 1..Len(list) : more[i] = list[i]
      /\ more[Len(list) + 1] = x
      /\ \A i \in 1..(Len(list) + 1) : i \in 1..Len(list) \/ i = Len(list) + 1
      /\ EntitiesOf(more) = EntitiesOf(list) \cup {x.e}
  BY <1>2, <1>3, AppendIs
<1>5. Rising(more)
  <2>1. ASSUME NEW i \in 1..Len(list) PROVE list[i].tick <= x.tick
    <3>1. list[i].e.born \in Nat
      BY <1>3, EntitiesAre DEF Local
    <3>2. list[i].e.born <= now /\ list[i].tick = list[i].e.born + EnableAfter + sh
      BY <1>3
    <3> QED  BY <3>1, <3>2, <1>1, <1>2
  <2> QED  BY <2>1, <1>2, <1>3, AppendKeeps
<1> HIDE DEF more
<1>6. ASSUME NEW i \in 1..Len(more)
      PROVE  /\ more[i].e.kind \in st.oneOff /\ more[i].e.born <= now
             /\ more[i].tick = more[i].e.born + EnableAfter + sh
  <2>1. CASE i \in 1..Len(list)
    BY <2>1, <1>3, <1>4
  <2>2. CASE i = Len(list) + 1
    BY <2>2, <1>1, <1>2, <1>4
  <2> QED  BY <2>1, <2>2, <1>4
<1>7. ASSUME NEW k \in ones \cup {<<kind, now>>}, k[1] = "PreSkip", k[2] + EnableAfter > from
      PROVE  Made(k) \in EntitiesOf(more)
  <2>1. CASE k \in ones
    BY <2>1, <1>4, <1>7 DEF Skipping
  <2>2. CASE k = <<kind, now>>
    BY <2>2, <1>2, <1>4 DEF e
  <2> QED  BY <2>1, <2>2
<1>8. shields \subseteq EntitiesOf(more)
  BY <1>3, <1>4
<1>9. Skipping(more, shields, st, ones \cup {<<kind, now>>}, sh, from, now)
  BY <1>4, <1>5, <1>6, <1>7, <1>8 DEF Skipping
<1> QED  BY <1>9 DEF more, x, e

-----------------------------------------------------------------------------
(* One lemma per action. *)

\* What the invariant says of the variables.
LEMMA InvSays ==
    ASSUME SpawnInv
    PROVE  /\ step \in Nat /\ shifted \in Int /\ lastStart \in Nat /\ lastStart <= step
           /\ oneOffs \subseteq Kinds \X Nat /\ Supported(setting)
           /\ entities \subseteq Local
           /\ Tracked(unmatched, matched, entities, shifted) /\ Rising(unmatched)
           /\ \A e \in entities : \/ Key(e) \in oneOffs
                                  \/ e.born \in 1..step /\ e.kind \in plan[e.born].spawn
           /\ \A b \in 1..step : plan[b].spawn \subseteq setting.simulated
           /\ \A k \in oneOffs : k[1] \in setting.oneOff /\ k[2] \in 0..step
           /\ setting.simulated \subseteq {"Det", "Pre"} /\ setting.oneOff \subseteq {"Skip", "PreSkip"}
<1>1. Planned(setting, plan, oneOffs, step)
  BY DEF SpawnInv
<1>2. /\ step \in Nat /\ oneOffs \subseteq Kinds \X Nat
      /\ \A b \in 1..step : plan[b].spawn \subseteq setting.simulated
      /\ \A k \in oneOffs : k[1] \in setting.oneOff /\ k[2] \in 0..step
      /\ setting.simulated \subseteq {"Det", "Pre"} /\ setting.oneOff \subseteq {"Skip", "PreSkip"}
  BY <1>1, PlanIs
<1>3. Supported(setting)
  BY <1>1 DEF Planned
<1>4. shifted \in Int /\ lastStart \in 0..step
  BY DEF SpawnInv
<1>5. World \in Worlds /\ Tracked(World.unmatched, World.matched, World.entities, shifted)
      /\ Rising(World.unmatched)
      /\ \A e \in World.entities : \/ Key(e) \in oneOffs
                                   \/ e.born \in 1..step /\ e.kind \in plan[e.born].spawn
  BY DEF SpawnInv, Standing
<1>6. World.entities \subseteq Local
  BY <1>5, WorldFields
<1> QED  BY <1>2, <1>3, <1>4, <1>5, <1>6, WorldIs

\* A frame that simulates the next step.
LEMMA StepKeeps ==
    ASSUME SpawnInv, NEW act \in ActsIn(step + 1), StepFrame(act)
    PROVE  SpawnInv'
<1> DEFINE now == step + 1
<1>1. /\ step \in Nat /\ shifted \in Int /\ lastStart \in Nat /\ lastStart <= step
      /\ oneOffs \subseteq Kinds \X Nat
  BY InvSays
<1>2. /\ setting' = setting /\ shifted' = shifted /\ oneOffs' = oneOffs /\ skips' = skips
      /\ shielded' = shielded /\ lastStart' = lastStart /\ step' = now
      /\ step < MaxStep
  BY DEF StepFrame
<1>3. PICK acts : acts = plan' /\ acts = Append(plan, act)
  BY DEF StepFrame
<1>4. EndFrame(OneStep(World, now, act), expired)
  BY DEF StepFrame
<1>5. now \in Nat /\ now \in 1..now /\ lastStart < now /\ now - 1 = step /\ lastStart \in 0..now
  BY <1>1
<1>6. act \in ActRecords /\ (act.spawn = {} \/ \E k \in setting.simulated : act.spawn = {k})
  BY ActsAre DEF SpawnInv
<1>7. Planned(setting, acts, oneOffs, now) /\ SamePlan(plan, acts, step) /\ acts[now] = act
  <2>1. Planned(setting, plan, oneOffs, step)
    BY DEF SpawnInv
  <2>2. Goes(setting, plan, oneOffs, step, act, acts)
    BY <1>2, <1>3, <1>6, <2>1 DEF Goes
  <2> QED  BY ONLY <2>2, PlannedMore
<1>8. Standing(World, setting, acts, oneOffs, expired, shifted, lastStart, step, now)
  BY <1>1, <1>7, StandsOn DEF SpawnInv
<1> HIDE DEF now
<1>9. Standing(OneStep(World, now, acts[now]), setting, acts, oneOffs, expired, shifted, lastStart,
               now, now)
  BY <1>1, <1>5, <1>7, <1>8, StepStands
<1>10. \A k \in expired : k \in Kinds \X Nat /\ now - k[2] > ExpireAfter
  <2>1. ASSUME NEW k \in expired PROVE k \in Kinds \X Nat /\ now - k[2] > ExpireAfter
    <3>1. k \in Kinds \X Nat /\ step - k[2] > ExpireAfter /\ k[2] \in Nat
      BY DEF SpawnInv, InTime
    <3> QED  BY <3>1, <1>1, <1>5, BoundsAre
  <2> QED  BY <2>1
<1>11. EndFrame(OneStep(World, now, acts[now]), expired)
  BY <1>4, <1>7
<1>12. /\ Standing(World', setting, acts, oneOffs, expired', shifted, lastStart, now, now)
       /\ InTime(unmatched', expired', shifted, now)
  BY <1>1, <1>2, <1>5, <1>9, <1>10, <1>11, FrameEnds
<1>13. Skipping(skips, shielded, setting, oneOffs, shifted, lastStart, now)
  BY <1>1, SkippingLater DEF SpawnInv, now
<1> QED  BY <1>1, <1>2, <1>3, <1>5, <1>7, <1>12, <1>13 DEF SpawnInv

\* A frame that rolls back.
LEMMA RollbackKeeps ==
    ASSUME SpawnInv, NEW start \in 0..step, NEW forced \in BOOLEAN,
           NEW change \in ActsIn(start + 1), RollbackFrame(start, forced, change)
    PROVE  SpawnInv'
<1>1. /\ step \in Nat /\ shifted \in Int /\ lastStart \in Nat /\ lastStart <= step
      /\ oneOffs \subseteq Kinds \X Nat /\ Supported(setting)
      /\ setting.simulated \subseteq {"Det", "Pre"}
  BY InvSays
<1>2. /\ setting' = setting /\ shifted' = shifted /\ oneOffs' = oneOffs /\ step' = step
      /\ lastStart' = start /\ step - start <= ReplayLimit
      /\ setting.revisits \/ start >= lastStart
      /\ forced => setting.forces
      /\ Shield(start, forced)
  <2>1. /\ setting' = setting /\ shifted' = shifted /\ oneOffs' = oneOffs /\ step' = step
        /\ lastStart' = start /\ step - start <= ReplayLimit
        /\ forced => setting.forces
        /\ Shield(start, forced)
    BY DEF RollbackFrame
  <2>2. IF setting.revisits THEN start < step ELSE start >= lastStart
    BY DEF RollbackFrame
  <2>3. setting.revisits \/ start >= lastStart
    BY ONLY <2>2
  <2> QED  BY <2>1, <2>3
<1>3. PICK acts : acts = plan'
  OBVIOUS
<1>4. Planned(setting, plan, oneOffs, step)
  BY DEF SpawnInv
<1>5. Planned(setting, acts, oneOffs, step) /\ SamePlan(plan, acts, start)
  <2>1. change \in ActRecords /\ (change.spawn = {} \/ \E k \in setting.simulated : change.spawn = {k})
    BY <1>4, ActsAre
  <2>2. CASE start = step
    <3>1. acts = plan
      BY <2>2, <1>3 DEF RollbackFrame
    <3> QED  BY <3>1, <1>4 DEF SamePlan
  <2>3. CASE start # step
    <3>1. acts = [plan EXCEPT ![start + 1] = change]
      BY <2>3, <1>3 DEF RollbackFrame
    <3>2. start \in 0..step
      OBVIOUS
    <3>3. /\ Planned(setting, [plan EXCEPT ![start + 1] = change], oneOffs, step)
          /\ SamePlan(plan, [plan EXCEPT ![start + 1] = change], start)
      BY ONLY <1>4, <2>1, <2>3, <3>2, PlannedChanged
    <3> QED  BY ONLY <3>1, <3>3
  <2> QED  BY <2>2, <2>3
<1>6. Skipping(skips, shielded, setting, oneOffs, shifted, lastStart, step)
  BY DEF SpawnInv
<1>7. start \in Nat /\ start <= step
  BY <1>1
\* A prespawned entity that is spawned once.
<1>8. ASSUME "PreSkip" \in setting.oneOff
      PROVE  ~ setting.revisits /\ ~ setting.forces /\ ~ forced /\ lastStart <= start
  BY <1>1, <1>2, <1>7, <1>8 DEF Supported
<1>9. /\ skips \in Seq(Listing)
      /\ \A i \in 1..Len(skips) : /\ skips[i].e.kind \in setting.oneOff
                                  /\ skips[i].tick = skips[i].e.born + EnableAfter + shifted
      /\ \A k \in oneOffs : k[1] = "PreSkip" /\ k[2] + EnableAfter > lastStart =>
            Made(k) \in EntitiesOf(skips)
  BY <1>6 DEF Skipping
<1>10. ToSet(skips) = {skips[i] : i \in 1..Len(skips)}
  BY <1>9 DEF ToSet
<1>11. \A x \in ToSet(skips) : x.e.kind \in setting.oneOff
  BY <1>9, <1>10
<1>12. ASSUME NEW e \in entities, e.kind = "PreSkip", e.born > start
       PROVE  e \in Protected(start, forced)
  <2>1. e \in Local /\ Key(e) \in oneOffs
    BY <1>12, InvSays
  <2>2. Made(Key(e)) = e /\ Key(e) = <<e.kind, e.born>> /\ e.born \in Nat
    BY <2>1, KeyIs
  <2>3. "PreSkip" \in setting.oneOff
    <3>1. Key(e)[1] \in setting.oneOff
      BY <2>1, InvSays
    <3> QED  BY <2>2, <3>1, <1>12
  <2>4. e.born + EnableAfter > lastStart /\ e.born + EnableAfter + shifted > start + shifted
    BY <2>2, <2>3, <1>1, <1>7, <1>8, <1>12, BoundsAre
  <2>5. e \in EntitiesOf(skips)
    BY <2>1, <2>2, <2>4, <1>9, <1>12
  <2>6. PICK i \in 1..Len(skips) : skips[i].e = e
    BY <2>5, <1>9, EntitiesAre
  <2>7. skips[i].tick = e.born + EnableAfter + shifted
    BY <2>6, <1>9
  <2>8. skips[i].tick > TickOf(start) /\ skips[i] \in ToSet(skips)
    BY <2>4, <2>7, <1>10 DEF TickOf
  <2> QED  BY <2>6, <2>8 DEF Protected
<1>13. Restarting(setting, plan, acts, oneOffs, expired, lastStart, start, forced, step)
  BY <1>1, <1>2, <1>4, <1>5, <1>11, <1>12 DEF Restarting, SpawnInv
<1>14. PICK kept : kept = {k \in expired : k[2] <= start \/ k \in oneOffs}
  OBVIOUS
<1>15. Standing(ReplayedFrom(start, forced, acts), setting, acts, oneOffs, kept, shifted, start,
                step, step)
  BY <1>13, <1>14, ReplayStands
<1>16. EndFrame(ReplayedFrom(start, forced, acts), kept)
  BY <1>3, <1>14 DEF RollbackFrame
<1>17. \A k \in kept : k \in Kinds \X Nat /\ step - k[2] > ExpireAfter
  BY <1>14 DEF SpawnInv, InTime
<1>18. /\ Standing(World', setting, acts, oneOffs, expired', shifted, start, step, step)
       /\ InTime(unmatched', expired', shifted, step)
  BY <1>1, <1>2, <1>15, <1>16, <1>17, FrameEnds
<1>19. Skipping(skips', shielded', setting, oneOffs, shifted, start, step)
  <2>1. CASE forced
    <3>1. skips' = <<>> /\ shielded' = shielded \ EntitiesOf(skips)
      BY <2>1, <1>2 DEF Shield
    <3>2. shielded \subseteq EntitiesOf(skips)
      BY <1>6 DEF Skipping
    <3>3. shielded' = {}
      BY <3>1, <3>2
    <3>4. \A k \in oneOffs : k[1] # "PreSkip"
      BY <2>1, <1>2, <1>8, InvSays
    <3>5. <<>> \in Seq(Listing) /\ Len(<<>>) = 0 /\ 1..0 = {}
      OBVIOUS
    <3> QED  BY <3>1, <3>3, <3>4, <3>5 DEF Skipping, Rising
  <2>2. CASE ~ forced
    <3>1. PICK i \in Splits(skips, TickOf(start) + 1) :
            /\ skips' = SubSeq(skips, i + 1, Len(skips))
            /\ shielded' = (shielded \cup EntitiesOf(skips')) \ EntitiesOf(SubSeq(skips, 1, i))
      BY <2>2, <1>2 DEF Shield
    <3>2. TickOf(start) + 1 = start + shifted + 1
      BY DEF TickOf
    <3>3. lastStart <= start \/ \A k \in oneOffs : k[1] # "PreSkip"
      BY <1>8, InvSays
    <3>4. Skipping(SubSeq(skips, i + 1, Len(skips)),
                   (shielded \cup EntitiesOf(SubSeq(skips, i + 1, Len(skips))))
                       \ EntitiesOf(SubSeq(skips, 1, i)), setting, oneOffs, shifted, start, step)
      BY <3>1, <3>2, <3>3, <1>1, <1>6, <1>7, SkippingDropped
    <3>5. shielded' = (shielded \cup EntitiesOf(SubSeq(skips, i + 1, Len(skips))))
                           \ EntitiesOf(SubSeq(skips, 1, i))
      BY <3>1
    <3> QED  BY <3>1, <3>4, <3>5
  <2> QED  BY <2>1, <2>2
<1>20. start \in 0..step
  OBVIOUS
<1> QED  BY <1>1, <1>2, <1>3, <1>5, <1>18, <1>19, <1>20 DEF SpawnInv

\* An entity of the server matches one of the client.
LEMMA MatchKeeps ==
    ASSUME SpawnInv, NEW i \in DOMAIN unmatched, Match(i)
    PROVE  SpawnInv'
<1>1. /\ setting' = setting /\ shifted' = shifted /\ oneOffs' = oneOffs /\ step' = step
      /\ lastStart' = lastStart /\ plan' = plan /\ expired' = expired
      /\ skips' = skips /\ shielded' = shielded
      /\ entities' = entities /\ disabled' = disabled /\ despawns' = despawns
      /\ unmatched' = RemoveAt(unmatched, i) /\ matched' = Append(matched, unmatched[i])
  BY DEF Match
<1>2. /\ step \in Nat /\ shifted \in Int
      /\ Tracked(unmatched, matched, entities, shifted) /\ Rising(unmatched)
  BY InvSays
<1>3. unmatched \in Seq(Listing) /\ Once(unmatched) /\ i \in 1..Len(unmatched)
  BY <1>2 DEF Tracked
<1>4. Tracked(unmatched', matched', entities', shifted) /\ Rising(unmatched')
  BY <1>1, <1>2, <1>3, TrackedMatch
<1>5. Standing(World, setting, plan, oneOffs, expired, shifted, lastStart, step, step)
  BY DEF SpawnInv
<1>6. World' \in Worlds
  <2>1. unmatched' \in Seq(Listing) /\ matched' \in Seq(Listing)
    BY <1>4 DEF Tracked
  <2>2. entities' \in SUBSET Local /\ disabled' \in Disabling /\ despawns' \in SUBSET Listing
    <3>1. World \in Worlds
      BY <1>5 DEF Standing
    <3> QED  BY <3>1, <1>1, WorldIs, WorldFields
  <2> QED  BY <2>1, <2>2 DEF World, Worlds
<1>7. Standing(World', setting, plan, oneOffs, expired, shifted, lastStart, step, step)
  <2>1. /\ World'.entities = World.entities /\ World'.disabled = World.disabled
        /\ World'.despawns = World.despawns
        /\ World'.unmatched = unmatched' /\ World'.matched = matched' /\ World'.entities = entities'
    BY <1>1, WorldIs, WorldNextIs
  <2>2. PICK w : w = World'
    OBVIOUS
  <2>3. Standing(w, setting, plan, oneOffs, expired, shifted, lastStart, step, step)
    BY <2>1, <2>2, <1>4, <1>5, <1>6 DEF Standing
  <2> QED  BY <2>2, <2>3
<1>8. InTime(unmatched', expired, shifted, step)
  <2>1. RemoveAt(unmatched, i) \in Seq(Listing) /\ Inside(RemoveAt(unmatched, i), unmatched)
    BY <1>3, RemovedIs
  <2>2. \A j \in 1..Len(RemoveAt(unmatched, i)) :
            \E k \in 1..Len(unmatched) : RemoveAt(unmatched, i)[j] = unmatched[k]
    BY <2>1, <1>3, InsideKeeps
  <2>3. InTime(unmatched, expired, shifted, step)
    BY DEF SpawnInv
  <2> QED  BY <2>2, <2>3, <1>1 DEF InTime
<1> QED  BY <1>1, <1>7, <1>8 DEF SpawnInv

\* An entity is spawned once.
LEMMA SpawnOnceKeeps ==
    ASSUME SpawnInv, NEW kind \in setting.oneOff, SpawnOnce(kind)
    PROVE  SpawnInv'
<1> DEFINE k == <<kind, step>>
           e == Made(k)
<1>1. /\ step \in Nat /\ shifted \in Int /\ lastStart \in Nat /\ lastStart <= step
      /\ oneOffs \subseteq Kinds \X Nat /\ Supported(setting) /\ entities \subseteq Local
      /\ Tracked(unmatched, matched, entities, shifted) /\ Rising(unmatched)
      /\ \A x \in entities : \/ Key(x) \in oneOffs
                             \/ x.born \in 1..step /\ x.kind \in plan[x.born].spawn
      /\ \A b \in 1..step : plan[b].spawn \subseteq setting.simulated
      /\ \A x \in oneOffs : x[1] \in setting.oneOff /\ x[2] \in 0..step
      /\ setting.simulated \subseteq {"Det", "Pre"} /\ setting.oneOff \subseteq {"Skip", "PreSkip"}
  BY InvSays
<1>2. kind \in {"Skip", "PreSkip"} /\ kind \in Kinds
  BY <1>1 DEF Kinds
<1>3. e \in Local /\ Key(e) = k /\ e.kind = kind /\ e.born = step
  BY <1>1, <1>2, KeyIs
<1>4. [kind |-> kind, born |-> step, copy |-> 1] = e
  BY DEF Made
<1>5. /\ setting' = setting /\ shifted' = shifted /\ step' = step
      /\ lastStart' = lastStart /\ plan' = plan /\ expired' = expired
      /\ shielded' = shielded /\ disabled' = disabled /\ despawns' = despawns /\ matched' = matched
      /\ Key(e) \notin oneOffs /\ entities' = entities \cup {e} /\ oneOffs' = oneOffs \cup {Key(e)}
      /\ skips' = Append(skips, Entry(TickOf(step) + EnableAfter, e))
      /\ unmatched' = IF IsPrespawned(e) THEN Append(unmatched, Entry(TickOf(step), e)) ELSE unmatched
  <2> HIDE DEF e
  <2> QED  BY <1>4 DEF SpawnOnce
<1> HIDE DEF e
<1>6. TickOf(step) = step + shifted
  BY DEF TickOf
<1>7. e \notin entities
  <2>1. SUFFICES ASSUME e \in entities PROVE FALSE
    OBVIOUS
  <2>2. e.born \in 1..step /\ e.kind \in plan[e.born].spawn
    BY <2>1, <1>1, <1>5
  <2>3. e.kind \in setting.simulated
    BY <2>2, <1>1
  <2> QED  BY <2>3, <1>1, <1>2, <1>3
\* The lists of the prespawned.
<1>8. Tracked(unmatched', matched', entities', shifted) /\ Rising(unmatched')
  <2>1. CASE IsPrespawned(e)
    <3>1. unmatched' = Append(unmatched, Entry(e.born + shifted, e))
      BY <2>1, <1>3, <1>5, <1>6
    <3>2. ASSUME NEW i \in 1..Len(unmatched) PROVE unmatched[i].tick <= e.born + shifted
      <4>1. /\ unmatched[i].e \in EntitiesOf(unmatched) /\ unmatched[i].e \in Local
            /\ unmatched[i].tick = unmatched[i].e.born + shifted
        BY <1>1, EntitiesAre DEF Tracked, Ticked
      <4>2. unmatched[i].e \in entities
        BY <4>1, <1>1 DEF Tracked
      <4>3. unmatched[i].e.born \in Nat /\ unmatched[i].e.born <= step
        <5>1. CASE Key(unmatched[i].e) \in oneOffs
          <6>1. Key(unmatched[i].e)[2] \in 0..step /\ Key(unmatched[i].e)[2] = unmatched[i].e.born
            BY <5>1, <1>1, <4>1, KeyIs
          <6> QED  BY <6>1, <1>1
        <5>2. CASE unmatched[i].e.born \in 1..step
          BY <5>2, <1>1
        <5> QED  BY <5>1, <5>2, <4>2, <1>1
      <4> QED  BY <4>1, <4>3, <1>1, <1>3
    <3>3. /\ Tracked(Append(unmatched, Entry(e.born + shifted, e)), matched, entities \cup {e}, shifted)
          /\ Rising(unmatched) /\ (\A i \in 1..Len(unmatched) : unmatched[i].tick <= e.born + shifted)
                => Rising(Append(unmatched, Entry(e.born + shifted, e)))
      <4>1. /\ Tracked(unmatched, matched, entities, shifted) /\ shifted \in Int
            /\ e \in Local /\ e \notin entities /\ IsPrespawned(e)
        BY <2>1, <1>1, <1>3, <1>7
      <4> QED  BY ONLY <4>1, TrackedSpawn
    <3>4. Rising(Append(unmatched, Entry(e.born + shifted, e)))
      BY ONLY <3>2, <3>3, <1>1
    <3> QED  BY <3>1, <3>3, <3>4, <1>5
  <2>2. CASE ~ IsPrespawned(e)
    <3>1. {x \in entities' : IsPrespawned(x)} = {x \in entities : IsPrespawned(x)}
      BY <2>2, <1>5
    <3> QED  BY <2>2, <3>1, <1>1, <1>5, TrackedElse
  <2> QED  BY <2>1, <2>2
<1>9. Standing(World, setting, plan, oneOffs, expired, shifted, lastStart, step, step)
  BY DEF SpawnInv
<1>10. World \in Worlds
  BY <1>9 DEF Standing
<1>11. World' \in Worlds
  <2>1. unmatched' \in Seq(Listing) /\ matched' \in Seq(Listing)
    BY <1>8 DEF Tracked
  <2>2. entities' \in SUBSET Local /\ disabled' \in Disabling /\ despawns' \in SUBSET Listing
    BY <1>1, <1>3, <1>5, <1>10, WorldIs, WorldFields
  <2> QED  BY <2>1, <2>2 DEF World, Worlds
<1>12. Standing(World', setting, plan, oneOffs', expired, shifted, lastStart, step, step)
  <2>1. /\ World'.entities = World.entities \cup {e} /\ World'.disabled = World.disabled
        /\ World'.despawns = World.despawns
        /\ World'.unmatched = unmatched' /\ World'.matched = matched' /\ World'.entities = entities'
    BY <1>5, WorldIs, WorldNextIs
  <2>2. PICK w, ones : w = World' /\ ones = oneOffs'
    OBVIOUS
  <2>3. ones = oneOffs \cup {Key(e)} /\ Made(Key(e)) = e /\ e.kind # "Det"
    BY <2>2, <1>2, <1>3, <1>5 DEF e
  <2>4. \A x \in w.entities : \/ Key(x) \in ones
                              \/ x.born \in 1..step /\ x.kind \in plan[x.born].spawn
    BY <2>1, <2>2, <2>3, <1>9 DEF Standing
  <2>5. \A b \in 1..step : \A c \in plan[b].spawn :
             Made(<<c, b>>) \in w.entities \/ Excused(<<c, b>>, plan, expired, step)
    BY <2>1, <2>2, <1>9 DEF Standing
  <2>6. \A c \in ones : Made(c) \in w.entities \/ Excused(c, plan, expired, step)
    BY <2>1, <2>2, <2>3, <1>9 DEF Standing
  <2>7. \A x \in w.entities : x.kind = "Det" /\ x.born > lastStart =>
                                  Entry(x.born + shifted, x) \in w.despawns
    BY <2>1, <2>2, <2>3, <1>9 DEF Standing
  <2>8. /\ \A d \in w.despawns : /\ d.e.kind = "Det" /\ d.e.kind \in setting.simulated
                                 /\ d.tick = d.e.born + shifted /\ d.e.born <= step
        /\ \A x \in DOMAIN w.disabled :
              /\ x.kind \in setting.simulated \cup setting.oneOff
              /\ x.kind # "Pre" => \E b \in 1..step : Key(x) \in plan[b].kill
                                                      /\ w.disabled[x] = b + shifted
    BY <2>1, <2>2, <1>9 DEF Standing
  <2>9. /\ w \in Worlds /\ Tracked(w.unmatched, w.matched, w.entities, shifted)
        /\ Rising(w.unmatched)
    BY <2>1, <2>2, <1>8, <1>11
  <2>10. Standing(w, setting, plan, ones, expired, shifted, lastStart, step, step)
    BY <2>4, <2>5, <2>6, <2>7, <2>8, <2>9 DEF Standing
  <2> QED  BY <2>2, <2>10
<1>13. Planned(setting, plan, oneOffs', step)
  <2>1. oneOffs' \subseteq setting.oneOff \X (0..step)
    <3>1. k \in setting.oneOff \X (0..step) /\ oneOffs \subseteq setting.oneOff \X (0..step)
      BY <1>1 DEF SpawnInv, Planned
    <3> QED  BY <3>1, <1>3, <1>5
  <2>2. PICK ones : ones = oneOffs'
    OBVIOUS
  <2>3. Planned(setting, plan, ones, step)
    BY <2>1, <2>2 DEF SpawnInv, Planned
  <2> QED  BY <2>2, <2>3
<1>14. InTime(unmatched', expired, shifted, step)
  <2>1. InTime(unmatched, expired, shifted, step)
    BY DEF SpawnInv
  <2>2. CASE IsPrespawned(e)
    <3>1. unmatched' = Append(unmatched, Entry(step + shifted, e)) /\ unmatched \in Seq(Listing)
      BY <2>2, <1>1, <1>5, <1>6 DEF Tracked
    <3>2. Entry(step + shifted, e) \in Listing /\ Entry(step + shifted, e).tick = step + shifted
      BY <1>1, <1>3 DEF Entry, Listing
    <3>3. PICK x \in Listing : x = Entry(step + shifted, e) /\ x.tick = step + shifted
      BY <3>2
    <3>4. \A i \in 1..Len(Append(unmatched, x)) :
             \/ i \in 1..Len(unmatched) /\ Append(unmatched, x)[i] = unmatched[i]
             \/ Append(unmatched, x)[i] = x
      BY <3>1, AppendIs
    <3>5. x.tick >= step + shifted - ExpireAfter
      BY <3>3, <1>1, BoundsAre
    <3>6. \A i \in 1..Len(unmatched) : unmatched[i].tick >= step + shifted - ExpireAfter
      BY <2>1 DEF InTime
    <3>7. unmatched' = Append(unmatched, x)
      BY <3>1, <3>3
    <3>8. \A i \in 1..Len(unmatched') : unmatched'[i].tick >= step + shifted - ExpireAfter
      BY <3>4, <3>5, <3>6, <3>7
    <3> QED  BY <2>1, <3>8 DEF InTime
  <2>3. CASE ~ IsPrespawned(e)
    BY <2>1, <2>3, <1>5
  <2> QED  BY <2>2, <2>3
<1>15. Skipping(skips', shielded, setting, oneOffs', shifted, lastStart, step)
  <2>1. Skipping(skips, shielded, setting, oneOffs, shifted, lastStart, step)
    BY DEF SpawnInv
  <2>2. setting.oneOff \subseteq Kinds
    BY <1>1 DEF Kinds
  <2>3. Skipping(Append(skips, Entry(step + shifted + EnableAfter, Made(<<kind, step>>))), shielded,
                 setting, oneOffs \cup {<<kind, step>>}, shifted, lastStart, step)
    BY <2>1, <2>2, <1>1, SkippingOnce
  <2>4. /\ skips' = Append(skips, Entry(step + shifted + EnableAfter, Made(<<kind, step>>)))
        /\ oneOffs' = oneOffs \cup {<<kind, step>>}
    BY <1>3, <1>5, <1>6 DEF e
  <2> QED  BY <2>3, <2>4
<1> QED  BY <1>5, <1>12, <1>13, <1>14, <1>15 DEF SpawnInv

\* The timeline is shifted.
LEMMA ShiftKeeps ==
    ASSUME SpawnInv, NEW delta \in {-1, 1}, TimelineShift(delta)
    PROVE  SpawnInv'
<1>1. /\ setting' = setting /\ shifted' = shifted + delta /\ oneOffs' = oneOffs /\ step' = step
      /\ lastStart' = lastStart /\ plan' = plan /\ expired' = expired
      /\ skips' = skips /\ shielded' = shielded
      /\ entities' = entities /\ disabled' = disabled /\ despawns' = despawns
      /\ unmatched' = ShiftedBy(unmatched, delta) /\ matched' = ShiftedBy(matched, delta)
      /\ setting.shifts
  BY DEF TimelineShift
<1>2. /\ step \in Nat /\ shifted \in Int /\ Supported(setting) /\ delta \in Int
      /\ Tracked(unmatched, matched, entities, shifted) /\ Rising(unmatched)
      /\ \A e \in entities : \/ Key(e) \in oneOffs
                             \/ e.born \in 1..step /\ e.kind \in plan[e.born].spawn
      /\ \A b \in 1..step : plan[b].spawn \subseteq setting.simulated
      /\ \A k \in oneOffs : k[1] \in setting.oneOff
      /\ setting.simulated \subseteq {"Det", "Pre"}
  BY InvSays
<1>3. setting.oneOff = {} /\ "Det" \notin setting.simulated /\ oneOffs = {}
  BY <1>1, <1>2 DEF Supported
<1>4. Tracked(unmatched', matched', entities', shifted') /\ Rising(unmatched')
  BY <1>1, <1>2, TrackedShift
<1>5. Standing(World, setting, plan, oneOffs, expired, shifted, lastStart, step, step)
  BY DEF SpawnInv
<1>6. World' \in Worlds
  <2>1. unmatched' \in Seq(Listing) /\ matched' \in Seq(Listing)
    BY <1>4 DEF Tracked
  <2>2. entities' \in SUBSET Local /\ disabled' \in Disabling /\ despawns' \in SUBSET Listing
    <3>1. World \in Worlds
      BY <1>5 DEF Standing
    <3> QED  BY <3>1, <1>1, WorldIs, WorldFields
  <2> QED  BY <2>1, <2>2 DEF World, Worlds
<1>7. Standing(World', setting, plan, oneOffs, expired, shifted', lastStart, step, step)
  <2>1. /\ World'.entities = World.entities /\ World'.disabled = World.disabled
        /\ World'.despawns = World.despawns /\ World.entities = entities
        /\ World'.unmatched = unmatched' /\ World'.matched = matched' /\ World'.entities = entities'
    BY <1>1, WorldIs, WorldNextIs
  <2>2. PICK w, sh : w = World' /\ sh = shifted'
    OBVIOUS
  <2>3. \A d \in w.despawns : FALSE
    BY <2>1, <2>2, <1>3, <1>5 DEF Standing
  <2>4. \A e \in w.entities : e.kind # "Det"
    BY <2>1, <2>2, <1>2, <1>3
  <2>5. \A e \in DOMAIN w.disabled : e.kind \in setting.simulated \cup setting.oneOff /\ e.kind = "Pre"
    <3>1. \A e \in DOMAIN w.disabled : e.kind \in setting.simulated \cup setting.oneOff
      BY <2>1, <2>2, <1>5 DEF Standing
    <3> QED  BY <3>1, <1>2, <1>3
  <2>6. /\ w \in Worlds /\ Tracked(w.unmatched, w.matched, w.entities, sh) /\ Rising(w.unmatched)
    BY <2>1, <2>2, <1>4, <1>6
  <2>7. /\ \A e \in w.entities : \/ Key(e) \in oneOffs
                                 \/ e.born \in 1..step /\ e.kind \in plan[e.born].spawn
        /\ \A b \in 1..step : \A k \in plan[b].spawn :
               Made(<<k, b>>) \in w.entities \/ Excused(<<k, b>>, plan, expired, step)
        /\ \A k \in oneOffs : Made(k) \in w.entities \/ Excused(k, plan, expired, step)
    BY <2>1, <2>2, <1>5 DEF Standing
  <2>8. Standing(w, setting, plan, oneOffs, expired, sh, lastStart, step, step)
    BY <2>3, <2>4, <2>5, <2>6, <2>7 DEF Standing
  <2> QED  BY <2>2, <2>8
<1>8. InTime(unmatched', expired, shifted', step)
  <2>1. /\ Len(ShiftedBy(unmatched, delta)) = Len(unmatched)
        /\ \A i \in 1..Len(unmatched) : ShiftedBy(unmatched, delta)[i].tick = unmatched[i].tick + delta
    BY <1>2, ShiftedIs DEF Tracked
  <2>2. InTime(unmatched, expired, shifted, step)
    BY DEF SpawnInv
  <2>3. ASSUME NEW i \in 1..Len(unmatched)
        PROVE  unmatched[i].tick + delta >= step + (shifted + delta) - ExpireAfter
    <3>1. unmatched[i].tick \in Int /\ unmatched[i].tick >= step + shifted - ExpireAfter
      BY <2>2, <1>2, EntitiesAre DEF InTime, Tracked
    <3> QED  BY <3>1, <1>2, BoundsAre
  <2>4. \A i \in 1..Len(unmatched') : unmatched'[i].tick >= step + shifted' - ExpireAfter
    BY <2>1, <2>3, <1>1
  <2> QED  BY <2>2, <2>4 DEF InTime
<1>9. Skipping(skips, shielded, setting, oneOffs, shifted', lastStart, step)
  BY <1>3 DEF SpawnInv, Skipping
<1>10. shifted' \in Int
  BY <1>1, <1>2
<1> QED  BY <1>1, <1>7, <1>8, <1>9, <1>10 DEF SpawnInv

\* The first state.
LEMMA SpawnStarts ==
    ASSUME \A st \in SpawnSettings : Supported(st), SpawnInit
    PROVE  SpawnInv
<1>1. /\ Supported(setting)
      /\ step = 0 /\ shifted = 0 /\ plan = <<>> /\ oneOffs = {}
      /\ entities = {} /\ disabled = <<>> /\ despawns = {} /\ skips = <<>> /\ shielded = {}
      /\ unmatched = <<>> /\ matched = <<>>
      /\ lastStart = 0 /\ expired = {}
  BY DEF SpawnInit
<1>2. /\ <<>> \in Seq(Listing) /\ <<>> \in Seq(ActRecords) /\ Len(<<>>) = 0 /\ 1..0 = {}
      /\ 0 \in 0..MaxStep
  BY BoundsAre
<1>3. EntitiesOf(<<>>) = {}
  <2>1. EntitiesOf(<<>>) = {<<>>[i].e : i \in 1..Len(<<>>)}
    BY <1>2, EntitiesAre
  <2> QED  BY <2>1, <1>2
<1>4. <<>> \in Disabling /\ DOMAIN <<>> = {}
  BY DEF Disabling
<1>5. Planned(setting, plan, oneOffs, step)
  BY <1>1, <1>2 DEF Planned
<1>6. World \in Worlds
  BY <1>1, <1>2, <1>4 DEF World, Worlds
<1>7. Tracked(unmatched, matched, entities, shifted) /\ Rising(unmatched)
  BY <1>1, <1>2, <1>3 DEF Tracked, Once, Ticked, Rising
<1>8. Standing(World, setting, plan, oneOffs, expired, shifted, lastStart, step, step)
  <2>1. /\ World.entities = {} /\ DOMAIN World.disabled = {} /\ World.despawns = {}
        /\ World.unmatched = unmatched /\ World.matched = matched /\ World.entities = entities
    BY <1>1, <1>4, WorldIs
  <2> QED  BY <2>1, <1>1, <1>2, <1>6, <1>7 DEF Standing
<1>9. InTime(unmatched, expired, shifted, step)
  BY <1>1, <1>2 DEF InTime
<1>10. Skipping(skips, shielded, setting, oneOffs, shifted, lastStart, step)
  BY <1>1, <1>2, <1>3 DEF Skipping, Rising
<1> QED  BY <1>1, <1>5, <1>8, <1>9, <1>10 DEF SpawnInv

\* Every step keeps the invariant.
LEMMA SpawnSteps ==
    ASSUME SpawnInv, [SpawnNext]_spawnVars
    PROVE  SpawnInv'
<1>1. CASE \E act \in ActsIn(step + 1) : StepFrame(act)
  BY <1>1, StepKeeps
<1>2. CASE \E start \in 0..step, forced \in BOOLEAN :
           \E change \in ActsIn(start + 1) : RollbackFrame(start, forced, change)
  BY <1>2, RollbackKeeps
<1>3. CASE \E kind \in setting.oneOff : SpawnOnce(kind)
  BY <1>3, SpawnOnceKeeps
<1>4. CASE \E i \in DOMAIN unmatched : Match(i)
  BY <1>4, MatchKeeps
<1>5. CASE \E delta \in {-1, 1} : TimelineShift(delta)
  BY <1>5, ShiftKeeps
<1>6. CASE UNCHANGED spawnVars
  <2>1. /\ setting' = setting /\ shifted' = shifted /\ oneOffs' = oneOffs /\ step' = step
        /\ lastStart' = lastStart /\ plan' = plan /\ expired' = expired
        /\ skips' = skips /\ shielded' = shielded /\ unmatched' = unmatched /\ matched' = matched
        /\ entities' = entities /\ disabled' = disabled /\ despawns' = despawns
    BY <1>6 DEF spawnVars
  <2>2. World' = World
    BY <2>1 DEF World
  <2> QED  BY <2>1, <2>2 DEF SpawnInv
<1> QED  BY <1>1, <1>2, <1>3, <1>4, <1>5, <1>6 DEF SpawnNext

-----------------------------------------------------------------------------
(* What the invariant says. *)

\* A list names as many entities as it has entries.
LEMMA OnceCounts ==
    ASSUME NEW list, NEW n \in Nat, DOMAIN list = 1..n, Len(list) = n, Once(list)
    PROVE  Cardinality(EntitiesOf(list)) = n
<1> DEFINE T == EntitiesOf(list)
           f == [i \in 1..n |-> list[i].e]
<1>1. IsFiniteSet(1..n) /\ Cardinality(1..n) = n
  <2>1. Cardinality(1..n) = IF 1 > n THEN 0 ELSE n - 1 + 1
    BY FS_Interval
  <2> QED  BY <2>1, FS_Interval
<1>2. T = {list[i].e : i \in 1..n}
  BY DEF EntitiesOf
<1>3. \A i, j \in 1..n : list[i].e = list[j].e => i = j
  BY DEF Once
<1> HIDE DEF T
<1>4. f \in [1..n -> T]
  BY <1>2
<1>5. f \in Bijection(1..n, T)
  <2>1. f \in Injection(1..n, T)
    BY <1>3, <1>4 DEF Injection, IsInjective
  <2>2. f \in Surjection(1..n, T)
    BY <1>2, <1>4 DEF Surjection
  <2> QED  BY <2>1, <2>2 DEF Bijection
<1>6. ExistsBijection(1..n, T)
  BY <1>5 DEF ExistsBijection
<1> QED  BY <1>1, <1>6, FS_Bijection DEF T

\* Two lists after each other.
LEMMA BothAre ==
    ASSUME NEW u, NEW m, NEW E, NEW sh, Tracked(u, m, E, sh)
    PROVE  /\ EntitiesOf(u \o m) = {e \in E : IsPrespawned(e)}
           /\ Cardinality(EntitiesOf(u \o m)) = Len(u \o m)
           /\ \A i \in DOMAIN (u \o m) : (u \o m)[i].tick = (u \o m)[i].e.born + sh
<1> DEFINE all == u \o m
           n == Len(u) + Len(m)
<1>1. /\ u \in Seq(Listing) /\ m \in Seq(Listing) /\ Len(u) \in Nat /\ Len(m) \in Nat /\ n \in Nat
      /\ EntitiesOf(u) \cup EntitiesOf(m) = {e \in E : IsPrespawned(e)}
      /\ EntitiesOf(u) \cap EntitiesOf(m) = {}
      /\ Once(u) /\ Once(m) /\ Ticked(u, sh) /\ Ticked(m, sh)
  BY DEF Tracked
<1>2. /\ Len(all) = n /\ DOMAIN all = 1..n /\ all \in Seq(Listing)
      /\ \A i \in 1..n : all[i] = IF i <= Len(u) THEN u[i] ELSE m[i - Len(u)]
  BY <1>1
<1>3. \A i \in 1..n : \/ i \in 1..Len(u)
                      \/ i > Len(u) /\ i - Len(u) \in 1..Len(m)
  BY <1>1
<1>4. /\ \A i \in 1..Len(u) : i \in 1..n /\ i <= Len(u)
      /\ \A j \in 1..Len(m) : /\ Len(u) + j \in 1..n /\ ~ (Len(u) + j <= Len(u))
                              /\ Len(u) + j - Len(u) = j
  BY <1>1
<1> HIDE DEF all, n
<1>5. /\ \A i \in 1..Len(u) : i \in 1..n /\ all[i] = u[i]
      /\ \A j \in 1..Len(m) : Len(u) + j \in 1..n /\ all[Len(u) + j] = m[j]
  BY <1>2, <1>4
<1>6. \A i \in 1..n : \/ i \in 1..Len(u) /\ all[i] = u[i]
                      \/ /\ i > Len(u) /\ i - Len(u) \in 1..Len(m) /\ all[i] = m[i - Len(u)]
  <2>1. ASSUME NEW i \in 1..n
        PROVE  \/ i \in 1..Len(u) /\ all[i] = u[i]
               \/ /\ i > Len(u) /\ i - Len(u) \in 1..Len(m) /\ all[i] = m[i - Len(u)]
    <3>1. CASE i \in 1..Len(u)
      BY <3>1, <1>5
    <3>2. CASE i > Len(u) /\ i - Len(u) \in 1..Len(m)
      <4>1. ~ (i <= Len(u))
        <5>1. i \in Int
          BY <1>1 DEF n
        <5> QED  BY <3>2, <5>1, <1>1
      <4> QED  BY <3>2, <4>1, <1>2
    <3> QED  BY <3>1, <3>2, <1>3
  <2> QED  BY <2>1
<1>7. /\ \A i \in 1..Len(u) : u[i].e \in EntitiesOf(u)
      /\ \A i \in 1..Len(m) : m[i].e \in EntitiesOf(m)
      /\ EntitiesOf(u) = {u[i].e : i \in 1..Len(u)} /\ EntitiesOf(m) = {m[i].e : i \in 1..Len(m)}
  BY <1>1, EntitiesAre
<1>8. EntitiesOf(all) = {all[i].e : i \in 1..n}
  BY <1>2 DEF EntitiesOf
<1>9. EntitiesOf(all) = EntitiesOf(u) \cup EntitiesOf(m)
  <2>1. \A x \in EntitiesOf(all) : x \in EntitiesOf(u) \cup EntitiesOf(m)
    BY <1>6, <1>7, <1>8
  <2>2. \A x \in EntitiesOf(u) : x \in EntitiesOf(all)
    BY <1>5, <1>7, <1>8
  <2>3. \A x \in EntitiesOf(m) : x \in EntitiesOf(all)
    BY <1>5, <1>7, <1>8
  <2> QED  BY <2>1, <2>2, <2>3
<1>10. Once(all)
  <2>1. ASSUME NEW i \in 1..n, NEW j \in 1..n, all[i].e = all[j].e PROVE i = j
    <3>0. i \in Int /\ j \in Int
      BY <1>1 DEF n
    <3>1. CASE i \in 1..Len(u) /\ all[i] = u[i] /\ j \in 1..Len(u) /\ all[j] = u[j]
      BY <3>1, <2>1, <1>1 DEF Once
    <3>2. CASE /\ i \in 1..Len(u) /\ all[i] = u[i]
               /\ j > Len(u) /\ j - Len(u) \in 1..Len(m) /\ all[j] = m[j - Len(u)]
      BY <3>2, <2>1, <1>1, <1>7
    <3>3. CASE /\ j \in 1..Len(u) /\ all[j] = u[j]
               /\ i > Len(u) /\ i - Len(u) \in 1..Len(m) /\ all[i] = m[i - Len(u)]
      BY <3>3, <2>1, <1>1, <1>7
    <3>4. CASE /\ j > Len(u) /\ j - Len(u) \in 1..Len(m) /\ all[j] = m[j - Len(u)]
               /\ i > Len(u) /\ i - Len(u) \in 1..Len(m) /\ all[i] = m[i - Len(u)]
      <4>1. i - Len(u) = j - Len(u)
        BY <3>4, <2>1, <1>1 DEF Once
      <4> QED  BY <4>1, <3>0, <1>1
    <3> QED  BY <3>1, <3>2, <3>3, <3>4, <1>6
  <2> QED  BY <2>1, <1>2 DEF Once
<1>11. Cardinality(EntitiesOf(all)) = Len(all)
  BY <1>1, <1>2, <1>10, OnceCounts
<1>12. \A i \in DOMAIN all : all[i].tick = all[i].e.born + sh
  BY <1>1, <1>2, <1>6 DEF Ticked
<1> QED  BY <1>1, <1>9, <1>11, <1>12 DEF all

\* The books.
LEMMA BooksAre ==
    ASSUME SpawnInv
    PROVE  SpawnBooks
<1>1. /\ step \in Nat /\ shifted \in Int
      /\ Tracked(unmatched, matched, entities, shifted) /\ Rising(unmatched)
  BY InvSays
<1>2. DOMAIN unmatched = 1..Len(unmatched)
  BY <1>1 DEF Tracked
<1>3. PrespawnsFollow
  <2>1. PICK all : all = unmatched \o matched
    OBVIOUS
  <2>2. /\ EntitiesOf(all) = {e \in entities : IsPrespawned(e)}
        /\ Cardinality(EntitiesOf(all)) = Len(all)
        /\ \A i \in DOMAIN all : all[i].tick = all[i].e.born + shifted
    BY <1>1, <2>1, BothAre
  <2>3. \A i \in DOMAIN all : all[i].tick = TickOf(all[i].e.born)
    BY <2>2 DEF TickOf
  <2> QED  BY <2>1, <2>2, <2>3 DEF PrespawnsFollow
<1>4. UnmatchedSorted
  BY <1>1, <1>2 DEF Rising, UnmatchedSorted
<1>5. ExpiredInTime
  <2>1. InTime(unmatched, expired, shifted, step)
    BY DEF SpawnInv
  <2>2. TickOf(step) - ExpireAfter = step + shifted - ExpireAfter
    BY <1>1, BoundsAre DEF TickOf
  <2>3. \A k \in expired : step - k[2] > ExpireAfter
    BY <2>1 DEF InTime
  <2>4. \A i \in DOMAIN unmatched : unmatched[i].tick >= TickOf(step) - ExpireAfter
    BY <2>1, <2>2, <1>2 DEF InTime
  <2> QED  BY <2>3, <2>4 DEF ExpiredInTime
<1>6. ShieldsEnd
  BY DEF SpawnInv, Skipping, ShieldsEnd
<1> QED  BY <1>3, <1>4, <1>5, <1>6 DEF SpawnBooks

\* An entity of each spawn.
LEMMA CopiesAre ==
    ASSUME SpawnInv
    PROVE  SpawnedOnce
<1>1. /\ step \in Nat /\ oneOffs \subseteq Kinds \X Nat /\ entities \subseteq Local
      /\ \A e \in entities : \/ Key(e) \in oneOffs
                             \/ e.born \in 1..step /\ e.kind \in plan[e.born].spawn
      /\ \A b \in 1..step : plan[b].spawn \subseteq setting.simulated
      /\ setting.simulated \subseteq {"Det", "Pre"}
  BY InvSays
<1>2. DOMAIN plan = 1..step
  <2>1. plan \in Seq(ActRecords) /\ Len(plan) = step
    BY DEF SpawnInv, Planned
  <2> QED  BY <2>1
<1>3. ASSUME NEW k, NEW e \in entities, Key(e) = k PROVE e = Made(k) /\ k \in Wanted
  <2>1. e \in Local /\ Made(Key(e)) = e /\ Key(e) = <<e.kind, e.born>>
    BY <1>1, KeyIs
  <2>2. CASE k \in oneOffs
    BY <1>3, <2>1, <2>2 DEF Wanted
  <2>3. CASE e.born \in 1..step /\ e.kind \in plan[e.born].spawn
    <3>1. k \in plan[e.born].spawn \X {e.born}
      BY <1>3, <2>1, <2>3
    <3>2. k \in KeysOf(plan)
      BY <2>3, <3>1, <1>2 DEF KeysOf
    <3> QED  BY <1>3, <2>1, <3>2 DEF Wanted
  <2> QED  BY <2>2, <2>3, <1>1, <1>3
<1>4. /\ \A b \in 1..step : \A k \in plan[b].spawn :
             Made(<<k, b>>) \in entities \/ Excused(<<k, b>>, plan, expired, step)
      /\ \A k \in oneOffs : Made(k) \in entities \/ Excused(k, plan, expired, step)
  BY WorldIs DEF SpawnInv, Standing
<1>5. ASSUME NEW k, Excused(k, plan, expired, step) PROVE k \in DespawnedByPlan \cup expired
  <2>1. k \in expired \/ \E b \in 1..step : k \in plan[b].kill
    BY <1>5 DEF Excused, LongDespawned
  <2> QED  BY <2>1, <1>2 DEF DespawnedByPlan
<1>6. ASSUME NEW k \in Wanted \ (DespawnedByPlan \cup expired)
      PROVE  Made(k) \in entities /\ Key(Made(k)) = k
  <2>1. CASE k \in oneOffs
    <3>1. k = <<k[1], k[2]>> /\ k[1] \in Kinds /\ k[2] \in Nat
      BY <2>1, <1>1
    <3>2. Key(Made(k)) = k
      BY <3>1, KeyIs
    <3> QED  BY <2>1, <3>2, <1>4, <1>5, <1>6
  <2>2. CASE k \in KeysOf(plan)
    <3>1. PICK b \in 1..step : k \in plan[b].spawn \X {b}
      BY <2>2, <1>2 DEF KeysOf
    <3>2. PICK c \in plan[b].spawn : k = <<c, b>>
      BY <3>1
    <3>3. c \in Kinds /\ b \in Nat
      BY <3>2, <1>1 DEF Kinds
    <3>4. Key(Made(k)) = k
      BY <3>2, <3>3, KeyIs
    <3> QED  BY <3>2, <3>4, <1>4, <1>5, <1>6
  <2> QED  BY <2>1, <2>2, <1>6 DEF Wanted
<1>7. ASSUME NEW k
      PROVE  /\ Copies(k) <= (IF k \in Wanted THEN 1 ELSE 0)
             /\ k \in Wanted \ (DespawnedByPlan \cup expired) => Copies(k) = 1
  <2> DEFINE S == {e \in entities : Key(e) = k}
  <2>1. Copies(k) = Cardinality(S)
    BY DEF Copies
  <2>2. \A e \in S : e = Made(k) /\ k \in Wanted
    BY <1>3
  <2>3. k \in Wanted \ (DespawnedByPlan \cup expired) => Made(k) \in S
    BY <1>6
  <2> HIDE DEF S
  <2>4. CASE S = {}
    <3>1. Copies(k) = 0
      BY <2>1, <2>4, FS_EmptySet
    <3> QED  BY <2>3, <2>4, <3>1
  <2>5. CASE S # {}
    <3>1. S = {Made(k)} /\ k \in Wanted
      BY <2>2, <2>5
    <3>2. Copies(k) = 1
      BY <2>1, <3>1, FS_Singleton
    <3> QED  BY <3>1, <3>2
  <2> QED  BY <2>4, <2>5
<1> QED  BY <1>7 DEF SpawnedOnce

(***************************************************************************)
(* The inductive invariant of the local spawns, for every setting whose    *)
(* rollbacks the lists of PredictionManager support: a rollback resimulates*)
(* "Det" entities only while it does not start before an earlier one did,  *)
(* "PreSkip" entities are neither forced away nor mixed with prespawns of  *)
(* the simulation, and the timeline is shifted only where neither list is  *)
(* used (check_rollback, handle_local_timeline_shift).                     *)
(***************************************************************************)
THEOREM SpawnInvAlways == (\A st \in SpawnSettings : Supported(st)) => (SpawnSpec => []SpawnInv)
<1> SUFFICES ASSUME \A st \in SpawnSettings : Supported(st)
             PROVE  SpawnSpec => []SpawnInv
  OBVIOUS
<1>1. SpawnInit => SpawnInv
  BY SpawnStarts
<1>2. SpawnInv /\ [SpawnNext]_spawnVars => SpawnInv'
  BY SpawnSteps
<1> QED  BY <1>1, <1>2, PTL DEF SpawnSpec

(***************************************************************************)
(* Whatever the order of rollbacks, matches, despawns and shifts, each     *)
(* entity that the simulation has spawned or that was spawned once exists  *)
(* once, what turned out otherwise is gone, and the lists of               *)
(* PreSpawnedReceiver and PredictionManager name what exists, in time.     *)
(***************************************************************************)
THEOREM SpawnsSoundAlways == (\A st \in SpawnSettings : Supported(st)) => (SpawnSpec => []SpawnsSound)
<1>1. SpawnInv => SpawnsSound
  BY BooksAre, CopiesAre DEF SpawnsSound
<1> QED  BY <1>1, SpawnInvAlways, PTL
=============================================================================
