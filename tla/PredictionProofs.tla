-------------------------- MODULE PredictionProofs --------------------------
(***************************************************************************)
(* Once a tick that the server has confirmed completely was processed, the *)
(* client's past agrees with the server at that tick, for any entities,    *)
(* values, delays and reach of a rollback, where the simulation writes     *)
(* values and does not remove the component.                               *)
(*                                                                         *)
(* Past and Confirming are the two histories as the client keeps them,     *)
(* with what each of their operations does to what is said of a tick.      *)
(* Replaying is what the ticks of a replay keep up.  Served says of the    *)
(* server that what is complete is known: received, or as it was in the    *)
(* last tick that was received.  Reconciling says of the client that what  *)
(* it received of its past was compared with what it predicted, and        *)
(* agrees, waits to be compared or is behind a pending mismatch, and that  *)
(* what its simulation wrote is what was predicted.                        *)
(***************************************************************************)
EXTENDS Prediction, CommonLemmas, SequenceTheorems, FiniteSetTheorems

-----------------------------------------------------------------------------
(* The prediction history. *)

PastEntry == [tick : Nat, state : PredValues]

\* A history that was written in the order of the ticks, up to one.
Past(h, at) ==
    /\ h \in Seq(PastEntry)
    /\ \A i, j \in 1..Len(h) : i < j => h[i].tick < h[j].tick
    /\ \A i \in 1..Len(h) : h[i].tick <= at

\* The first k entries are those up to the tick.
Counted(h, tick, k) ==
    k \in 0..Len(h) /\ \A i \in 1..Len(h) : i <= k <=> h[i].tick <= tick

\* The entries of a history.
LEMMA PastIs ==
    ASSUME NEW h, NEW at, Past(h, at)
    PROVE  /\ Len(h) \in Nat /\ DOMAIN h = 1..Len(h) /\ (h = <<>> <=> Len(h) = 0)
           /\ \A i \in 1..Len(h) : /\ h[i] \in PastEntry /\ h[i].tick \in Nat
                                   /\ h[i].state \in PredValues /\ h[i].tick <= at
<1>1. h \in Seq(PastEntry) /\ \A i \in 1..Len(h) : h[i].tick <= at
  BY DEF Past
<1>2. Len(h) \in Nat /\ DOMAIN h = 1..Len(h) /\ (h = <<>> <=> Len(h) = 0)
  BY <1>1, EmptySeq, LenProperties
<1>3. \A i \in 1..Len(h) : h[i] \in PastEntry
  BY <1>1
<1>4. \A x \in PastEntry : x.tick \in Nat /\ x.state \in PredValues
  BY DEF PastEntry
<1> QED  BY <1>1, <1>2, <1>3, <1>4

\* A tick splits a history.
LEMMA CountExists ==
    ASSUME NEW h, NEW at, Past(h, at), NEW tick \in Int
    PROVE  \E k \in 0..Len(h) : Counted(h, tick, k)
<1>1. Len(h) \in Nat /\ \A i \in 1..Len(h) : h[i].tick \in Nat
  BY PastIs
<1>2. \A i, j \in 1..Len(h) : i < j => h[i].tick < h[j].tick
  BY DEF Past
<1> DEFINE Later == {i \in 1..Len(h) : h[i].tick > tick}
<1>3. CASE Later = {}
  <2>1. \A i \in 1..Len(h) : i <= Len(h) /\ h[i].tick <= tick
    BY <1>1, <1>3
  <2>2. Len(h) \in 0..Len(h)
    BY <1>1
  <2> QED  BY <2>1, <2>2 DEF Counted
<1>4. CASE Later # {}
  <2>1. PICK m \in Later : \A i \in Later : m <= i
    <3>1. Later \subseteq Nat
      OBVIOUS
    <3> HIDE DEF Later
    <3> QED  BY <3>1, <1>4, LeastOf
  <2>2. m \in 1..Len(h) /\ m - 1 \in 0..Len(h) /\ h[m].tick > tick
    BY <1>1
  <2>3. ASSUME NEW i \in 1..Len(h) PROVE i <= m - 1 <=> h[i].tick <= tick
    <3>1. CASE i < m
      <4>1. i \notin Later
        BY <2>1, <2>2, <3>1
      <4> QED  BY <4>1, <3>1, <1>1, <2>2
    <3>2. CASE i >= m
      <4>1. h[i].tick >= h[m].tick
        BY <1>1, <1>2, <2>2, <3>2
      <4> QED  BY <4>1, <3>2, <1>1, <2>2
    <3> QED  BY <3>1, <3>2, <2>2
  <2> QED  BY <2>2, <2>3 DEF Counted
<1> QED  BY <1>3, <1>4

\* What partition_point counts.
LEMMA CountIs ==
    ASSUME NEW h, NEW at, Past(h, at), NEW tick \in Int, NEW k, Counted(h, tick, k)
    PROVE  /\ UpTo(h, tick) = k
           /\ GetState(h, tick) = IF k = 0 THEN NoState ELSE h[k].state
<1>1. Len(h) \in Nat /\ DOMAIN h = 1..Len(h) /\ k \in 0..Len(h)
  BY PastIs DEF Counted
<1>2. {i \in DOMAIN h : h[i].tick <= tick} = 1..k
  BY <1>1 DEF Counted
<1>3. Cardinality(1..k) = k
  <2>1. Cardinality(1..k) = IF 1 > k THEN 0 ELSE k - 1 + 1
    BY <1>1, FS_Interval
  <2> QED  BY <2>1, <1>1
<1> QED  BY <1>2, <1>3 DEF UpTo, GetState

\* A history says a value from its first entry on.
LEMMA SaysFrom ==
    ASSUME NEW h, NEW at, Past(h, at), NEW tick \in Int
    PROVE  /\ GetState(h, tick) \in PredValues \cup {NoState}
           /\ GetState(h, tick) = NoState <=> (h = <<>> \/ h[1].tick > tick)
           /\ UpTo(h, tick) = 0 <=> (h = <<>> \/ h[1].tick > tick)
           /\ UpTo(h, tick) \in 0..Len(h)
<1>1. PICK k \in 0..Len(h) : Counted(h, tick, k)
  BY CountExists
<1>2. UpTo(h, tick) = k /\ GetState(h, tick) = IF k = 0 THEN NoState ELSE h[k].state
  BY <1>1, CountIs
<1>3. Len(h) \in Nat /\ (h = <<>> <=> Len(h) = 0)
      /\ \A i \in 1..Len(h) : h[i].state \in PredValues /\ h[i].tick \in Nat
  BY PastIs
<1>4. k = 0 <=> (h = <<>> \/ h[1].tick > tick)
  <2>1. CASE h = <<>>
    BY <2>1, <1>1, <1>3
  <2>2. CASE h # <<>>
    <3>1. 1 \in 1..Len(h)
      BY <2>2, <1>3
    <3>2. 1 <= k <=> h[1].tick <= tick
      BY <3>1, <1>1 DEF Counted
    <3> QED  BY <3>1, <3>2, <2>2, <1>1, <1>3
  <2> QED  BY <2>1, <2>2
<1>5. NoState \notin PredValues
  BY PredictionConstants
<1> QED  BY <1>1, <1>2, <1>3, <1>4, <1>5

\* Two histories that have the same entries up to a tick say the same there.
LEMMA SameSays ==
    ASSUME NEW h, NEW at, Past(h, at), NEW q, NEW to, Past(q, to), NEW tick \in Int,
           NEW k, Counted(h, tick, k), Counted(q, tick, k), k > 0 => q[k].state = h[k].state
    PROVE  GetState(q, tick) = GetState(h, tick)
<1>1. k \in Nat
  BY PastIs DEF Counted
<1> QED  BY <1>1, CountIs

\* A beginning of a history.
LEMMA BeginningIs ==
    ASSUME NEW h, NEW at, Past(h, at), NEW n \in 0..Len(h)
    PROVE  /\ SubSeq(h, 1, n) \in Seq(PastEntry) /\ Len(SubSeq(h, 1, n)) = n
           /\ \A i \in 1..n : SubSeq(h, 1, n)[i] = h[i]
<1>1. Len(h) \in Nat /\ \A i \in 1..Len(h) : h[i] \in PastEntry
  BY PastIs
<1>2. \A i \in 1..n : h[i] \in PastEntry
  BY <1>1
<1>3. /\ SubSeq(h, 1, n) \in Seq(PastEntry)
      /\ Len(SubSeq(h, 1, n)) = IF 1 <= n THEN n - 1 + 1 ELSE 0
      /\ \A i \in 1..(n - 1 + 1) : SubSeq(h, 1, n)[i] = h[1 + i - 1]
  BY <1>1, <1>2, SubSeqProperties
<1>4. \A i \in 1..n : i \in 1..(n - 1 + 1) /\ 1 + i - 1 = i
  BY <1>1
<1> QED  BY <1>1, <1>3, <1>4

\* clear_after_tick keeps what is said up to the tick.
LEMMA ClearAfterIs ==
    ASSUME NEW h, NEW at, Past(h, at), NEW tick \in Nat
    PROVE  /\ Past(ClearAfter(h, tick), tick)
           /\ \A t \in Int : t <= tick => GetState(ClearAfter(h, tick), t) = GetState(h, t)
           /\ h # <<>> /\ h[1].tick <= tick =>
                  ClearAfter(h, tick) # <<>> /\ ClearAfter(h, tick)[1].tick = h[1].tick
<1>1. PICK n \in 0..Len(h) : Counted(h, tick, n)
  BY CountExists
<1> DEFINE q == SubSeq(h, 1, n)
<1>2. ClearAfter(h, tick) = q
  BY <1>1, CountIs DEF ClearAfter
<1>3. Len(h) \in Nat /\ n \in Nat /\ \A i \in 1..n : i \in 1..Len(h) /\ h[i].tick \in Nat /\ h[i].tick <= tick
  BY <1>1, PastIs DEF Counted
<1>4. q \in Seq(PastEntry) /\ Len(q) = n /\ \A i \in 1..n : q[i] = h[i]
  BY BeginningIs
<1> HIDE DEF q
<1>5. Past(q, tick)
  <2>1. \A i, j \in 1..n : i < j => h[i].tick < h[j].tick
    BY <1>3 DEF Past
  <2> QED  BY <1>3, <1>4, <2>1 DEF Past
<1>6. ASSUME NEW t \in Int, t <= tick PROVE GetState(q, t) = GetState(h, t)
  <2>1. PICK k \in 0..Len(h) : Counted(h, t, k)
    BY CountExists
  <2>2. k <= n
    <3>1. CASE k = 0
      BY <3>1, <1>3
    <3>2. CASE k # 0
      <4>1. k \in 1..Len(h) /\ h[k].tick \in Nat
        BY <3>2, <1>3, <2>1, PastIs
      <4>2. h[k].tick <= t
        BY <4>1, <2>1 DEF Counted
      <4>3. h[k].tick <= tick
        BY <4>1, <4>2, <1>6
      <4> QED  BY <4>1, <4>3, <1>1 DEF Counted
    <3> QED  BY <3>1, <3>2
  <2>3. Counted(q, t, k)
    BY <2>1, <2>2, <1>3, <1>4 DEF Counted
  <2>4. k > 0 => q[k].state = h[k].state
    BY <2>1, <2>2, <1>3, <1>4
  <2> QED  BY <2>1, <2>3, <2>4, <1>5, SameSays
<1>7. ASSUME h # <<>>, h[1].tick <= tick PROVE q # <<>> /\ q[1].tick = h[1].tick
  <2>1. 1 \in 1..Len(h)
    BY <1>3, <1>7, PastIs
  <2>2. 1 <= n
    BY <2>1, <1>1, <1>7 DEF Counted
  <2> QED  BY <2>2, <1>3, <1>4
<1> QED  BY <1>2, <1>5, <1>6, <1>7

\* add_state at the last tick or later says the state from there on.
LEMMA AddStateIs ==
    ASSUME NEW h, NEW at, Past(h, at), NEW tick \in Nat, at \in Nat, at <= tick,
           NEW state \in PredValues
    PROVE  /\ Past(AddState(h, tick, state), tick)
           /\ GetState(AddState(h, tick, state), tick) = state
           /\ \A t \in Int : t < tick => GetState(AddState(h, tick, state), t) = GetState(h, t)
           /\ AddState(h, tick, state) # <<>>
           /\ AddState(h, tick, state)[1].tick = IF h = <<>> THEN tick ELSE h[1].tick
<1>1. /\ Len(h) \in Nat /\ (h = <<>> <=> Len(h) = 0) /\ h \in Seq(PastEntry)
      /\ \A i \in 1..Len(h) : h[i] \in PastEntry /\ h[i].tick \in Nat /\ h[i].tick <= tick
  BY PastIs DEF Past
<1> DEFINE n == IF h # <<>> /\ h[Len(h)].tick = tick THEN Len(h) - 1 ELSE Len(h)
           kept == SubSeq(h, 1, n)
           entry == [tick |-> tick, state |-> state]
           q == Append(kept, entry)
<1>2. n \in 0..Len(h)
  BY <1>1
<1>3. AddState(h, tick, state) = q
  <2>1. SubSeq(h, 1, Len(h)) = h
    BY <1>1, SubSeqFull
  <2> QED  BY <2>1 DEF AddState
<1>4. \A i \in 1..n : i \in 1..Len(h) /\ h[i].tick < tick
  <2>1. SUFFICES ASSUME NEW i \in 1..n PROVE i \in 1..Len(h) /\ h[i].tick < tick
    OBVIOUS
  <2>2. i \in 1..Len(h) /\ h # <<>> /\ Len(h) \in 1..Len(h)
    BY <1>1, <1>2
  <2>3. CASE h[Len(h)].tick = tick
    <3>1. i < Len(h)
      BY <2>2, <2>3, <1>1
    <3> QED  BY <3>1, <2>2, <2>3, <1>1 DEF Past
  <2>4. CASE h[Len(h)].tick # tick
    <3>1. h[Len(h)].tick < tick
      BY <2>2, <2>4, <1>1
    <3>2. h[i].tick <= h[Len(h)].tick
      <4>1. i < Len(h) \/ i = Len(h)
        BY <2>2, <1>1
      <4> QED  BY <4>1, <2>2, <1>1 DEF Past
    <3> QED  BY <3>1, <3>2, <2>2, <1>1
  <2> QED  BY <2>3, <2>4
<1>5. \A i \in 1..Len(h) : h[i].tick < tick => i <= n
  BY <1>1
<1>50. n = 0 => h = <<>> \/ (h # <<>> /\ h[1].tick = tick)
  BY <1>1
<1> HIDE DEF n
<1>6. kept \in Seq(PastEntry) /\ Len(kept) = n /\ \A i \in 1..n : kept[i] = h[i]
  BY <1>2, BeginningIs
<1> HIDE DEF kept
<1>7. entry \in PastEntry /\ entry.tick = tick /\ entry.state = state
  BY DEF PastEntry
<1> HIDE DEF entry
<1>8. /\ q \in Seq(PastEntry) /\ Len(q) = n + 1 /\ q[n + 1] = entry
      /\ \A i \in 1..n : q[i] = h[i]
  BY <1>2, <1>6, <1>7, <1>1
<1> HIDE DEF q
<1>80. n \in Nat /\ \A i \in 1..(n + 1) : i = n + 1 \/ i \in 1..n
  BY <1>1, <1>2
<1>9. Past(q, tick)
  <2>1. ASSUME NEW i \in 1..(n + 1), NEW j \in 1..(n + 1), i < j PROVE q[i].tick < q[j].tick
    <3>1. i \in 1..n /\ q[i] = h[i] /\ h[i].tick < tick
      BY <2>1, <1>80, <1>8, <1>4
    <3>2. CASE j = n + 1
      BY <3>1, <3>2, <1>8, <1>7
    <3>3. CASE j # n + 1
      <4>1. j \in 1..n /\ i \in 1..Len(h) /\ j \in 1..Len(h) /\ q[j] = h[j]
        BY <3>1, <3>3, <1>80, <1>8, <1>4
      <4> QED  BY <4>1, <3>1, <2>1 DEF Past
    <3> QED  BY <3>2, <3>3
  <2>2. ASSUME NEW i \in 1..(n + 1) PROVE q[i].tick <= tick
    <3>1. CASE i = n + 1
      BY <3>1, <1>8, <1>7
    <3>2. CASE i \in 1..n
      BY <3>2, <1>8, <1>4, <1>1
    <3> QED  BY <3>1, <3>2, <1>80
  <2> QED  BY <2>1, <2>2, <1>8 DEF Past
<1>10. GetState(q, tick) = state
  <2>1. n + 1 \in 0..Len(q) /\ n + 1 # 0
    BY <1>8, <1>80
  <2>2. \A i \in 1..Len(q) : i <= n + 1 /\ q[i].tick <= tick
    BY <1>9, <1>8, <1>80 DEF Past
  <2>3. Counted(q, tick, n + 1)
    BY <2>1, <2>2 DEF Counted
  <2> QED  BY <2>1, <2>3, <1>7, <1>8, <1>9, CountIs
<1>11. ASSUME NEW t \in Int, t < tick PROVE GetState(q, t) = GetState(h, t)
  <2>1. PICK k \in 0..Len(h) : Counted(h, t, k)
    BY CountExists
  <2>2. k <= n
    <3>1. CASE k = 0
      BY <3>1, <1>80
    <3>2. CASE k # 0
      <4>1. k \in 1..Len(h)
        BY <3>2, <1>1, <2>1
      <4>2. h[k].tick <= t
        BY <4>1, <2>1 DEF Counted
      <4> QED  BY <4>1, <4>2, <1>11, <1>5, <1>1
    <3> QED  BY <3>1, <3>2
  <2>3. Counted(q, t, k)
    <3>1. ASSUME NEW i \in 1..Len(q) PROVE i <= k <=> q[i].tick <= t
      <4>1. CASE i = n + 1
        BY <4>1, <1>8, <1>7, <1>80, <1>11, <2>1, <2>2
      <4>2. CASE i \in 1..n
        BY <4>2, <1>8, <1>4, <2>1 DEF Counted
      <4> QED  BY <4>1, <4>2, <1>8, <1>80
    <3> QED  BY <3>1, <2>1, <2>2, <1>8, <1>80 DEF Counted
  <2>4. k > 0 => q[k].state = h[k].state
    <3>1. k > 0 => k \in 1..n
      BY <2>1, <2>2, <1>80
    <3> QED  BY <3>1, <1>8
  <2> QED  BY <2>1, <2>3, <2>4, <1>9, SameSays
<1>12. q # <<>> /\ q[1].tick = IF h = <<>> THEN tick ELSE h[1].tick
  <2>1. q # <<>>
    <3>1. q = <<>> <=> Len(q) = 0
      BY <1>9, PastIs
    <3> QED  BY <3>1, <1>8, <1>80
  <2>2. CASE n = 0
    <3>1. n + 1 = 1
      BY <2>2
    <3>2. q[1].tick = tick
      BY <3>1, <1>7, <1>8
    <3> QED  BY <3>2, <2>1, <2>2, <1>50
  <2>3. CASE n # 0
    <3>1. 1 \in 1..n /\ h # <<>>
      BY <2>3, <1>80, <1>1, <1>2
    <3> QED  BY <3>1, <1>8, <2>1
  <2> QED  BY <2>1, <2>2, <2>3
<1> QED  BY <1>3, <1>9, <1>10, <1>11, <1>12

\* clear_until_tick forgets what was said before the tick, and no more.
LEMMA ClearUntilIs ==
    ASSUME NEW h, NEW at, Past(h, at), at \in Nat, NEW tick \in Nat, tick <= at
    PROVE  /\ Past(ClearUntil(h, tick), at)
           /\ \A t \in Int : \/ GetState(ClearUntil(h, tick), t) = GetState(h, t)
                             \/ t < tick /\ GetState(ClearUntil(h, tick), t) = NoState
           /\ h # <<>> => /\ ClearUntil(h, tick) # <<>>
                          /\ \/ ClearUntil(h, tick)[1].tick = h[1].tick
                             \/ ClearUntil(h, tick)[1].tick = tick
<1>1. PICK n \in 0..Len(h) : Counted(h, tick, n)
  BY CountExists
<1>2. UpTo(h, tick) = n
  BY <1>1, CountIs
<1>3. CASE n = 0
  BY <1>2, <1>3 DEF ClearUntil
<1>4. CASE n # 0
  <2>1. /\ Len(h) \in Nat /\ n \in 1..Len(h) /\ h \in Seq(PastEntry)
        /\ \A i \in 1..Len(h) : h[i] \in PastEntry /\ h[i].tick \in Nat /\ h[i].tick <= at
    BY <1>4, <1>1, PastIs DEF Past
  <2> DEFINE rest == SubSeq(h, n, Len(h))
             m == Len(h) - n + 1
             q == [rest EXCEPT ![1].tick = tick]
  <2>2. ClearUntil(h, tick) = q
    BY <1>2, <1>4 DEF ClearUntil
  <2>3. m \in Nat /\ m >= 1 /\ 1 \in 1..m
        /\ \A i \in 1..m : n - 1 + i \in 1..Len(h) /\ n - 1 + i = n + i - 1 /\ n - 1 + i \in Nat
    BY <2>1
  <2>4. rest \in Seq(PastEntry) /\ Len(rest) = m /\ \A i \in 1..m : rest[i] = h[n - 1 + i]
    <3>1. \A i \in n..Len(h) : h[i] \in PastEntry
      BY <2>1
    <3>2. /\ rest \in Seq(PastEntry) /\ Len(rest) = IF n <= Len(h) THEN Len(h) - n + 1 ELSE 0
          /\ \A i \in 1..(Len(h) - n + 1) : rest[i] = h[n + i - 1]
      BY <2>1, <3>1, SubSeqProperties
    <3> HIDE DEF rest
    <3> QED  BY <3>2, <2>1, <2>3
  <2> HIDE DEF rest
  <2>5. q \in Seq(PastEntry) /\ Len(q) = m
        /\ \A i \in 1..m : q[i] = IF i = 1 THEN [rest[1] EXCEPT !.tick = tick] ELSE rest[i]
    <3>1. DOMAIN rest = 1..m
      BY <2>3, <2>4, LenProperties
    <3>2. [rest[1] EXCEPT !.tick = tick] \in PastEntry
      <4>1. rest[1] \in PastEntry
        BY <2>3, <2>4
      <4> QED  BY <4>1 DEF PastEntry
    <3>3. q = [i \in 1..m |-> IF i = 1 THEN [rest[1] EXCEPT !.tick = tick] ELSE rest[i]]
      BY <3>1, <2>3
    <3>4. \A i \in 1..m : rest[i] \in PastEntry
      BY <2>4
    <3> HIDE DEF q
    <3>5. q \in [1..m -> PastEntry]
      BY <3>2, <3>3, <3>4
    <3> HIDE DEF m
    <3>6. q \in Seq(PastEntry) /\ Len(q) = m
      <4>1. q \in Seq(PastEntry)
        BY <2>3, <3>5
      <4>2. DOMAIN q = 1..m
        BY <3>5
      <4> QED  BY <4>1, <4>2, <2>3
    <3> QED  BY <3>3, <3>6
  <2>6. \A i \in 1..m : /\ q[i].state = h[n - 1 + i].state
                        /\ q[i].tick = IF i = 1 THEN tick ELSE h[n - 1 + i].tick
    <3>1. rest[1] \in PastEntry
      BY <2>3, <2>4
    <3>2. /\ [rest[1] EXCEPT !.tick = tick].tick = tick
          /\ [rest[1] EXCEPT !.tick = tick].state = rest[1].state
      BY <3>1 DEF PastEntry
    <3> HIDE DEF q, m
    <3> QED  BY <2>3, <2>4, <2>5, <3>2
  <2> HIDE DEF q, m
  <2>7. \A i \in 1..m : i > 1 => q[i].tick > tick
    <3>1. \A i \in 1..m : i > 1 => ~ (n - 1 + i <= n)
      BY <2>1, <2>3
    <3>2. \A i \in 1..m : i > 1 => ~ (h[n - 1 + i].tick <= tick)
      BY <3>1, <2>3, <1>1 DEF Counted
    <3>3. \A i \in 1..m : h[n - 1 + i].tick \in Nat
      BY <2>1, <2>3
    <3> QED  BY <3>2, <3>3, <2>6
  <2>8. Past(q, at)
    <3>1. ASSUME NEW i \in 1..m, NEW j \in 1..m, i < j PROVE q[i].tick < q[j].tick
      <4>1. CASE i = 1
        BY <4>1, <3>1, <2>6, <2>7
      <4>2. CASE i # 1
        <5>1. n - 1 + i < n - 1 + j /\ j # 1
          BY <3>1, <4>2, <2>1
        <5>2. h[n - 1 + i].tick < h[n - 1 + j].tick
          BY <5>1, <2>3 DEF Past
        <5> QED  BY <5>1, <5>2, <4>2, <2>6
      <4> QED  BY <4>1, <4>2
    <3>2. \A i \in 1..m : q[i].tick <= at
      BY <2>1, <2>3, <2>6
    <3> QED  BY <3>1, <3>2, <2>5 DEF Past
  <2>11. q # <<>> /\ q[1].tick = tick
    <3>1. q = <<>> <=> Len(q) = 0
      BY <2>8, PastIs
    <3>2. Len(q) # 0
      BY <2>3, <2>5
    <3> QED  BY <3>1, <3>2, <2>3, <2>6
  <2>9. ASSUME NEW t \in Int, t < tick PROVE GetState(q, t) = NoState
    <3>1. q[1].tick > t
      BY <2>9, <2>11
    <3> QED  BY <3>1, <2>8, SaysFrom
  <2>10. ASSUME NEW t \in Int, ~ (t < tick) PROVE GetState(q, t) = GetState(h, t)
    <3>1. PICK k \in 0..Len(h) : Counted(h, t, k)
      BY CountExists
    <3>2. n <= k
      <4>1. h[n].tick <= tick
        BY <1>1, <2>1 DEF Counted
      <4>2. h[n].tick <= t
        BY <4>1, <2>1, <2>10
      <4> QED  BY <4>2, <2>1, <3>1 DEF Counted
    <3> DEFINE l == k - n + 1
    <3>3. l \in 1..m /\ n - 1 + l = k /\ l \in 0..m
      BY <3>1, <3>2, <2>1 DEF m
    <3>4. ASSUME NEW i \in 1..m PROVE i <= l <=> q[i].tick <= t
      <4>1. CASE i = 1
        BY <4>1, <2>6, <2>10, <3>3, <2>3
      <4>2. CASE i # 1
        <5>1. i <= l <=> n - 1 + i <= k
          BY <2>1, <2>3, <3>1, <3>3
        <5>2. n - 1 + i <= k <=> h[n - 1 + i].tick <= t
          BY <2>3, <3>1 DEF Counted
        <5> QED  BY <5>1, <5>2, <4>2, <2>6
      <4> QED  BY <4>1, <4>2
    <3> HIDE DEF l
    <3>5. Counted(q, t, l)
      BY <3>3, <3>4, <2>5 DEF Counted
    <3>6. q[l].state = h[k].state /\ l # 0 /\ k # 0
      BY <3>3, <2>6, <3>2, <2>1
    <3>7. GetState(q, t) = q[l].state
      BY <3>5, <3>6, <2>8, CountIs
    <3>8. GetState(h, t) = h[k].state
      BY <3>1, <3>6, CountIs
    <3> QED  BY <3>6, <3>7, <3>8
  <2> QED  BY <2>2, <2>8, <2>9, <2>10, <2>11
<1> QED  BY <1>3, <1>4

-----------------------------------------------------------------------------
(* The confirmed history. *)

\* What the server said: it begins with a value.
Confirming(c) ==
    /\ DOMAIN c \subseteq Nat /\ 0 \in DOMAIN c
    /\ \A t \in DOMAIN c : c[t] \in PredValues \cup {Unchanged}
    /\ c[0] \in PredValues

\* The entry that says what holds at a tick.
SaidAt(c, tick, s) ==
    /\ s \in DOMAIN c /\ s <= tick /\ c[s] # Unchanged
    /\ \A t \in DOMAIN c : s < t /\ t <= tick => c[t] = Unchanged

\* The greatest number of a bounded set.
LEMMA GreatestOf ==
    ASSUME NEW S, NEW n \in Nat, S \subseteq 0..n, S # {}
    PROVE  Max(S) \in S /\ \A x \in S : x <= Max(S)
<1> DEFINE T == {x \in Nat : \E y \in S : x = n - y}
<1>1. T \subseteq Nat /\ T # {}
  <2>1. PICK y \in S : TRUE
    OBVIOUS
  <2>2. n - y \in T
    BY <2>1
  <2> QED  BY <2>2
<1>2. PICK x \in T : \A y \in T : x <= y
  <2> HIDE DEF T
  <2> QED  BY <1>1, LeastOf
<1>3. PICK z \in S : x = n - z
  OBVIOUS
<1>4. ASSUME NEW y \in S PROVE z >= y
  <2>1. n - y \in T /\ y \in 0..n /\ z \in 0..n
    OBVIOUS
  <2>2. n - z <= n - y
    BY <1>2, <1>3, <2>1
  <2> QED  BY <2>1, <2>2
<1>5. Max(S) \in S /\ \A y \in S : Max(S) >= y
  BY <1>4 DEF Max
<1> QED  BY <1>5

\* Resolving finds that entry.
LEMMA ResolvedAt ==
    ASSUME NEW c, Confirming(c), NEW tick \in Nat
    PROVE  \E s \in DOMAIN c : SaidAt(c, tick, s) /\ Resolve(c, tick) = c[s]
<1> DEFINE said == {t \in DOMAIN c : t <= tick /\ c[t] # Unchanged}
<1>1. Unchanged \notin PredValues
  BY PredictionConstants
<1>2. 0 \in said /\ said \subseteq 0..tick
  BY <1>1 DEF Confirming
<1>3. Max(said) \in said /\ \A t \in said : t <= Max(said)
  <2> HIDE DEF said
  <2> QED  BY <1>2, GreatestOf
<1>4. Resolve(c, tick) = c[Max(said)]
  BY <1>2 DEF Resolve
<1>5. Max(said) \in DOMAIN c /\ Max(said) <= tick /\ c[Max(said)] # Unchanged /\ Max(said) \in Nat
  BY <1>2, <1>3
<1>6. ASSUME NEW t \in DOMAIN c, Max(said) < t, t <= tick PROVE c[t] = Unchanged
  <2>1. t \in Nat
    BY DEF Confirming
  <2>2. t \notin said
    BY <2>1, <1>3, <1>5, <1>6
  <2> QED  BY <2>2, <1>6
<1> QED  BY <1>4, <1>5, <1>6 DEF SaidAt

\* There is one such entry.
LEMMA ResolvedIs ==
    ASSUME NEW c, Confirming(c), NEW tick \in Nat, NEW s, SaidAt(c, tick, s)
    PROVE  Resolve(c, tick) = c[s] /\ c[s] \in PredValues
<1>1. PICK u \in DOMAIN c : SaidAt(c, tick, u) /\ Resolve(c, tick) = c[u]
  BY ResolvedAt
<1>2. u \in Nat /\ s \in Nat /\ s \in DOMAIN c
  BY DEF Confirming, SaidAt
<1>3. ~ (u < s) /\ ~ (s < u)
  BY <1>1, <1>2 DEF SaidAt
<1> QED  BY <1>1, <1>2, <1>3 DEF SaidAt, Confirming

\* Every tick resolves to a value.
LEMMA ResolvedTyped ==
    ASSUME NEW c, Confirming(c), NEW tick \in Nat
    PROVE  Resolve(c, tick) \in PredValues
BY ResolvedAt, ResolvedIs

\* A history that says the truth also says it of the ticks after an entry in
\* which nothing changed.
LEMMA TrueUntilChanged ==
    ASSUME NEW c, Confirming(c), NEW truth, \A t \in DOMAIN c : StateAt(c, t) = truth[t],
           NEW tick \in Nat, NEW a \in DOMAIN c, a <= tick, \A s \in a..tick : truth[s] = truth[a]
    PROVE  Resolve(c, tick) = truth[tick]
<1>1. a \in Nat
  BY DEF Confirming
<1>2. PICK s \in DOMAIN c : SaidAt(c, tick, s) /\ Resolve(c, tick) = c[s]
  BY ResolvedAt
<1>3. s \in Nat /\ s <= tick
  BY <1>2 DEF Confirming, SaidAt
<1>4. truth[tick] = truth[a]
  BY <1>1
<1>5. CASE a <= s
  <2>1. SaidAt(c, s, s)
    BY <1>2, <1>3 DEF SaidAt, Confirming
  <2>2. c[s] = truth[s]
    BY <2>1, <1>3, ResolvedIs DEF StateAt
  <2> QED  BY <2>2, <1>1, <1>2, <1>3, <1>4, <1>5
<1>6. CASE ~ (a <= s)
  <2>1. SaidAt(c, a, s)
    BY <1>1, <1>2, <1>3, <1>6 DEF SaidAt, Confirming
  <2>2. c[s] = truth[a]
    BY <2>1, <1>1, ResolvedIs DEF StateAt
  <2> QED  BY <2>2, <1>2, <1>4
<1> QED  BY <1>5, <1>6

\* An update is an entry.
LEMMA InsertConfirmedIs ==
    ASSUME NEW c, Confirming(c), NEW tick \in Nat \ {0}, NEW value \in PredValues
    PROVE  /\ Confirming(InsertConfirmed(c, tick, value))
           /\ DOMAIN InsertConfirmed(c, tick, value) = DOMAIN c \cup {tick}
<1> DEFINE entry == IF StateBefore(c, tick) = value THEN Unchanged ELSE value
<1>1. InsertConfirmed(c, tick, value) = [t \in DOMAIN c \cup {tick} |-> IF t = tick THEN entry ELSE c[t]]
  BY DEF InsertConfirmed, InsertRaw
<1>2. entry \in PredValues \cup {Unchanged}
  OBVIOUS
<1> HIDE DEF entry
<1> QED  BY <1>1, <1>2 DEF Confirming

\* "Unchanged" changes nothing.
LEMMA AddUnchangedIs ==
    ASSUME NEW c, Confirming(c), NEW tick \in Nat \ {0}
    PROVE  /\ Confirming(AddUnchanged(c, tick))
           /\ DOMAIN AddUnchanged(c, tick) = DOMAIN c \cup {tick}
           /\ \A t \in Nat : Resolve(AddUnchanged(c, tick), t) = Resolve(c, t)
           /\ \A t \in DOMAIN c : StateAt(AddUnchanged(c, tick), t) = StateAt(c, t)
<1>1. NoState \notin PredValues /\ Unchanged \notin PredValues
  BY PredictionConstants
<1>2. CASE tick \in DOMAIN c
  <2>1. StateAt(c, tick) # NoState
    BY <1>1, <1>2, ResolvedTyped DEF StateAt
  <2>2. AddUnchanged(c, tick) = c
    BY <2>1 DEF AddUnchanged
  <2> QED  BY <2>2, <1>2
<1>3. CASE tick \notin DOMAIN c
  <2> DEFINE q == InsertRaw(c, tick, Unchanged)
  <2>1. StateAt(c, tick) = NoState /\ StateBefore(c, tick) # NoState
    <3>1. tick - 1 \in Nat
      OBVIOUS
    <3> QED  BY <3>1, <1>1, <1>3, ResolvedTyped DEF StateAt, StateBefore
  <2>2. AddUnchanged(c, tick) = q
    BY <2>1 DEF AddUnchanged
  <2>3. q = [t \in DOMAIN c \cup {tick} |-> IF t = tick THEN Unchanged ELSE c[t]]
    BY DEF InsertRaw
  <2> HIDE DEF q
  <2>4. DOMAIN q = DOMAIN c \cup {tick} /\ \A t \in DOMAIN c : q[t] = c[t]
    BY <2>3, <1>3
  <2>40. q[tick] = Unchanged
    BY <2>3
  <2>5. Confirming(q)
    BY <2>4, <2>40 DEF Confirming
  <2>6. ASSUME NEW t \in Nat PROVE Resolve(q, t) = Resolve(c, t)
    <3>1. PICK s \in DOMAIN c : SaidAt(c, t, s) /\ Resolve(c, t) = c[s]
      BY ResolvedAt
    <3>2. SaidAt(q, t, s)
      <4>1. ASSUME NEW u \in DOMAIN q, s < u, u <= t PROVE q[u] = Unchanged
        BY <4>1, <3>1, <2>4, <2>40 DEF SaidAt
      <4> QED  BY <4>1, <3>1, <2>4 DEF SaidAt
    <3> QED  BY <3>1, <3>2, <2>4, <2>5, ResolvedIs
  <2>7. \A t \in DOMAIN c : StateAt(q, t) = StateAt(c, t)
    BY <2>4, <2>6 DEF StateAt, Confirming
  <2> QED  BY <2>2, <2>4, <2>5, <2>6, <2>7
<1> QED  BY <1>2, <1>3

-----------------------------------------------------------------------------
(* A tick, a rollback and a replay. *)

\* The simulation writes values and never removes the component: a removal is
\* recorded out of order (HistoryBuffer::add_remove by an observer).
KeepsComponents == Gone \notin Acts

\* What a rollback and a replay work on.
Runs == [p : Seq(PastEntry), v : PredValues]

\* A history that says what was predicted, as far back as a rollback reaches.
Reaching(h, at) == h # <<>> /\ (h[1].tick <= 1 \/ h[1].tick + RollbackLimit <= at)

\* An act is to keep the value, or a value.
LEMMA ActIs ==
    ASSUME KeepsComponents, NEW act \in Acts, NEW v \in PredValues
    PROVE  (IF act = Keep THEN v ELSE act) \in PredValues
BY PredictionConstants DEF KeepsComponents

\* A tick records its value, and forgets only what no rollback reaches.
LEMMA SimulateOneIs ==
    ASSUME KeepsComponents, NEW tick \in Nat \ {0}, NEW s, Past(s.p, tick - 1), s.v \in PredValues,
           NEW act \in Acts
    PROVE  /\ SimulateOne(s, act, tick) \in Runs
           /\ SimulateOne(s, act, tick).v = IF act = Keep THEN s.v ELSE act
           /\ Past(SimulateOne(s, act, tick).p, tick)
           /\ GetState(SimulateOne(s, act, tick).p, tick) = SimulateOne(s, act, tick).v
           /\ \A t \in Int : t < tick =>
                  GetState(SimulateOne(s, act, tick).p, t) \in {NoState, GetState(s.p, t)}
           /\ \A to \in Nat : tick <= to /\ (Reaching(s.p, to) \/ (s.p = <<>> /\ tick = 1)) =>
                  Reaching(SimulateOne(s, act, tick).p, to)
<1> DEFINE v == IF act = Keep THEN s.v ELSE act
           p == IF v # GetPredicted(s.p, tick) \/ (v = Gone /\ s.v # Gone)
                THEN AddState(s.p, tick, v) ELSE s.p
           x == IF tick > RollbackLimit THEN tick - RollbackLimit ELSE 0
           r == SimulateOne(s, act, tick)
<1>1. v \in PredValues /\ v # Gone /\ v # NoState /\ RollbackLimit \in Nat
  <2>1. v \in PredValues
    BY ActIs
  <2> HIDE DEF v
  <2> QED  BY <2>1, PredictionConstants
<1>2. r = [p |-> ClearUntil(p, x), v |-> v]
  BY <1>1 DEF SimulateOne
<1>3. /\ Past(p, tick) /\ GetState(p, tick) = v
      /\ \A t \in Int : t < tick => GetState(p, t) = GetState(s.p, t)
      /\ s.p # <<>> => p # <<>> /\ p[1].tick = s.p[1].tick
      /\ s.p = <<>> => p # <<>> /\ p[1].tick = tick
  <2>1. tick \in Nat /\ tick - 1 \in Nat /\ tick - 1 <= tick
    OBVIOUS
  <2>2. CASE v # GetPredicted(s.p, tick)
    <3>1. p = AddState(s.p, tick, v)
      BY <2>2
    <3> HIDE DEF v, p
    <3> DEFINE h == s.p
    <3>2. v \in PredValues /\ Past(h, tick - 1)
      BY <1>1
    <3> HIDE DEF h
    <3>3. /\ Past(AddState(h, tick, v), tick)
          /\ GetState(AddState(h, tick, v), tick) = v
          /\ \A t \in Int : t < tick => GetState(AddState(h, tick, v), t) = GetState(h, t)
          /\ AddState(h, tick, v) # <<>>
          /\ AddState(h, tick, v)[1].tick = IF h = <<>> THEN tick ELSE h[1].tick
      BY ONLY <2>1, <3>2, AddStateIs
    <3> QED  BY <3>1, <3>3 DEF h
  <2>3. CASE v = GetPredicted(s.p, tick)
    <3>1. p = s.p
      BY <2>3, <1>1
    <3> HIDE DEF v, p
    <3>2. GetState(s.p, tick) = v
      BY <2>3, <1>1 DEF GetPredicted
    <3>3. Past(s.p, tick)
      <4>1. \A i \in 1..Len(s.p) : s.p[i].tick \in Nat /\ s.p[i].tick <= tick - 1
        BY PastIs
      <4>2. \A i \in 1..Len(s.p) : s.p[i].tick <= tick
        BY <4>1
      <4> QED  BY <4>2 DEF Past
    <3>4. s.p # <<>>
      <4>1. tick \in Int
        OBVIOUS
      <4>2. s.p = <<>> => GetState(s.p, tick) = NoState
        BY ONLY <4>1, <3>3, SaysFrom
      <4> QED  BY <4>2, <3>2, <1>1
    <3> QED  BY <3>1, <3>2, <3>3, <3>4
  <2> QED  BY <2>2, <2>3
<1>4. x \in Nat /\ x <= tick /\ \A t \in Int : t < x => t < tick
      /\ \A to \in Nat : tick <= to => x <= 1 \/ x + RollbackLimit <= to
  BY <1>1
<1> HIDE DEF p, v, x
<1> DEFINE q == ClearUntil(p, x)
<1>5. /\ Past(q, tick)
      /\ \A t \in Int : GetState(q, t) = GetState(p, t) \/ (t < x /\ GetState(q, t) = NoState)
      /\ q # <<>> /\ (q[1].tick = p[1].tick \/ q[1].tick = x)
  <2>1. tick \in Nat /\ p # <<>>
    BY <1>3
  <2> QED  BY <2>1, <1>3, <1>4, ClearUntilIs
<1> HIDE DEF q
<1>6. r.p = q /\ r.v = v /\ r \in Runs
  <2>1. q \in Seq(PastEntry)
    BY <1>5 DEF Past
  <2> QED  BY <2>1, <1>1, <1>2 DEF Runs, q
<1>7. GetState(q, tick) = v
  BY <1>3, <1>4, <1>5
<1>8. \A t \in Int : t < tick => GetState(q, t) \in {NoState, GetState(s.p, t)}
  BY <1>3, <1>5
<1>9. ASSUME NEW to \in Nat, tick <= to, Reaching(s.p, to) \/ (s.p = <<>> /\ tick = 1)
      PROVE  Reaching(q, to)
  <2>1. CASE q[1].tick = x
    BY <2>1, <1>4, <1>5, <1>9 DEF Reaching
  <2>2. CASE q[1].tick = p[1].tick
    <3>1. p[1].tick <= 1 \/ p[1].tick + RollbackLimit <= to
      <4>1. CASE Reaching(s.p, to)
        BY <4>1, <1>3 DEF Reaching
      <4>2. CASE s.p = <<>> /\ tick = 1
        BY <4>2, <1>3
      <4> QED  BY <4>1, <4>2, <1>9
    <3> QED  BY <3>1, <2>2, <1>5 DEF Reaching
  <2> QED  BY <2>1, <2>2, <1>5
<1> HIDE DEF r
<1> QED  BY <1>5, <1>6, <1>7, <1>8, <1>9 DEF r, v

\* A tick of a replay starts from the confirmed value.
LEMMA SnappedIs ==
    ASSUME NEW c, Confirming(c), NEW s \in Runs, NEW tick \in Nat
    PROVE  /\ Snapped(c, s, tick).p = s.p
           /\ Snapped(c, s, tick).v = IF StateAt(c, tick) = NoState THEN s.v ELSE StateAt(c, tick)
           /\ Snapped(c, s, tick).v \in PredValues
<1>1. StateAt(c, tick) = NoState \/ StateAt(c, tick) \in PredValues
  BY ResolvedTyped DEF StateAt
<1>2. StateAt(c, tick) \in PredValues => StateAt(c, tick) # Gone /\ StateAt(c, tick) # NoState
  BY PredictionConstants
<1>3. CASE StateAt(c, tick) = NoState
  BY <1>3 DEF Snapped, Runs
<1>4. CASE StateAt(c, tick) # NoState
  <2>1. s.v # StateAt(c, tick) => Snapped(c, s, tick) = [s EXCEPT !.v = StateAt(c, tick), !.p = @]
    BY <1>1, <1>2, <1>4 DEF Snapped
  <2>2. s.v = StateAt(c, tick) => Snapped(c, s, tick) = s
    BY DEF Snapped
  <2> QED  BY <1>1, <1>4, <2>1, <2>2 DEF Runs
<1> QED  BY <1>3, <1>4

\* prepare_rollback goes back to the tick, and forgets what came after.
LEMMA PreparedIs ==
    ASSUME NEW c, Confirming(c), NEW p, NEW at \in Nat, Past(p, at), NEW v \in PredValues,
           NEW tick \in Nat, NEW fromState \in BOOLEAN
    PROVE  /\ Prepared(c, p, v, tick, fromState) \in Runs
           /\ Past(Prepared(c, p, v, tick, fromState).p, tick)
           /\ GetState(Prepared(c, p, v, tick, fromState).p, tick) =
                  CASE fromState -> Resolve(c, tick)
                    [] ~ fromState /\ GetState(p, tick) # NoState -> GetState(p, tick)
                    [] ~ fromState /\ GetState(p, tick) = NoState -> v
           /\ \A t \in Int : t < tick =>
                  GetState(Prepared(c, p, v, tick, fromState).p, t) = GetState(p, t)
           /\ Prepared(c, p, v, tick, fromState).p # <<>>
           /\ Prepared(c, p, v, tick, fromState).p[1].tick =
                  IF p # <<>> /\ p[1].tick <= tick THEN p[1].tick ELSE tick
<1> DEFINE state == Restored(c, p, tick, fromState)
           to == CASE fromState -> Resolve(c, tick)
                   [] ~ fromState /\ GetState(p, tick) # NoState -> GetState(p, tick)
                   [] ~ fromState /\ GetState(p, tick) = NoState -> v
           kept == ClearAfter(p, tick)
           q == AddState(kept, tick, to)
           r == Prepared(c, p, v, tick, fromState)
<1>1. /\ Gone \notin PredValues /\ NoState \notin PredValues /\ Gone # NoState
  BY PredictionConstants
<1>2. Resolve(c, tick) \in PredValues /\ GetState(p, tick) \in PredValues \cup {NoState}
  BY ResolvedTyped, SaysFrom
<1>3. to \in PredValues /\ (state = NoState => to = v) /\ (state # NoState => to = state)
      /\ state \in PredValues \cup {NoState}
  <2>1. CASE fromState
    BY <2>1, <1>1, <1>2 DEF Restored, StateAtOrBefore
  <2>2. CASE ~ fromState
    BY <2>2, <1>1, <1>2 DEF Restored
  <2> QED  BY <2>1, <2>2
<1> HIDE DEF to
<1>4. r = [p |-> q, v |-> to]
  <2>1. v # Gone
    BY <1>1
  <2>2. CASE state = NoState
    <3>1. r = [p |-> AddState(kept, tick, v), v |-> v]
      BY <2>1, <2>2, <1>1 DEF Prepared
    <3> QED  BY <3>1, <2>2, <1>3
  <2>3. CASE state # NoState
    <3>1. state \in PredValues /\ state # Gone
      BY <2>3, <1>1, <1>3
    <3>2. r = [p |-> AddState(kept, tick, state), v |-> state]
      BY <3>1, <2>3 DEF Prepared
    <3> QED  BY <3>2, <2>3, <1>3
  <2> QED  BY <2>2, <2>3
<1>5. /\ Past(kept, tick) /\ \A t \in Int : t <= tick => GetState(kept, t) = GetState(p, t)
      /\ p # <<>> /\ p[1].tick <= tick => kept # <<>> /\ kept[1].tick = p[1].tick
  BY ClearAfterIs
<1>6. ~ (p # <<>> /\ p[1].tick <= tick) => kept = <<>>
  <2>1. SUFFICES ASSUME ~ (p # <<>> /\ p[1].tick <= tick) PROVE kept = <<>>
    OBVIOUS
  <2>2. GetState(p, tick) = NoState
    <3>1. p # <<>> => p[1].tick \in Nat
      <4>1. p # <<>> => 1 \in 1..Len(p)
        BY PastIs
      <4> QED  BY <4>1, PastIs
    <3>2. p = <<>> \/ p[1].tick > tick
      BY <3>1, <2>1
    <3>3. Past(p, at) /\ tick \in Int
      OBVIOUS
    <3> QED  BY ONLY <3>2, <3>3, SaysFrom
  <2>3. GetState(kept, tick) = NoState
    BY <1>5, <2>2
  <2>4. kept = <<>> \/ kept[1].tick > tick
    <3>1. Past(kept, tick) /\ tick \in Int
      BY <1>5
    <3> HIDE DEF kept
    <3> QED  BY ONLY <3>1, <2>3, SaysFrom
  <2>5. kept # <<>> => kept[1].tick \in Nat /\ kept[1].tick <= tick
    <3>1. kept # <<>> => 1 \in 1..Len(kept)
      BY <1>5, PastIs
    <3> QED  BY <3>1, <1>5, PastIs
  <2> QED  BY <2>4, <2>5
<1> HIDE DEF kept, state
<1>7. /\ Past(q, tick) /\ GetState(q, tick) = to
      /\ \A t \in Int : t < tick => GetState(q, t) = GetState(kept, t)
      /\ q # <<>> /\ q[1].tick = IF kept = <<>> THEN tick ELSE kept[1].tick
  BY <1>3, <1>5, AddStateIs
<1> HIDE DEF q
<1>8. r.p = q /\ r.v = to /\ r \in Runs
  <2>1. q \in Seq(PastEntry)
    BY <1>7 DEF Past
  <2> QED  BY <2>1, <1>3, <1>4 DEF Runs
<1>9. q[1].tick = IF p # <<>> /\ p[1].tick <= tick THEN p[1].tick ELSE tick
  BY <1>5, <1>6, <1>7
<1>10. \A t \in Int : t < tick => GetState(q, t) = GetState(p, t)
  BY <1>5, <1>7
<1> HIDE DEF r
<1> QED  BY <1>7, <1>8, <1>9, <1>10 DEF r, to

\* What is kept up while a replay from the tick has run up to t: the past is
\* as it was, or forgotten, a confirmed tick in which the simulation wrote nothing
\* else has its confirmed value, and a tick in which it wrote has what it wrote.
Replaying(c, acted, before, tick, t, at) ==
    {s \in Runs :
        /\ Past(s.p, t) /\ Reaching(s.p, at)
        /\ \A u \in Int : u <= tick => GetState(s.p, u) \in {NoState, GetState(before, u)}
        /\ \A u \in (tick + 1)..t :
               StateAt(c, u) # NoState /\ acted[u] \in {Keep, StateAt(c, u)} =>
                   GetState(s.p, u) \in {NoState, StateAt(c, u)}
        /\ \A u \in (tick + 1)..t : acted[u] # Keep => GetState(s.p, u) \in {NoState, acted[u]}}

\* One tick of a replay.
LEMMA ReplayTick ==
    ASSUME KeepsComponents, NEW c, Confirming(c), NEW at \in Nat, NEW acted \in [1..at -> Acts],
           NEW before, NEW tick \in Nat, NEW t \in Nat, tick < t, t <= at,
           NEW s \in Replaying(c, acted, before, tick, t - 1, at)
    PROVE  SimulateOne(Snapped(c, s, t), acted[t], t) \in Replaying(c, acted, before, tick, t, at)
<1> DEFINE b == Snapped(c, s, t)
           r == SimulateOne(b, acted[t], t)
<1>1. s \in Runs /\ Past(s.p, t - 1) /\ Reaching(s.p, at)
  BY DEF Replaying
<1>2. b.p = s.p /\ b.v = (IF StateAt(c, t) = NoState THEN s.v ELSE StateAt(c, t)) /\ b.v \in PredValues
  BY <1>1, SnappedIs
<1>3. t \in Nat \ {0} /\ acted[t] \in Acts /\ Past(b.p, t - 1)
  BY <1>1, <1>2
<1> HIDE DEF b
<1>4. /\ r \in Runs /\ Past(r.p, t) /\ r.v = (IF acted[t] = Keep THEN b.v ELSE acted[t])
      /\ GetState(r.p, t) = r.v
      /\ \A u \in Int : u < t => GetState(r.p, u) \in {NoState, GetState(s.p, u)}
      /\ Reaching(s.p, at) => Reaching(r.p, at)
  <2>1. /\ r \in Runs /\ Past(r.p, t) /\ r.v = (IF acted[t] = Keep THEN b.v ELSE acted[t])
        /\ GetState(r.p, t) = r.v
        /\ \A u \in Int : u < t => GetState(r.p, u) \in {NoState, GetState(b.p, u)}
        /\ \A to \in Nat : t <= to /\ (Reaching(b.p, to) \/ (b.p = <<>> /\ t = 1)) => Reaching(r.p, to)
    BY ONLY KeepsComponents, <1>2, <1>3, SimulateOneIs
  <2> HIDE DEF r
  <2>2. Reaching(s.p, at) => Reaching(r.p, at)
    BY <2>1, <1>2
  <2> QED  BY <2>1, <2>2, <1>2
<1> HIDE DEF r
<1>5. ASSUME NEW u \in Int, u <= tick PROVE GetState(r.p, u) \in {NoState, GetState(before, u)}
  <2>1. GetState(s.p, u) \in {NoState, GetState(before, u)}
    BY <1>5 DEF Replaying
  <2>2. u < t
    BY <1>5
  <2> QED  BY <2>1, <2>2, <1>4
<1>6. ASSUME NEW u \in (tick + 1)..t, StateAt(c, u) # NoState, acted[u] \in {Keep, StateAt(c, u)}
      PROVE  GetState(r.p, u) \in {NoState, StateAt(c, u)}
  <2>1. CASE u = t
    BY <2>1, <1>2, <1>4, <1>6
  <2>2. CASE u # t
    <3>1. u \in (tick + 1)..(t - 1) /\ u \in Int /\ u < t
      BY <2>2
    <3>2. GetState(s.p, u) \in {NoState, StateAt(c, u)}
      BY <3>1, <1>6 DEF Replaying
    <3> QED  BY <3>1, <3>2, <1>4
  <2> QED  BY <2>1, <2>2
<1>7. ASSUME NEW u \in (tick + 1)..t, acted[u] # Keep
      PROVE  GetState(r.p, u) \in {NoState, acted[u]}
  <2>1. CASE u = t
    BY <2>1, <1>4, <1>7
  <2>2. CASE u # t
    <3>1. u \in (tick + 1)..(t - 1) /\ u \in Int /\ u < t
      BY <2>2
    <3>2. GetState(s.p, u) \in {NoState, acted[u]}
      BY <3>1, <1>7 DEF Replaying
    <3> QED  BY <3>1, <3>2, <1>4
  <2> QED  BY <2>1, <2>2
<1>8. r \in Replaying(c, acted, before, tick, t, at)
  BY <1>1, <1>4, <1>5, <1>6, <1>7 DEF Replaying
<1> QED  BY <1>8 DEF r, b

\* run_rollback: what each tick keeps up holds of the present in the end.
LEMMA ReplayedIs ==
    ASSUME KeepsComponents, NEW c, Confirming(c), now \in Nat, NEW acted \in [1..now -> Acts],
           NEW start, NEW tick \in Nat, tick <= now,
           start \in Replaying(c, acted, start.p, tick, tick, now)
    PROVE  Replayed(c, start, tick, acted) \in Replaying(c, acted, start.p, tick, now, now)
<1> DEFINE n == now - tick
           M(k) == Replaying(c, acted, start.p, tick, tick + k, now)
           Turn(s, k) == SimulateOne(Snapped(c, s, tick + k), acted[tick + k], tick + k)
           run == CHOOSE f : f = [k \in 0..n |-> IF k = 0 THEN start ELSE Turn(f[k - 1], k)]
           turns == [k \in 1..n |-> [s \in Runs |-> IF s \in M(k - 1) THEN Turn(s, k) ELSE s]]
<1>0. n \in Nat /\ tick + n = now /\ tick + 0 = tick
  OBVIOUS
<1>1. Replayed(c, start, tick, acted) = run[n]
  BY DEF Replayed
<1>2. ASSUME NEW k \in 1..n, NEW s \in M(k - 1) PROVE Turn(s, k) \in M(k)
  <2>1. tick + k \in Nat /\ tick < tick + k /\ tick + k <= now /\ (tick + k) - 1 = tick + (k - 1)
    BY <1>0
  <2>2. s \in Replaying(c, acted, start.p, tick, (tick + k) - 1, now)
    BY <2>1
  <2> QED  BY <2>1, <2>2, ReplayTick
<1>3. start \in M(0)
  BY <1>0
<1>4. M(n) = Replaying(c, acted, start.p, tick, now, now)
  BY <1>0
<1>5. \A k : M(k) \subseteq Runs
  BY DEF Replaying
<1> HIDE DEF M, Turn, n
<1>6. turns \in [1..n -> [Runs -> Runs]]
  <2>1. ASSUME NEW k \in 1..n, NEW s \in Runs
        PROVE  (IF s \in M(k - 1) THEN Turn(s, k) ELSE s) \in Runs
    BY <2>1, <1>2, <1>5
  <2> QED  BY <2>1
<1>7. PICK f \in [0..n -> Runs] : f[0] = start /\ \A k \in 1..n : f[k] = turns[k][f[k - 1]]
  <2>1. n \in Nat /\ start \in Runs
    BY <1>0, <1>3, <1>5
  <2> HIDE DEF turns
  <2>2. \A S : \A s \in S : \A m \in Nat : \A step \in [1..m -> [S -> S]] :
           \E f \in [0..m -> S] : f[0] = s /\ \A k \in 1..m : f[k] = step[k][f[k - 1]]
    BY ONLY RunExists
  <2>3. \A step \in [1..n -> [Runs -> Runs]] :
           \E f \in [0..n -> Runs] : f[0] = start /\ \A k \in 1..n : f[k] = step[k][f[k - 1]]
    BY ONLY <2>1, <2>2, SMT
  <2> QED  BY ONLY <1>6, <2>3
<1>8. \A k \in 1..n : k - 1 \in 0..n /\ f[k - 1] \in Runs
  BY <1>0, <1>7
<1>9. ASSUME NEW k \in 1..n PROVE f[k] = IF f[k - 1] \in M(k - 1) THEN Turn(f[k - 1], k) ELSE f[k - 1]
  BY <1>7, <1>8
<1> HIDE DEF turns
<1>10. \A k \in 1..n : f[k - 1] \in M(k - 1) => f[k] \in M(k)
  BY <1>2, <1>9
<1>11. \A k \in 0..n : f[k] \in M(k)
  <2>1. ASSUME NEW m \in 0..n PROVE f[m] \in M(m)
    <3> DEFINE P == [k \in 0..m |-> M(k)]
    <3>1. m \in Nat /\ \A k \in 1..m : k \in 1..n /\ k - 1 \in 0..m /\ k \in 0..m
      BY <1>0
    <3>2. f[0] \in P[0]
      BY <3>1, <1>3, <1>7
    <3>3. \A k \in 1..m : f[k - 1] \in P[k - 1] => f[k] \in P[k]
      BY <3>1, <1>10
    <3>4. f[m] \in P[m]
      <4> HIDE DEF P
      <4> QED  BY <3>1, <3>2, <3>3, RunPasses
    <3> QED  BY <3>1, <3>4
  <2> QED  BY <2>1
<1>12. f = [k \in 0..n |-> IF k = 0 THEN start ELSE Turn(f[k - 1], k)]
  <2>1. ASSUME NEW k \in 0..n PROVE f[k] = IF k = 0 THEN start ELSE Turn(f[k - 1], k)
    <3>1. CASE k = 0
      BY <3>1, <1>7
    <3>2. CASE k # 0
      <4>1. k \in 1..n /\ k - 1 \in 0..n
        BY <3>2, <1>0
      <4>2. f[k] = Turn(f[k - 1], k)
        BY <4>1, <1>9, <1>11
      <4> QED  BY <3>2, <4>2
    <3> QED  BY <3>1, <3>2
  <2> QED  BY <2>1, <1>7
<1>13. run = [k \in 0..n |-> IF k = 0 THEN start ELSE Turn(run[k - 1], k)]
  BY <1>12
<1> HIDE DEF run
<1>14. run[0] = start /\ \A k \in 1..n : run[k] = Turn(run[k - 1], k)
  <2>1. 0 \in 0..n /\ \A k \in 1..n : k \in 0..n /\ k # 0
    BY <1>0
  <2> QED  BY <2>1, <1>13
<1>15. run[n] \in M(n)
  <2> DEFINE P == [k \in 0..n |-> M(k)]
  <2>1. n \in Nat /\ \A k \in 1..n : k - 1 \in 0..n /\ k \in 0..n
    BY <1>0
  <2>2. run[0] \in P[0]
    BY <2>1, <1>3, <1>14
  <2>3. \A k \in 1..n : run[k - 1] \in P[k - 1] => run[k] \in P[k]
    BY <2>1, <1>2, <1>14
  <2>4. run[n] \in P[n]
    <3> HIDE DEF P
    <3> QED  BY <2>1, <2>2, <2>3, RunPasses
  <2> QED  BY <2>1, <2>4
<1> QED  BY <1>1, <1>4, <1>15

\* A rollback of an entity, by state or by input: the past up to the tick it
\* starts from is as it was, but for that tick itself, which is confirmed.
LEMMA RolledBackIs ==
    ASSUME KeepsComponents, now \in Nat, NEW e \in PredEntities, NEW c, Confirming(c),
           NEW acted \in [1..now -> Acts], NEW tick \in 0..now, NEW fromState \in BOOLEAN,
           WithinLimit(tick), Past(predicted[e], now), live[e] \in PredValues,
           Reaching(predicted[e], now) \/ now = 0, ~ fromState \/ tick >= 1
    PROVE  /\ RolledBack(e, c, tick, fromState, acted) \in Runs
           /\ Past(RolledBack(e, c, tick, fromState, acted).p, now)
           /\ Reaching(RolledBack(e, c, tick, fromState, acted).p, now)
           /\ \A u \in 1..tick :
                  GetState(RolledBack(e, c, tick, fromState, acted).p, u) \in
                      {NoState, IF fromState /\ u = tick THEN Resolve(c, u)
                                ELSE GetState(predicted[e], u)}
           /\ \A u \in (tick + 1)..now :
                  StateAt(c, u) # NoState /\ acted[u] \in {Keep, StateAt(c, u)} =>
                      GetState(RolledBack(e, c, tick, fromState, acted).p, u) \in
                          {NoState, StateAt(c, u)}
           /\ \A u \in (tick + 1)..now :
                  /\ GetState(predicted[e], u) # NoState
                  /\ acted[u] # Keep =>
                         GetState(RolledBack(e, c, tick, fromState, acted).p, u) \in {NoState, acted[u]}
<1> DEFINE p == predicted[e]
           start == Prepared(c, p, live[e], tick, fromState)
           r == RolledBack(e, c, tick, fromState, acted)
<1>1. r = Replayed(c, start, tick, acted)
  BY DEF RolledBack, NoneTick
<1>2. tick \in Nat /\ tick <= now /\ now - tick <= RollbackLimit /\ RollbackLimit \in Nat
  BY PredictionConstants DEF WithinLimit
<1>3. p # <<>> => p[1].tick \in Nat
  <2>1. p # <<>> => 1 \in 1..Len(p)
    BY PastIs
  <2> QED  BY <2>1, PastIs
<1>4. /\ start \in Runs /\ Past(start.p, tick)
      /\ GetState(start.p, tick) = CASE fromState -> Resolve(c, tick)
                                     [] ~ fromState /\ GetState(p, tick) # NoState -> GetState(p, tick)
                                     [] ~ fromState /\ GetState(p, tick) = NoState -> live[e]
      /\ \A t \in Int : t < tick => GetState(start.p, t) = GetState(p, t)
      /\ start.p # <<>>
      /\ start.p[1].tick = IF p # <<>> /\ p[1].tick <= tick THEN p[1].tick ELSE tick
  BY <1>2, PreparedIs
<1>5. tick >= 1 => Reaching(p, now) /\ p # <<>> /\ p[1].tick <= tick
  BY <1>2, <1>3 DEF Reaching
<1>6. Reaching(start.p, now)
  <2>1. CASE tick = 0
    <3>1. start.p[1].tick <= 1
      BY <2>1, <1>3, <1>4
    <3> QED  BY <3>1, <1>4 DEF Reaching
  <2>2. CASE tick >= 1
    BY <2>2, <1>4, <1>5 DEF Reaching
  <2> QED  BY <2>1, <2>2, <1>2
<1>7. \A u \in 1..tick : GetState(start.p, u) = IF fromState /\ u = tick THEN Resolve(c, u)
                                               ELSE GetState(p, u)
  <2>1. SUFFICES ASSUME NEW u \in 1..tick
                 PROVE  GetState(start.p, u) = IF fromState /\ u = tick THEN Resolve(c, u)
                                               ELSE GetState(p, u)
    OBVIOUS
  <2>2. CASE u < tick
    BY <2>2, <1>4
  <2>3. CASE u = tick
    <3>1. GetState(p, tick) # NoState
      <4>1. ~ (p = <<>> \/ p[1].tick > tick)
        BY <2>3, <1>2, <1>3, <1>5
      <4>2. Past(p, now) /\ tick \in Int
        BY <1>2
      <4> HIDE DEF p
      <4> QED  BY ONLY <4>1, <4>2, SaysFrom
    <3>2. GetState(start.p, tick) = IF fromState THEN Resolve(c, tick) ELSE GetState(p, tick)
      BY <3>1, <1>4
    <3> QED  BY <3>2, <2>3
  <2> QED  BY <2>2, <2>3
<1> HIDE DEF start
<1>8. start \in Replaying(c, acted, start.p, tick, tick, now)
  BY <1>2, <1>4, <1>6 DEF Replaying
<1>9. r \in Replaying(c, acted, start.p, tick, now, now)
  BY <1>1, <1>2, <1>8, ReplayedIs
<1> HIDE DEF r
<1>10. \A u \in 1..tick : GetState(r.p, u) \in {NoState, IF fromState /\ u = tick THEN Resolve(c, u)
                                                       ELSE GetState(p, u)}
  <2>1. \A u \in 1..tick : u \in Int /\ u <= tick
    BY <1>2
  <2> QED  BY <2>1, <1>7, <1>9 DEF Replaying
<1>11. r \in Runs /\ Past(r.p, now) /\ Reaching(r.p, now)
       /\ \A u \in (tick + 1)..now :
              /\ StateAt(c, u) # NoState /\ acted[u] \in {Keep, StateAt(c, u)} =>
                     GetState(r.p, u) \in {NoState, StateAt(c, u)}
              /\ acted[u] # Keep => GetState(r.p, u) \in {NoState, acted[u]}
  BY <1>9 DEF Replaying
<1>12. \A u \in (tick + 1)..now : GetState(p, u) # NoState
  <2>1. SUFFICES ASSUME NEW u \in (tick + 1)..now PROVE GetState(p, u) # NoState
    OBVIOUS
  <2>2. ~ (p = <<>> \/ p[1].tick > u)
    <3>1. u \in Nat /\ u >= 1 /\ u <= now /\ now - u <= RollbackLimit /\ Reaching(p, now)
      BY <1>2
    <3> QED  BY <3>1, <1>2, <1>3 DEF Reaching
  <2>3. Past(p, now) /\ u \in Int
    BY <1>2
  <2> HIDE DEF p
  <2> QED  BY ONLY <2>2, <2>3, SaysFrom
<1> QED  BY <1>10, <1>11, <1>12 DEF r

-----------------------------------------------------------------------------
(* The server, and what is under way. *)

\* The ticks so far.
ServerTyped(n) == n \in Nat /\ server \in [PredEntities -> [0..n -> PredValues]]

\* A message says what the server had.
UpdatesTrue(n) ==
    \A m \in updates : /\ m.tick \in 1..n
                       /\ m.entity # NoState => /\ m.entity \in PredEntities
                                                /\ m.value = server[m.entity][m.tick]

\* What was received was sent, and what is known to be received was received.
ReceivedTyped(n) ==
    /\ confirmedAt \in [PredEntities -> SUBSET (0..n)]
    /\ acked \in [PredEntities -> 0..n]
    /\ \A e \in PredEntities : acked[e] \in confirmedAt[e]

\* Nothing of a complete tick is under way.
CompletedIs(n) == completed = NoneTick \/ (completed \in 1..n /\ \A m \in updates : m.tick # completed)

\* The value of a tick was received, is under way, or is that of a tick received
\* before.
Known(e, t) ==
    \/ t \in confirmedAt[e]
    \/ \E m \in updates : m.entity = e /\ m.tick = t
    \/ \E a \in confirmedAt[e] : a <= t /\ \A s \in a..t : server[e][s] = server[e][a]

AllKnown(n) == \A e \in PredEntities, t \in 1..n : Known(e, t)

Served(n) == ServerTyped(n) /\ UpdatesTrue(n) /\ ReceivedTyped(n) /\ CompletedIs(n) /\ AllKnown(n)

\* A value that did not change since a tick.
LEMMA NotChanged ==
    ASSUME NEW h, NEW n \in Nat, DOMAIN h = 0..n, NEW a \in 0..n, ~ \E c \in ChangesOf(h) : c > a
    PROVE  \A s \in a..n : h[s] = h[a]
<1> DEFINE Other == {s \in a..n : h[s] # h[a]}
<1>1. SUFFICES ASSUME Other # {} PROVE FALSE
  OBVIOUS
<1>2. PICK s \in Other : \A u \in Other : s <= u
  <2>1. Other \subseteq Nat
    OBVIOUS
  <2> HIDE DEF Other
  <2> QED  BY <2>1, <1>1, LeastOf
<1>3. s \in Nat /\ a < s /\ s <= n /\ h[s] # h[a]
  OBVIOUS
<1>4. s - 1 \notin Other /\ s - 1 \in a..n
  BY <1>2, <1>3
<1>5. h[s - 1] = h[a]
  BY <1>4
<1>6. s \in ChangesOf(h)
  BY <1>3, <1>5 DEF ChangesOf
<1> QED  BY <1>3, <1>6

\* The last tick of the server.
LEMMA LastTick ==
    ASSUME NEW n, ServerTyped(n)
    PROVE  (\A e \in PredEntities : Now(e) = n) /\ Max({Now(e) : e \in PredEntities}) = n
<1>1. n \in Nat
  BY DEF ServerTyped
<1>2. ASSUME NEW e \in PredEntities PROVE Now(e) = n
  <2>1. DOMAIN server[e] = 0..n
    BY DEF ServerTyped
  <2>2. n \in 0..n /\ 0..n \subseteq 0..n /\ 0..n # {}
    BY <1>1
  <2>3. Max(0..n) \in 0..n /\ \A x \in 0..n : x <= Max(0..n)
    BY ONLY <1>1, <2>2, GreatestOf
  <2>4. Max(0..n) = n
    BY <1>1, <2>3, <2>2
  <2> QED  BY <2>1, <2>4 DEF Now
<1>3. {Now(e) : e \in PredEntities} = {n}
  BY <1>2, PredictionConstants
<1>4. Max({n}) \in {n}
  BY <1>1, GreatestOf
<1> QED  BY <1>2, <1>3, <1>4

\* A tick of the server is another tick; it says nothing else of earlier ones.
LEMMA ServerStepIs ==
    ASSUME NEW n, Served(n), NEW values \in [PredEntities -> PredValues], ServerStep(values)
    PROVE  /\ Served(n + 1)'
           /\ \A e \in PredEntities, t \in 0..n : server'[e][t] = server[e][t]
<1> DEFINE next == [e \in PredEntities |-> InsertRaw(server[e], n + 1, values[e])]
           included == {e \in PredEntities : \E c \in ChangesOf(next[e]) : c > acked[e]}
<1>1. n \in Nat /\ server \in [PredEntities -> [0..n -> PredValues]]
  BY DEF Served, ServerTyped
<1>2. 1 + Max({Now(e) : e \in PredEntities}) = n + 1
  BY <1>1, LastTick DEF Served
<1>3. /\ server' = next
      /\ updates' = updates \cup
              IF included = {} THEN {[tick |-> n + 1, entity |-> NoState, value |-> NoState]}
              ELSE {[tick |-> n + 1, entity |-> e, value |-> values[e]] : e \in included}
      /\ UNCHANGED <<acked, confirmedAt, completed>>
  BY <1>2 DEF ServerStep
<1>4. \A e \in PredEntities : /\ next[e] \in [0..(n + 1) -> PredValues] /\ next[e][n + 1] = values[e]
                              /\ \A t \in 0..n : next[e][t] = server[e][t]
  <2>1. SUFFICES ASSUME NEW e \in PredEntities
                 PROVE  /\ next[e] \in [0..(n + 1) -> PredValues] /\ next[e][n + 1] = values[e]
                        /\ \A t \in 0..n : next[e][t] = server[e][t]
    OBVIOUS
  <2>2. next[e] = [t \in (0..n) \cup {n + 1} |-> IF t = n + 1 THEN values[e] ELSE server[e][t]]
    BY <1>1 DEF InsertRaw
  <2>3. (0..n) \cup {n + 1} = 0..(n + 1)
    BY <1>1
  <2>4. next[e] = [t \in 0..(n + 1) |-> IF t = n + 1 THEN values[e] ELSE server[e][t]]
    BY <2>2, <2>3
  <2>5. \A t \in 0..n : t # n + 1 /\ t \in 0..(n + 1)
    BY <1>1
  <2>6. \A t \in 0..(n + 1) : t # n + 1 => t \in 0..n
    BY <1>1
  <2>7. n + 1 \in 0..(n + 1)
    BY <1>1
  <2> HIDE DEF next
  <2> QED  BY <1>1, <2>4, <2>5, <2>6, <2>7
<1>5. \A e \in included : e \in PredEntities
  OBVIOUS
<1>6. \A e \in PredEntities \ included : ~ \E c \in ChangesOf(next[e]) : c > acked[e]
  OBVIOUS
<1> HIDE DEF included
<1>7. server' \in [PredEntities -> [0..(n + 1) -> PredValues]]
  <2>1. DOMAIN next = PredEntities /\ next = [e \in PredEntities |-> next[e]]
    OBVIOUS
  <2> HIDE DEF next
  <2> QED  BY <1>3, <1>4, <2>1
<1> HIDE DEF next
<1>8. \A e \in PredEntities, t \in 0..n : server'[e][t] = server[e][t]
  BY <1>3, <1>4
<1>9. ServerTyped(n + 1)'
  BY <1>1, <1>7 DEF ServerTyped
<1>10. \A m \in updates' :
           \/ m \in updates
           \/ m.tick = n + 1 /\ (m.entity = NoState \/ (m.entity \in PredEntities /\ m.value = values[m.entity]))
  <2>1. \A e \in included : [tick |-> n + 1, entity |-> e, value |-> values[e]].entity = e
    OBVIOUS
  <2> QED  BY <1>3, <1>5, <2>1
<1>11. UpdatesTrue(n + 1)'
  <2>1. ASSUME NEW m \in updates'
        PROVE  /\ m.tick \in 1..(n + 1)
               /\ m.entity # NoState => /\ m.entity \in PredEntities
                                        /\ m.value = server'[m.entity][m.tick]
    <3>1. CASE m \in updates
      <4>1. /\ m.tick \in 1..n
            /\ m.entity # NoState => m.entity \in PredEntities /\ m.value = server[m.entity][m.tick]
        BY <3>1 DEF Served, UpdatesTrue
      <4>2. m.tick \in 1..(n + 1) /\ m.tick \in 0..n
        BY <4>1, <1>1
      <4> QED  BY <4>1, <4>2, <1>8
    <3>2. CASE m.tick = n + 1 /\ (m.entity = NoState \/ (m.entity \in PredEntities /\ m.value = values[m.entity]))
      <4>1. n + 1 \in 1..(n + 1)
        BY <1>1
      <4> QED  BY <4>1, <3>2, <1>3, <1>4
    <3> QED  BY <3>1, <3>2, <1>10
  <2> QED  BY <2>1 DEF UpdatesTrue
<1>12. ReceivedTyped(n + 1)'
  <2>1. 0..n \subseteq 0..(n + 1)
    BY <1>1
  <2>2. ReceivedTyped(n)
    BY DEF Served
  <2> QED  BY <2>1, <2>2, <1>3 DEF ReceivedTyped
<1>13. CompletedIs(n + 1)'
  <2>1. CASE completed = NoneTick
    BY <2>1, <1>3 DEF CompletedIs
  <2>2. CASE completed # NoneTick
    <3>1. completed \in 1..n /\ \A m \in updates : m.tick # completed
      BY <2>2 DEF Served, CompletedIs
    <3>2. completed \in 1..(n + 1) /\ completed # n + 1
      BY <3>1, <1>1
    <3> QED  BY <3>1, <3>2, <1>3, <1>10 DEF CompletedIs
  <2> QED  BY <2>1, <2>2
<1>14. AllKnown(n + 1)'
  <2>1. ASSUME NEW e \in PredEntities, NEW t \in 1..(n + 1)
        PROVE  \/ t \in confirmedAt[e]
               \/ \E m \in updates' : m.entity = e /\ m.tick = t
               \/ \E a \in confirmedAt[e] : a <= t /\ \A s \in a..t : server'[e][s] = server'[e][a]
    <3>1. CASE t \in 1..n
      <4>1. Known(e, t)
        BY <3>1 DEF Served, AllKnown
      <4>2. CASE \E a \in confirmedAt[e] : a <= t /\ \A s \in a..t : server[e][s] = server[e][a]
        <5>1. PICK a \in confirmedAt[e] : a <= t /\ \A s \in a..t : server[e][s] = server[e][a]
          BY <4>2
        <5>2. a \in 0..n /\ \A s \in a..t : s \in 0..n
          BY <1>1, <3>1 DEF Served, ReceivedTyped
        <5> QED  BY <5>1, <5>2, <1>8
      <4>3. updates \subseteq updates'
        BY <1>3
      <4> QED  BY <4>1, <4>2, <4>3 DEF Known
    <3>2. CASE t = n + 1 /\ e \in included
      <4> DEFINE m == [tick |-> n + 1, entity |-> e, value |-> values[e]]
      <4>1. m \in updates'
        BY <3>2, <1>3
      <4>2. m.entity = e /\ m.tick = t
        BY <3>2
      <4> HIDE DEF m
      <4> QED  BY <4>1, <4>2
    <3>3. CASE t = n + 1 /\ e \notin included
      <4> DEFINE a == acked[e]
      <4>1. a \in 0..n /\ a \in confirmedAt[e] /\ a \in 0..(n + 1) /\ a <= t
        BY <1>1, <3>3 DEF Served, ReceivedTyped
      <4>2. DOMAIN next[e] = 0..(n + 1) /\ n + 1 \in Nat
        BY <1>1, <1>4
      <4>3. ~ \E c \in ChangesOf(next[e]) : c > a
        BY <3>3, <1>6
      <4> HIDE DEF a
      <4>4. \A s \in a..(n + 1) : next[e][s] = next[e][a]
        BY ONLY <4>1, <4>2, <4>3, NotChanged
      <4> QED  BY <4>1, <4>4, <3>3, <1>3
    <3>4. t \in 1..n \/ t = n + 1
      BY <1>1
    <3> QED  BY <3>1, <3>2, <3>3, <3>4
  <2> QED  BY <2>1, <1>3 DEF AllKnown, Known
<1> QED  BY <1>8, <1>9, <1>11, <1>12, <1>13, <1>14 DEF Served

\* An acknowledgement is of what was received.
LEMMA AckArrivesIs ==
    ASSUME NEW n, Served(n), NEW e \in PredEntities, AckArrives(e)
    PROVE  Served(n)'
<1>1. PICK t \in confirmedAt[e] : acked' = [acked EXCEPT ![e] = t]
  BY DEF AckArrives
<1>2. UNCHANGED <<server, updates, confirmedAt, completed>>
  BY DEF AckArrives
<1>3. ReceivedTyped(n)'
  BY <1>1, <1>2 DEF Served, ReceivedTyped
<1> QED  BY <1>2, <1>3 DEF Served, ServerTyped, UpdatesTrue, CompletedIs, AllKnown, Known

\* A message that arrives is received; its tick may be complete then.
LEMMA ReceiveUpdateServed ==
    ASSUME NEW n, Served(n), NEW m \in updates, ReceiveUpdate(m)
    PROVE  Served(n)'
<1>1. /\ updates' = updates \ {m}
      /\ completed' = completed \/ (completed' = m.tick /\ \A x \in updates' : x.tick # m.tick)
      /\ server' = server /\ acked' = acked
  BY DEF ReceiveUpdate, Complete
<1>2. m.tick \in 1..n /\ n \in Nat /\ (m.entity # NoState => m.entity \in PredEntities)
  BY DEF Served, UpdatesTrue, ServerTyped
<1>3. IF m.entity = NoState THEN confirmedAt' = confirmedAt
      ELSE confirmedAt' = [confirmedAt EXCEPT ![m.entity] = @ \cup {m.tick}]
  BY DEF ReceiveUpdate
<1>4. \A e \in PredEntities : confirmedAt[e] \subseteq confirmedAt'[e]
  BY <1>2, <1>3 DEF Served, ReceivedTyped
<1>5. ReceivedTyped(n)'
  <2>1. ReceivedTyped(n) /\ m.tick \in 0..n
    BY <1>2 DEF Served
  <2>2. confirmedAt' \in [PredEntities -> SUBSET (0..n)]
    BY <2>1, <1>2, <1>3 DEF ReceivedTyped
  <2> QED  BY <2>1, <2>2, <1>1, <1>4 DEF ReceivedTyped
<1>6. CompletedIs(n)'
  BY <1>1, <1>2 DEF Served, CompletedIs
<1>7. AllKnown(n)'
  <2>1. ASSUME NEW e \in PredEntities, NEW t \in 1..n PROVE Known(e, t)'
    <3>1. Known(e, t)
      BY DEF Served, AllKnown
    <3>2. CASE \E x \in updates : x.entity = e /\ x.tick = t
      <4>1. PICK x \in updates : x.entity = e /\ x.tick = t
        BY <3>2
      <4>2. CASE x = m
        <5>1. m.entity # NoState
          BY <4>1, <4>2, PredictionConstants
        <5>2. t \in confirmedAt'[e]
          BY <4>1, <4>2, <5>1, <1>3 DEF Served, ReceivedTyped
        <5> QED  BY <5>2 DEF Known
      <4>3. CASE x # m
        BY <4>1, <4>3, <1>1 DEF Known
      <4> QED  BY <4>2, <4>3
    <3>3. CASE ~ \E x \in updates : x.entity = e /\ x.tick = t
      BY <3>1, <3>3, <1>1, <1>4 DEF Known
    <3> QED  BY <3>2, <3>3
  <2> QED  BY <2>1 DEF AllKnown
<1> QED  BY <1>1, <1>5, <1>6, <1>7 DEF Served, ServerTyped, UpdatesTrue

\* What is known of a complete tick was received.
LEMMA CompleteKnown ==
    ASSUME NEW n, Served(n), completed # NoneTick, NEW e \in PredEntities
    PROVE  /\ completed \in 1..n /\ n \in Nat
           /\ \E a \in confirmedAt[e] : a <= completed /\ \A s \in a..completed : server[e][s] = server[e][a]
<1>1. completed \in 1..n /\ n \in Nat /\ \A m \in updates : m.tick # completed
  BY DEF Served, CompletedIs, ServerTyped
<1>2. Known(e, completed)
  BY <1>1 DEF Served, AllKnown
<1>3. CASE completed \in confirmedAt[e]
  <2>1. completed <= completed /\ \A s \in completed..completed : s = completed
    BY <1>1
  <2> QED  BY <2>1, <1>1, <1>3
<1> QED  BY <1>1, <1>2, <1>3 DEF Known

-----------------------------------------------------------------------------
(* The client. *)

\* The confirmed histories: what was received is in them.
ConfirmedTyped(n) ==
    /\ DOMAIN confirmed = PredEntities
    /\ \A e \in PredEntities : /\ Confirming(confirmed[e]) /\ DOMAIN confirmed[e] \subseteq 0..n
                               /\ confirmedAt[e] \subseteq DOMAIN confirmed[e]

\* One that was never wrong says the truth.
ConfirmedTrue == \A e \in PredEntities \ untrue : SaysTheTruth(confirmed[e], e)

\* The component, what its simulation did and what was predicted.
Simulated(e) ==
    /\ live[e] \in PredValues
    /\ acts[e] \in [1..now -> Acts]
    /\ Past(predicted[e], now)
    /\ Reaching(predicted[e], now) \/ (now = 0 /\ predicted[e] = <<>>)

ClientTyped ==
    /\ now \in Nat /\ processed \in Int /\ processed <= now /\ pending \in Int
    /\ \A e \in PredEntities : Simulated(e)

\* What was received of a tick to come is looked at when the client is there.
Waiting ==
    \A e \in PredEntities : \A t \in confirmedAt[e] : t > now => <<t, e>> \in deferred \cup unlooked

Agrees(e, t) == GetState(predicted[e], t) \in {NoState, server[e][t]}

\* What was received of a tick that is neither processed nor waiting was compared,
\* and agrees unless a mismatch is pending.
ComparedAt(e, t) ==
    t > processed /\ 1 <= t /\ t <= now /\ <<t, e>> \notin deferred \cup unlooked
    /\ acts[e][t] \in {Keep, server[e][t]}
        => Agrees(e, t) \/ (pending # NoneTick /\ pending <= t)

Compared == \A e \in PredEntities \ untrue : \A t \in confirmedAt[e] : ComparedAt(e, t)

\* What the simulation wrote in a tick is what was predicted of it, until the tick
\* is processed.
Written ==
    \A e \in PredEntities : \A u \in 1..now :
        u > processed /\ acts[e][u] # Keep => GetState(predicted[e], u) \in {NoState, acts[e][u]}

Reconciling(n) ==
    ConfirmedTyped(n) /\ ConfirmedTrue /\ ClientTyped /\ Waiting /\ Compared /\ Written

\* A tick of the server changes nothing that was said.
LEMMA ServerStepReconciling ==
    ASSUME NEW n, Served(n), Reconciling(n), NEW values \in [PredEntities -> PredValues],
           ServerStep(values)
    PROVE  Reconciling(n + 1)'
<1>1. /\ \A e \in PredEntities, t \in 0..n : server'[e][t] = server[e][t]
      /\ n \in Nat
  BY ServerStepIs DEF Served, ServerTyped
<1>2. UNCHANGED <<confirmedAt, confirmed, predicted, live, acts, now, processed, pending,
                  deferred, unlooked, untrue>>
  BY DEF ServerStep
<1>3. \A t \in 0..n : t \in 0..(n + 1)
  BY <1>1
<1>4. ConfirmedTyped(n + 1)'
  BY <1>2, <1>3 DEF Reconciling, ConfirmedTyped
<1>5. ConfirmedTrue'
  <2>1. \A e \in PredEntities : \A t \in DOMAIN confirmed[e] : server'[e][t] = server[e][t]
    BY <1>1 DEF Reconciling, ConfirmedTyped
  <2> QED  BY <1>2, <2>1 DEF Reconciling, ConfirmedTrue, SaysTheTruth
<1>6. ClientTyped' /\ Waiting' /\ Written'
  BY <1>2 DEF Reconciling, ClientTyped, Simulated, Waiting, Written
<1>7. Compared'
  <2>1. \A e \in PredEntities : \A t \in confirmedAt[e] : server'[e][t] = server[e][t]
    BY <1>1 DEF Served, ReceivedTyped
  <2>2. ASSUME NEW e \in PredEntities, NEW t \in confirmedAt[e], ComparedAt(e, t)
        PROVE  ComparedAt(e, t)'
    BY <2>1, <2>2, <1>2 DEF ComparedAt, Agrees
  <2> QED  BY <2>2, <1>2 DEF Reconciling, Compared
<1> QED  BY <1>4, <1>5, <1>6, <1>7 DEF Reconciling

\* Nor does an acknowledgement.
LEMMA AckArrivesReconciling ==
    ASSUME NEW n, Reconciling(n), NEW e \in PredEntities, AckArrives(e)
    PROVE  Reconciling(n)'
<1>1. UNCHANGED <<server, confirmedAt, confirmed, predicted, live, acts, now, processed, pending,
                  deferred, unlooked, untrue>>
  BY DEF AckArrives
<1> QED  BY <1>1 DEF Reconciling, ConfirmedTyped, ConfirmedTrue, SaysTheTruth, ClientTyped, Simulated,
             Waiting, Compared, ComparedAt, Agrees, Written

\* An update that arrives is compared, or waits, or a mismatch is pending.
LEMMA ReceiveUpdateReconciling ==
    ASSUME NEW n, Served(n), Reconciling(n), NEW m \in updates, ReceiveUpdate(m)
    PROVE  Reconciling(n)'
<1>1. UNCHANGED <<server, predicted, live, acts, now, processed>>
  BY DEF ReceiveUpdate
<1>2. ClientTyped
  BY DEF Reconciling
<1>3. CASE m.entity = NoState
  <2>1. UNCHANGED <<confirmedAt, confirmed, pending, deferred, unlooked, untrue>>
    BY <1>3 DEF ReceiveUpdate
  <2> QED  BY <1>1, <2>1 DEF Reconciling, ConfirmedTyped, ConfirmedTrue, SaysTheTruth, ClientTyped,
               Simulated, Waiting, Compared, ComparedAt, Agrees, Written
<1>4. CASE m.entity # NoState
  <2> DEFINE x == m.entity
             u == m.tick
  <2>1. x \in PredEntities /\ u \in 1..n /\ n \in Nat /\ m.value = server[x][u] /\ u \in Nat \ {0}
    BY <1>4 DEF Served, UpdatesTrue, ServerTyped
  <2>2. server[x][u] \in PredValues
    BY <2>1 DEF Served, ServerTyped
  <2>3. /\ confirmedAt' = [confirmedAt EXCEPT ![x] = @ \cup {u}]
        /\ confirmed' = [confirmed EXCEPT ![x] = InsertConfirmed(@, u, m.value)]
        /\ pending' = IF MismatchOnArrival(m) THEN u ELSE pending
        /\ deferred' = IF DeferredOnArrival(m) THEN deferred \cup {<<u, x>>} ELSE deferred
        /\ unlooked' = IF pending # NoneTick /\ u >= pending THEN unlooked \cup {<<u, x>>} ELSE unlooked
        /\ untrue' = IF SaysTheTruth(confirmed'[x], x) THEN untrue ELSE untrue \cup {x}
    BY <1>4 DEF ReceiveUpdate
  <2>4. /\ \A e \in PredEntities : confirmedAt'[e] = IF e = x THEN confirmedAt[x] \cup {u} ELSE confirmedAt[e]
        /\ DOMAIN confirmed' = PredEntities
        /\ \A e \in PredEntities : confirmed'[e] = IF e = x THEN InsertConfirmed(confirmed[x], u, server[x][u])
                                                   ELSE confirmed[e]
    BY <2>1, <2>3 DEF Served, ReceivedTyped, Reconciling, ConfirmedTyped
  <2>5. ConfirmedTyped(n)'
    <3>1. Confirming(confirmed[x]) /\ DOMAIN confirmed[x] \subseteq 0..n /\ confirmedAt[x] \subseteq DOMAIN confirmed[x]
      BY <2>1 DEF Reconciling, ConfirmedTyped
    <3>2. /\ Confirming(InsertConfirmed(confirmed[x], u, server[x][u]))
          /\ DOMAIN InsertConfirmed(confirmed[x], u, server[x][u]) = DOMAIN confirmed[x] \cup {u}
      BY <3>1, <2>1, <2>2, InsertConfirmedIs
    <3>3. u \in 0..n
      BY <2>1
    <3>4. ASSUME NEW e \in PredEntities
          PROVE  /\ Confirming(confirmed'[e]) /\ DOMAIN confirmed'[e] \subseteq 0..n
                 /\ confirmedAt'[e] \subseteq DOMAIN confirmed'[e]
      BY <3>1, <3>2, <3>3, <2>4 DEF Reconciling, ConfirmedTyped
    <3> QED  BY <3>4, <2>4 DEF ConfirmedTyped, Confirming
  <2>6. ConfirmedTrue'
    <3>1. ASSUME NEW e \in PredEntities \ untrue' PROVE SaysTheTruth(confirmed'[e], e)
      <4>1. CASE e = x
        BY <4>1, <3>1, <2>3
      <4>2. CASE e # x
        BY <4>2, <3>1, <2>3, <2>4 DEF Reconciling, ConfirmedTrue
      <4> QED  BY <4>1, <4>2
    <3> QED  BY <3>1, <1>1 DEF ConfirmedTrue, SaysTheTruth
  <2>7. ClientTyped'
    <3>1. pending' \in Int
      BY <1>2, <2>1, <2>3 DEF ClientTyped
    <3> QED  BY <3>1, <1>1, <1>2 DEF ClientTyped, Simulated
  <2>8. deferred \subseteq deferred' /\ unlooked \subseteq unlooked' /\ untrue \subseteq untrue'
    BY <2>3
  <2>9. Waiting'
    <3>1. ASSUME NEW e \in PredEntities, NEW t \in confirmedAt'[e], t > now
          PROVE  <<t, e>> \in deferred' \cup unlooked'
      <4>1. CASE t \in confirmedAt[e]
        BY <4>1, <3>1, <2>8 DEF Reconciling, Waiting
      <4>2. CASE t \notin confirmedAt[e]
        <5>1. e = x /\ t = u
          BY <4>2, <3>1, <2>4
        <5>2. DeferredOnArrival(m) \/ (pending # NoneTick /\ u >= pending)
          BY <5>1, <3>1, <1>2, <2>1 DEF DeferredOnArrival, ShouldCheckAt, ClientTyped
        <5> QED  BY <5>1, <5>2, <2>3
      <4> QED  BY <4>1, <4>2
    <3> QED  BY <3>1, <1>1 DEF Waiting
  <2>10. pending # NoneTick => pending' # NoneTick /\ pending' <= pending
    <3>1. u # NoneTick
      BY <2>1 DEF NoneTick
    <3> QED  BY <3>1, <2>1, <2>3, <1>2 DEF MismatchOnArrival, ShouldCheckAt, ClientTyped
  <2>11. Compared'
    <3>1. SUFFICES ASSUME NEW e \in PredEntities \ untrue', NEW t \in confirmedAt'[e]
                   PROVE  ComparedAt(e, t)'
      BY <1>1 DEF Compared
    <3>2. e \in PredEntities \ untrue
      BY <2>8
    <3>3. t \in Int
      BY <2>1, <2>4, <3>2 DEF Served, ReceivedTyped
    <3>4. CASE t \in confirmedAt[e]
      <4>1. ComparedAt(e, t)
        BY <3>1, <3>2, <3>4 DEF Reconciling, Compared
      <4>2. pending # NoneTick /\ pending <= t => pending' # NoneTick /\ pending' <= t
        BY <3>3, <2>10, <1>2, <2>7 DEF ClientTyped
      <4> QED  BY <4>1, <4>2, <2>8, <1>1 DEF ComparedAt, Agrees
    <3>5. CASE t \notin confirmedAt[e]
      <4>1. e = x /\ t = u
        BY <3>5, <3>2, <2>4
      <4>2. SUFFICES ASSUME u > processed, u <= now, <<u, x>> \notin unlooked'
                     PROVE  \/ GetState(predicted[x], u) \in {NoState, server[x][u]}
                            \/ pending' # NoneTick /\ pending' <= u
        BY <4>1, <1>1 DEF ComparedAt, Agrees
      <4>3. ShouldCheckAt(u)
        BY <4>2, <2>1, <2>3, <1>2 DEF ShouldCheckAt, ClientTyped
      <4>4. CASE MismatchOnArrival(m)
        BY <4>4, <2>1, <2>3 DEF NoneTick
      <4>5. CASE PrunedPast(predicted[x], u)
        <5>1. Past(predicted[x], now) /\ u \in Int
          BY <2>1, <1>2 DEF ClientTyped, Simulated
        <5>2. predicted[x][1].tick > u
          BY <4>5 DEF PrunedPast
        <5> QED  BY <5>1, <5>2, SaysFrom
      <4>6. CASE ~ MismatchOnArrival(m) /\ ~ PrunedPast(predicted[x], u)
        <5>1. server[x][u] = GetPredicted(predicted[x], u)
          BY <4>2, <4>3, <4>6, <2>1 DEF MismatchOnArrival, Disagree
        <5>2. server[x][u] # Gone
          BY <2>2, PredictionConstants
        <5> QED  BY <5>1, <5>2 DEF GetPredicted
      <4> QED  BY <4>4, <4>5, <4>6
    <3> QED  BY <3>4, <3>5
  <2>12. Written'
    BY <1>1 DEF Reconciling, Written
  <2> QED  BY <2>5, <2>6, <2>7, <2>9, <2>11, <2>12 DEF Reconciling
<1> QED  BY <1>3, <1>4

\* What a scan visits changes nothing in what the confirmed histories say, and they
\* say of a complete tick what the server had.
LEMMA VisitIs ==
    ASSUME NEW n, Served(n), Reconciling(n), NEW visited, visited = {} \/ completed # NoneTick
    PROVE  /\ DOMAIN Visit(visited) = PredEntities
           /\ \A e \in PredEntities : /\ Confirming(Visit(visited)[e])
                                      /\ DOMAIN Visit(visited)[e] \subseteq 0..n
                                      /\ confirmedAt[e] \subseteq DOMAIN Visit(visited)[e]
                                      /\ e \in visited => completed \in DOMAIN Visit(visited)[e]
           /\ \A e \in PredEntities \ untrue :
                  /\ SaysTheTruth(Visit(visited)[e], e)
                  /\ completed # NoneTick => Resolve(Visit(visited)[e], completed) = server[e][completed]
<1>1. DOMAIN Visit(visited) = PredEntities
  BY DEF Visit
<1>2. SUFFICES ASSUME NEW e \in PredEntities
      PROVE  /\ Confirming(Visit(visited)[e]) /\ DOMAIN Visit(visited)[e] \subseteq 0..n
             /\ confirmedAt[e] \subseteq DOMAIN Visit(visited)[e]
             /\ e \in visited => completed \in DOMAIN Visit(visited)[e]
             /\ e \notin untrue =>
                    /\ SaysTheTruth(Visit(visited)[e], e)
                    /\ completed # NoneTick => Resolve(Visit(visited)[e], completed) = server[e][completed]
  BY <1>1
<1> DEFINE c == confirmed[e]
           q == Visit(visited)[e]
<1>3. /\ Confirming(c) /\ DOMAIN c \subseteq 0..n /\ confirmedAt[e] \subseteq DOMAIN c
      /\ e \notin untrue => \A t \in DOMAIN c : StateAt(c, t) = server[e][t]
  BY DEF Reconciling, ConfirmedTyped, ConfirmedTrue, SaysTheTruth
<1>4. q = IF e \in visited THEN AddUnchanged(c, completed) ELSE c
  BY DEF Visit
<1> HIDE DEF c, q
<1>5. ASSUME e \notin untrue, completed # NoneTick
      PROVE  Resolve(c, completed) = server[e][completed]
  <2>1. /\ completed \in Nat
        /\ \E a \in confirmedAt[e] : a <= completed /\ \A s \in a..completed : server[e][s] = server[e][a]
    BY <1>5, CompleteKnown
  <2>2. PICK a \in confirmedAt[e] : a <= completed /\ \A s \in a..completed : server[e][s] = server[e][a]
    BY <2>1
  <2> DEFINE truth == server[e]
  <2>3. a \in DOMAIN c /\ (\A t \in DOMAIN c : StateAt(c, t) = truth[t]) /\ \A s \in a..completed : truth[s] = truth[a]
    BY <1>3, <1>5, <2>2
  <2> HIDE DEF truth
  <2>4. Resolve(c, completed) = truth[completed]
    BY ONLY <1>3, <2>1, <2>2, <2>3, TrueUntilChanged
  <2> QED  BY <2>4 DEF truth
<1>6. CASE e \notin visited
  BY <1>3, <1>4, <1>5, <1>6 DEF SaysTheTruth, q
<1>7. CASE e \in visited
  <2>1. completed \in 1..n /\ n \in Nat /\ completed # NoneTick
    <3>1. completed # NoneTick
      BY <1>7
    <3> QED  BY <3>1, CompleteKnown
  <2>2. /\ Confirming(q) /\ DOMAIN q = DOMAIN c \cup {completed}
        /\ \A t \in Nat : Resolve(q, t) = Resolve(c, t)
        /\ \A t \in DOMAIN c : StateAt(q, t) = StateAt(c, t)
    <3>1. completed \in Nat \ {0}
      BY <2>1
    <3> QED  BY <3>1, <1>3, <1>4, <1>7, AddUnchangedIs
  <2>3. completed \in 0..n /\ completed \in Nat /\ completed \in DOMAIN q
    BY <2>1, <2>2
  <2>4. ASSUME e \notin untrue, NEW t \in DOMAIN q PROVE StateAt(q, t) = server[e][t]
    <3>1. CASE t = completed
      BY <3>1, <2>1, <2>2, <2>3, <2>4, <1>5 DEF StateAt
    <3>2. CASE t \in DOMAIN c
      BY <3>2, <2>2, <2>4, <1>3
    <3> QED  BY <3>1, <3>2, <2>2
  <2> QED  BY <1>3, <1>5, <2>1, <2>2, <2>3, <2>4 DEF SaysTheTruth, q
<1> QED  BY <1>6, <1>7

\* What a frame may do to an entity besides a rollback by state.
Frames(input, e, change) ==
    /\ input \in {NoneTick} \cup (0..(now - 1))
    /\ e \in PredEntities /\ change \in Acts

\* A rollback reaches no further than its limit, and the acts it changes are those of
\* the tick after the one it starts from.
LEMMA TargetIs ==
    ASSUME NEW n, Served(n), Reconciling(n), NEW input, NEW e, NEW change, Frames(input, e, change)
    PROVE  /\ Target(input) = NoneTick \/ (Target(input) \in 0..now /\ WithinLimit(Target(input)))
           /\ ByState => Target(input) = completed /\ completed \in 1..now
           /\ Acted(e, Target(input), change) \in [1..now -> Acts]
           /\ \A u \in 1..now :
                  Target(input) = NoneTick \/ u <= Target(input) \/ ByState =>
                      Acted(e, Target(input), change)[u] = acts[e][u]
<1>1. now \in Nat /\ acts[e] \in [1..now -> Acts] /\ e \in PredEntities /\ change \in Acts
  BY DEF Frames, Reconciling, ClientTyped, Simulated
<1>2. ByState => Target(input) = completed /\ completed \in 1..now /\ WithinLimit(completed)
  <2>1. ByState => completed # NoneTick /\ completed <= now /\ WithinLimit(completed)
    BY DEF ByState, Checkable
  <2>2. completed # NoneTick => completed \in 1..n /\ n \in Nat
    BY <1>1, CompleteKnown
  <2>3. completed # NoneTick /\ completed <= now => completed \in 1..now
    BY <1>1, <2>2
  <2> QED  BY <2>1, <2>3 DEF Target
<1>3. ~ ByState => Target(input) = NoneTick \/ (Target(input) \in 0..now /\ WithinLimit(Target(input)))
  <2>1. input # NoneTick => input \in 0..now
    BY <1>1 DEF Frames
  <2> QED  BY <2>1 DEF Target
<1>4. completed \in 1..now => completed \in 0..now
  BY <1>1
<1> DEFINE target == Target(input)
           acted == Acted(e, target, change)
<1>5. acted = [t \in 1..now |-> IF ~ ByState /\ target # NoneTick /\ t = target + 1 THEN change ELSE acts[e][t]]
  BY <1>1 DEF Acted
<1>6. target \in 0..now => \A u \in 1..now : u <= target => u # target + 1
  BY <1>1
<1>7. target = NoneTick \/ (target \in 0..now /\ WithinLimit(target))
  BY <1>2, <1>3, <1>4
<1> HIDE DEF target
<1>8. acted \in [1..now -> Acts]
  <2>1. \A t \in 1..now : (IF ~ ByState /\ target # NoneTick /\ t = target + 1 THEN change ELSE acts[e][t]) \in Acts
    BY <1>1
  <2> HIDE DEF acted
  <2> QED  BY <1>5, <2>1
<1>9. \A u \in 1..now : target = NoneTick \/ u <= target \/ ByState => acted[u] = acts[e][u]
  <2> HIDE DEF acted
  <2> QED  BY <1>5, <1>6, <1>7
<1> QED  BY <1>2, <1>7, <1>8, <1>9 DEF target

\* What a frame leaves in the past p of a tick, given what was confirmed and what
\* the simulation now does in it: what was there, what a rollback by state restored
\* there, or the outcome of a replay.
Left(e, u, c, p, act) ==
    \/ /\ GetState(p, u) \in {NoState, GetState(predicted[e], u)}
       /\ act = acts[e][u] /\ (ByState => u < completed)
    \/ /\ ByState /\ u = completed
       /\ GetState(p, u) \in {NoState, Resolve(c, u)}
    \/ /\ ByState => u > completed /\ act = acts[e][u]
       /\ GetState(predicted[e], u) # NoState
       /\ StateAt(c, u) # NoState /\ act \in {Keep, StateAt(c, u)} =>
              GetState(p, u) \in {NoState, StateAt(c, u)}
       /\ act # Keep => GetState(p, u) \in {NoState, act}

\* What a frame does to an entity before the next tick.
LEMMA RollbackIs ==
    ASSUME KeepsComponents, NEW n, Served(n), Reconciling(n), NEW input, NEW e, NEW change,
           Frames(input, e, change), NEW c, Confirming(c), NEW acted,
           acted = Acted(e, Target(input), change),
           NEW r, r = RolledBack(e, c, Target(input), ByState, acted)
    PROVE  /\ Past(r.p, now) /\ r.v \in PredValues
           /\ Reaching(r.p, now) \/ (now = 0 /\ r.p = <<>>)
           /\ \A u \in 1..now : Left(e, u, c, r.p, acted[u])
<1> DEFINE target == Target(input)
<1>1. /\ now \in Nat /\ e \in PredEntities /\ live[e] \in PredValues /\ Past(predicted[e], now)
      /\ Reaching(predicted[e], now) \/ (now = 0 /\ predicted[e] = <<>>)
  BY DEF Frames, Reconciling, ClientTyped, Simulated
<1>2. /\ target = NoneTick \/ (target \in 0..now /\ WithinLimit(target))
      /\ ByState => target = completed /\ completed \in 1..now
      /\ acted \in [1..now -> Acts]
      /\ \A u \in 1..now : target = NoneTick \/ u <= target \/ ByState => acted[u] = acts[e][u]
  BY TargetIs
<1>3. r = RolledBack(e, c, target, ByState, acted)
  OBVIOUS
<1> HIDE DEF target
<1>4. CASE target = NoneTick
  <2>1. ~ ByState
    BY <1>1, <1>2, <1>4 DEF NoneTick
  <2>2. r.p = predicted[e] /\ r.v = live[e]
    BY <1>3, <1>4 DEF RolledBack
  <2>3. \A u \in 1..now : Left(e, u, c, r.p, acted[u])
    BY <1>2, <1>4, <2>1, <2>2 DEF Left
  <2> QED  BY <1>1, <2>2, <2>3
<1>5. CASE target # NoneTick
  <2>1. target \in 0..now /\ WithinLimit(target) /\ (ByState => target >= 1)
    BY <1>1, <1>2, <1>5
  <2> DEFINE fromState == ByState
  <2>2. ByState \in BOOLEAN
    BY DEF ByState, Checkable, WantsStateRollback, PendingMismatch, WithinLimit
  <2>3. /\ fromState \in BOOLEAN /\ (~ fromState \/ target >= 1)
        /\ Reaching(predicted[e], now) \/ now = 0
        /\ r = RolledBack(e, c, target, fromState, acted)
    BY <1>1, <1>3, <2>1, <2>2
  <2>4. /\ r \in Runs /\ Past(r.p, now) /\ Reaching(r.p, now)
        /\ \A u \in 1..target : GetState(r.p, u) \in
               {NoState, IF fromState /\ u = target THEN Resolve(c, u) ELSE GetState(predicted[e], u)}
        /\ \A u \in (target + 1)..now :
               /\ StateAt(c, u) # NoState /\ acted[u] \in {Keep, StateAt(c, u)} =>
                      GetState(r.p, u) \in {NoState, StateAt(c, u)}
               /\ GetState(predicted[e], u) # NoState
               /\ acted[u] # Keep => GetState(r.p, u) \in {NoState, acted[u]}
    <3> HIDE DEF fromState
    <3> QED  BY <1>1, <1>2, <2>1, <2>3, RolledBackIs
  <2>5. ASSUME NEW u \in 1..now
        PROVE  Left(e, u, c, r.p, acted[u])
    <3>1. CASE u <= target
      <4>1. u \in 1..target
        BY <3>1, <2>1
      <4>2. CASE ByState /\ u = target
        BY <4>1, <4>2, <2>4, <1>2 DEF Left
      <4>3. CASE ~ (ByState /\ u = target)
        <5>1. GetState(r.p, u) \in {NoState, GetState(predicted[e], u)}
          BY <4>1, <4>3, <2>4
        <5>2. ByState => u < completed
          BY <3>1, <4>3, <1>2
        <5> QED  BY <5>1, <5>2, <3>1, <1>2 DEF Left
      <4> QED  BY <4>2, <4>3
    <3>2. CASE ~ (u <= target)
      <4>1. u \in (target + 1)..now /\ u > target
        BY <3>2, <2>1, <1>1
      <4> QED  BY <4>1, <2>4, <1>2 DEF Left
    <3> QED  BY <3>1, <3>2
  <2> QED  BY <2>4, <2>5 DEF Runs
<1> QED  BY <1>4, <1>5

\* The inputs of a frame.
FrameInputs(input, changed, advance, next) ==
    /\ input \in {NoneTick} \cup (0..(now - 1)) /\ advance \in {0, 1}
    /\ changed \in [PredEntities -> Acts] /\ next \in [PredEntities -> Acts]

\* A frame keeps what was predicted of a tick, or replays the tick; the next tick
\* has what the simulation writes in it.
LEMMA FrameIs ==
    ASSUME KeepsComponents, NEW n, Served(n), Reconciling(n), NEW visited, NEW input, NEW changed,
           NEW advance, NEW next, FrameInputs(input, changed, advance, next),
           PredFrame(visited, input, changed, advance, next), NEW e \in PredEntities
    PROVE  /\ Simulated(e)'
           /\ \A u \in 1..now :
                  Left(e, u, Visit(visited)[e], predicted'[e], acts'[e][u])
           /\ advance = 1 /\ acts'[e][now'] # Keep =>
                  GetState(predicted'[e], now') \in {NoState, acts'[e][now']}
<1> DEFINE c == Visit(visited)[e]
           acted == Acted(e, Target(input), changed[e])
           r == RolledBack(e, c, Target(input), ByState, acted)
           s == IF advance = 1 THEN SimulateOne(r, next[e], now + 1) ELSE r
<1>1. now' = now + advance /\ advance \in {0, 1} /\ now \in Nat /\ next[e] \in Acts
      /\ Frames(input, e, changed[e])
  BY DEF PredFrame, FrameInputs, Frames, Reconciling, ClientTyped
<1>2. /\ acts'[e] = IF advance = 1 THEN Append(acted, next[e]) ELSE acted
      /\ predicted'[e] = s.p /\ live'[e] = s.v
  <2>1. confirmed' = Visit(visited)
    BY DEF PredFrame
  <2>2. PICK target \in {Target(input)} :
            \E all \in {[x \in PredEntities |-> Acted(x, target, changed[x])]} :
            \E back \in {[x \in PredEntities |->
                    RolledBack(x, confirmed'[x], target, ByState, all[x])]} :
            \E ahead \in {[x \in PredEntities |->
                    IF advance = 1 THEN SimulateOne(back[x], next[x], now') ELSE back[x]]} :
               /\ acts' = [x \in PredEntities |-> IF advance = 1 THEN Append(all[x], next[x]) ELSE all[x]]
               /\ predicted' = [x \in PredEntities |-> ahead[x].p]
               /\ live' = [x \in PredEntities |-> ahead[x].v]
    BY DEF PredFrame
  <2>3. PICK all \in {[x \in PredEntities |-> Acted(x, target, changed[x])]} :
            \E back \in {[x \in PredEntities |->
                    RolledBack(x, confirmed'[x], target, ByState, all[x])]} :
            \E ahead \in {[x \in PredEntities |->
                    IF advance = 1 THEN SimulateOne(back[x], next[x], now') ELSE back[x]]} :
               /\ acts' = [x \in PredEntities |-> IF advance = 1 THEN Append(all[x], next[x]) ELSE all[x]]
               /\ predicted' = [x \in PredEntities |-> ahead[x].p]
               /\ live' = [x \in PredEntities |-> ahead[x].v]
    BY <2>2
  <2>4. PICK back \in {[x \in PredEntities |->
                    RolledBack(x, confirmed'[x], target, ByState, all[x])]} :
            \E ahead \in {[x \in PredEntities |->
                    IF advance = 1 THEN SimulateOne(back[x], next[x], now') ELSE back[x]]} :
               /\ acts' = [x \in PredEntities |-> IF advance = 1 THEN Append(all[x], next[x]) ELSE all[x]]
               /\ predicted' = [x \in PredEntities |-> ahead[x].p]
               /\ live' = [x \in PredEntities |-> ahead[x].v]
    BY <2>3
  <2>5. all[e] = acted /\ back[e] = r
    BY <2>1, <2>2, <2>3, <2>4
  <2> HIDE DEF acted, r, c
  <2>6. advance = 1 => now' = now + 1
    BY <1>1
  <2> QED  BY <2>4, <2>5, <2>6
<1>3. Confirming(c)
  <2>1. visited = {} \/ completed # NoneTick
    BY DEF PredFrame, Checkable
  <2> QED  BY <2>1, VisitIs
<1>4. acted \in [1..now -> Acts]
  BY <1>1, TargetIs
<1>5. /\ Past(r.p, now) /\ r.v \in PredValues
      /\ Reaching(r.p, now) \/ (now = 0 /\ r.p = <<>>)
      /\ \A u \in 1..now : Left(e, u, c, r.p, acted[u])
  BY <1>1, <1>3, RollbackIs
<1> HIDE DEF c, acted, r
<1>6. CASE advance = 0
  <2>1. now' = now /\ acts'[e] = acted /\ predicted'[e] = r.p /\ live'[e] = r.v
    BY <1>1, <1>2, <1>6
  <2>2. Simulated(e)'
    BY <1>4, <1>5, <2>1 DEF Simulated
  <2>3. \A u \in 1..now : Left(e, u, c, predicted'[e], acts'[e][u])
    BY <1>5, <2>1
  <2> QED  BY <1>6, <2>2, <2>3 DEF c
<1>7. CASE advance = 1
  <2>1. now' = now + 1 /\ acts'[e] = Append(acted, next[e]) /\ s = SimulateOne(r, next[e], now + 1)
    BY <1>1, <1>2, <1>7
  <2> DEFINE a == next[e]
             tick == now + 1
  <2>2. /\ a \in Acts /\ tick \in Nat \ {0} /\ tick \in Nat /\ tick - 1 = now /\ tick <= tick
        /\ Past(r.p, tick - 1) /\ r.v \in PredValues
        /\ s = SimulateOne(r, a, tick)
    <3>1. tick \in Nat \ {0} /\ tick \in Nat /\ tick - 1 = now /\ tick <= tick
      BY <1>1
    <3> HIDE DEF s
    <3> QED  BY <3>1, <1>1, <1>5, <2>1
  <2>3. Reaching(r.p, tick) \/ (r.p = <<>> /\ tick = 1)
    <3>1. Reaching(r.p, now) => Reaching(r.p, tick)
      <4>1. SUFFICES ASSUME Reaching(r.p, now) PROVE Reaching(r.p, tick)
        OBVIOUS
      <4>2. 1 \in 1..Len(r.p)
        <5>1. Len(r.p) \in Nat /\ (r.p = <<>> <=> Len(r.p) = 0)
          BY <1>5, PastIs
        <5> QED  BY <5>1, <4>1 DEF Reaching
      <4>3. r.p[1].tick \in Nat
        BY <1>5, <4>2, PastIs
      <4> QED  BY <4>1, <4>3, <1>1, PredictionConstants DEF Reaching
    <3> QED  BY <3>1, <1>5, <1>1
  <2> HIDE DEF a, tick, s
  <2>4. /\ s \in Runs /\ Past(s.p, tick) /\ Reaching(s.p, tick)
        /\ \A u \in Int : u < tick => GetState(s.p, u) \in {NoState, GetState(r.p, u)}
        /\ a # Keep => GetState(s.p, tick) = a
    BY <2>2, <2>3, SimulateOneIs
  <2>5. /\ acts'[e] \in [1..tick -> Acts] /\ acts'[e][tick] = a
        /\ \A u \in 1..now : acts'[e][u] = acted[u]
    <3>1. acted \in Seq(Acts) /\ Len(acted) = now
      BY <1>1, <1>4
    <3>2. Append(acted, a) \in Seq(Acts) /\ Len(Append(acted, a)) = now + 1
          /\ Append(acted, a)[now + 1] = a /\ \A u \in 1..now : Append(acted, a)[u] = acted[u]
      BY <3>1, <2>2
    <3>3. acts'[e] = Append(acted, a)
      BY <2>1 DEF a
    <3>4. acts'[e] \in Seq(Acts) /\ Len(acts'[e]) = tick
      BY <3>2, <3>3 DEF tick
    <3>5. acts'[e] \in [1..tick -> Acts]
      <4> DEFINE q == acts'[e]
      <4> HIDE DEF q
      <4>1. q \in Seq(Acts) /\ Len(q) = tick
        BY <3>4 DEF q
      <4>2. q \in [1..tick -> Acts]
        BY ONLY <4>1
      <4> QED  BY <4>2 DEF q
    <3> QED  BY <3>2, <3>3, <3>5 DEF tick
  <2>6. Simulated(e)'
    <3>1. live'[e] = s.v /\ predicted'[e] = s.p /\ now' = tick /\ s.v \in PredValues
      BY <1>2, <2>1, <2>4 DEF tick, Runs, s
    <3> QED  BY <3>1, <2>4, <2>5 DEF Simulated
  <2>7. \A u \in 1..now : u \in Int /\ u < tick
    BY <1>1 DEF tick
  <2>8. \A u \in 1..now : /\ GetState(predicted'[e], u) \in {NoState, GetState(r.p, u)}
                          /\ acts'[e][u] = acted[u]
    BY <1>2, <2>4, <2>5, <2>7 DEF s
  <2>9. \A u \in 1..now : Left(e, u, c, predicted'[e], acts'[e][u])
    <3>1. SUFFICES ASSUME NEW u \in 1..now PROVE Left(e, u, c, predicted'[e], acts'[e][u])
      OBVIOUS
    <3>2. /\ Left(e, u, c, r.p, acted[u]) /\ acts'[e][u] = acted[u]
          /\ GetState(predicted'[e], u) \in {NoState, GetState(r.p, u)}
      BY <1>5, <2>8
    <3> QED  BY <3>2 DEF Left
  <2>10. now' = tick /\ predicted'[e] = s.p
    BY <1>2, <2>1 DEF tick
  <2> QED  BY <2>4, <2>5, <2>6, <2>9, <2>10 DEF c
<1> QED  BY <1>1, <1>6, <1>7

\* What a frame finds to process.
LEMMA ProcessedIs ==
    ASSUME NEW n, Served(n), Reconciling(n), NEW visited, NEW input, NEW changed, NEW advance, NEW next,
           FrameInputs(input, changed, advance, next), PredFrame(visited, input, changed, advance, next)
    PROVE  /\ now' = now + advance /\ confirmed' = Visit(visited)
           /\ (visited = {} \/ completed # NoneTick)
           /\ UNCHANGED <<server, acked, updates, confirmedAt, completed, untrue>>
           /\ unlooked \subseteq unlooked'
           /\ \/ /\ ~ Checkable /\ ~ ByState
                 /\ UNCHANGED <<processed, pending, deferred, unlooked>>
              \/ /\ Checkable /\ processed' = completed /\ processed < completed /\ completed \in 1..now
                 /\ deferred' = {d \in deferred : d[1] > completed}
                 /\ (ByState => pending' = NoneTick)
                 /\ ~ ByState => \/ pending' = pending
                                 \/ Refusing /\ Forgotten \subseteq unlooked'
                 /\ ~ Refusing /\ ~ ByState => ~ WantsStateRollback(completed)
<1>0. unlooked \subseteq unlooked'
  BY DEF PredFrame
<1>1. CASE ~ Checkable
  BY <1>1 DEF PredFrame, ByState, Refusing
<1>2. CASE Checkable
  <2>1. completed # NoneTick /\ completed > processed /\ completed <= now
    BY <1>2 DEF Checkable
  <2>2. completed \in 1..n /\ n \in Nat /\ now \in Nat /\ processed \in Int
    BY <2>1, CompleteKnown, PredictionConstants DEF Reconciling, ClientTyped, Served, CompletedIs, ServerTyped
  <2>3. completed \in 1..now /\ processed < completed
    BY <2>1, <2>2
  <2>4. PendingMismatch(completed) => WantsStateRollback(completed)
    BY DEF WantsStateRollback
  <2>5. ~ ByState /\ WantsStateRollback(completed) => Refusing
    BY <1>2 DEF ByState, Refusing
  <2>6. ~ ByState => pending' = pending \/ (Refusing /\ Forgotten \subseteq unlooked')
    BY <1>2, <2>4, <2>5 DEF PredFrame
  <2>7. ByState => pending' = NoneTick
    BY <1>2 DEF PredFrame
  <2> QED  BY <1>0, <1>2, <2>1, <2>3, <2>5, <2>6, <2>7 DEF PredFrame
<1> QED  BY <1>1, <1>2

\* A frame keeps what the client knows of its past.
LEMMA FrameReconciling ==
    ASSUME KeepsComponents, NEW n, Served(n), Reconciling(n), NEW visited, NEW input, NEW changed,
           NEW advance, NEW next, FrameInputs(input, changed, advance, next),
           PredFrame(visited, input, changed, advance, next)
    PROVE  Served(n)' /\ Reconciling(n)'
<1>1. /\ now' = now + advance /\ confirmed' = Visit(visited)
      /\ (visited = {} \/ completed # NoneTick)
      /\ UNCHANGED <<server, acked, updates, confirmedAt, completed, untrue>>
      /\ unlooked \subseteq unlooked'
  BY ProcessedIs
<1>2. \/ /\ ~ Checkable /\ ~ ByState
         /\ UNCHANGED <<processed, pending, deferred, unlooked>>
      \/ /\ Checkable /\ processed' = completed /\ processed < completed /\ completed \in 1..now
         /\ deferred' = {d \in deferred : d[1] > completed}
         /\ (ByState => pending' = NoneTick)
         /\ ~ ByState => \/ pending' = pending
                         \/ Refusing /\ Forgotten \subseteq unlooked'
  BY ProcessedIs
<1>3. now \in Nat /\ advance \in {0, 1} /\ processed \in Int /\ processed <= now /\ pending \in Int
  BY DEF FrameInputs, Reconciling, ClientTyped
<1>4. Served(n)'
  BY <1>1 DEF Served, ServerTyped, UpdatesTrue, ReceivedTyped, CompletedIs, AllKnown, Known
<1>5. /\ DOMAIN confirmed' = PredEntities
      /\ \A e \in PredEntities : /\ Confirming(confirmed'[e]) /\ DOMAIN confirmed'[e] \subseteq 0..n
                                 /\ confirmedAt[e] \subseteq DOMAIN confirmed'[e]
      /\ \A e \in PredEntities \ untrue : SaysTheTruth(confirmed'[e], e)
  BY <1>1, VisitIs
<1>6. ConfirmedTyped(n)'
  BY <1>1, <1>5 DEF ConfirmedTyped, Confirming
<1>7. ConfirmedTrue'
  BY <1>1, <1>5 DEF ConfirmedTrue, SaysTheTruth
<1>8. ClientTyped'
  <2>1. now' \in Nat /\ processed' \in Int /\ processed' <= now'
    BY <1>1, <1>2, <1>3
  <2>2. pending' \in Int
    BY <1>3 DEF PredFrame, NoneTick
  <2>3. \A e \in PredEntities : Simulated(e)'
    BY FrameIs
  <2> QED  BY <2>1, <2>2, <2>3 DEF ClientTyped
<1>9. Waiting'
  <2>1. ASSUME NEW e \in PredEntities, NEW t \in confirmedAt[e], t > now'
        PROVE  <<t, e>> \in deferred' \cup unlooked'
    <3>1. t \in Int
      BY DEF Served, ReceivedTyped
    <3>2. t > now
      BY <2>1, <3>1, <1>1, <1>3
    <3>3. <<t, e>> \in deferred \cup unlooked
      BY <3>2 DEF Reconciling, Waiting
    <3>4. completed \in 1..now => t > completed
      BY <3>1, <3>2, <1>3
    <3>5. <<t, e>>[1] = t
      OBVIOUS
    <3> QED  BY <3>3, <3>4, <3>5, <1>1, <1>2
  <2> QED  BY <2>1, <1>1 DEF Waiting
<1>10. Compared'
  <2>1. SUFFICES ASSUME NEW e \in PredEntities \ untrue, NEW t \in confirmedAt[e]
                 PROVE  ComparedAt(e, t)'
    BY <1>1 DEF Compared
  <2>2. SUFFICES ASSUME t > processed', 1 <= t, t <= now', <<t, e>> \notin deferred' \cup unlooked',
                        acts'[e][t] \in {Keep, server[e][t]}
                 PROVE  \/ GetState(predicted'[e], t) \in {NoState, server[e][t]}
                        \/ pending' # NoneTick /\ pending' <= t
    BY <1>1 DEF ComparedAt, Agrees
  <2>3. t \in Int
    BY DEF Served, ReceivedTyped
  <2>4. <<t, e>> \notin deferred \cup unlooked
    <3>1. processed' = completed => t > completed
      BY <2>2
    <3>2. <<t, e>>[1] = t
      OBVIOUS
    <3> QED  BY <3>1, <3>2, <2>2, <1>1, <1>2
  <2>5. t \in 1..now
    <3>1. t <= now
      BY <2>4, <2>3, <1>3 DEF Reconciling, Waiting
    <3> QED  BY <3>1, <2>2, <2>3, <1>3
  <2>6. t > processed /\ (ByState => ~ (t <= completed))
    <3>1. ByState => Checkable
      BY DEF ByState
    <3> QED  BY <3>1, <2>2, <2>3, <1>2, <1>3
  <2>7. StateAt(confirmed'[e], t) = server[e][t]
    BY <1>5, <2>1 DEF SaysTheTruth
  <2>8. server[e][t] # NoState
    <3>1. server[e][t] \in PredValues
      BY DEF Served, ServerTyped, ReceivedTyped
    <3> QED  BY <3>1, PredictionConstants
  <2>9. CASE GetState(predicted'[e], t) \in {NoState, GetState(predicted[e], t)}
             /\ acts'[e][t] = acts[e][t] /\ ~ ByState
    <3>1. ComparedAt(e, t)
      BY <2>1 DEF Reconciling, Compared
    <3>2. Agrees(e, t) \/ (pending # NoneTick /\ pending <= t)
      BY <3>1, <2>2, <2>4, <2>5, <2>6, <2>9 DEF ComparedAt
    <3>3. CASE pending' = pending
      BY <3>2, <3>3, <2>9 DEF Agrees
    <3>4. CASE pending' # pending
      <4>1. /\ Checkable /\ processed' = completed /\ completed \in 1..now
            /\ Forgotten \subseteq unlooked'
        BY <3>4, <2>9, <1>2
      <4>2. t \in (completed + 1)..now
        BY <4>1, <2>2, <2>5
      <4>3. <<t, e>> \notin Forgotten
        BY <4>1, <2>2
      <4>4. ~ Disagree(StateAt(confirmed[e], t), GetPredicted(predicted[e], t))
        <5> DEFINE x == <<t, e>>
        <5>1. x \in ((completed + 1)..now) \X PredEntities /\ x[1] = t /\ x[2] = e
          BY <4>2, <2>1
        <5>2. x \notin Forgotten /\ x \notin deferred
          BY <4>3, <2>4
        <5> HIDE DEF x
        <5> QED  BY <5>1, <5>2, <2>1 DEF Forgotten
      <4>5. StateAt(confirmed[e], t) = server[e][t]
        BY <2>1 DEF Reconciling, ConfirmedTyped, ConfirmedTrue, SaysTheTruth
      <4>6. server[e][t] # Gone
        <5>1. server[e][t] \in PredValues
          BY DEF Served, ServerTyped, ReceivedTyped
        <5> QED  BY <5>1, PredictionConstants
      <4>7. GetState(predicted[e], t) = server[e][t]
        BY <4>4, <4>5, <4>6 DEF Disagree, GetPredicted
      <4> QED  BY <4>7, <2>9
    <3> QED  BY <3>3, <3>4
  <2>10. \/ GetState(predicted'[e], t) \in {NoState, GetState(predicted[e], t)}
            /\ acts'[e][t] = acts[e][t] /\ ~ ByState
         \/ StateAt(confirmed'[e], t) # NoState /\ acts'[e][t] \in {Keep, StateAt(confirmed'[e], t)} =>
                GetState(predicted'[e], t) \in {NoState, StateAt(confirmed'[e], t)}
    <3>1. Left(e, t, Visit(visited)[e], predicted'[e], acts'[e][t])
      BY <2>5, FrameIs
    <3>2. ByState => ~ (t < completed) /\ t # completed
      <4>1. ByState => completed \in 1..now
        BY <1>2 DEF ByState
      <4> QED  BY <4>1, <2>3, <2>6, <1>3
    <3> QED  BY <3>1, <3>2, <1>1 DEF Left
  <2> QED  BY <2>2, <2>7, <2>8, <2>9, <2>10
<1>11. Written'
  <2>1. SUFFICES ASSUME NEW e \in PredEntities, NEW u \in 1..now', u > processed', acts'[e][u] # Keep
                 PROVE  GetState(predicted'[e], u) \in {NoState, acts'[e][u]}
    BY DEF Written
  <2>2. CASE u \in 1..now
    <3>1. Left(e, u, Visit(visited)[e], predicted'[e], acts'[e][u])
      BY <2>2, FrameIs
    <3>2. u > processed
      BY <2>1, <1>2, <1>3
    <3>3. acts[e][u] # Keep => GetState(predicted[e], u) \in {NoState, acts[e][u]}
      BY <2>2, <3>2 DEF Reconciling, Written
    <3>4. ByState => u # completed
      <4>1. ByState => processed' = completed
        BY <1>2
      <4> QED  BY <4>1, <2>1, <1>2, <1>3
    <3> QED  BY <3>1, <3>3, <3>4, <2>1 DEF Left
  <2>3. CASE u \notin 1..now
    <3>1. advance = 1 /\ u = now'
      BY <2>1, <2>3, <1>1, <1>3
    <3> QED  BY <3>1, <2>1, FrameIs
  <2> QED  BY <2>2, <2>3
<1> QED  BY <1>4, <1>6, <1>7, <1>8, <1>9, <1>10, <1>11 DEF Reconciling

\* What a frame that processes a tick leaves of it.
LEMMA FrameReconciles ==
    ASSUME KeepsComponents, NEW n, Served(n), Reconciling(n), NEW visited, NEW input, NEW changed,
           NEW advance, NEW next, FrameInputs(input, changed, advance, next),
           PredFrame(visited, input, changed, advance, next), processed' # processed, ~ Refusing,
           NEW e \in PredEntities, Differs(e, processed')
    PROVE  Excepted(e, processed')
<1>1. SUFFICES ASSUME e \notin untrue, <<completed, e>> \notin unlooked PROVE Excepted(e, completed)
  BY ProcessedIs DEF Excepted
<1>2. /\ Checkable /\ processed < completed /\ completed \in 1..now
      /\ (~ ByState => ~ WantsStateRollback(completed))
      /\ (visited = {} \/ completed # NoneTick)
  BY ProcessedIs
<1>3. completed # NoneTick /\ now \in Nat /\ pending \in Int
  BY <1>2 DEF Checkable, Reconciling, ClientTyped
<1>4. GetState(predicted'[e], completed) \notin {NoState, server[e][completed]}
  BY ProcessedIs DEF Differs
<1>5. server[e][completed] \in PredValues /\ server[e][completed] # NoState
  <2>1. completed \in 0..n
    BY <1>3 DEF Served, CompletedIs, ServerTyped
  <2>2. server[e][completed] \in PredValues
    BY <2>1 DEF Served, ServerTyped
  <2> QED  BY <2>2, PredictionConstants
<1>6. /\ Resolve(Visit(visited)[e], completed) = server[e][completed]
      /\ \A t \in DOMAIN Visit(visited)[e] : StateAt(Visit(visited)[e], t) = server[e][t]
      /\ confirmedAt[e] \subseteq DOMAIN Visit(visited)[e]
      /\ e \in visited => completed \in DOMAIN Visit(visited)[e]
  BY <1>1, <1>2, <1>3, VisitIs DEF SaysTheTruth
<1>7. Resolve(confirmed[e], completed) = server[e][completed]
  <2>1. Resolve(Visit({})[e], completed) = server[e][completed]
    BY <1>1, <1>3, VisitIs
  <2> QED  BY <2>1 DEF Visit
<1>8. Left(e, completed, Visit(visited)[e], predicted'[e], acts'[e][completed])
  BY <1>2, FrameIs
<1>9. /\ ~ ByState /\ ~ WantsStateRollback(completed)
      /\ \/ /\ GetState(predicted'[e], completed) = GetState(predicted[e], completed)
            /\ acts'[e][completed] = acts[e][completed]
         \/ /\ GetState(predicted[e], completed) # NoState
            /\ StateAt(Visit(visited)[e], completed) = server[e][completed] =>
                   acts'[e][completed] \notin {Keep, server[e][completed]}
            /\ acts'[e][completed] # Keep => GetState(predicted'[e], completed) = acts'[e][completed]
  <2>1. ~ (completed < completed) /\ ~ (completed > completed)
    BY <1>2, <1>3
  <2> QED  BY <2>1, <1>2, <1>4, <1>5, <1>6, <1>8 DEF Left
<1>10. CASE e \in Scanned(completed)
  <2>1. GetState(predicted[e], completed) \in {NoState, server[e][completed]}
    <3>1. ~ ScanMismatch(e, completed)
      BY <1>9, <1>10 DEF WantsStateRollback
    <3> QED  BY <3>1, <1>5, <1>7 DEF ScanMismatch, Disagree, StateAtOrBefore
  <2>2. StateAt(Visit(visited)[e], completed) = server[e][completed]
    <3>1. visited = Scanned(completed)
      BY <1>2, <1>9 DEF PredFrame, StateCheck, WantsStateRollback
    <3> QED  BY <3>1, <1>6, <1>10
  <2>3. /\ GetState(predicted[e], completed) = server[e][completed]
        /\ acts'[e][completed] \notin {Keep, server[e][completed]}
    BY <2>1, <2>2, <1>4, <1>9
  <2>4. acts'[e][completed] # acts[e][completed]
    <3>1. acts[e][completed] # Keep => GetState(predicted[e], completed) \in {NoState, acts[e][completed]}
      BY <1>2 DEF Reconciling, Written
    <3> QED  BY <3>1, <2>3, <1>5
  <2> QED  BY <2>3, <2>4 DEF Excepted
<1>11. CASE e \notin Scanned(completed)
  <2>1. completed \in confirmedAt[e] /\ e \notin DeferredThrough(completed)
    BY <1>11 DEF Scanned
  <2>2. SUFFICES acts'[e][completed] \notin {Keep, server[e][completed]}
    BY <2>1 DEF Excepted
  <2>3. StateAt(Visit(visited)[e], completed) = server[e][completed]
    BY <2>1, <1>6
  <2>4. CASE /\ GetState(predicted'[e], completed) = GetState(predicted[e], completed)
             /\ acts'[e][completed] = acts[e][completed]
    <3>1. <<completed, e>> \notin deferred
      <4>1. SUFFICES ASSUME <<completed, e>> \in deferred PROVE e \in DeferredThrough(completed)
        BY <2>1
      <4> DEFINE d == <<completed, e>>
      <4>2. d \in deferred /\ d[1] <= completed /\ d[2] = e
        BY <4>1, <1>2, <1>3
      <4> HIDE DEF d
      <4> QED  BY <4>2 DEF DeferredThrough
    <3>2. ~ PendingMismatch(completed)
      BY <1>9 DEF WantsStateRollback
    <3>3. ComparedAt(e, completed)
      BY <2>1, <1>1 DEF Reconciling, Compared
    <3>4. completed > processed /\ 1 <= completed /\ completed <= now
      BY <1>2, <1>3
    <3>5. ~ Agrees(e, completed)
      BY <2>4, <1>4 DEF Agrees
    <3> QED  BY <3>1, <3>2, <3>3, <3>4, <3>5, <2>4, <1>1 DEF ComparedAt, PendingMismatch
  <2> QED  BY <2>3, <2>4, <1>9
<1> QED  BY <1>10, <1>11

-----------------------------------------------------------------------------
(* The whole. *)

\* In the beginning everything is known, and nothing was predicted.
LEMMA ReconcilingInit == PredInit => Served(0) /\ Reconciling(0)
<1>1. SUFFICES ASSUME PredInit PROVE Served(0) /\ Reconciling(0)
  OBVIOUS
<1>2. Initial \in PredValues /\ Unchanged \notin PredValues
  BY PredictionConstants DEF Initial
<1>3. /\ server = [e \in PredEntities |-> [t \in {0} |-> Initial]]
      /\ confirmed = [e \in PredEntities |-> [t \in {0} |-> Initial]]
      /\ acked = [e \in PredEntities |-> 0] /\ updates = {}
      /\ confirmedAt = [e \in PredEntities |-> {0}] /\ predicted = [e \in PredEntities |-> <<>>]
      /\ live = [e \in PredEntities |-> Initial] /\ acts = [e \in PredEntities |-> <<>>]
      /\ now = 0 /\ completed = NoneTick /\ processed = NoneTick /\ pending = NoneTick
  BY <1>1 DEF PredInit
<1> HIDE DEF Initial
<1>4. 0..0 = {0} /\ \A t \in 1..0 : FALSE
  OBVIOUS
<1>5. Served(0)
  BY <1>2, <1>3, <1>4 DEF Served, ServerTyped, UpdatesTrue, ReceivedTyped, CompletedIs, AllKnown
<1>6. \A e \in PredEntities : Confirming(confirmed[e]) /\ DOMAIN confirmed[e] = {0}
  BY <1>2, <1>3 DEF Confirming
<1>7. ConfirmedTyped(0)
  BY <1>3, <1>4, <1>6 DEF ConfirmedTyped
<1>8. ConfirmedTrue
  <2>1. ASSUME NEW e \in PredEntities PROVE StateAt(confirmed[e], 0) = server[e][0]
    <3>1. SaidAt(confirmed[e], 0, 0)
      BY <1>2, <1>3, <1>6 DEF SaidAt
    <3>2. Resolve(confirmed[e], 0) = confirmed[e][0]
      BY <3>1, <1>6, ResolvedIs
    <3> QED  BY <3>2, <1>3, <1>6 DEF StateAt
  <2> QED  BY <2>1, <1>6 DEF ConfirmedTrue, SaysTheTruth
<1>9. \A e \in PredEntities : Simulated(e)
  <2>1. ASSUME NEW e \in PredEntities PROVE Simulated(e)
    <3>1. predicted[e] = <<>> /\ acts[e] = <<>> /\ live[e] = Initial
      BY <1>3
    <3>2. <<>> \in [1..0 -> Acts] /\ <<>> \in Seq(PastEntry) /\ Len(<<>>) = 0
      OBVIOUS
    <3>3. Past(<<>>, 0)
      BY <3>2 DEF Past
    <3> QED  BY <3>1, <3>2, <3>3, <1>2, <1>3 DEF Simulated
  <2> QED  BY <2>1
<1>10. ClientTyped
  BY <1>3, <1>9 DEF ClientTyped, NoneTick
<1>11. Waiting /\ Compared /\ Written
  BY <1>3 DEF Waiting, Compared, ComparedAt, Written
<1> QED  BY <1>5, <1>7, <1>8, <1>10, <1>11 DEF Reconciling

\* The frames of the specification are such frames.
LEMMA FramesAreFrames ==
    ASSUME NEW n, Served(n), Reconciling(n)
    PROVE  /\ TickFrame => \E visited, changed, next :
                  FrameInputs(NoneTick, changed, 1, next) /\ PredFrame(visited, NoneTick, changed, 1, next)
           /\ CheckFrame \/ InputFrame => \E visited, input, changed, next :
                  FrameInputs(input, changed, 0, next) /\ PredFrame(visited, input, changed, 0, next)
<1>1. [e \in PredEntities |-> Keep] \in [PredEntities -> Acts]
  BY PredictionConstants
<1>2. \A f \in Single(Acts, Keep) : f \in [PredEntities -> Acts]
  BY DEF Single
<1>3. ASSUME TickFrame
      PROVE  \E visited, changed, next :
                 FrameInputs(NoneTick, changed, 1, next) /\ PredFrame(visited, NoneTick, changed, 1, next)
  <2>1. PICK visited \in SUBSET PredEntities, next \in Single(Acts, Keep) :
            PredFrame(visited, NoneTick, [e \in PredEntities |-> Keep], 1, next)
    BY <1>3 DEF TickFrame
  <2>2. FrameInputs(NoneTick, [e \in PredEntities |-> Keep], 1, next)
    BY <1>1, <1>2 DEF FrameInputs
  <2> QED  BY <2>1, <2>2
<1>4. ASSUME CheckFrame
      PROVE  \E visited, input, changed, next :
                 FrameInputs(input, changed, 0, next) /\ PredFrame(visited, input, changed, 0, next)
  <2>1. PICK visited \in SUBSET PredEntities :
            PredFrame(visited, NoneTick, [e \in PredEntities |-> Keep], 0, [e \in PredEntities |-> Keep])
    BY <1>4 DEF CheckFrame
  <2>2. FrameInputs(NoneTick, [e \in PredEntities |-> Keep], 0, [e \in PredEntities |-> Keep])
    BY <1>1 DEF FrameInputs
  <2> QED  BY <2>1, <2>2
<1>5. ASSUME InputFrame
      PROVE  \E visited, input, changed, next :
                 FrameInputs(input, changed, 0, next) /\ PredFrame(visited, input, changed, 0, next)
  <2>1. PICK visited \in SUBSET PredEntities, input \in 0..(now - 1) :
            \E changed \in Single(Acts, Keep) : PredFrame(visited, input, changed, 0, changed)
    BY <1>5 DEF InputFrame
  <2>2. PICK changed \in Single(Acts, Keep) : PredFrame(visited, input, changed, 0, changed)
    BY <2>1
  <2>3. FrameInputs(input, changed, 0, changed)
    BY <1>2 DEF FrameInputs
  <2> QED  BY <2>2, <2>3
<1> QED  BY <1>3, <1>4, <1>5

\* The client's past is that of the server as far as it knows.
Reconcilable == \E n : Served(n) /\ Reconciling(n)

\* Every step keeps it.
LEMMA ReconcilableStep ==
    ASSUME KeepsComponents, Reconcilable, [PredNext]_predVars
    PROVE  Reconcilable'
<1>1. PICK n : Served(n) /\ Reconciling(n)
  BY DEF Reconcilable
<1>2. ASSUME NEW values \in [PredEntities -> PredValues], ServerStep(values) PROVE Reconcilable'
  <2>1. Served(n + 1)' /\ Reconciling(n + 1)'
    BY <1>1, <1>2, ServerStepIs, ServerStepReconciling
  <2> QED  BY <2>1 DEF Reconcilable
<1>3. ASSUME NEW e \in PredEntities, AckArrives(e) PROVE Reconcilable'
  <2>1. Served(n)' /\ Reconciling(n)'
    BY <1>1, <1>3, AckArrivesIs, AckArrivesReconciling
  <2> QED  BY <2>1 DEF Reconcilable
<1>4. ASSUME NEW m \in updates, ReceiveUpdate(m) PROVE Reconcilable'
  <2>1. Served(n)' /\ Reconciling(n)'
    BY <1>1, <1>4, ReceiveUpdateServed, ReceiveUpdateReconciling
  <2> QED  BY <2>1 DEF Reconcilable
<1>5. ASSUME TickFrame \/ CheckFrame \/ InputFrame PROVE Reconcilable'
  <2>1. PICK visited, input, changed, advance, next :
            FrameInputs(input, changed, advance, next) /\ PredFrame(visited, input, changed, advance, next)
    BY <1>1, <1>5, FramesAreFrames
  <2>2. Served(n)' /\ Reconciling(n)'
    BY <1>1, <2>1, FrameReconciling
  <2> QED  BY <2>2 DEF Reconcilable
<1>6. CASE UNCHANGED predVars
  <2>1. Served(n)' /\ Reconciling(n)'
    BY <1>1, <1>6 DEF predVars, Served, ServerTyped, UpdatesTrue, ReceivedTyped, CompletedIs, AllKnown,
        Known, Reconciling, ConfirmedTyped, Confirming, ConfirmedTrue, SaysTheTruth, ClientTyped,
        Simulated, Waiting, Compared, ComparedAt, Agrees, Written
  <2> QED  BY <2>1 DEF Reconcilable
<1> QED  BY <1>2, <1>3, <1>4, <1>5, <1>6 DEF PredNext

(***************************************************************************)
(* Whatever is late, overtaken or lost, and however far the client is      *)
(* ahead: once a tick that the server has confirmed completely was         *)
(* processed (check_rollback), in any frame but one that refuses its       *)
(* rollback as too deep, the client's past agrees with the server at that  *)
(* tick, but for the three exceptions that Reconciled names.               *)
(***************************************************************************)
THEOREM ReconciledAlways == KeepsComponents => (PredSpec => Reconciled)
<1> SUFFICES ASSUME KeepsComponents PROVE PredSpec => Reconciled
  OBVIOUS
<1>1. PredInit => Reconcilable
  BY ReconcilingInit DEF Reconcilable
<1>2. Reconcilable /\ [PredNext]_predVars => Reconcilable'
  BY ReconcilableStep
<1> DEFINE Step == processed' # processed /\ ~ Refusing =>
                \A e \in PredEntities : Differs(e, processed') => Excepted(e, processed')
<1>3. Reconcilable /\ [PredNext]_predVars => [Step]_predVars
  <2>1. SUFFICES ASSUME Reconcilable, PredNext, processed' # processed, ~ Refusing,
                        NEW e \in PredEntities, Differs(e, processed')
                 PROVE  Excepted(e, processed')
    OBVIOUS
  <2>2. PICK n : Served(n) /\ Reconciling(n)
    BY <2>1 DEF Reconcilable
  <2>3. TickFrame \/ CheckFrame \/ InputFrame
    <3>1. ASSUME NEW values, ServerStep(values) PROVE processed' = processed
      BY <3>1 DEF ServerStep
    <3>2. ASSUME NEW x, AckArrives(x) PROVE processed' = processed
      BY <3>2 DEF AckArrives
    <3>3. ASSUME NEW m, ReceiveUpdate(m) PROVE processed' = processed
      BY <3>3 DEF ReceiveUpdate
    <3> QED  BY <2>1, <3>1, <3>2, <3>3 DEF PredNext
  <2>4. PICK visited, input, changed, advance, next :
            FrameInputs(input, changed, advance, next) /\ PredFrame(visited, input, changed, advance, next)
    BY <2>2, <2>3, FramesAreFrames
  <2> QED  BY <2>1, <2>2, <2>4, FrameReconciles
<1> QED  BY <1>1, <1>2, <1>3, PTL DEF PredSpec, Reconciled, Excepted
=============================================================================
