---------------------------- MODULE WorldProofs ----------------------------
(***************************************************************************)
(* What a client makes of the world.  A deterministic session, for any     *)
(* number of peers, window, delay, session length and history of           *)
(* checksums: the prediction window keeps its promise, and peers never     *)
(* report each other falsely.  A component that is interpolated, by value  *)
(* or by diffs: what its history says is true, whatever is lost or late.   *)
(*                                                                         *)
(* The window.  A peer that runs one tick per frame never passes it, and   *)
(* input messages that carry enough ticks leave no gap however many of     *)
(* them are lost.  The argument is a bound per pair of peers.              *)
(* Reference(p, q) is the last tick p received from q, or 1 (the first     *)
(* tick anybody runs) before the first message: p is never more than       *)
(* MaxPredicted past it, and not even that while it does not wait.  Two    *)
(* such bounds, one in each direction, limit how far a message can be past *)
(* what its receiver has.                                                  *)
(*                                                                         *)
(* The checksums.  A checksum is of the truth: what a peer holds of the    *)
(* others it has also simulated with, or will before it next looks,        *)
(* because a message that contradicts a simulated tick makes a mismatch    *)
(* that is never deeper than the window; and up to the confirmed tick it   *)
(* holds everything.  So any two samples of a tick are equal, and a tick   *)
(* that was hashed is final.                                               *)
(*                                                                         *)
(* The interpolation.  Every entry with a value is true, because an entry  *)
(* is only made for a tick all of whose messages were read.  An entry      *)
(* without one stands for the last value, which is that of its tick unless *)
(* diffs up to it are still pending; those were sent before the tick and   *)
(* whatever comes later starts after them (Carried), so that the entry is  *)
(* true again when they are applied.  The cursors a receiver knows are the *)
(* values of its history after the base, and the base is the last of it.   *)
(***************************************************************************)
EXTENDS Checksum, LateJoin, Interpolation, CommonLemmas, FiniteSetTheorems, SequenceTheorems,
        WellFoundedInduction, TLAPS

\* A window of at least one tick, in which a frame runs at most one of them.
SingleTickFrames == MaxPredicted >= 1 /\ TicksPerFrame = 1

\* A message covers what two peers can be apart, and the ticks before the first.
EnoughRedundancy ==
    /\ WindowRedundancy >= 2 * MaxPredicted + 2 * WindowDelay
    /\ WindowRedundancy >= 2 * MaxPredicted + WindowDelay + 1

Reference(p, q) == IF lastRemote[p][q] = NoInputYet THEN 1 ELSE lastRemote[p][q]

PairTyped ==
    /\ simTick \in [WindowPeers -> Nat]
    /\ waiting \in [WindowPeers -> BOOLEAN]
    /\ originTick \in [WindowPeers -> {NoInputYet, 0, 1}]
    /\ lastRemote \in [WindowPeers -> [WindowPeers -> Nat \cup {NoInputYet}]]
    /\ inputsHeld \in [WindowPeers -> [WindowPeers -> SUBSET Int]]
    /\ inputNet \subseteq [from : WindowPeers, to : WindowPeers, end : Nat]

\* The first decision is taken after the first frame, and before it nothing ran.
NotStarted ==
    \A p \in WindowPeers : IF originTick[p] = NoInputYet
                           THEN simTick[p] = 0 /\ ~ waiting[p]
                           ELSE originTick[p] <= simTick[p]

\* What is under way, and what was received, is between the first delayed tick
\* and the delayed tick its sender has reached.
SentSoFar ==
    /\ \A m \in inputNet : m.from # m.to /\ m.end \in WindowDelay + 1 .. simTick[m.from] + WindowDelay
    /\ \A p, q \in WindowPeers : lastRemote[p][q] # NoInputYet =>
          lastRemote[p][q] \in WindowDelay + 1 .. simTick[q] + WindowDelay

\* The bound per pair of peers.
PairBound ==
    \A p \in WindowPeers : \A q \in Remotes(p) :
        /\ simTick[p] <= Reference(p, q) + MaxPredicted
        /\ ~ waiting[p] => simTick[p] <= Reference(p, q) + MaxPredicted - 1

WindowInv == PairTyped /\ NotStarted /\ SentSoFar /\ PairBound

\* A set of natural numbers that is not empty has a minimum, and Min names it.
LEMMA MinOfNaturals ==
    ASSUME NEW S, S \subseteq Nat, S # {}
    PROVE  Min(S) \in S /\ \A y \in S : Min(S) <= y
<1>1. \E x \in S : \A y \in S : ~ (<<y, x>> \in OpToRel(<, Nat))
  BY WFMin, NatLessThanWellFounded
<1>2. ASSUME NEW x \in S, NEW y \in S, y < x PROVE <<y, x>> \in OpToRel(<, Nat)
  BY <1>2 DEF OpToRel
<1>3. \E x \in S : \A y \in S : ~ (y < x)
  BY <1>1, <1>2
<1>4. \E x \in S : \A y \in S : x <= y
  BY <1>3
<1> QED  BY <1>4 DEF Min

\* The confirmed input tick is the earliest of the last remote ticks.
LEMMA ConfirmedIsEarliest ==
    ASSUME PairTyped, NEW p \in WindowPeers
    PROVE  /\ ConfirmedInput(p) \in Nat \cup {NoInputYet}
           /\ ConfirmedInput(p) # NoInputYet =>
                 \A q \in Remotes(p) : /\ lastRemote[p][q] # NoInputYet
                                       /\ ConfirmedInput(p) <= lastRemote[p][q]
<1> DEFINE S == {lastRemote[p][q] : q \in Remotes(p)}
<1>1. CASE \E q \in Remotes(p) : lastRemote[p][q] = NoInputYet
  BY <1>1 DEF ConfirmedInput
<1>2. CASE \A q \in Remotes(p) : lastRemote[p][q] # NoInputYet
  <2>1. S \subseteq Nat /\ S # {}
    BY <1>2, WindowAssumption DEF PairTyped, Remotes
  <2>2. Min(S) \in S /\ \A y \in S : Min(S) <= y
    BY <2>1, MinOfNaturals
  <2>3. ConfirmedInput(p) = Min(S)
    BY <1>2 DEF ConfirmedInput
  <2> QED  BY <1>2, <2>1, <2>2, <2>3
<1> QED  BY <1>1, <1>2

LEMMA WindowInitInv == WindowInit => WindowInv
BY WindowAssumption DEF WindowInit, WindowInv, PairTyped, NotStarted, SentSoFar, PairBound,
   Reference, Remotes

\* A frame that does not make the peer wait leaves it a tick of room.
LEMMA RoomLeft ==
    ASSUME WindowInv, SingleTickFrames, NEW p \in WindowPeers, NEW n \in {0, 1},
           waiting[p] => n = 0,
           NEW origin \in {0, 1}, origin <= simTick[p] + n,
           NEW q \in Remotes(p)
    PROVE  /\ simTick[p] + n <= Reference(p, q) + MaxPredicted
           /\ ~ MustWait(p, simTick[p] + n, ConfirmedInput(p), origin)
                 => simTick[p] + n <= Reference(p, q) + MaxPredicted - 1
<1> DEFINE c == ConfirmedInput(p)
           t == simTick[p] + n
<1> USE WindowAssumption
<1>1. /\ t \in Nat /\ Reference(p, q) \in Nat /\ Reference(p, q) >= 1 /\ MaxPredicted \in Nat
      /\ MaxPredicted >= 1 /\ ResumeAt \in Nat /\ ResumeAt <= MaxPredicted - 1
      /\ waiting[p] \in BOOLEAN
  BY DEF WindowInv, PairTyped, SentSoFar, Reference, Remotes, SingleTickFrames, ResumeAt, HysteresisTicks
<1>2. t <= Reference(p, q) + MaxPredicted
  BY <1>1 DEF WindowInv, PairBound, PairTyped
<1>3. ASSUME ~ MustWait(p, t, c, origin) PROVE t <= Reference(p, q) + MaxPredicted - 1
  <2>1. CASE c = NoInputYet
    BY <1>1, <1>3, <2>1 DEF MustWait
  <2>2. CASE c # NoInputYet
    <3>1. c \in Nat /\ c <= Reference(p, q)
      BY <2>2, ConfirmedIsEarliest DEF WindowInv, Reference
    <3> QED  BY <1>1, <1>3, <2>2, <3>1 DEF MustWait
  <2> QED  BY <2>1, <2>2
<1> QED  BY <1>2, <1>3

\* A frame keeps the invariant.
LEMMA FrameKeeps ==
    ASSUME WindowInv, SingleTickFrames, NEW p \in WindowPeers, NEW n \in 0 .. TicksPerFrame,
           Frame(p, n)
    PROVE  WindowInv'
<1> USE WindowAssumption
<1> DEFINE t == simTick[p] + n
           origin == IF originTick[p] = NoInputYet THEN t ELSE originTick[p]
<1>1. /\ n \in {0, 1} /\ (waiting[p] => n = 0) /\ t \in Nat
      /\ simTick[p] \in Nat /\ simTick[p] <= t
      /\ simTick' = [simTick EXCEPT ![p] = t]
      /\ originTick' = [originTick EXCEPT ![p] = origin]
      /\ waiting' = [waiting EXCEPT ![p] = MustWait(p, t, ConfirmedInput(p), origin)]
      /\ inputNet' = inputNet \cup MessagesAt(p, t)
      /\ lastRemote' = lastRemote /\ inputsHeld' = inputsHeld
  <2>1. /\ n \in {0, 1} /\ simTick[p] \in Nat /\ t \in Nat /\ simTick[p] <= t
    BY DEF SingleTickFrames, WindowInv, PairTyped
  <2>2. /\ waiting[p] => n = 0
        /\ simTick' = [simTick EXCEPT ![p] = t]
        /\ originTick' = [originTick EXCEPT ![p] = origin]
        /\ waiting' = [waiting EXCEPT ![p] = MustWait(p, t, ConfirmedInput(p), origin)]
        /\ inputNet' = inputNet \cup MessagesAt(p, t)
        /\ lastRemote' = lastRemote /\ inputsHeld' = inputsHeld
    BY Zenon DEF Frame
  <2> QED  BY <2>1, <2>2
<1>2. origin \in {0, 1}
  BY <1>1 DEF WindowInv, PairTyped, NotStarted
<1>3. \A m \in MessagesAt(p, t) :
         /\ m \in [from : WindowPeers, to : WindowPeers, end : Nat]
         /\ m.from = p /\ m.to # p /\ m.end = t + WindowDelay /\ t >= 1
  BY <1>1 DEF MessagesAt, InputMessage, Remotes
<1>4. PairTyped'
  <2>1. MustWait(p, t, ConfirmedInput(p), origin) \in BOOLEAN
    BY DEF MustWait
  <2> QED  BY <1>1, <1>2, <1>3, <2>1 DEF WindowInv, PairTyped
<1>5. NotStarted'
  BY <1>1, <1>2 DEF WindowInv, PairTyped, NotStarted
<1>6. SentSoFar'
  <2>1. \A q \in WindowPeers : simTick'[q] \in Nat /\ simTick[q] \in Nat /\ simTick'[q] >= simTick[q]
    BY <1>1 DEF WindowInv, PairTyped
  <2>2. simTick'[p] = t
    BY <1>1 DEF WindowInv, PairTyped
  <2>3. ASSUME NEW m \in inputNet'
        PROVE  m.from # m.to /\ m.end \in WindowDelay + 1 .. simTick'[m.from] + WindowDelay
    <3>1. CASE m \in inputNet
      BY <2>1, <3>1 DEF WindowInv, PairTyped, SentSoFar
    <3>2. CASE m \in MessagesAt(p, t)
      BY <1>1, <1>3, <2>2, <3>2
    <3> QED  BY <1>1, <3>1, <3>2
  <2>4. ASSUME NEW a \in WindowPeers, NEW b \in WindowPeers, lastRemote'[a][b] # NoInputYet
        PROVE  lastRemote'[a][b] \in WindowDelay + 1 .. simTick'[b] + WindowDelay
    BY <1>1, <2>1, <2>4 DEF WindowInv, PairTyped, SentSoFar
  <2> QED  BY <2>3, <2>4 DEF SentSoFar
<1>7. PairBound'
  <2>1. \A a, b \in WindowPeers : Reference(a, b)' = Reference(a, b)
    BY <1>1 DEF Reference
  <2>2. ASSUME NEW a \in WindowPeers, NEW b \in Remotes(a)
        PROVE  /\ simTick'[a] <= Reference(a, b) + MaxPredicted
               /\ ~ waiting'[a] => simTick'[a] <= Reference(a, b) + MaxPredicted - 1
    <3>1. CASE a = p
      <4>1. origin <= simTick[p] + n
        BY <1>1, <1>2 DEF WindowInv, PairTyped, NotStarted
      <4>2. /\ t <= Reference(p, b) + MaxPredicted
            /\ ~ MustWait(p, t, ConfirmedInput(p), origin) => t <= Reference(p, b) + MaxPredicted - 1
        BY <1>1, <1>2, <2>2, <3>1, <4>1, RoomLeft
      <4> QED  BY <1>1, <3>1, <4>2 DEF WindowInv, PairTyped
    <3>2. CASE a # p
      BY <1>1, <2>2, <3>2 DEF WindowInv, PairTyped, PairBound
    <3> QED  BY <3>1, <3>2
  <2> QED  BY <2>1, <2>2 DEF PairBound, Remotes
<1> QED  BY <1>4, <1>5, <1>6, <1>7 DEF WindowInv

\* A message that arrives keeps the invariant: the reference of its receiver
\* only moves forward.
LEMMA ReceiveKeeps ==
    ASSUME WindowInv, NEW m \in inputNet, ReceiveInput(m)
    PROVE  WindowInv'
<1> USE WindowAssumption
<1>1. /\ m.to \in WindowPeers /\ m.from \in WindowPeers /\ m.end \in Nat /\ m.from # m.to
      /\ m.end \in WindowDelay + 1 .. simTick[m.from] + WindowDelay
  BY DEF WindowInv, PairTyped, SentSoFar
<1>2. /\ simTick' = simTick /\ waiting' = waiting /\ originTick' = originTick
      /\ inputNet' = inputNet \ {m}
  BY Zenon DEF ReceiveInput
<1>3. CASE ~ IsNewer(m)
  <2>1. lastRemote' = lastRemote /\ inputsHeld' = inputsHeld
    BY <1>3, Zenon DEF ReceiveInput
  <2> QED  BY <1>2, <2>1 DEF WindowInv, PairTyped, NotStarted, SentSoFar, PairBound, Reference
<1>4. CASE IsNewer(m)
  <2>1. /\ lastRemote' = [lastRemote EXCEPT ![m.to][m.from] = m.end]
        /\ inputsHeld' = [inputsHeld EXCEPT ![m.to][m.from] = @ \cup InputsOf(m)]
    BY <1>4, Zenon DEF ReceiveInput
  <2>2. InputsOf(m) \subseteq Int
    BY <1>1 DEF InputsOf
  <2>3. PairTyped'
    BY <1>1, <1>2, <2>1, <2>2 DEF WindowInv, PairTyped
  <2>4. NotStarted'
    BY <1>2 DEF WindowInv, NotStarted
  <2>5. SentSoFar'
    BY <1>1, <1>2, <2>1 DEF WindowInv, PairTyped, SentSoFar
  <2>6. \A a, b \in WindowPeers : Reference(a, b)' >= Reference(a, b)
    BY <1>1, <1>4, <2>1 DEF WindowInv, PairTyped, Reference, IsNewer
  <2>7. \A a, b \in WindowPeers : Reference(a, b)' \in Nat /\ Reference(a, b) \in Nat
    BY <2>3 DEF WindowInv, PairTyped, Reference
  <2>8. PairBound'
    BY <1>2, <2>6, <2>7 DEF WindowInv, PairTyped, PairBound, Remotes
  <2> QED  BY <2>3, <2>4, <2>5, <2>8 DEF WindowInv
<1> QED  BY <1>3, <1>4

\* A step keeps the invariant.
LEMMA WindowStepInv ==
    ASSUME SingleTickFrames, WindowInv, [WindowNext]_windowVars
    PROVE  WindowInv'
<1>1. ASSUME NEW p \in WindowPeers, NEW n \in 0 .. TicksPerFrame, Frame(p, n) PROVE WindowInv'
  BY <1>1, FrameKeeps
<1>2. ASSUME NEW m \in inputNet, ReceiveInput(m) PROVE WindowInv'
  BY <1>2, ReceiveKeeps
<1>3. ASSUME NEW m \in inputNet, LoseInputMessage(m) PROVE WindowInv'
  BY <1>3 DEF LoseInputMessage, WindowInv, PairTyped, NotStarted, SentSoFar, PairBound, Reference
<1>4. CASE UNCHANGED windowVars
  BY <1>4 DEF windowVars, WindowInv, PairTyped, NotStarted, SentSoFar, PairBound, Reference
<1> QED  BY <1>1, <1>2, <1>3, <1>4 DEF WindowNext

\* For every number of peers, window and delay: a peer whose frames run at most
\* one tick never simulates past the window that its rollback can repair.
THEOREM WindowHolds ==
    ASSUME SingleTickFrames
    PROVE  WindowSpec => []WindowRespected
<1>1. WindowInv => WindowRespected
  <2> SUFFICES ASSUME WindowInv, NEW p \in WindowPeers, ConfirmedInput(p) # NoInputYet
               PROVE  Depth(p) <= MaxPredicted
    BY DEF WindowRespected
  <2> DEFINE S == {lastRemote[p][q] : q \in Remotes(p)}
  <2>1. \A q \in Remotes(p) : lastRemote[p][q] # NoInputYet
    BY ConfirmedIsEarliest DEF WindowInv
  <2>2. S \subseteq Nat /\ S # {}
    BY <2>1, WindowAssumption DEF WindowInv, PairTyped, Remotes
  <2>3. Min(S) \in S
    BY <2>2, MinOfNaturals
  <2>4. ConfirmedInput(p) = Min(S)
    BY <2>1 DEF ConfirmedInput
  <2>5. PICK q \in Remotes(p) : ConfirmedInput(p) = lastRemote[p][q]
    BY <2>3, <2>4
  <2> QED  BY <2>1, <2>5, WindowAssumption DEF WindowInv, PairTyped, PairBound, Reference, Depth, Remotes
<1>2. WindowInv /\ [WindowNext]_windowVars => WindowInv'
  BY WindowStepInv
<1> QED  BY <1>1, <1>2, WindowInitInv, PTL DEF WindowSpec

\* A message that arrives starts no later than right after what its receiver
\* has: each of the two peers is within the window of the other.
LEMMA NoGapStep ==
    ASSUME SingleTickFrames, EnoughRedundancy, WindowInv, NoInputGap, [WindowNext]_windowVars
    PROVE  NoInputGap'
<1> USE WindowAssumption
<1>1. ASSUME NEW m \in inputNet, ReceiveInput(m), IsNewer(m) PROVE NoInputGap'
  <2>1. /\ m.to \in WindowPeers /\ m.from \in WindowPeers /\ m.end \in Nat /\ m.from # m.to
        /\ m.end \in WindowDelay + 1 .. simTick[m.from] + WindowDelay
    BY DEF WindowInv, PairTyped, SentSoFar
  <2>2. /\ lastRemote' = [lastRemote EXCEPT ![m.to][m.from] = m.end]
        /\ inputsHeld' = [inputsHeld EXCEPT ![m.to][m.from] = @ \cup InputsOf(m)]
    BY <1>1, Zenon DEF ReceiveInput
  <2> DEFINE p == m.to
             q == m.from
             L == lastRemote[p][q]
  <2>3. /\ simTick[p] \in Nat /\ simTick[q] \in Nat /\ L \in Nat \cup {NoInputYet}
        /\ lastRemote[q][p] \in Nat \cup {NoInputYet}
    BY <2>1 DEF WindowInv, PairTyped
  <2>4. /\ simTick[p] <= Reference(p, q) + MaxPredicted
        /\ simTick[q] <= Reference(q, p) + MaxPredicted
    BY <2>1 DEF WindowInv, PairBound, Remotes
  <2>5. Reference(q, p) <= simTick[p] + WindowDelay \/ Reference(q, p) = 1
    BY <2>1, <2>3 DEF WindowInv, SentSoFar, Reference
  <2>6. m.end - WindowRedundancy <= (IF L = NoInputYet THEN WindowDelay ELSE L)
    BY <2>1, <2>3, <2>4, <2>5 DEF EnoughRedundancy, Reference, SingleTickFrames, WindowInv, SentSoFar
  <2>7. WindowDelay + 1 .. m.end \subseteq inputsHeld[p][q] \cup InputsOf(m)
    <3>1. CASE L = NoInputYet
      BY <2>1, <2>6, <3>1 DEF InputsOf
    <3>2. CASE L # NoInputYet
      <4>1. WindowDelay + 1 .. L \subseteq inputsHeld[p][q]
        BY <2>1, <3>2 DEF NoInputGap, Remotes
      <4> QED  BY <2>1, <2>3, <2>6, <3>2, <4>1 DEF InputsOf
    <3> QED  BY <3>1, <3>2
  <2> QED  BY <2>1, <2>2, <2>7 DEF NoInputGap, Remotes, WindowInv, PairTyped
<1>2. CASE lastRemote' = lastRemote /\ inputsHeld' = inputsHeld
  BY <1>2 DEF NoInputGap
<1>3. ASSUME NEW m \in inputNet, ReceiveInput(m), ~ IsNewer(m)
      PROVE  lastRemote' = lastRemote /\ inputsHeld' = inputsHeld
  BY <1>3, Zenon DEF ReceiveInput
<1> QED  BY <1>1, <1>2, <1>3 DEF WindowNext, Frame, LoseInputMessage, windowVars

\* With messages that cover twice the window and the delay, a confirmed tick is
\* one whose inputs are all there, whatever the network loses or reorders.
THEOREM ConfirmedInputsAreHeld ==
    ASSUME SingleTickFrames, EnoughRedundancy
    PROVE  WindowSpec => []NoInputGap
<1>1. WindowInit => NoInputGap
  BY DEF WindowInit, NoInputGap, Remotes
<1>2. WindowInv /\ [WindowNext]_windowVars => WindowInv'
  BY WindowStepInv
<1>3. WindowInv /\ NoInputGap /\ [WindowNext]_windowVars => NoInputGap'
  BY NoGapStep
<1> QED  BY <1>1, <1>2, <1>3, WindowInitInv, PTL DEF WindowSpec

\* What the frontier needs of the types, whatever a frame runs.
FrontierTyped ==
    /\ simTick \in [WindowPeers -> Nat]
    /\ lastRemote \in [WindowPeers -> [WindowPeers -> Nat \cup {NoInputYet}]]
    /\ inputNet \subseteq [from : WindowPeers, to : WindowPeers, end : Nat]

LEMMA FrontierTypedStep ==
    ASSUME FrontierTyped, [WindowNext]_windowVars
    PROVE  FrontierTyped'
<1> USE WindowAssumption DEF FrontierTyped
<1>1. ASSUME NEW p \in WindowPeers, NEW n \in 0 .. TicksPerFrame, Frame(p, n) PROVE FrontierTyped'
  <2>1. /\ simTick' = [simTick EXCEPT ![p] = simTick[p] + n]
        /\ inputNet' = inputNet \cup MessagesAt(p, simTick[p] + n)
        /\ lastRemote' = lastRemote
    BY <1>1, Zenon DEF Frame
  <2>2. simTick[p] + n \in Nat
    OBVIOUS
  <2> QED  BY <2>1, <2>2 DEF MessagesAt, InputMessage, Remotes
<1>2. ASSUME NEW m \in inputNet, ReceiveInput(m) PROVE FrontierTyped'
  <2>1. simTick' = simTick /\ inputNet' = inputNet \ {m}
        /\ (lastRemote' = lastRemote \/ lastRemote' = [lastRemote EXCEPT ![m.to][m.from] = m.end])
    BY <1>2, Zenon DEF ReceiveInput
  <2> QED  BY <2>1
<1>3. ASSUME NEW m \in inputNet, LoseInputMessage(m) PROVE FrontierTyped'
  BY <1>3 DEF LoseInputMessage
<1>4. CASE UNCHANGED windowVars
  BY <1>4 DEF windowVars
<1> QED  BY <1>1, <1>2, <1>3, <1>4 DEF WindowNext

\* What a peer has of another never becomes less.
LEMMA RemoteGrows ==
    ASSUME FrontierTyped, [WindowNext]_windowVars, NEW p \in WindowPeers, NEW q \in WindowPeers,
           lastRemote[p][q] # NoInputYet
    PROVE  lastRemote'[p][q] # NoInputYet /\ lastRemote'[p][q] >= lastRemote[p][q]
<1> USE WindowAssumption DEF FrontierTyped
<1>1. ASSUME NEW m \in inputNet, ReceiveInput(m), IsNewer(m)
      PROVE  lastRemote'[p][q] # NoInputYet /\ lastRemote'[p][q] >= lastRemote[p][q]
  <2>1. lastRemote' = [lastRemote EXCEPT ![m.to][m.from] = m.end]
    BY <1>1, Zenon DEF ReceiveInput
  <2> QED  BY <1>1, <2>1 DEF IsNewer
<1>2. ASSUME NEW m \in inputNet, ReceiveInput(m), ~ IsNewer(m) PROVE lastRemote' = lastRemote
  BY <1>2, Zenon DEF ReceiveInput
<1>3. CASE lastRemote' = lastRemote
  BY <1>3
<1> QED  BY <1>1, <1>2, <1>3 DEF WindowNext, Frame, LoseInputMessage, windowVars

\* The earliest of values that only grow only grows.
LEMMA FrontierStep ==
    ASSUME FrontierTyped, [WindowNext]_windowVars, NEW p \in WindowPeers,
           ConfirmedInput(p) # NoInputYet
    PROVE  ConfirmedInput(p)' # NoInputYet /\ ConfirmedInput(p)' >= ConfirmedInput(p)
<1> DEFINE S == {lastRemote[p][q] : q \in Remotes(p)}
           T == {lastRemote'[p][q] : q \in Remotes(p)}
<1>1. \A q \in Remotes(p) : lastRemote[p][q] # NoInputYet
  BY DEF ConfirmedInput
<1>2. \A q \in Remotes(p) : lastRemote'[p][q] # NoInputYet /\ lastRemote'[p][q] >= lastRemote[p][q]
  BY <1>1, RemoteGrows DEF Remotes
<1>3. FrontierTyped'
  BY FrontierTypedStep
<1>4. S \subseteq Nat /\ S # {} /\ T \subseteq Nat /\ T # {}
  BY <1>1, <1>2, <1>3, WindowAssumption DEF FrontierTyped, Remotes
<1>5. Min(S) \in S /\ \A y \in S : Min(S) <= y
  BY <1>4, MinOfNaturals
<1>6. Min(T) \in T
  BY <1>4, MinOfNaturals
<1>7. ConfirmedInput(p) = Min(S) /\ ConfirmedInput(p)' = Min(T)
  BY <1>1, <1>2 DEF ConfirmedInput, Remotes
<1>8. PICK q \in Remotes(p) : Min(T) = lastRemote'[p][q]
  BY <1>6
<1>9. lastRemote[p][q] \in S /\ lastRemote[p][q] \in Nat /\ Min(S) \in Nat /\ Min(T) \in Nat
  BY <1>4, <1>5, <1>6
<1>10. Min(S) <= lastRemote[p][q] /\ lastRemote[p][q] <= Min(T)
  BY <1>2, <1>5, <1>8, <1>9
<1> HIDE DEF S, T
<1>11. Min(T) # NoInputYet /\ Min(T) >= Min(S)
  BY <1>9, <1>10, WindowAssumption
<1> QED  BY <1>7, <1>11, Zenon

\* The confirmed frontier of a peer only moves forward, for every window, delay,
\* redundancy and number of ticks a frame runs: a late message never reopens a tick
\* (receive_remote_player_input_messages, update_last_confirmed_input).
THEOREM FrontierAdvancesAlways == WindowSpec => FrontierAdvances
<1>1. WindowInit => FrontierTyped
  BY WindowAssumption DEF WindowInit, FrontierTyped
<1>2. FrontierTyped /\ [WindowNext]_windowVars => FrontierTyped'
  BY FrontierTypedStep
<1>3. FrontierTyped /\ [WindowNext]_windowVars =>
        [\A p \in WindowPeers : ConfirmedInput(p) # NoInputYet =>
            /\ ConfirmedInput(p)' # NoInputYet
            /\ ConfirmedInput(p)' >= ConfirmedInput(p)]_windowVars
  BY FrontierStep
<1> QED  BY <1>1, <1>2, <1>3, PTL DEF WindowSpec, FrontierAdvances

-----------------------------------------------------------------------------
(* The checksums. *)

\* The window of WindowHolds, and inputs that are delayed: without a delay the
\* first tick of a session is one deeper than a rollback may go.
DelayedWindow == SingleTickFrames /\ EnoughRedundancy /\ WindowDelay >= 1

Act == {NoAction} \cup UNION {PeerActions[p] : p \in WindowPeers}

\* A player has given the inputs of the ticks that were run and of the delay.
PlayedSoFar ==
    /\ DOMAIN played = WindowPeers
    /\ \A q \in WindowPeers :
          /\ played[q] \in Seq(Act) /\ Len(played[q]) = simTick[q] + WindowDelay
          /\ \A i \in 1 .. WindowDelay : played[q][i] = NoAction

\* What is held of a peer was given by its player.
HeldSoFar ==
    \A p \in WindowPeers : \A q \in Remotes(p) :
        inputsHeld[p][q] \subseteq WindowDelay + 1 .. simTick[q] + WindowDelay

\* Peer p knows what q did in tick i.
Knows(p, q, i) == q = p \/ i <= WindowDelay \/ i \in inputsHeld[p][q]

\* What is known of a tick it was simulated with, unless it is about to be replayed.
SimulatedAsKnown ==
    /\ DOMAIN simulated = WindowPeers
    /\ \A p \in WindowPeers :
          /\ DOMAIN simulated[p] = 1 .. simTick[p]
          /\ \A i \in 1 .. simTick[p] :
                /\ simulated[p][i] = [q \in WindowPeers |-> simulated[p][i][q]]
                /\ (contested[p] = NoInputYet \/ i < contested[p]) =>
                      \A q \in WindowPeers : Knows(p, q, i) => simulated[p][i][q] = played[q][i]

\* A replay that is due is within the window, and begins after the confirmed tick.
ReplayIsAllowed ==
    /\ DOMAIN contested = WindowPeers
    /\ \A p \in WindowPeers : contested[p] # NoInputYet =>
          /\ contested[p] \in WindowDelay + 1 .. simTick[p]
          /\ simTick[p] - (contested[p] - 1) <= MaxPredicted

\* The state after tick t of the simulation that everybody would agree on.
TrueSum(t) == [i \in 1 .. t |-> [q \in WindowPeers |-> played[q][i]]]

\* A tick of which all inputs were given.
Given(t) == t \in Nat \ {0} /\ \A q \in WindowPeers : t <= Len(played[q])

\* Every checksum is of the true state.
SumsAreTrue ==
    /\ \A m \in sumNet : /\ m.from \in WindowPeers /\ m.to \in WindowPeers
                         /\ Given(m.tick) /\ m.sum = TrueSum(m.tick)
    /\ DOMAIN pending = WindowPeers
    /\ \A p \in WindowPeers : \A t \in DOMAIN pending[p] :
          /\ Given(t)
          /\ pending[p][t] = [local |-> pending[p][t].local, remote |-> pending[p][t].remote]
          /\ pending[p][t].local \in {NoSum, TrueSum(t)}
          /\ \A q \in DOMAIN pending[p][t].remote : pending[p][t].remote[q] = TrueSum(t)

\* A hashed tick is confirmed, and before every replay that is due.
HashedIsConfirmed ==
    \A p \in WindowPeers : \A t \in DOMAIN pending[p] : pending[p][t].local # NoSum =>
        /\ ConfirmedInput(p) # NoInputYet /\ t <= ConfirmedInput(p)
        /\ contested[p] # NoInputYet => t < contested[p]

\* A comparison is remembered by its entry, until the peer has hashed a later tick.
ComparisonKnown(v) ==
    LET e == Entry(pending[v.at], v.tick)
    IN  \/ e.local # NoSum /\ v.of \in DOMAIN e.remote
        \/ e.local = NoSum /\ ConfirmedInput(v.at) # NoInputYet /\ v.tick < ConfirmedInput(v.at)

VerdictsKnown == \A v \in verdicts : v.at \in WindowPeers /\ v.tick \in Nat /\ ComparisonKnown(v)

SumInv ==
    /\ WindowInv /\ NoInputGap
    /\ PlayedSoFar /\ HeldSoFar /\ SimulatedAsKnown /\ ReplayIsAllowed
    /\ SumsAreTrue /\ HashedIsConfirmed
    /\ VerdictsKnown /\ NoFalseAlarm /\ MeetingIsCompared /\ twice = FALSE

-----------------------------------------------------------------------------
(* A step, with its parts named. *)

\* Every step is one of the prediction window, or none.
LEMMA WindowOfSum ==
    ASSUME [SumNext]_<<sumVars, windowVars>>
    PROVE  [WindowNext]_windowVars
BY DEF SumNext, SumFrame, SumReceiveInput, SumLoseInput, ReceiveChecksum, LoseChecksum,
   WindowNext, windowVars

LEMMA WindowKept ==
    ASSUME DelayedWindow, SumInv, [SumNext]_<<sumVars, windowVars>>
    PROVE  /\ WindowInv' /\ NoInputGap'
           /\ \A p \in WindowPeers : ConfirmedInput(p) # NoInputYet =>
                 ConfirmedInput(p)' # NoInputYet /\ ConfirmedInput(p)' >= ConfirmedInput(p)
<1>1. [WindowNext]_windowVars
  BY WindowOfSum
<1>2. FrontierTyped
  BY DEF SumInv, WindowInv, PairTyped, FrontierTyped
<1> QED  BY <1>1, <1>2, WindowStepInv, NoGapStep, FrontierStep DEF SumInv, DelayedWindow

\* The checksum that a frame ending at tick t takes of what it ran.
SumOf(p, t, ran) == IF SumTick(p, t) = NoInputYet THEN NoSum ELSE SubSeq(ran, 1, SumTick(p, t))

LEMMA SumFrameUnfolds ==
    ASSUME NEW p, NEW n, NEW acts, SumFrame(p, n, acts)
    PROVE  LET t == simTick[p] + n
               ran == SimulatedTo(p, t, played')
           IN  /\ Frame(p, n)
               /\ played' = [played EXCEPT ![p] = @ \o acts]
               /\ simulated' = [simulated EXCEPT ![p] = ran]
               /\ SendChecksum(p, SumTick(p, t), SumOf(p, t, ran))
               /\ contested' = [contested EXCEPT ![p] = NoInputYet]
<1> DEFINE t == simTick[p] + n
           ran == SimulatedTo(p, t, played')
           Body(u, r) == /\ simulated' = [simulated EXCEPT ![p] = r]
                         /\ SendChecksum(p, SumTick(p, u), SumOf(p, u, r))
<1>1. \E u \in {t} : \E r \in {SimulatedTo(p, u, played')} : Body(u, r)
  BY DEF SumFrame, SumOf
<1> HIDE DEF Body, t
<1>2. Body(t, ran)
  BY <1>1
<1>3. /\ simulated' = [simulated EXCEPT ![p] = ran]
      /\ SendChecksum(p, SumTick(p, t), SumOf(p, t, ran))
  BY <1>2 DEF Body
<1> QED  BY <1>3 DEF SumFrame, t

\* What a frame does to the window.
LEMMA FrameUnfolds ==
    ASSUME NEW p \in WindowPeers, NEW n \in 0 .. TicksPerFrame, Frame(p, n), SumInv, DelayedWindow
    PROVE  /\ n \in {0, 1} /\ simTick[p] + n \in Nat
           /\ \A q \in WindowPeers : simTick'[q] = IF q = p THEN simTick[p] + n ELSE simTick[q]
           /\ lastRemote' = lastRemote /\ inputsHeld' = inputsHeld
<1>1. simTick' = [simTick EXCEPT ![p] = simTick[p] + n] /\ lastRemote' = lastRemote /\ inputsHeld' = inputsHeld
  BY Zenon DEF Frame
<1>2. n \in {0, 1} /\ simTick[p] + n \in Nat
  BY DEF DelayedWindow, SingleTickFrames, SumInv, WindowInv, PairTyped
<1> QED  BY <1>1, <1>2 DEF SumInv, WindowInv, PairTyped
-----------------------------------------------------------------------------
(* Simulating. *)

\* Nothing that was played is taken back.
PlayedGrows ==
    \A q \in WindowPeers : /\ Len(played[q]) <= Len(played'[q])
                           /\ \A i \in 1 .. Len(played[q]) : played'[q][i] = played[q][i]

\* The true state after a tick that was given does not change.
LEMMA TrueSumStays ==
    ASSUME PlayedSoFar, PlayedSoFar', PlayedGrows, NEW t, Given(t)
    PROVE  Given(t)' /\ TrueSum(t)' = TrueSum(t)
<1>1. t \in Nat \ {0} /\ \A q \in WindowPeers : t <= Len(played[q]) /\ Len(played[q]) \in Nat
                                                /\ Len(played'[q]) \in Nat
  BY DEF Given, PlayedSoFar
<1>2. \A i \in 1 .. t, q \in WindowPeers : played'[q][i] = played[q][i]
  BY <1>1 DEF PlayedGrows
<1>3. Given(t)'
  BY <1>1 DEF Given, PlayedGrows
<1> QED  BY <1>2, <1>3 DEF TrueSum

LEMMA TrueSumIsASum ==
    ASSUME NEW t, Given(t) PROVE TrueSum(t) # NoSum
<1>1. DOMAIN TrueSum(t) = 1 .. t /\ t \in Nat \ {0}
  BY DEF TrueSum, Given
<1>2. DOMAIN NoSum = {} /\ 1 \in 1 .. t
  BY <1>1 DEF NoSum
<1> QED  BY <1>1, <1>2

\* A frame adds the inputs of its player.
LEMMA FramePlays ==
    ASSUME DelayedWindow, SumInv, NEW p \in WindowPeers, NEW n \in 0 .. TicksPerFrame,
           NEW acts \in [1 .. n -> PeerActions[p]], SumFrame(p, n, acts)
    PROVE  PlayedSoFar' /\ PlayedGrows
<1>0. WindowDelay \in Nat
  BY WindowAssumption
<1>1. /\ n \in {0, 1} /\ simTick[p] + n \in Nat
      /\ \A q \in WindowPeers : simTick'[q] = IF q = p THEN simTick[p] + n ELSE simTick[q]
  BY SumFrameUnfolds, FrameUnfolds
<1>2. played' = [played EXCEPT ![p] = played[p] \o acts]
  BY SumFrameUnfolds
<1>3. acts \in Seq(Act) /\ Len(acts) = n
  <2>1. acts \in [1 .. n -> Act] /\ n \in Nat
    BY <1>1 DEF Act
  <2> QED  BY <2>1
<1>4. played[p] \in Seq(Act) /\ Len(played[p]) = simTick[p] + WindowDelay /\ simTick[p] \in Nat
  BY DEF SumInv, PlayedSoFar, WindowInv, PairTyped
<1>5. /\ played[p] \o acts \in Seq(Act) /\ Len(played[p] \o acts) = Len(played[p]) + n
      /\ \A i \in 1 .. Len(played[p]) : (played[p] \o acts)[i] = played[p][i]
  <2>1. /\ played[p] \o acts \in Seq(Act)
        /\ Len(played[p] \o acts) = Len(played[p]) + Len(acts)
        /\ \A i \in 1 .. Len(played[p]) + Len(acts) : (played[p] \o acts)[i] =
              IF i <= Len(played[p]) THEN played[p][i] ELSE acts[i - Len(played[p])]
    BY <1>3, <1>4, ConcatProperties, Zenon
  <2>2. Len(played[p]) \in Nat
    BY <1>4
  <2> QED  BY <1>1, <1>3, <2>1, <2>2
<1>6. DOMAIN played' = WindowPeers /\ \A q \in WindowPeers :
         played'[q] = IF q = p THEN played[p] \o acts ELSE played[q]
  BY <1>2 DEF SumInv, PlayedSoFar
<1>7. PlayedGrows
  <2>1. ASSUME NEW q \in WindowPeers
        PROVE  /\ Len(played[q]) <= Len(played'[q])
               /\ \A i \in 1 .. Len(played[q]) : played'[q][i] = played[q][i]
    <3>0. Len(played[q]) \in Nat
      BY DEF SumInv, PlayedSoFar
    <3>1. CASE q = p
      <4>1. played'[q] = played[p] \o acts
        BY <1>6, <3>1
      <4> QED  BY <1>1, <1>5, <3>0, <3>1, <4>1
    <3>2. CASE q # p
      <4>1. played'[q] = played[q]
        BY <1>6, <3>2
      <4> QED  BY <3>0, <4>1
    <3> QED  BY <3>1, <3>2
  <2> QED  BY <2>1 DEF PlayedGrows
<1>8. PlayedSoFar'
  <2>1. ASSUME NEW q \in WindowPeers
        PROVE  /\ played'[q] \in Seq(Act) /\ Len(played'[q]) = simTick'[q] + WindowDelay
               /\ \A i \in 1 .. WindowDelay : played'[q][i] = NoAction
    <3>1. CASE q = p
      <4>1. played'[q] = played[p] \o acts /\ simTick'[q] = simTick[p] + n
        BY <1>1, <1>6, <3>1
      <4>2. /\ \A i \in 1 .. WindowDelay : played[p][i] = NoAction
            /\ \A i \in 1 .. WindowDelay : i \in 1 .. Len(played[p])
        BY <1>0, <1>4 DEF SumInv, PlayedSoFar
      <4>3. \A i \in 1 .. WindowDelay : played'[q][i] = NoAction
        BY <1>5, <4>1, <4>2
      <4>4. simTick[p] + WindowDelay + n = simTick[p] + n + WindowDelay
        BY <1>0, <1>1, <1>4
      <4> QED  BY <1>4, <1>5, <4>1, <4>3, <4>4
    <3>2. CASE q # p
      BY <1>1, <1>6, <3>2 DEF SumInv, PlayedSoFar
    <3> QED  BY <3>1, <3>2
  <2> QED  BY <1>6, <2>1 DEF PlayedSoFar
<1> QED  BY <1>7, <1>8

LEMMA MaxIs ==
    ASSUME NEW S, S \subseteq Int, NEW i \in S, \A j \in S : j <= i
    PROVE  Max(S) = i
<1>1. \A x \in S : (\A y \in S : x >= y) => x = i
  OBVIOUS
<1>2. \A y \in S : i >= y
  OBVIOUS
<1> QED  BY <1>1, <1>2 DEF Max

\* What is known of a tick is what it is simulated with.
LEMMA KnownIsUsed ==
    ASSUME NEW p \in WindowPeers, NEW q \in WindowPeers, NEW i \in Nat \ {0}, NEW plays,
           Knows(p, q, i),
           DOMAIN plays[p] \subseteq Int, q = p => i \in DOMAIN plays[p],
           q # p => \A j \in inputsHeld[p][q] : j \in Int /\ j > WindowDelay,
           q # p /\ i <= WindowDelay => plays[q][i] = NoAction
    PROVE  InputFor(p, q, i, plays) = plays[q][i]
<1> DEFINE upTo == {j \in (IF q = p THEN DOMAIN plays[p] ELSE inputsHeld[p][q]) : j <= i}
<1>0. WindowDelay \in Nat
  BY WindowAssumption
<1>1. InputFor(p, q, i, plays) = IF upTo = {} THEN NoAction ELSE plays[q][Max(upTo)]
  BY DEF InputFor
<1>2. CASE i \in upTo
  <2>1. upTo \subseteq Int /\ \A j \in upTo : j <= i
    OBVIOUS
  <2> HIDE DEF upTo
  <2>2. Max(upTo) = i /\ upTo # {}
    BY <1>2, <2>1, MaxIs
  <2> QED  BY <1>1, <2>2
<1>3. CASE i \notin upTo
  <2>1. q # p /\ i <= WindowDelay
    BY <1>3 DEF Knows
  <2>2. upTo = {}
    BY <1>0, <2>1
  <2> QED  BY <1>1, <2>1, <2>2
<1> QED  BY <1>2, <1>3

\* After a frame the ticks of its peer were simulated with everything it knows.
LEMMA FrameSimulates ==
    ASSUME DelayedWindow, SumInv, NEW p \in WindowPeers, NEW n \in 0 .. TicksPerFrame,
           NEW acts \in [1 .. n -> PeerActions[p]], SumFrame(p, n, acts)
    PROVE  LET t == simTick[p] + n
               ran == SimulatedTo(p, t, played')
           IN  /\ DOMAIN ran = 1 .. t
               /\ \A i \in 1 .. t : /\ ran[i] = [q \in WindowPeers |-> ran[i][q]]
                                    /\ \A q \in WindowPeers : Knows(p, q, i) => ran[i][q] = played'[q][i]
<1> DEFINE t == simTick[p] + n
           ran == SimulatedTo(p, t, played')
<1>0. WindowDelay \in Nat /\ NoInputYet \notin Int
  BY WindowAssumption
<1>1. /\ n \in {0, 1} /\ t \in Nat /\ simTick[p] \in Nat
      /\ \A q \in WindowPeers : simTick'[q] = IF q = p THEN t ELSE simTick[q]
  BY SumFrameUnfolds, FrameUnfolds DEF SumInv, WindowInv, PairTyped
<1>2. PlayedSoFar' /\ PlayedGrows
  BY FramePlays
<1>3. /\ \A i \in Nat \ {0} : i < ReplayTick(p) =>
             i \in 1 .. simTick[p] /\ (contested[p] = NoInputYet \/ i < contested[p])
      /\ ReplayTick(p) \in Int
  <2>1. CASE contested[p] = NoInputYet
    BY <1>1, <2>1 DEF ReplayTick
  <2>2. CASE contested[p] # NoInputYet
    <3>1. contested[p] \in WindowDelay + 1 .. simTick[p] /\ ReplayTick(p) = contested[p]
      BY <2>2 DEF SumInv, ReplayIsAllowed, ReplayTick
    <3> QED  BY <1>0, <1>1, <2>2, <3>1
  <2> QED  BY <2>1, <2>2
<1>4. \A q \in WindowPeers : /\ Len(played[q]) = simTick[q] + WindowDelay /\ simTick[q] \in Nat
                             /\ Len(played'[q]) = simTick'[q] + WindowDelay
                             /\ DOMAIN played'[q] = 1 .. Len(played'[q])
                             /\ q # p => inputsHeld[p][q] \subseteq WindowDelay + 1 .. Len(played[q])
  BY <1>2 DEF SumInv, PlayedSoFar, WindowInv, PairTyped, HeldSoFar, Remotes
<1>5. DOMAIN ran = 1 .. t /\ \A i \in 1 .. t :
         ran[i] = IF i < ReplayTick(p) THEN simulated[p][i]
                  ELSE [q \in WindowPeers |-> InputFor(p, q, i, played')]
  BY DEF SimulatedTo
<1> HIDE DEF ran
<1>6. ASSUME NEW i \in 1 .. t
      PROVE  /\ ran[i] = [q \in WindowPeers |-> ran[i][q]]
             /\ \A q \in WindowPeers : Knows(p, q, i) => ran[i][q] = played'[q][i]
  <2>0. i \in Nat \ {0}
    BY <1>1
  <2>1. CASE i < ReplayTick(p)
    <3>1. ran[i] = simulated[p][i] /\ i \in 1 .. simTick[p]
          /\ (contested[p] = NoInputYet \/ i < contested[p])
      BY <1>3, <1>5, <2>0, <2>1
    <3>2. /\ simulated[p][i] = [q \in WindowPeers |-> simulated[p][i][q]]
          /\ \A q \in WindowPeers : Knows(p, q, i) => simulated[p][i][q] = played[q][i]
      BY <3>1 DEF SumInv, SimulatedAsKnown
    <3>3. ASSUME NEW q \in WindowPeers, Knows(p, q, i) PROVE played'[q][i] = played[q][i]
      <4>1. i \in 1 .. Len(played[q])
        BY <1>0, <1>1, <1>4, <2>0, <3>1, <3>3 DEF Knows
      <4> QED  BY <4>1, <1>2 DEF PlayedGrows
    <3> QED  BY <3>1, <3>2, <3>3
  <2>2. CASE ~ (i < ReplayTick(p))
    <3>1. ran[i] = [q \in WindowPeers |-> InputFor(p, q, i, played')]
      BY <1>5, <2>2
    <3>2. ASSUME NEW q \in WindowPeers, Knows(p, q, i) PROVE InputFor(p, q, i, played') = played'[q][i]
      <4>1. DOMAIN played'[p] \subseteq Int /\ i \in DOMAIN played'[p]
        <5>1. simTick'[p] = t /\ Len(played'[p]) = simTick'[p] + WindowDelay
              /\ DOMAIN played'[p] = 1 .. Len(played'[p])
          BY <1>1, <1>4
        <5>2. t \in Nat /\ 1 .. t \subseteq 1 .. t + WindowDelay /\ 1 .. t + WindowDelay \subseteq Int
          BY <1>0, <1>1
        <5> HIDE DEF t
        <5> QED  BY <5>1, <5>2
      <4>2. q # p => \A j \in inputsHeld[p][q] : j \in Int /\ j > WindowDelay
        BY <1>0, <1>4
      <4>3. i <= WindowDelay => played'[q][i] = NoAction
        <5>1. i <= WindowDelay => i \in 1 .. WindowDelay
          BY <1>0, <2>0
        <5> QED  BY <1>2, <5>1 DEF PlayedSoFar
      <4> QED  BY <2>0, <3>2, <4>1, <4>2, <4>3, KnownIsUsed
    <3> QED  BY <3>1, <3>2
  <2> QED  BY <2>1, <2>2
<1> QED  BY <1>5, <1>6 DEF ran

\* Up to its confirmed tick a peer knows what everybody did.
LEMMA ConfirmedIsKnown ==
    ASSUME SumInv, NEW p \in WindowPeers, ConfirmedInput(p) # NoInputYet
    PROVE  /\ ConfirmedInput(p) \in Nat \ {0}
           /\ \A q \in Remotes(p) : /\ lastRemote[p][q] # NoInputYet /\ lastRemote[p][q] \in Nat
                                    /\ ConfirmedInput(p) <= lastRemote[p][q]
                                    /\ ConfirmedInput(p) <= Len(played[q])
           /\ \A i \in 1 .. ConfirmedInput(p), q \in WindowPeers : Knows(p, q, i)
<1> DEFINE c == ConfirmedInput(p)
           S == {lastRemote[p][q] : q \in Remotes(p)}
<1>0. WindowDelay \in Nat /\ NoInputYet \notin Int
  BY WindowAssumption
<1>1. /\ c \in Nat
      /\ \A q \in Remotes(p) : lastRemote[p][q] # NoInputYet /\ c <= lastRemote[p][q]
  BY ConfirmedIsEarliest DEF SumInv, WindowInv
<1>2. \A q \in Remotes(p) : /\ q \in WindowPeers /\ simTick[q] \in Nat
                            /\ lastRemote[p][q] \in WindowDelay + 1 .. simTick[q] + WindowDelay
                            /\ Len(played[q]) = simTick[q] + WindowDelay
  BY <1>1 DEF SumInv, WindowInv, PairTyped, SentSoFar, PlayedSoFar, Remotes
<1>3. S \subseteq Nat /\ S # {}
  <2>1. PICK q \in WindowPeers : q # p
    BY WindowAssumption
  <2> QED  BY <1>0, <1>2, <2>1 DEF Remotes
<1>4. c \in S
  <2>1. c = Min(S)
    BY <1>1 DEF ConfirmedInput
  <2> QED  BY <1>3, <2>1, MinOfNaturals
<1> HIDE DEF c
<1>5. c \in Nat \ {0}
  BY <1>0, <1>1, <1>2, <1>4
<1>6. ASSUME NEW i \in 1 .. c, NEW q \in WindowPeers PROVE Knows(p, q, i)
  <2>1. CASE q = p
    BY <2>1 DEF Knows
  <2>2. CASE q # p /\ i > WindowDelay
    <3>1. q \in Remotes(p) /\ i \in WindowDelay + 1 .. lastRemote[p][q]
      BY <1>0, <1>1, <1>2, <2>2 DEF Remotes
    <3> QED  BY <1>1, <3>1 DEF SumInv, NoInputGap, Knows
  <2>3. CASE i <= WindowDelay
    BY <2>3 DEF Knows
  <2> QED  BY <1>0, <2>1, <2>2, <2>3
<1>7. \A q \in Remotes(p) : lastRemote[p][q] \in Nat /\ c <= Len(played[q])
  BY <1>0, <1>1, <1>2
<1> QED  BY <1>1, <1>5, <1>6, <1>7 DEF c

\* The checksum of a frame is that of the true state of the confirmed tick.
LEMMA FrameSumIsTrue ==
    ASSUME DelayedWindow, SumInv, NEW p \in WindowPeers, NEW n \in 0 .. TicksPerFrame,
           NEW acts \in [1 .. n -> PeerActions[p]], SumFrame(p, n, acts),
           SumTick(p, simTick[p] + n) # NoInputYet
    PROVE  LET c == SumTick(p, simTick[p] + n)
           IN  /\ c = ConfirmedInput(p) /\ c # NoInputYet /\ Given(c)
               /\ SumOf(p, simTick[p] + n, SimulatedTo(p, simTick[p] + n, played')) = TrueSum(c)
<1> DEFINE t == simTick[p] + n
           ran == SimulatedTo(p, t, played')
           c == SumTick(p, t)
<1>0. WindowDelay \in Nat /\ WindowDelay >= 1
  BY WindowAssumption DEF DelayedWindow
<1>1. c = ConfirmedInput(p) /\ c # NoInputYet /\ c <= t
  BY DEF SumTick
<1>2. /\ c \in Nat \ {0}
      /\ \A q \in Remotes(p) : c <= Len(played[q])
      /\ \A i \in 1 .. c, q \in WindowPeers : Knows(p, q, i)
  BY <1>1, ConfirmedIsKnown
<1>3. n \in {0, 1} /\ t \in Nat /\ simTick[p] \in Nat
  BY SumFrameUnfolds, FrameUnfolds DEF SumInv, WindowInv, PairTyped
<1>4. PlayedSoFar' /\ PlayedGrows
  BY FramePlays
<1>5. Given(c)
  <2>1. c <= Len(played[p])
    <3>1. Len(played[p]) = simTick[p] + WindowDelay
      BY DEF SumInv, PlayedSoFar
    <3> HIDE DEF c
    <3> QED  BY <1>0, <1>1, <1>2, <1>3, <3>1
  <2> QED  BY <1>2, <2>1 DEF Given, Remotes
<1>6. /\ DOMAIN ran = 1 .. t
      /\ \A i \in 1 .. t : /\ ran[i] = [q \in WindowPeers |-> ran[i][q]]
                           /\ \A q \in WindowPeers : Knows(p, q, i) => ran[i][q] = played'[q][i]
  BY FrameSimulates
<1>7. SumOf(p, t, ran) = SubSeq(ran, 1, c)
  BY DEF SumOf
<1> HIDE DEF c, ran, t
<1>8. \A i \in 1 .. c : ran[i] = [q \in WindowPeers |-> played[q][i]]
  <2> SUFFICES ASSUME NEW i \in 1 .. c PROVE ran[i] = [q \in WindowPeers |-> played[q][i]]
    OBVIOUS
  <2>1. i \in 1 .. t
    BY <1>1, <1>2, <1>3
  <2>2. \A q \in WindowPeers : ran[i][q] = played'[q][i]
    BY <1>2, <1>6, <2>1
  <2>3. \A q \in WindowPeers : i \in 1 .. Len(played[q])
    BY <1>2, <1>5 DEF Given, SumInv, PlayedSoFar
  <2>4. \A q \in WindowPeers : ran[i][q] = played[q][i]
    BY <1>4, <2>2, <2>3 DEF PlayedGrows
  <2> QED  BY <1>6, <2>1, <2>4
<1>9. SubSeq(ran, 1, c) = TrueSum(c)
  <2> DEFINE T == {ran[i] : i \in 1 .. c}
             u == SubSeq(ran, 1, c)
  <2>1. \A i \in 1 .. c : ran[i] \in T
    OBVIOUS
  <2> HIDE DEF T
  <2>2. /\ u \in Seq(T) /\ Len(u) = IF 1 <= c THEN c - 1 + 1 ELSE 0
        /\ \A i \in 1 .. c - 1 + 1 : u[i] = ran[1 + i - 1]
    BY <1>2, <2>1, SubSeqProperties
  <2> HIDE DEF u
  <2>3. Len(u) = c /\ \A i \in 1 .. c : u[i] = ran[i]
    BY <1>2, <2>2
  <2>4. u = [i \in 1 .. c |-> u[i]]
    BY <2>2, <2>3
  <2> QED  BY <1>8, <2>3, <2>4 DEF TrueSum, u
<1> QED  BY <1>1, <1>5, <1>7, <1>9 DEF c, ran, t

LEMMA KnownWasGiven ==
    ASSUME SumInv, NEW p \in WindowPeers, NEW q \in WindowPeers, NEW i \in 1 .. simTick[p],
           Knows(p, q, i)
    PROVE  i \in 1 .. Len(played[q])
<1>0. WindowDelay \in Nat
  BY WindowAssumption
<1>1. /\ Len(played[q]) = simTick[q] + WindowDelay /\ simTick[q] \in Nat /\ simTick[p] \in Nat
      /\ q # p => inputsHeld[p][q] \subseteq WindowDelay + 1 .. simTick[q] + WindowDelay
  BY DEF SumInv, PlayedSoFar, WindowInv, PairTyped, HeldSoFar, Remotes
<1> QED  BY <1>0, <1>1 DEF Knows

\* What a frame leaves of the inputs, the ticks and the replays.
LEMMA FrameWorld ==
    ASSUME DelayedWindow, SumInv, NEW p \in WindowPeers, NEW n \in 0 .. TicksPerFrame,
           NEW acts \in [1 .. n -> PeerActions[p]], SumFrame(p, n, acts)
    PROVE  HeldSoFar' /\ SimulatedAsKnown' /\ ReplayIsAllowed'
<1> DEFINE t == simTick[p] + n
           ran == SimulatedTo(p, t, played')
<1>0. WindowDelay \in Nat
  BY WindowAssumption
<1>1. /\ n \in {0, 1} /\ t \in Nat /\ simTick[p] \in Nat
      /\ \A q \in WindowPeers : simTick'[q] = (IF q = p THEN t ELSE simTick[q]) /\ simTick[q] \in Nat
      /\ inputsHeld' = inputsHeld
  BY SumFrameUnfolds, FrameUnfolds DEF SumInv, WindowInv, PairTyped
<1>2. PlayedSoFar' /\ PlayedGrows
  BY FramePlays
<1>3. /\ DOMAIN ran = 1 .. t
      /\ \A i \in 1 .. t : /\ ran[i] = [q \in WindowPeers |-> ran[i][q]]
                           /\ \A q \in WindowPeers : Knows(p, q, i) => ran[i][q] = played'[q][i]
  BY FrameSimulates
<1>4. simulated' = [simulated EXCEPT ![p] = ran] /\ contested' = [contested EXCEPT ![p] = NoInputYet]
  BY SumFrameUnfolds
<1> HIDE DEF ran
<1>5. /\ DOMAIN simulated' = WindowPeers /\ DOMAIN contested' = WindowPeers
      /\ simulated'[p] = ran /\ contested'[p] = NoInputYet
      /\ \A a \in WindowPeers \ {p} : simulated'[a] = simulated[a] /\ contested'[a] = contested[a]
  BY <1>4 DEF SumInv, SimulatedAsKnown, ReplayIsAllowed
<1>6. \A a, q, i : Knows(a, q, i)' <=> Knows(a, q, i)
  BY <1>1 DEF Knows
<1>7. HeldSoFar'
  <2>1. ASSUME NEW q \in WindowPeers
        PROVE  WindowDelay + 1 .. simTick[q] + WindowDelay \subseteq WindowDelay + 1 .. simTick'[q] + WindowDelay
    <3>1. simTick[q] \in Nat /\ simTick'[q] \in Nat /\ simTick[q] <= simTick'[q]
      BY <1>1
    <3> QED  BY <1>0, <3>1
  <2> QED  BY <1>1, <2>1 DEF SumInv, HeldSoFar, Remotes
<1>8. ReplayIsAllowed'
  <2> SUFFICES ASSUME NEW a \in WindowPeers, contested'[a] # NoInputYet
               PROVE  /\ contested'[a] \in WindowDelay + 1 .. simTick'[a]
                      /\ simTick'[a] - (contested'[a] - 1) <= MaxPredicted
    BY <1>5 DEF ReplayIsAllowed
  <2>1. a # p /\ contested'[a] = contested[a] /\ simTick'[a] = simTick[a]
    BY <1>1, <1>5
  <2> QED  BY <2>1 DEF SumInv, ReplayIsAllowed
<1>9. SimulatedAsKnown'
  <2> SUFFICES ASSUME NEW a \in WindowPeers
               PROVE  /\ DOMAIN simulated'[a] = 1 .. simTick'[a]
                      /\ \A i \in 1 .. simTick'[a] :
                            /\ simulated'[a][i] = [q \in WindowPeers |-> simulated'[a][i][q]]
                            /\ (contested'[a] = NoInputYet \/ i < contested'[a]) =>
                                  \A q \in WindowPeers : Knows(a, q, i) => simulated'[a][i][q] = played'[q][i]
    BY <1>5, <1>6 DEF SimulatedAsKnown
  <2>1. CASE a = p
    BY <1>1, <1>3, <1>5, <2>1
  <2>2. CASE a # p
    <3>1. simulated'[a] = simulated[a] /\ contested'[a] = contested[a] /\ simTick'[a] = simTick[a]
      BY <1>1, <1>5, <2>2
    <3>2. \A q \in WindowPeers, i \in 1 .. simTick[a] : Knows(a, q, i) => played'[q][i] = played[q][i]
      BY <1>2, KnownWasGiven DEF PlayedGrows
    <3> QED  BY <3>1, <3>2 DEF SumInv, SimulatedAsKnown
  <2> QED  BY <2>1, <2>2
<1> QED  BY <1>7, <1>8, <1>9

-----------------------------------------------------------------------------
(* The samples. *)

\* An entry of PendingP2PChecksums whose samples are of the true state.
EntryTrue(e, t) ==
    /\ e = [local |-> e.local, remote |-> e.remote]
    /\ e.local \in {NoSum, TrueSum(t)}
    /\ \A q \in DOMAIN e.remote : e.remote[q] = TrueSum(t)

LEMMA EntryIsTrue ==
    ASSUME SumsAreTrue, NEW p \in WindowPeers, NEW t
    PROVE  EntryTrue(Entry(pending[p], t), t)
<1>1. CASE t \in DOMAIN pending[p]
  BY <1>1 DEF Entry, EntryTrue, SumsAreTrue
<1>2. CASE t \notin DOMAIN pending[p]
  <2>1. Entry(pending[p], t) = [local |-> NoSum, remote |-> <<>>]
    BY <1>2 DEF Entry
  <2>2. DOMAIN <<>> = {}
    OBVIOUS
  <2> QED  BY <2>1, <2>2 DEF EntryTrue
<1> QED  BY <1>1, <1>2

\* Only the entry for tick t of peer p changes, to e2; what is dropped lies before the
\* confirmed tick.
EntryChanges(p, t, e2) ==
    /\ DOMAIN pending' = WindowPeers
    /\ \A q \in WindowPeers \ {p} : pending'[q] = pending[q]
    /\ t \in DOMAIN pending'[p] /\ DOMAIN pending'[p] \subseteq DOMAIN pending[p] \cup {t}
    /\ \A i \in DOMAIN pending'[p] : pending'[p][i] = IF i = t THEN e2 ELSE pending[p][i]
    /\ \A i \in DOMAIN pending[p] \ DOMAIN pending'[p] :
          ConfirmedInput(p) # NoInputYet /\ i < ConfirmedInput(p)

\* The new entry keeps what the old one knows, and is hashed while its tick is confirmed.
EntryGrows(p, t, e2) ==
    LET e == Entry(pending[p], t)
    IN  /\ Given(t) /\ EntryTrue(e2, t)
        /\ DOMAIN e.remote \subseteq DOMAIN e2.remote
        /\ e.local # NoSum => e2.local # NoSum
        /\ e.local = NoSum /\ e2.local # NoSum => ConfirmedInput(p) # NoInputYet /\ t = ConfirmedInput(p)
        /\ e2.local # NoSum => /\ ConfirmedInput(p) # NoInputYet /\ t <= ConfirmedInput(p)
                               /\ contested'[p] # NoInputYet => t < contested'[p]

\* The new comparisons are of the two samples that are both there for the first time.
ComparesNew(p, t, e2, new) ==
    LET e == Entry(pending[p], t)
    IN  /\ Judged(new)
        /\ \A v \in new : /\ v.at = p /\ v.tick = t /\ v.match
                          /\ v.of \in DOMAIN e2.remote /\ e2.local # NoSum
                          /\ e.local = NoSum \/ v.of \notin DOMAIN e.remote
        /\ \A q \in DOMAIN e2.remote : e2.local # NoSum =>
              (e.local # NoSum /\ q \in DOMAIN e.remote) \/ \E v \in new : v.of = q

\* What no step that records a sample disturbs.
Undisturbed(t) ==
    /\ PlayedSoFar' /\ PlayedGrows
    /\ \A q \in WindowPeers : ConfirmedInput(q)' = ConfirmedInput(q)
    /\ \A q \in WindowPeers : contested'[q] \in {NoInputYet, contested[q]}
    /\ \A m \in sumNet' : m \in sumNet \/ /\ m.from \in WindowPeers /\ m.to \in WindowPeers
                                          /\ m.tick = t /\ m.sum = TrueSum(t)

SamplesSound ==
    /\ SumsAreTrue /\ HashedIsConfirmed
    /\ VerdictsKnown /\ NoFalseAlarm /\ MeetingIsCompared /\ twice = FALSE

\* Recording a sample keeps the samples sound.
LEMMA SamplesStep ==
    ASSUME SumInv, NEW p \in WindowPeers, NEW t, NEW e2, NEW new,
           Undisturbed(t), EntryChanges(p, t, e2), EntryGrows(p, t, e2), ComparesNew(p, t, e2, new)
    PROVE  SamplesSound'
<1> DEFINE e == Entry(pending[p], t)
<1>1. \A i : Given(i) => Given(i)' /\ TrueSum(i)' = TrueSum(i)
  BY TrueSumStays DEF Undisturbed, SumInv
<1>2. \A q \in WindowPeers \ {p} : pending'[q] = pending[q]
  BY DEF EntryChanges
<1>3. \A i \in DOMAIN pending'[p] : /\ i = t => pending'[p][i] = e2
                                    /\ i # t => i \in DOMAIN pending[p] /\ pending'[p][i] = pending[p][i]
  BY DEF EntryChanges
<1>4. t \in DOMAIN pending[p] => pending[p][t] = e
  BY DEF Entry
<1>5. t \notin DOMAIN pending[p] => e.local = NoSum /\ DOMAIN e.remote = {}
  <2>1. DOMAIN <<>> = {}
    OBVIOUS
  <2> QED  BY <2>1 DEF Entry
<1>6. /\ Given(t) /\ EntryTrue(e2, t)
      /\ DOMAIN e.remote \subseteq DOMAIN e2.remote
      /\ e.local # NoSum => e2.local # NoSum
      /\ e.local = NoSum /\ e2.local # NoSum => ConfirmedInput(p) # NoInputYet /\ t = ConfirmedInput(p)
      /\ e2.local # NoSum => /\ ConfirmedInput(p) # NoInputYet /\ t <= ConfirmedInput(p)
                             /\ contested'[p] # NoInputYet => t < contested'[p]
  BY DEF EntryGrows
<1>7. /\ verdicts' = verdicts \cup new
      /\ twice' = (twice \/ \E v \in new, w \in verdicts : v.at = w.at /\ v.of = w.of /\ v.tick = w.tick)
      /\ \A v \in new : /\ v.at = p /\ v.tick = t /\ v.match
                        /\ v.of \in DOMAIN e2.remote /\ e2.local # NoSum
                        /\ e.local = NoSum \/ v.of \notin DOMAIN e.remote
      /\ \A q \in DOMAIN e2.remote : e2.local # NoSum =>
            (e.local # NoSum /\ q \in DOMAIN e.remote) \/ \E v \in new : v.of = q
  BY DEF ComparesNew, Judged
<1>8. /\ \A q \in WindowPeers : ConfirmedInput(q)' = ConfirmedInput(q)
      /\ \A q \in WindowPeers : contested'[q] \in {NoInputYet, contested[q]}
  BY DEF Undisturbed
<1>9. \A i : Entry(pending[p], i)' = Entry(pending'[p], i)
  BY DEF Entry
<1>10. Entry(pending'[p], t) = e2
  BY DEF EntryChanges, Entry
<1> HIDE DEF e
<1>11. SumsAreTrue'
  <2>1. \A m \in sumNet' : /\ m.from \in WindowPeers /\ m.to \in WindowPeers
                           /\ Given(m.tick)' /\ m.sum = TrueSum(m.tick)'
    BY <1>1, <1>6 DEF Undisturbed, SumInv, SumsAreTrue
  <2>2. ASSUME NEW q \in WindowPeers, NEW i \in DOMAIN pending'[q]
        PROVE  Given(i)' /\ EntryTrue(pending[q][i], i)'
    <3>1. Given(i) /\ EntryTrue(pending'[q][i], i)
      <4>1. CASE q = p /\ i = t
        BY <1>3, <1>6, <4>1
      <4>2. CASE ~ (q = p /\ i = t)
        <5>1. i \in DOMAIN pending[q] /\ pending'[q][i] = pending[q][i]
          BY <1>2, <1>3, <4>2
        <5> QED  BY <5>1 DEF SumInv, SumsAreTrue, EntryTrue
      <4> QED  BY <4>1, <4>2
    <3>2. TrueSum(i)' = TrueSum(i) /\ Given(i)'
      BY <1>1, <3>1
    <3> QED  BY <3>1, <3>2 DEF EntryTrue
  <2>3. DOMAIN pending' = WindowPeers
    BY DEF EntryChanges
  <2> QED  BY <2>1, <2>2, <2>3 DEF SumsAreTrue, EntryTrue
<1>12. HashedIsConfirmed'
  <2> SUFFICES ASSUME NEW q \in WindowPeers, NEW i \in DOMAIN pending'[q], pending'[q][i].local # NoSum
               PROVE  /\ ConfirmedInput(q) # NoInputYet /\ i <= ConfirmedInput(q)
                      /\ contested'[q] # NoInputYet => i < contested'[q]
    BY <1>8 DEF HashedIsConfirmed
  <2>1. CASE q = p /\ i = t
    BY <1>3, <1>6, <2>1
  <2>2. CASE ~ (q = p /\ i = t)
    <3>1. i \in DOMAIN pending[q] /\ pending'[q][i] = pending[q][i]
      BY <1>2, <1>3, <2>2
    <3> QED  BY <1>8, <3>1 DEF SumInv, HashedIsConfirmed
  <2> QED  BY <2>1, <2>2
<1>13. NoFalseAlarm'
  BY <1>7 DEF SumInv, NoFalseAlarm
<1>14. MeetingIsCompared'
  <2> SUFFICES ASSUME NEW q \in WindowPeers, NEW i \in DOMAIN pending'[q],
                      NEW r \in DOMAIN pending'[q][i].remote, pending'[q][i].local # NoSum
               PROVE  \E v \in verdicts' : v.at = q /\ v.of = r /\ v.tick = i
    BY DEF MeetingIsCompared
  <2>1. CASE q = p /\ i = t
    <3>1. r \in DOMAIN e2.remote /\ e2.local # NoSum
      BY <1>3, <2>1
    <3>2. CASE e.local # NoSum /\ r \in DOMAIN e.remote
      <4>1. t \in DOMAIN pending[p] /\ r \in DOMAIN pending[p][t].remote /\ pending[p][t].local # NoSum
        BY <1>4, <1>5, <3>2
      <4>2. \E v \in verdicts : v.at = p /\ v.of = r /\ v.tick = t
        BY <4>1 DEF SumInv, MeetingIsCompared
      <4> QED  BY <1>7, <2>1, <4>2
    <3>3. CASE \E v \in new : v.of = r
      BY <1>7, <2>1, <3>3
    <3> QED  BY <1>7, <3>1, <3>2, <3>3
  <2>2. CASE ~ (q = p /\ i = t)
    <3>1. i \in DOMAIN pending[q] /\ pending'[q][i] = pending[q][i]
      BY <1>2, <1>3, <2>2
    <3>2. \E v \in verdicts : v.at = q /\ v.of = r /\ v.tick = i
      BY <3>1 DEF SumInv, MeetingIsCompared
    <3> QED  BY <1>7, <3>2
  <2> QED  BY <2>1, <2>2
<1>15. twice' = FALSE
  <2> SUFFICES ASSUME NEW v \in new, NEW w \in verdicts, v.at = w.at, v.of = w.of, v.tick = w.tick
               PROVE  FALSE
    BY <1>7 DEF SumInv
  <2>1. /\ v.at = p /\ v.tick = t /\ e2.local # NoSum
        /\ e.local = NoSum \/ v.of \notin DOMAIN e.remote
    BY <1>7
  <2>2. ComparisonKnown(w)
    BY DEF SumInv, VerdictsKnown
  <2>3. \/ e.local # NoSum /\ v.of \in DOMAIN e.remote
        \/ e.local = NoSum /\ ConfirmedInput(p) # NoInputYet /\ t < ConfirmedInput(p)
    BY <2>1, <2>2 DEF ComparisonKnown, e
  <2>4. e.local = NoSum /\ t < ConfirmedInput(p) /\ t = ConfirmedInput(p)
    BY <1>6, <2>1, <2>3
  <2>5. t \in Nat
    BY <1>6 DEF Given
  <2> QED  BY <2>4, <2>5
<1>16. VerdictsKnown'
  <2> SUFFICES ASSUME NEW v \in verdicts'
               PROVE  v.at \in WindowPeers /\ v.tick \in Nat /\ ComparisonKnown(v)'
    BY DEF VerdictsKnown
  <2>1. CASE v \in new
    <3>1. v.at = p /\ v.tick = t /\ v.of \in DOMAIN e2.remote /\ e2.local # NoSum
      BY <1>7, <2>1
    <3>2. Entry(pending'[v.at], v.tick) = e2
      BY <1>10, <3>1
    <3>3. v.tick \in Nat
      BY <1>6, <3>1 DEF Given
    <3> QED  BY <3>1, <3>2, <3>3 DEF ComparisonKnown, Entry
  <2>2. CASE v \in verdicts
    <3>0. v.at \in WindowPeers /\ v.tick \in Nat /\ ComparisonKnown(v)
      BY <2>2 DEF SumInv, VerdictsKnown
    <3>1. CASE v.at # p
      <4>1. pending'[v.at] = pending[v.at] /\ ConfirmedInput(v.at)' = ConfirmedInput(v.at)
        BY <1>2, <1>8, <3>0, <3>1
      <4> QED  BY <3>0, <4>1 DEF ComparisonKnown, Entry
    <3>2. CASE v.at = p /\ v.tick = t
      <4>1. \/ e.local # NoSum /\ v.of \in DOMAIN e.remote
            \/ e.local = NoSum /\ ConfirmedInput(p) # NoInputYet /\ t < ConfirmedInput(p)
        BY <3>0, <3>2 DEF ComparisonKnown, e
      <4>2. \/ e2.local # NoSum /\ v.of \in DOMAIN e2.remote
            \/ e2.local = NoSum /\ ConfirmedInput(p) # NoInputYet /\ t < ConfirmedInput(p)
        <5>1. t \in Nat
          BY <1>6 DEF Given
        <5> QED  BY <1>6, <4>1, <5>1
      <4>3. Entry(pending'[v.at], v.tick) = e2 /\ ConfirmedInput(v.at)' = ConfirmedInput(p)
        BY <1>8, <1>10, <3>2
      <4> QED  BY <3>0, <3>2, <4>2, <4>3 DEF ComparisonKnown, Entry
    <3>3. CASE v.at = p /\ v.tick # t
      <4>1. CASE v.tick \in DOMAIN pending[p] \ DOMAIN pending'[p]
        <5>1. ConfirmedInput(p) # NoInputYet /\ v.tick < ConfirmedInput(p)
          BY <4>1 DEF EntryChanges
        <5>2. Entry(pending'[v.at], v.tick).local = NoSum
          BY <3>3, <4>1 DEF Entry
        <5> QED  BY <1>8, <3>0, <3>3, <5>1, <5>2 DEF ComparisonKnown, Entry
      <4>2. CASE v.tick \notin DOMAIN pending[p] \ DOMAIN pending'[p]
        <5>1. Entry(pending'[p], v.tick) = Entry(pending[p], v.tick)
          BY <1>3, <3>3, <4>2 DEF Entry, EntryChanges
        <5>2. ConfirmedInput(p)' = ConfirmedInput(p)
          BY <1>8
        <5> QED  BY <3>0, <3>3, <5>1, <5>2 DEF ComparisonKnown, Entry
      <4> QED  BY <4>1, <4>2
    <3> QED  BY <3>1, <3>2, <3>3
  <2> QED  BY <1>7, <2>1, <2>2
<1> QED  BY <1>11, <1>12, <1>13, <1>14, <1>15, <1>16 DEF SamplesSound

LEMMA ConfirmedTyped ==
    WindowInv => \A p \in WindowPeers : ConfirmedInput(p) \in Nat \cup {NoInputYet}
BY ConfirmedIsEarliest DEF WindowInv

LEMMA ConfirmedTypedNext ==
    WindowInv' => \A p \in WindowPeers : ConfirmedInput(p)' \in Nat \cup {NoInputYet}
<1>1. WindowInv' => (\A p \in WindowPeers : ConfirmedInput(p) \in Nat \cup {NoInputYet})'
  BY ConfirmedTyped, PTL
<1> QED  BY <1>1

\* A step that records nothing keeps the samples sound, if it confirms no less and
\* begins no replay of a confirmed tick.
LEMMA SamplesStay ==
    ASSUME SumInv, PlayedSoFar', PlayedGrows,
           pending' = pending, verdicts' = verdicts, twice' = twice, sumNet' \subseteq sumNet,
           \A q \in WindowPeers : ConfirmedInput(q) # NoInputYet =>
              /\ ConfirmedInput(q)' \in Nat /\ ConfirmedInput(q)' >= ConfirmedInput(q)
              /\ \/ contested'[q] \in {NoInputYet, contested[q]}
                 \/ contested'[q] \in Nat /\ ConfirmedInput(q) < contested'[q]
    PROVE  SamplesSound'
<1>0. NoInputYet \notin Nat
  BY WindowAssumption
<1>1. \A i : Given(i) => Given(i)' /\ TrueSum(i)' = TrueSum(i)
  BY TrueSumStays DEF SumInv
<1>2. SumsAreTrue'
  BY <1>1 DEF SumInv, SumsAreTrue
<1>3. HashedIsConfirmed'
  <2> SUFFICES ASSUME NEW q \in WindowPeers, NEW i \in DOMAIN pending[q], pending[q][i].local # NoSum
               PROVE  /\ ConfirmedInput(q)' # NoInputYet /\ i <= ConfirmedInput(q)'
                      /\ contested'[q] # NoInputYet => i < contested'[q]
    BY DEF HashedIsConfirmed
  <2>1. /\ ConfirmedInput(q) # NoInputYet /\ i <= ConfirmedInput(q)
        /\ contested[q] # NoInputYet => i < contested[q]
    BY DEF SumInv, HashedIsConfirmed
  <2>2. i \in Nat /\ ConfirmedInput(q) \in Nat
    BY <2>1, ConfirmedTyped DEF SumInv, SumsAreTrue, Given
  <2>3. /\ ConfirmedInput(q)' \in Nat /\ ConfirmedInput(q)' >= ConfirmedInput(q)
        /\ \/ contested'[q] \in {NoInputYet, contested[q]}
           \/ contested'[q] \in Nat /\ ConfirmedInput(q) < contested'[q]
    BY <2>1
  <2> QED  BY <1>0, <2>1, <2>2, <2>3
<1>4. VerdictsKnown'
  <2> SUFFICES ASSUME NEW v \in verdicts
               PROVE  v.at \in WindowPeers /\ v.tick \in Nat /\ ComparisonKnown(v)'
    BY DEF VerdictsKnown
  <2> DEFINE e == Entry(pending[v.at], v.tick)
  <2>1. /\ v.at \in WindowPeers
        /\ \/ e.local # NoSum /\ v.of \in DOMAIN e.remote
           \/ e.local = NoSum /\ ConfirmedInput(v.at) # NoInputYet /\ v.tick < ConfirmedInput(v.at)
    BY DEF SumInv, VerdictsKnown, ComparisonKnown
  <2>2. Entry(pending[v.at], v.tick)' = e
    BY DEF Entry
  <2>3. v.tick \in Nat
    BY DEF SumInv, VerdictsKnown
  <2> HIDE DEF e
  <2>4. CASE e.local # NoSum /\ v.of \in DOMAIN e.remote
    BY <2>1, <2>2, <2>3, <2>4 DEF ComparisonKnown
  <2>5. CASE e.local = NoSum /\ ConfirmedInput(v.at) # NoInputYet /\ v.tick < ConfirmedInput(v.at)
    <3>1. /\ ConfirmedInput(v.at)' \in Nat /\ ConfirmedInput(v.at)' >= ConfirmedInput(v.at)
          /\ ConfirmedInput(v.at) \in Nat
      BY <2>1, <2>5, ConfirmedTyped DEF SumInv
    <3>2. ConfirmedInput(v.at)' # NoInputYet /\ v.tick < ConfirmedInput(v.at)'
      BY <1>0, <2>3, <2>5, <3>1
    <3> QED  BY <2>1, <2>2, <2>3, <2>5, <3>2 DEF ComparisonKnown
  <2> QED  BY <2>1, <2>4, <2>5
<1>5. NoFalseAlarm' /\ MeetingIsCompared' /\ twice' = FALSE
  BY DEF SumInv, NoFalseAlarm, MeetingIsCompared
<1> QED  BY <1>2, <1>3, <1>4, <1>5 DEF SamplesSound

\* The entry in which a peer records its own checksum.
LEMMA LocalEntryGrows ==
    ASSUME SumInv, NEW p \in WindowPeers, NEW c, Given(c), c = ConfirmedInput(p),
           c # NoInputYet, contested'[p] = NoInputYet
    PROVE  LET e2 == [Entry(pending[p], c) EXCEPT !.local = TrueSum(c)]
           IN  /\ e2.local = TrueSum(c) /\ e2.remote = Entry(pending[p], c).remote
               /\ EntryGrows(p, c, e2)
<1> DEFINE e == Entry(pending[p], c)
           e2 == [e EXCEPT !.local = TrueSum(c)]
<1>1. EntryTrue(e, c)
  BY EntryIsTrue DEF SumInv
<1>2. e = [local |-> e.local, remote |-> e.remote]
  BY <1>1 DEF EntryTrue
<1> HIDE DEF e
<1>3. e2 = [local |-> TrueSum(c), remote |-> e.remote]
  BY <1>2
<1> HIDE DEF e2
<1>4. e2.local = TrueSum(c) /\ e2.remote = e.remote
  BY <1>3
<1>5. TrueSum(c) # NoSum
  BY TrueSumIsASum
<1>6. EntryTrue(e2, c)
  BY <1>1, <1>3, <1>4 DEF EntryTrue
<1>7. c \in Nat
  BY DEF Given
<1>8. EntryGrows(p, c, e2)
  BY <1>4, <1>5, <1>6, <1>7 DEF EntryGrows, e
<1> QED  BY <1>4, <1>8 DEF e, e2

LEMMA FrameSamples ==
    ASSUME DelayedWindow, SumInv, NEW p \in WindowPeers, NEW n \in 0 .. TicksPerFrame,
           NEW acts \in [1 .. n -> PeerActions[p]], SumFrame(p, n, acts)
    PROVE  SamplesSound'
<1> DEFINE t == simTick[p] + n
           c == SumTick(p, t)
           sum == SumOf(p, t, SimulatedTo(p, t, played'))
<1>1. PlayedSoFar' /\ PlayedGrows
  BY FramePlays
<1>2. SendChecksum(p, c, sum) /\ contested' = [contested EXCEPT ![p] = NoInputYet]
  BY SumFrameUnfolds
<1>3. /\ contested'[p] = NoInputYet
      /\ \A q \in WindowPeers : contested'[q] \in {NoInputYet, contested[q]}
  BY <1>2 DEF SumInv, ReplayIsAllowed
<1>4. \A q \in WindowPeers : ConfirmedInput(q)' = ConfirmedInput(q)
  <2>1. lastRemote' = lastRemote
    BY SumFrameUnfolds, FrameUnfolds
  <2> QED  BY <2>1 DEF ConfirmedInput
<1>5. c # NoInputYet => c = ConfirmedInput(p) /\ Given(c) /\ sum = TrueSum(c)
  BY FrameSumIsTrue
<1> HIDE DEF c, sum
<1>6. CASE c = NoInputYet
  <2>1. pending' = pending /\ sumNet' = sumNet /\ verdicts' = verdicts /\ twice' = twice
    BY <1>2, <1>6 DEF SendChecksum
  <2>2. \A q \in WindowPeers : ConfirmedInput(q) # NoInputYet =>
           /\ ConfirmedInput(q)' \in Nat /\ ConfirmedInput(q)' >= ConfirmedInput(q)
           /\ contested'[q] \in {NoInputYet, contested[q]}
    <3>1. ASSUME NEW q \in WindowPeers, ConfirmedInput(q) # NoInputYet
          PROVE  ConfirmedInput(q)' \in Nat /\ ConfirmedInput(q)' >= ConfirmedInput(q)
      <4>1. ConfirmedInput(q) \in Nat /\ ConfirmedInput(q)' = ConfirmedInput(q)
        BY <1>4, <3>1, ConfirmedTyped DEF SumInv
      <4> QED  BY <4>1
    <3> QED  BY <1>3, <3>1
  <2>3. sumNet' \subseteq sumNet
    BY <2>1
  <2> QED  BY <1>1, <2>1, <2>2, <2>3, SamplesStay
<1>7. CASE c # NoInputYet
  <2> DEFINE e == Entry(pending[p], c)
             e2 == [e EXCEPT !.local = sum]
             new == LocalVerdicts(p, c, sum)
  <2>1. c = ConfirmedInput(p) /\ Given(c) /\ sum = TrueSum(c)
    BY <1>5, <1>7
  <2>2. /\ pending' = [pending EXCEPT ![p] = Cleaned(RecordLocal(p, c, sum), c)]
        /\ Judged(new)
        /\ sumNet' = sumNet \cup {[from |-> p, to |-> q, tick |-> c, sum |-> sum] : q \in Remotes(p)}
    BY <1>2, <1>7 DEF SendChecksum
  <2>3. e2.local = sum /\ e2.remote = e.remote /\ EntryGrows(p, c, e2)
    BY <1>3, <1>7, <2>1, LocalEntryGrows
  <2>4. sum # NoSum
    BY <2>1, TrueSumIsASum
  <2>5. EntryTrue(e, c)
    BY EntryIsTrue DEF SumInv
  <2>6. new = IF e.local = sum THEN {}
              ELSE {[at |-> p, of |-> q, tick |-> c, match |-> e.remote[q] = sum] : q \in DOMAIN e.remote}
    BY DEF LocalVerdicts, Compared
  <2>7. RecordLocal(p, c, sum) = With(pending[p], c, e2)
    BY DEF RecordLocal
  <2> HIDE DEF e, e2, new
  <2>8. Undisturbed(c)
    <3>1. \A m \in sumNet' : m \in sumNet \/ /\ m.from \in WindowPeers /\ m.to \in WindowPeers
                                             /\ m.tick = c /\ m.sum = TrueSum(c)
      BY <2>1, <2>2 DEF Remotes
    <3> QED  BY <1>1, <1>3, <1>4, <3>1 DEF Undisturbed
  <2>9. EntryChanges(p, c, e2)
    <3> DEFINE pend == Cleaned(With(pending[p], c, e2), c)
    <3>1. /\ DOMAIN pend = {j \in DOMAIN pending[p] \cup {c} : j >= c - ChecksumTicks}
          /\ \A i \in DOMAIN pend : pend[i] = IF i = c THEN e2 ELSE pending[p][i]
      BY DEF Cleaned, With
    <3>2. c \in Nat /\ ChecksumTicks \in Nat
      BY <2>1, ChecksumAssumption DEF Given
    <3>3. \A i \in DOMAIN pending[p] : i \in Nat
      BY DEF SumInv, SumsAreTrue, Given
    <3> HIDE DEF pend
    <3>4. /\ DOMAIN pending' = WindowPeers /\ pending'[p] = pend
          /\ \A q \in WindowPeers \ {p} : pending'[q] = pending[q]
      BY <2>2, <2>7 DEF pend, SumInv, SumsAreTrue
    <3>5. c \in DOMAIN pend /\ DOMAIN pend \subseteq DOMAIN pending[p] \cup {c}
      BY <3>1, <3>2
    <3>6. \A i \in DOMAIN pending[p] \ DOMAIN pend : i < c
      BY <3>1, <3>2, <3>3
    <3> QED  BY <1>7, <2>1, <3>1, <3>4, <3>5, <3>6 DEF EntryChanges
  <2>10. ComparesNew(p, c, e2, new)
    <3>1. ASSUME NEW v \in new
          PROVE  /\ v.at = p /\ v.tick = c /\ v.match
                 /\ v.of \in DOMAIN e.remote /\ e.local = NoSum
      <4>1. e.local # sum /\ \E q \in DOMAIN e.remote :
               v = [at |-> p, of |-> q, tick |-> c, match |-> e.remote[q] = sum]
        BY <2>6
      <4>2. e.local = NoSum
        BY <2>1, <2>5, <4>1 DEF EntryTrue
      <4>3. PICK q \in DOMAIN e.remote :
               v = [at |-> p, of |-> q, tick |-> c, match |-> e.remote[q] = sum]
        BY <4>1
      <4>4. v.at = p /\ v.tick = c /\ v.of = q /\ v.match = (e.remote[q] = sum)
        BY <4>3
      <4>5. e.remote[q] = sum
        BY <2>1, <2>5 DEF EntryTrue
      <4> QED  BY <4>2, <4>4, <4>5, Zenon
    <3>2. ASSUME NEW q \in DOMAIN e.remote
          PROVE  e.local # NoSum \/ \E v \in new : v.of = q
      <4>1. CASE e.local = sum
        BY <2>4, <4>1
      <4>2. CASE e.local # sum
        <5>1. [at |-> p, of |-> q, tick |-> c, match |-> e.remote[q] = sum] \in new
          BY <2>6, <4>2
        <5> QED  BY <5>1
      <4> QED  BY <4>1, <4>2
    <3> QED  BY <2>2, <2>3, <2>4, <3>1, <3>2 DEF ComparesNew, e
  <2>11. EntryGrows(p, c, e2)
    BY <2>3
  <2> QED  BY <2>8, <2>9, <2>10, <2>11, SamplesStep
<1> QED  BY <1>6, <1>7

\* A sample that arrives.
LEMMA ReceiveChecksumSamples ==
    ASSUME SumInv, PlayedSoFar', PlayedGrows, NEW m \in sumNet, ReceiveChecksum(m)
    PROVE  SamplesSound'
<1> DEFINE p == m.to
           t == m.tick
           e == Entry(pending[p], t)
           rest == With(e.remote, m.from, m.sum)
           e2 == [local |-> e.local, remote |-> rest]
           new == RemoteVerdicts(m)
<1>1. p \in WindowPeers /\ Given(t) /\ m.sum = TrueSum(t) /\ m.sum # NoSum /\ t \in Nat
  BY TrueSumIsASum DEF SumInv, SumsAreTrue, Given
<1>2. EntryTrue(e, t)
  BY <1>1, EntryIsTrue DEF SumInv
<1>3. /\ e = [local |-> e.local, remote |-> e.remote]
      /\ \A q \in DOMAIN e.remote : e.remote[q] = m.sum
  BY <1>1, <1>2 DEF EntryTrue
<1>4. RecordRemote(m) = With(pending[p], t, e2)
  <2> DEFINE pend == pending[p]
  <2>1. RecordRemote(m) = With(pend, t, [e EXCEPT !.remote = rest])
    BY DEF RecordRemote
  <2> HIDE DEF rest, e, pend
  <2>2. [e EXCEPT !.remote = rest] = [local |-> e.local, remote |-> rest]
    BY <1>3
  <2> QED  BY <2>1, <2>2 DEF pend
<1>5. /\ DOMAIN rest = DOMAIN e.remote \cup {m.from}
      /\ \A q \in DOMAIN rest : rest[q] = m.sum
  BY <1>3 DEF With
<1>6. new = IF (m.from \in DOMAIN e.remote /\ e.remote[m.from] = m.sum) \/ e.local = NoSum THEN {}
            ELSE {[at |-> p, of |-> q, tick |-> t, match |-> With(<<>>, m.from, m.sum)[q] = e.local] :
                     q \in DOMAIN With(<<>>, m.from, m.sum)}
  BY DEF RemoteVerdicts, Compared
<1>7. DOMAIN With(<<>>, m.from, m.sum) = {m.from} /\ With(<<>>, m.from, m.sum)[m.from] = m.sum
  <2>1. DOMAIN <<>> = {}
    OBVIOUS
  <2> QED  BY <2>1 DEF With
<1>8. /\ pending' = [pending EXCEPT ![p] = RecordRemote(m)]
      /\ Judged(new) /\ sumNet' \subseteq sumNet
      /\ contested' = contested /\ lastRemote' = lastRemote
  BY DEF ReceiveChecksum, windowVars
<1>9. p = m.to /\ t = m.tick /\ e = Entry(pending[p], t)
  OBVIOUS
<1> HIDE DEF e, new, rest, p, t
<1>10. \A q \in WindowPeers : ConfirmedInput(q)' = ConfirmedInput(q)
  BY <1>8 DEF ConfirmedInput
<1>11. Undisturbed(t)
  BY <1>8, <1>10 DEF Undisturbed
<1>12. EntryChanges(p, t, e2)
  <2>1. /\ DOMAIN pending' = WindowPeers /\ pending'[p] = With(pending[p], t, e2)
        /\ \A q \in WindowPeers \ {p} : pending'[q] = pending[q]
    BY <1>1, <1>4, <1>8 DEF SumInv, SumsAreTrue
  <2> QED  BY <2>1 DEF EntryChanges, With
<1>13. e2.local = e.local /\ e2.remote = rest
  OBVIOUS
<1>14. EntryTrue(e2, t)
  BY <1>1, <1>2, <1>5 DEF EntryTrue
<1>15. e.local # NoSum => /\ ConfirmedInput(p) # NoInputYet /\ t <= ConfirmedInput(p)
                          /\ contested'[p] # NoInputYet => t < contested'[p]
  <2>1. e.local # NoSum => t \in DOMAIN pending[p] /\ pending[p][t] = e
    BY <1>9 DEF Entry
  <2> QED  BY <1>1, <1>8, <2>1 DEF SumInv, HashedIsConfirmed
<1> HIDE DEF e2
<1>16. EntryGrows(p, t, e2)
  BY <1>1, <1>5, <1>9, <1>13, <1>14, <1>15 DEF EntryGrows
<1>17. ComparesNew(p, t, e2, new)
  <2>1. ASSUME NEW v \in new
        PROVE  /\ v.at = p /\ v.tick = t /\ v.match /\ v.of = m.from
               /\ e.local # NoSum /\ m.from \notin DOMAIN e.remote
    <3>1. e.local # NoSum /\ m.from \notin DOMAIN e.remote
      BY <1>3, <1>6
    <3>2. v = [at |-> p, of |-> m.from, tick |-> t, match |-> m.sum = e.local]
      BY <1>6, <1>7, <3>1
    <3>3. v.at = p /\ v.tick = t /\ v.of = m.from /\ v.match = (m.sum = e.local)
      BY <3>2
    <3>4. m.sum = e.local
      BY <1>1, <1>2, <3>1 DEF EntryTrue
    <3> QED  BY <3>1, <3>3, <3>4, Zenon
  <2>2. ASSUME NEW q \in DOMAIN rest, e.local # NoSum, q \notin DOMAIN e.remote
        PROVE  \E v \in new : v.of = q
    <3>1. q = m.from
      BY <1>5, <2>2
    <3>2. [at |-> p, of |-> m.from, tick |-> t, match |-> m.sum = e.local] \in new
      BY <1>6, <1>7, <2>2, <3>1
    <3> QED  BY <3>1, <3>2
  <2> QED  BY <1>5, <1>8, <1>9, <1>13, <2>1, <2>2 DEF ComparesNew
<1> QED  BY <1>1, <1>11, <1>12, <1>16, <1>17, SamplesStep

-----------------------------------------------------------------------------
(* A message with inputs. *)

LEMMA EarliestIs ==
    ASSUME NEW C \in Nat \cup {NoInputYet}, NEW K, K \subseteq Nat
    PROVE  /\ EarlierTick(C, K) \in {C} \cup K
           /\ C # NoInputYet => EarlierTick(C, K) # NoInputYet /\ EarlierTick(C, K) <= C
           /\ \A k \in K : EarlierTick(C, K) # NoInputYet /\ EarlierTick(C, K) <= k
<1>0. NoInputYet \notin Int
  BY WindowAssumption
<1>1. CASE K = {}
  <2>1. EarlierTick(C, K) = C
    BY <1>1 DEF EarlierTick
  <2> QED  BY <1>0, <1>1, <2>1
<1>2. CASE K # {} /\ C = NoInputYet
  <2>1. EarlierTick(C, K) = Min(K)
    BY <1>2 DEF EarlierTick
  <2>2. Min(K) \in K /\ \A k \in K : Min(K) <= k
    BY <1>2, MinOfNaturals
  <2> QED  BY <1>0, <1>2, <2>1, <2>2
<1>3. CASE K # {} /\ C # NoInputYet
  <2> DEFINE S == {C} \cup K
  <2>1. EarlierTick(C, K) = Min(S)
    <3>1. EarlierTick(C, K) = IF K = {} THEN C ELSE IF C = NoInputYet THEN Min(K) ELSE Min(S)
      BY DEF EarlierTick
    <3> QED  BY <1>3, <3>1, Zenon
  <2>2. S \subseteq Nat /\ S # {} /\ C \in S /\ K \subseteq S /\ \A x \in S : x = C \/ x \in K
    BY <1>3
  <2> HIDE DEF S
  <2>3. Min(S) \in S /\ \A k \in S : Min(S) <= k
    BY <2>2, MinOfNaturals
  <2>4. Min(S) \in {C} \cup K /\ Min(S) <= C /\ \A k \in K : Min(S) <= k
    BY <2>2, <2>3, Zenon
  <2>5. Min(S) # NoInputYet
    <3>1. NoInputYet \notin Nat
      BY <1>0
    <3> QED  BY <2>2, <2>3, <3>1, Zenon
  <2> QED  BY <2>1, <2>4, <2>5
<1> QED  BY <1>1, <1>2, <1>3

\* What a message contradicts was not held before, or is replayed already: it lies behind
\* the last input of its sender, and within the window.
LEMMA NewlyContradicted ==
    ASSUME DelayedWindow, SumInv, NEW m \in inputNet, NEW k \in Contradicted(m),
           contested[m.to] = NoInputYet \/ k < contested[m.to]
    PROVE  /\ k \in WindowDelay + 1 .. simTick[m.to]
           /\ simTick[m.to] - (k - 1) <= MaxPredicted
           /\ ConfirmedInput(m.to) # NoInputYet => ConfirmedInput(m.to) < k
<1> DEFINE p == m.to
           q == m.from
<1>0. WindowDelay \in Nat /\ WindowDelay >= 1 /\ MaxPredicted \in Nat /\ NoInputYet \notin Int
  BY WindowAssumption DEF DelayedWindow
<1>1. /\ p \in WindowPeers /\ q \in Remotes(p) /\ q \in WindowPeers /\ q # p /\ m.end \in Nat
      /\ simTick[p] \in Nat /\ lastRemote[p][q] \in Int \cup {NoInputYet}
  <2>1. /\ m \in [from : WindowPeers, to : WindowPeers, end : Nat] /\ m.from # m.to
        /\ simTick \in [WindowPeers -> Nat]
        /\ lastRemote \in [WindowPeers -> [WindowPeers -> Nat \cup {NoInputYet}]]
    BY DEF SumInv, WindowInv, PairTyped, SentSoFar
  <2> QED  BY <2>1 DEF Remotes
<1>2. /\ k \in Int /\ k > WindowDelay /\ k <= simTick[p] /\ simulated[p][k][q] # played[q][k]
  BY <1>0, <1>1 DEF Contradicted, InputsOf
<1>3. k \in 1 .. simTick[p]
  BY <1>0, <1>1, <1>2
<1>4. k \notin inputsHeld[p][q]
  <2>1. \A i \in 1 .. simTick[p] : (contested[p] = NoInputYet \/ i < contested[p]) =>
           \A r \in WindowPeers : Knows(p, r, i) => simulated[p][i][r] = played[r][i]
    BY <1>1 DEF SumInv, SimulatedAsKnown
  <2>2. contested[p] = NoInputYet \/ k < contested[p]
    OBVIOUS
  <2> HIDE DEF p, q
  <2>3. Knows(p, q, k) => simulated[p][k][q] = played[q][k]
    BY <1>1, <1>3, <2>1, <2>2
  <2> QED  BY <1>2, <2>3 DEF Knows
<1>5. lastRemote[p][q] # NoInputYet => lastRemote[p][q] < k
  <2>1. lastRemote[p][q] # NoInputYet => WindowDelay + 1 .. lastRemote[p][q] \subseteq inputsHeld[p][q]
    BY <1>1 DEF SumInv, NoInputGap
  <2> QED  BY <1>0, <1>1, <1>2, <1>4, <2>1
<1>6. simTick[p] <= (IF lastRemote[p][q] = NoInputYet THEN 1 ELSE lastRemote[p][q]) + MaxPredicted
  BY <1>1 DEF SumInv, WindowInv, PairBound, Reference
<1>7. ConfirmedInput(p) # NoInputYet =>
         /\ lastRemote[p][q] # NoInputYet /\ ConfirmedInput(p) <= lastRemote[p][q]
         /\ ConfirmedInput(p) \in Nat
  BY <1>1, ConfirmedIsKnown
<1> HIDE DEF p, q
<1>8. ConfirmedInput(p) # NoInputYet => ConfirmedInput(p) < k
  BY <1>1, <1>2, <1>5, <1>7
<1>9. k \in WindowDelay + 1 .. simTick[p] /\ simTick[p] - (k - 1) <= MaxPredicted
  BY <1>0, <1>1, <1>2, <1>5, <1>6
<1> QED  BY <1>8, <1>9 DEF p

\* A message that arrives and is newer than the last one of its sender.
LEMMA ReceiveInputWorld ==
    ASSUME DelayedWindow, SumInv, NEW m \in inputNet, SumReceiveInput(m), IsNewer(m)
    PROVE  /\ HeldSoFar' /\ SimulatedAsKnown' /\ ReplayIsAllowed'
           /\ \A a \in WindowPeers : ConfirmedInput(a) # NoInputYet =>
                 \/ contested'[a] \in {NoInputYet, contested[a]}
                 \/ contested'[a] \in Nat /\ ConfirmedInput(a) < contested'[a]
<1> DEFINE p == m.to
           q == m.from
           K == Contradicted(m)
           C == contested[p]
           R == EarlierTick(C, K)
<1>0. WindowDelay \in Nat /\ NoInputYet \notin Int /\ NoInputYet \notin Nat
  BY WindowAssumption
<1>1. /\ p \in WindowPeers /\ q \in WindowPeers /\ q # p
      /\ m.end \in WindowDelay + 1 .. simTick[q] + WindowDelay
      /\ simTick \in [WindowPeers -> Nat] /\ inputsHeld \in [WindowPeers -> [WindowPeers -> SUBSET Int]]
  BY DEF SumInv, WindowInv, PairTyped, SentSoFar
<1>2. /\ simTick' = simTick /\ played' = played /\ simulated' = simulated
      /\ inputsHeld' = [inputsHeld EXCEPT ![p][q] = @ \cup InputsOf(m)]
      /\ contested' = [contested EXCEPT ![p] = R]
  BY Zenon DEF SumReceiveInput, ReceiveInput
<1>3. DOMAIN contested = WindowPeers
  BY DEF SumInv, ReplayIsAllowed
<1>4. C \in Nat \cup {NoInputYet}
  <2>1. C # NoInputYet => C \in WindowDelay + 1 .. simTick[p]
    BY <1>1 DEF SumInv, ReplayIsAllowed
  <2> HIDE DEF C, p
  <2> QED  BY <1>0, <1>1, <2>1
<1>5. K \subseteq Nat /\ InputsOf(m) \subseteq WindowDelay + 1 .. m.end
  BY <1>0, <1>1 DEF Contradicted, InputsOf
<1>6. /\ R \in {C} \cup K
      /\ C # NoInputYet => R # NoInputYet /\ R <= C
      /\ \A k \in K : R # NoInputYet /\ R <= k
  BY <1>4, <1>5, EarliestIs
<1>7. ASSUME R # C
      PROVE  /\ R \in WindowDelay + 1 .. simTick[p] /\ simTick[p] - (R - 1) <= MaxPredicted
             /\ ConfirmedInput(p) # NoInputYet => ConfirmedInput(p) < R
  <2>1. R \in K /\ (C = NoInputYet \/ R < C)
    <3>1. R \in K /\ R \in Nat /\ (C = NoInputYet \/ R <= C)
      BY <1>5, <1>6, <1>7
    <3> HIDE DEF R, C, K
    <3> QED  BY <1>4, <1>7, <3>1
  <2> HIDE DEF R
  <2> QED  BY <2>1, NewlyContradicted
<1>8. K = {t \in InputsOf(m) : t <= simTick[p] /\ simulated[p][t][q] # played[q][t]}
  BY DEF Contradicted
<1> HIDE DEF p, q, K, C, R
<1>9. /\ contested'[p] = R /\ DOMAIN contested' = WindowPeers
      /\ \A a \in WindowPeers \ {p} : contested'[a] = contested[a]
  BY <1>1, <1>2, <1>3
<1>10. \A a, b \in WindowPeers : inputsHeld'[a][b] =
          IF a = p /\ b = q THEN inputsHeld[p][q] \cup InputsOf(m) ELSE inputsHeld[a][b]
  BY <1>1, <1>2
<1>11. HeldSoFar'
  <2>1. InputsOf(m) \subseteq WindowDelay + 1 .. simTick[q] + WindowDelay
    <3>1. simTick[q] \in Nat
      BY <1>1
    <3> QED  BY <1>0, <1>1, <1>5, <3>1
  <2> QED  BY <1>1, <1>2, <1>10, <2>1 DEF SumInv, HeldSoFar, Remotes
<1>12. ReplayIsAllowed'
  <2> SUFFICES ASSUME NEW a \in WindowPeers, contested'[a] # NoInputYet
               PROVE  /\ contested'[a] \in WindowDelay + 1 .. simTick[a]
                      /\ simTick[a] - (contested'[a] - 1) <= MaxPredicted
    BY <1>2, <1>9 DEF ReplayIsAllowed
  <2>1. CASE contested'[a] = contested[a]
    BY <2>1 DEF SumInv, ReplayIsAllowed
  <2>2. CASE contested'[a] # contested[a]
    <3>1. a = p /\ contested'[a] = R /\ R # C
      BY <1>9, <2>2 DEF C
    <3> QED  BY <1>7, <3>1
  <2> QED  BY <2>1, <2>2
<1>13. ASSUME NEW a \in WindowPeers, ConfirmedInput(a) # NoInputYet
       PROVE  \/ contested'[a] \in {NoInputYet, contested[a]}
              \/ contested'[a] \in Nat /\ ConfirmedInput(a) < contested'[a]
  <2>1. CASE contested'[a] # contested[a]
    <3>1. a = p /\ contested'[a] = R /\ R # C
      BY <1>9, <2>1 DEF C
    <3>2. R \in K
      BY <1>6, <3>1
    <3> QED  BY <1>5, <1>7, <1>13, <3>1, <3>2
  <2> QED  BY <2>1
<1>14. SimulatedAsKnown'
  <2> SUFFICES ASSUME NEW a \in WindowPeers
               PROVE  /\ DOMAIN simulated[a] = 1 .. simTick[a]
                      /\ \A i \in 1 .. simTick[a] :
                            /\ simulated[a][i] = [b \in WindowPeers |-> simulated[a][i][b]]
                            /\ (contested'[a] = NoInputYet \/ i < contested'[a]) =>
                                  \A b \in WindowPeers : Knows(a, b, i)' => simulated[a][i][b] = played[b][i]
    BY <1>2 DEF SumInv, SimulatedAsKnown
  <2>1. /\ DOMAIN simulated[a] = 1 .. simTick[a]
        /\ \A i \in 1 .. simTick[a] :
              /\ simulated[a][i] = [b \in WindowPeers |-> simulated[a][i][b]]
              /\ (contested[a] = NoInputYet \/ i < contested[a]) =>
                    \A b \in WindowPeers : Knows(a, b, i) => simulated[a][i][b] = played[b][i]
    BY DEF SumInv, SimulatedAsKnown
  <2>2. ASSUME NEW i \in 1 .. simTick[a], contested'[a] = NoInputYet \/ i < contested'[a],
               NEW b \in WindowPeers, Knows(a, b, i)'
        PROVE  simulated[a][i][b] = played[b][i]
    <3>1. i \in Nat
      BY <1>1
    <3>2. contested[a] = NoInputYet \/ i < contested[a]
      <4>1. CASE contested'[a] = contested[a]
        BY <2>2, <4>1
      <4>2. CASE contested'[a] # contested[a]
        <5>1. a = p /\ contested'[a] = R /\ contested[a] = C /\ R # C
          BY <1>9, <4>2 DEF C
        <5>2. R \in Nat
          BY <1>5, <1>6, <5>1
        <5> QED  BY <1>0, <1>4, <1>6, <2>2, <3>1, <5>1, <5>2
      <4> QED  BY <4>1, <4>2
    <3>3. CASE Knows(a, b, i)
      BY <2>1, <3>2, <3>3
    <3>4. CASE ~ Knows(a, b, i)
      <4>1. a = p /\ b = q /\ i \in InputsOf(m)
        BY <1>10, <2>2, <3>4 DEF Knows
      <4>2. CASE i \in K
        <5>1. contested'[p] # NoInputYet /\ contested'[p] <= i /\ contested'[p] \in Nat
          BY <1>0, <1>4, <1>5, <1>6, <1>9, <4>2
        <5> QED  BY <2>2, <3>1, <4>1, <5>1
      <4>3. CASE i \notin K
        <5>1. i <= simTick[p]
          BY <1>1, <4>1
        <5> QED  BY <1>8, <4>1, <4>3, <5>1
      <4> QED  BY <4>2, <4>3
    <3> QED  BY <3>3, <3>4
  <2> QED  BY <2>1, <2>2
<1> QED  BY <1>11, <1>12, <1>13, <1>14

-----------------------------------------------------------------------------
(* The theorem. *)

LEMMA WorldStays ==
    ASSUME SumInv, simTick' = simTick, inputsHeld' = inputsHeld,
           played' = played, simulated' = simulated, contested' = contested
    PROVE  PlayedSoFar' /\ PlayedGrows /\ HeldSoFar' /\ SimulatedAsKnown' /\ ReplayIsAllowed'
<1>1. PlayedSoFar' /\ HeldSoFar' /\ ReplayIsAllowed'
  BY DEF SumInv, PlayedSoFar, HeldSoFar, ReplayIsAllowed
<1>2. SimulatedAsKnown'
  <2>1. \A p, q, i : Knows(p, q, i)' = Knows(p, q, i)
    BY DEF Knows
  <2>2. /\ SimulatedAsKnown /\ simTick' = simTick /\ simulated' = simulated
        /\ contested' = contested /\ played' = played
    BY DEF SumInv
  <2> QED  BY ONLY <2>1, <2>2 DEF SimulatedAsKnown
<1>3. \A q \in WindowPeers : Len(played[q]) \in Nat
  BY DEF SumInv, PlayedSoFar
<1>4. PlayedGrows
  BY <1>3 DEF PlayedGrows
<1> QED  BY <1>1, <1>2, <1>4

LEMMA SumStepInv ==
    ASSUME DelayedWindow, SumInv, [SumNext]_<<sumVars, windowVars>>
    PROVE  SumInv'
<1>1. /\ WindowInv' /\ NoInputGap'
      /\ \A q \in WindowPeers : ConfirmedInput(q) # NoInputYet =>
            ConfirmedInput(q)' # NoInputYet /\ ConfirmedInput(q)' >= ConfirmedInput(q)
  BY WindowKept
<1>2. \A q \in WindowPeers : ConfirmedInput(q) # NoInputYet =>
         ConfirmedInput(q)' \in Nat /\ ConfirmedInput(q)' >= ConfirmedInput(q)
  BY <1>1, ConfirmedTypedNext
<1> SUFFICES /\ PlayedSoFar' /\ HeldSoFar' /\ SimulatedAsKnown' /\ ReplayIsAllowed'
             /\ SamplesSound'
  BY <1>1 DEF SumInv, SamplesSound
<1>3. ASSUME NEW p \in WindowPeers, NEW n \in 0 .. TicksPerFrame,
             NEW acts \in [1 .. n -> PeerActions[p]], SumFrame(p, n, acts)
      PROVE  /\ PlayedSoFar' /\ HeldSoFar' /\ SimulatedAsKnown' /\ ReplayIsAllowed'
             /\ SamplesSound'
  BY <1>3, FramePlays, FrameWorld, FrameSamples
<1>4. ASSUME NEW m \in inputNet, SumReceiveInput(m)
      PROVE  /\ PlayedSoFar' /\ HeldSoFar' /\ SimulatedAsKnown' /\ ReplayIsAllowed'
             /\ SamplesSound'
  <2>1. /\ UNCHANGED <<played, simulated, pending, sumNet, verdicts, twice>>
        /\ simTick' = simTick
        /\ ~ IsNewer(m) => contested' = contested /\ inputsHeld' = inputsHeld
    BY <1>4, Zenon DEF SumReceiveInput, ReceiveInput
  <2>2. PlayedSoFar' /\ PlayedGrows
    <3>1. PlayedSoFar'
      BY <2>1 DEF SumInv, PlayedSoFar
    <3>2. \A q \in WindowPeers : Len(played[q]) \in Nat
      BY DEF SumInv, PlayedSoFar
    <3> QED  BY <2>1, <3>1, <3>2 DEF PlayedGrows
  <2>3. /\ HeldSoFar' /\ SimulatedAsKnown' /\ ReplayIsAllowed'
        /\ \A a \in WindowPeers : ConfirmedInput(a) # NoInputYet =>
              \/ contested'[a] \in {NoInputYet, contested[a]}
              \/ contested'[a] \in Nat /\ ConfirmedInput(a) < contested'[a]
    <3>1. CASE IsNewer(m)
      BY <1>4, <3>1, ReceiveInputWorld
    <3>2. CASE ~ IsNewer(m)
      <4>1. /\ simTick' = simTick /\ inputsHeld' = inputsHeld /\ played' = played
            /\ simulated' = simulated /\ contested' = contested
        BY <2>1, <3>2
      <4>2. HeldSoFar' /\ SimulatedAsKnown' /\ ReplayIsAllowed'
        BY <4>1, WorldStays
      <4> QED  BY <4>1, <4>2
    <3> QED  BY <3>1, <3>2
  <2>4. /\ pending' = pending /\ verdicts' = verdicts /\ twice' = twice /\ sumNet' \subseteq sumNet
        /\ \A q \in WindowPeers : ConfirmedInput(q) # NoInputYet =>
              /\ ConfirmedInput(q)' \in Nat /\ ConfirmedInput(q)' >= ConfirmedInput(q)
              /\ \/ contested'[q] \in {NoInputYet, contested[q]}
                 \/ contested'[q] \in Nat /\ ConfirmedInput(q) < contested'[q]
    BY <1>2, <2>1, <2>3
  <2>5. SamplesSound'
    BY <2>2, <2>4, SamplesStay
  <2> QED  BY <2>2, <2>3, <2>5
<1>5. ASSUME NEW m \in sumNet, ReceiveChecksum(m)
      PROVE  /\ PlayedSoFar' /\ HeldSoFar' /\ SimulatedAsKnown' /\ ReplayIsAllowed'
             /\ SamplesSound'
  <2>1. /\ simTick' = simTick /\ inputsHeld' = inputsHeld /\ played' = played
        /\ simulated' = simulated /\ contested' = contested
    BY <1>5 DEF ReceiveChecksum, windowVars
  <2>2. PlayedSoFar' /\ PlayedGrows /\ HeldSoFar' /\ SimulatedAsKnown' /\ ReplayIsAllowed'
    BY <2>1, WorldStays
  <2>3. SamplesSound'
    BY <1>5, <2>2, ReceiveChecksumSamples
  <2> QED  BY <2>2, <2>3
<1>6. ASSUME /\ simTick' = simTick /\ inputsHeld' = inputsHeld /\ played' = played
             /\ simulated' = simulated /\ contested' = contested
             /\ pending' = pending /\ verdicts' = verdicts /\ twice' = twice /\ sumNet' \subseteq sumNet
      PROVE  /\ PlayedSoFar' /\ HeldSoFar' /\ SimulatedAsKnown' /\ ReplayIsAllowed'
             /\ SamplesSound'
  <2>1. PlayedSoFar' /\ PlayedGrows /\ HeldSoFar' /\ SimulatedAsKnown' /\ ReplayIsAllowed'
    BY <1>6, WorldStays
  <2>2. /\ pending' = pending /\ verdicts' = verdicts /\ twice' = twice /\ sumNet' \subseteq sumNet
        /\ \A q \in WindowPeers : ConfirmedInput(q) # NoInputYet =>
              /\ ConfirmedInput(q)' \in Nat /\ ConfirmedInput(q)' >= ConfirmedInput(q)
              /\ \/ contested'[q] \in {NoInputYet, contested[q]}
                 \/ contested'[q] \in Nat /\ ConfirmedInput(q) < contested'[q]
    BY <1>2, <1>6
  <2> QED  BY <2>1, <2>2, SamplesStay
<1>7. ASSUME NEW m \in inputNet, SumLoseInput(m)
      PROVE  /\ PlayedSoFar' /\ HeldSoFar' /\ SimulatedAsKnown' /\ ReplayIsAllowed'
             /\ SamplesSound'
  BY <1>6, <1>7 DEF SumLoseInput, LoseInputMessage, sumVars
<1>8. ASSUME NEW m \in sumNet, LoseChecksum(m)
      PROVE  /\ PlayedSoFar' /\ HeldSoFar' /\ SimulatedAsKnown' /\ ReplayIsAllowed'
             /\ SamplesSound'
  BY <1>6, <1>8 DEF LoseChecksum, windowVars
<1>9. ASSUME UNCHANGED <<sumVars, windowVars>>
      PROVE  /\ PlayedSoFar' /\ HeldSoFar' /\ SimulatedAsKnown' /\ ReplayIsAllowed'
             /\ SamplesSound'
  BY <1>6, <1>9 DEF sumVars, windowVars
<1> QED  BY <1>3, <1>4, <1>5, <1>7, <1>8, <1>9 DEF SumNext

LEMMA SumInitInv == SumInit => SumInv
<1> SUFFICES ASSUME SumInit PROVE SumInv
  OBVIOUS
<1>0. WindowDelay \in Nat
  BY WindowAssumption
<1>1. WindowInv /\ NoInputGap
  BY WindowInitInv DEF SumInit, WindowInit, NoInputGap, Remotes
<1>2. PlayedSoFar
  <2> DEFINE d == [t \in 1 .. WindowDelay |-> NoAction]
  <2>1. \A q \in WindowPeers : played[q] = d /\ simTick[q] = 0
    BY DEF SumInit, WindowInit
  <2>2. d \in Seq(Act) /\ Len(d) = WindowDelay
    BY <1>0 DEF Act
  <2>3. \A i \in 1 .. WindowDelay : d[i] = NoAction
    OBVIOUS
  <2>4. DOMAIN played = WindowPeers
    BY DEF SumInit
  <2> HIDE DEF d
  <2> QED  BY <1>0, <2>1, <2>2, <2>3, <2>4 DEF PlayedSoFar
<1>3. HeldSoFar /\ ReplayIsAllowed
  BY DEF SumInit, WindowInit, HeldSoFar, ReplayIsAllowed, Remotes
<1>4. SimulatedAsKnown
  <2>1. /\ DOMAIN simulated = WindowPeers
        /\ \A p \in WindowPeers : simTick[p] = 0 /\ simulated[p] = <<>>
    BY DEF SumInit, WindowInit
  <2>2. DOMAIN <<>> = {} /\ 1 .. 0 = {}
    OBVIOUS
  <2> QED  BY <2>1, <2>2 DEF SimulatedAsKnown
<1>5. DOMAIN pending = WindowPeers /\ \A p \in WindowPeers : DOMAIN pending[p] = {}
  <2>1. DOMAIN <<>> = {}
    OBVIOUS
  <2> QED  BY <2>1 DEF SumInit
<1>6. SumsAreTrue /\ HashedIsConfirmed /\ MeetingIsCompared
  BY <1>5 DEF SumInit, SumsAreTrue, HashedIsConfirmed, MeetingIsCompared
<1>7. VerdictsKnown /\ NoFalseAlarm /\ twice = FALSE
  BY DEF SumInit, VerdictsKnown, NoFalseAlarm
<1> QED  BY <1>1, <1>2, <1>3, <1>4, <1>6, <1>7 DEF SumInv

\* For every number of peers, window, delay, checksum history and channel that loses and
\* reorders: peers that simulate deterministically with delayed inputs never report each
\* other, two samples of a tick that meet are compared, once, and no replay goes back to
\* a tick whose checksum was sent (compute_and_send_checksum, record_local, record_remote).
THEOREM ChecksumsAgreeAlways ==
    ASSUME DelayedWindow
    PROVE  SumSpec => []ChecksumsAgree
<1>1. SumInv => ChecksumsAgree
  BY DEF SumInv, ChecksumsAgree, ComparedOnce, HashedIsFinal, HashedIsConfirmed
<1>2. SumInv /\ [SumNext]_<<sumVars, windowVars>> => SumInv'
  BY SumStepInv
<1> QED  BY <1>1, <1>2, SumInitInv, PTL DEF SumSpec

-----------------------------------------------------------------------------
(* Catch-up of a late joiner.  Whoever is told that its catch-up is over, or    *)
(* where its snapshot is, was given HasCaughtUp before; what is under way, what *)
(* the server notes and what the client holds of the entities end with its      *)
(* connection, and its manager is made anew with the next one.                  *)

Managers == [completed : BOOLEAN, pending : Int \cup {NoTick}, sent : Int,
             sentAt : Int \cup {NoTick}, suppress : BOOLEAN,
             activated : Int \cup {NoTick}, panicked : BOOLEAN]
Holdings == [known : BOOLEAN, marker : BOOLEAN, state : SUBSET Int]

\* A client that goes on has not exceeded its requests (JoinTypeOK).
Counted(m) == m.sent \in 0 .. (IF m.panicked THEN MaxRequests + 1 ELSE MaxRequests)

\* What a CatchUpManager, a Link's metadata and the notes of a client may hold.
JoinShape ==
    /\ joined \in [Joiners -> BOOLEAN] /\ caughtUp \in [Joiners -> BOOLEAN]
    /\ meta \in [Joiners -> {NoTick} \cup [safe : Int \cup {NoTick}, ready : {NoTick, NotRequired}]]
    /\ requests \in [Joiners -> SUBSET Int]
    /\ readyNet \in [Joiners -> SUBSET (Int \cup {NotRequired})]
    /\ stateNet \in [Joiners -> SUBSET Int]
    /\ manager \in [Joiners -> Managers]
    /\ held \in [Joiners -> Holdings]
    /\ safe \in [Joiners -> Int \cup {NoTick}]

\* Nothing is kept on the server of a client that is gone, nor by the client of the
\* entities; its manager is made anew when it connects.
GoneIsForgotten(c) ==
    ~ joined[c] => /\ ~ caughtUp[c] /\ meta[c] = NoTick /\ requests[c] = {} /\ readyNet[c] = {}
                   /\ held[c] = NothingHeld

\* Whoever is told, or is to be told, that its catch-up is over or where its snapshot
\* is, has been given HasCaughtUp before.
ToldIsCaughtUp(c) ==
    /\ ReadyToTell(c) \/ readyNet[c] # {} => caughtUp[c]
    /\ joined[c] /\ (manager[c].completed \/ manager[c].pending # NoTick) => caughtUp[c]

\* The inductive invariant of the catch-up.
JoinInv ==
    /\ JoinShape /\ CatchUpIsHonest
    /\ \A c \in Joiners : GoneIsForgotten(c) /\ ToldIsCaughtUp(c)

\* A new manager, and a client that holds nothing.
LEMMA NewAreTyped == NewManager \in Managers /\ Counted(NewManager) /\ NothingHeld \in Holdings
BY JoinAssumption DEF NewManager, NothingHeld, Managers, Holdings, Counted

\* At first nobody is connected.
LEMMA JoinInitInv == JoinInit => JoinInv
<1> SUFFICES ASSUME JoinInit PROVE JoinInv
  OBVIOUS
<1> USE JoinAssumption DEF JoinInit
<1>1. JoinShape
  BY NewAreTyped DEF JoinShape
<1>2. JoinTypeOK
  <2>1. serverTick \in 0 .. MaxJoinTick /\ gated \in {"none", "prespawned", "spawned"}
    OBVIOUS
  <2>2. {revealed} \subseteq BOOLEAN /\ joined \in [Joiners -> BOOLEAN]
    OBVIOUS
  <2>3. caughtUp \in [Joiners -> BOOLEAN] /\ joins \in 0 .. MaxJoins
    OBVIOUS
  <2>4. \A c \in Joiners : Counted(manager[c])
    BY NewAreTyped
  <2> QED  BY <2>1, <2>2, <2>3, <2>4 DEF JoinTypeOK, Counted
<1>3. \A c \in Joiners : GoneIsForgotten(c) /\ ToldIsCaughtUp(c)
  BY DEF GoneIsForgotten, ToldIsCaughtUp, ReadyToTell, NewManager, NothingHeld
<1> QED  BY <1>1, <1>2, <1>3 DEF JoinInv, CatchUpIsHonest, NoneAdrift, ActivatedOnSnapshot, HonestChecksums

\* A client connects: what it is told is what the server has noted.
LEMMA JoinConnectKeeps ==
    ASSUME ~ KeepsEntity, JoinInv, NEW c \in Joiners, JoinConnect(c)
    PROVE  JoinInv'
<1> USE JoinAssumption DEF JoinInv
<1>1. /\ manager' = [manager EXCEPT ![c] = NewManager]
      /\ held' = held /\ requests' = requests /\ readyNet' = readyNet /\ stateNet' = stateNet
      /\ gated' = gated /\ serverTick' = serverTick
      /\ joined' = [joined EXCEPT ![c] = TRUE] /\ ~ joined[c]
      /\ joins < MaxJoins /\ joins' = joins + 1 /\ safe' = [d \in Joiners |-> NoTick]
  BY DEF JoinConnect
<1>2. \/ meta' = meta /\ caughtUp' = caughtUp /\ revealed' = revealed
      \/ /\ meta' = [meta EXCEPT ![c] = [safe |-> 0, ready |-> NoTick]]
         /\ caughtUp' = caughtUp /\ revealed' = revealed
      \/ /\ meta' = [meta EXCEPT ![c] = [safe |-> NoTick, ready |-> NotRequired]]
         /\ caughtUp' = [caughtUp EXCEPT ![c] = TRUE] /\ revealed' = TRUE
  BY DEF JoinConnect, MarkOnConnect
<1>3. JoinShape'
  <2>1. manager' \in [Joiners -> Managers]
    BY <1>1, NewAreTyped DEF JoinShape
  <2>2. meta' \in [Joiners -> {NoTick} \cup [safe : Int \cup {NoTick}, ready : {NoTick, NotRequired}]]
    BY <1>1, <1>2 DEF JoinShape
  <2>3. joined' \in [Joiners -> BOOLEAN] /\ caughtUp' \in [Joiners -> BOOLEAN]
    BY <1>1, <1>2 DEF JoinShape
  <2>4. safe' \in [Joiners -> Int \cup {NoTick}]
    BY <1>1
  <2> QED  BY <1>1, <2>1, <2>2, <2>3, <2>4 DEF JoinShape
<1>4. JoinTypeOK'
  <2>1. serverTick' \in 0 .. MaxJoinTick /\ gated' \in {"none", "prespawned", "spawned"}
    BY <1>1 DEF CatchUpIsHonest, JoinTypeOK
  <2>2. {revealed'} \subseteq BOOLEAN /\ joined' \in [Joiners -> BOOLEAN]
    BY <1>1, <1>2, <1>3 DEF CatchUpIsHonest, JoinTypeOK, JoinShape
  <2>3. caughtUp' \in [Joiners -> BOOLEAN] /\ joins' \in 0 .. MaxJoins
    BY <1>1, <1>3 DEF CatchUpIsHonest, JoinTypeOK, JoinShape
  <2>4. \A d \in Joiners : Counted(manager'[d])
    BY <1>1, NewAreTyped DEF JoinShape, CatchUpIsHonest, JoinTypeOK, Counted
  <2> QED  BY <2>1, <2>2, <2>3, <2>4 DEF JoinTypeOK, Counted
<1>5. ASSUME NEW d \in Joiners
      PROVE  /\ GoneIsForgotten(d)' /\ ToldIsCaughtUp(d)'
             /\ (joined[d] /\ manager[d].activated # NoTick => manager[d].activated \in held[d].state)'
             /\ (joined[d] /\ held[d].known /\ ~ manager[d].suppress => caughtUp[d])'
  BY <1>1, <1>2, <1>5 DEF JoinShape, NewManager, GoneIsForgotten, ToldIsCaughtUp, ReadyToTell,
     CatchUpIsHonest, ActivatedOnSnapshot, HonestChecksums, NothingHeld
<1> QED  BY <1>3, <1>4, <1>5 DEF CatchUpIsHonest, ActivatedOnSnapshot, HonestChecksums, NoneAdrift, ToldIsCaughtUp

\* A client goes, and everything about it with it.
LEMMA JoinDisconnectKeeps ==
    ASSUME JoinInv, NEW c \in Joiners, JoinDisconnect(c)
    PROVE  JoinInv'
<1> USE JoinAssumption DEF JoinInv
<1>1. JoinShape' /\ JoinTypeOK'
  <2>1. held' \in [Joiners -> Holdings]
    BY NewAreTyped DEF JoinDisconnect, JoinShape
  <2>2. safe' \in [Joiners -> Int \cup {NoTick}]
    BY DEF JoinDisconnect, JoinShape
  <2>3. /\ joined' \in [Joiners -> BOOLEAN] /\ caughtUp' \in [Joiners -> BOOLEAN]
        /\ meta' \in [Joiners -> {NoTick} \cup [safe : Int \cup {NoTick}, ready : {NoTick, NotRequired}]]
    BY DEF JoinDisconnect, JoinShape
  <2>4. JoinShape'
    BY <2>1, <2>2, <2>3 DEF JoinDisconnect, JoinShape
  <2>5. {revealed'} \subseteq BOOLEAN
    BY DEF JoinDisconnect
  <2> QED  BY <2>3, <2>4, <2>5 DEF JoinDisconnect, JoinTypeOK, CatchUpIsHonest
<1>2. ASSUME NEW d \in Joiners
      PROVE  /\ GoneIsForgotten(d)' /\ ToldIsCaughtUp(d)'
             /\ (joined[d] /\ manager[d].activated # NoTick => manager[d].activated \in held[d].state)'
             /\ (joined[d] /\ held[d].known /\ ~ manager[d].suppress => caughtUp[d])'
  BY <1>2 DEF JoinDisconnect, JoinShape, GoneIsForgotten, ToldIsCaughtUp, ReadyToTell,
     CatchUpIsHonest, ActivatedOnSnapshot, HonestChecksums, NothingHeld
<1> QED  BY <1>1, <1>2 DEF CatchUpIsHonest, ActivatedOnSnapshot, HonestChecksums, NoneAdrift, ToldIsCaughtUp

\* A frame of the server: what it sends to a client it has caught up.
LEMMA ServerFrameKeeps ==
    ASSUME JoinInv, ServerFrame
    PROVE  JoinInv'
<1> USE JoinAssumption DEF JoinInv
<1> DEFINE Taken == {c \in Joiners : Acceptable(c, serverTick + 1)}
<1>1. /\ serverTick' = serverTick + 1 /\ serverTick < MaxJoinTick
      /\ caughtUp' = [c \in Joiners |-> caughtUp[c] \/ c \in Taken]
      /\ revealed' = (revealed \/ Taken # {})
      /\ stateNet' = [c \in Joiners |->
                        stateNet[c] \cup (IF HasAnyGated /\ (c \in Taken \/ (caughtUp[c] /\ NotSentTo(c)))
                                          THEN {serverTick + 1} ELSE {})]
      /\ readyNet' = [c \in Joiners |->
                        readyNet[c] \cup (IF c \in Taken THEN {serverTick + 1}
                                          ELSE IF ReadyToTell(c) THEN {meta[c].ready} ELSE {})]
      /\ meta' = [c \in Joiners |-> IF c \in Taken \/ ReadyToTell(c) THEN NoTick ELSE meta[c]]
      /\ UNCHANGED <<gated, joins, joined, requests, manager, held, safe>>
  BY DEF ServerFrame
<1>2. \A c \in Taken : meta[c] # NoTick /\ joined[c]
  BY DEF Acceptable, GoneIsForgotten, JoinShape
<1>3. serverTick \in Int /\ \A c \in Joiners : ReadyToTell(c) => meta[c].ready \in {NotRequired} /\ caughtUp[c]
  BY DEF JoinShape, ToldIsCaughtUp, ReadyToTell, CatchUpIsHonest, JoinTypeOK
<1> HIDE DEF Taken
<1>4. JoinShape'
  <2>1. caughtUp' \in [Joiners -> BOOLEAN]
    BY <1>1 DEF JoinShape
  <2>2. stateNet' \in [Joiners -> SUBSET Int]
    BY <1>1, <1>3 DEF JoinShape
  <2>3. readyNet' \in [Joiners -> SUBSET (Int \cup {NotRequired})]
    BY <1>1, <1>3 DEF JoinShape
  <2>4. meta' \in [Joiners -> {NoTick} \cup [safe : Int \cup {NoTick}, ready : {NoTick, NotRequired}]]
    BY <1>1 DEF JoinShape
  <2> QED  BY <2>1, <2>2, <2>3, <2>4, <1>1 DEF JoinShape
<1>5. JoinTypeOK'
  BY <1>1, <1>4 DEF JoinShape, JoinTypeOK, CatchUpIsHonest
<1>6. ASSUME NEW d \in Joiners
      PROVE  /\ GoneIsForgotten(d)' /\ ToldIsCaughtUp(d)'
             /\ (joined[d] /\ manager[d].activated # NoTick => manager[d].activated \in held[d].state)'
             /\ (joined[d] /\ held[d].known /\ ~ manager[d].suppress => caughtUp[d])'
  BY <1>1, <1>2, <1>3, <1>6 DEF JoinShape, GoneIsForgotten, ToldIsCaughtUp, ReadyToTell,
     CatchUpIsHonest, ActivatedOnSnapshot, HonestChecksums, NothingHeld
<1> QED  BY <1>4, <1>5, <1>6 DEF CatchUpIsHonest, ActivatedOnSnapshot, HonestChecksums, NoneAdrift, ToldIsCaughtUp

\* The fields of a manager, one at a time.
LEMMA ManagerFields ==
    ASSUME NEW m \in Managers
    PROVE  /\ \A x \in Int : [m EXCEPT !.sent = x] \in Managers
           /\ \A x \in Int \cup {NoTick} : /\ [m EXCEPT !.sentAt = x] \in Managers
                                           /\ [m EXCEPT !.pending = x] \in Managers
                                           /\ [m EXCEPT !.activated = x] \in Managers
           /\ \A x \in BOOLEAN : /\ [m EXCEPT !.completed = x] \in Managers
                                 /\ [m EXCEPT !.suppress = x] \in Managers
                                 /\ [m EXCEPT !.panicked = x] \in Managers
BY DEF Managers

\* complete_catch_up
LEMMA CompletedIs ==
    ASSUME NEW m \in Managers
    PROVE  /\ Completed(m) \in Managers /\ Completed(m).completed = TRUE /\ Completed(m).sent = 0
           /\ Completed(m).pending = NoTick /\ Completed(m).activated = m.activated
           /\ Completed(m).panicked = m.panicked
<1>1. [m EXCEPT !.completed = TRUE, !.pending = NoTick] \in Managers
  <2>1. [m EXCEPT !.completed = TRUE] \in Managers
    BY ManagerFields
  <2> QED  BY <2>1, ManagerFields
<1>2. [m EXCEPT !.completed = TRUE, !.pending = NoTick, !.sent = 0] \in Managers
  <2>1. 0 \in Int
    OBVIOUS
  <2> QED  BY <1>1, <2>1, ManagerFields, Zenon
<1>3. [m EXCEPT !.completed = TRUE, !.pending = NoTick, !.sent = 0, !.sentAt = NoTick] \in Managers
  BY <1>2, ManagerFields
<1>4. Completed(m) \in Managers
  BY <1>3, ManagerFields DEF Completed
<1> QED  BY <1>4 DEF Completed, Managers

\* A step of one client: what its manager and what it holds become, and what is under way.
LEMMA ClientStep ==
    ASSUME JoinInv, NEW c \in Joiners, joined[c],
           UNCHANGED serverVars,
           NEW m \in Managers, Counted(m), manager' = [manager EXCEPT ![c] = m],
           NEW h \in Holdings, held' = [held EXCEPT ![c] = h],
           requests' \in [Joiners -> SUBSET Int], stateNet' \in [Joiners -> SUBSET Int],
           readyNet' \in [Joiners -> SUBSET (Int \cup {NotRequired})],
           safe' \in [Joiners -> Int \cup {NoTick}],
           \A d \in Joiners : /\ d # c => requests'[d] = requests[d]
                              /\ readyNet'[d] \subseteq readyNet[d],
           m.completed \/ m.pending # NoTick => caughtUp[c],
           m.activated # NoTick => m.activated \in h.state,
           h.known /\ ~ m.suppress => caughtUp[c]
    PROVE  JoinInv'
<1> USE DEF JoinInv
<1>1. JoinShape /\ JoinTypeOK
  BY DEF CatchUpIsHonest
<1>2. JoinShape'
  BY <1>1 DEF serverVars, JoinShape
<1>3. JoinTypeOK'
  <2>1. \A d \in Joiners : Counted(manager'[d])
    BY <1>1 DEF JoinShape, JoinTypeOK, Counted
  <2> QED  BY <1>1, <2>1 DEF serverVars, JoinTypeOK, Counted
<1>4. ASSUME NEW d \in Joiners
      PROVE  /\ GoneIsForgotten(d)' /\ ToldIsCaughtUp(d)'
             /\ (joined[d] /\ manager[d].activated # NoTick => manager[d].activated \in held[d].state)'
             /\ (joined[d] /\ held[d].known /\ ~ manager[d].suppress => caughtUp[d])'
  <2>1. CASE d = c
    BY <1>1, <1>4, <2>1 DEF serverVars, JoinShape, GoneIsForgotten, ToldIsCaughtUp, ReadyToTell
  <2>2. CASE d # c
    <3>1. manager'[d] = manager[d] /\ held'[d] = held[d] /\ requests'[d] = requests[d]
      BY <1>1, <2>2 DEF JoinShape
    <3> QED  BY <1>1, <1>4, <3>1 DEF serverVars, GoneIsForgotten, ToldIsCaughtUp, ReadyToTell,
                CatchUpIsHonest, ActivatedOnSnapshot, HonestChecksums
  <2> QED  BY <2>1, <2>2
<1> QED  BY <1>2, <1>3, <1>4 DEF CatchUpIsHonest, ActivatedOnSnapshot, HonestChecksums, NoneAdrift, ToldIsCaughtUp

\* What ClientStep asks of a manager and what is held, of those of before.
LEMMA ClientIsTyped ==
    ASSUME JoinInv, NEW c \in Joiners
    PROVE  /\ manager[c] \in Managers /\ Counted(manager[c]) /\ held[c] \in Holdings
           /\ manager = [manager EXCEPT ![c] = manager[c]] /\ held = [held EXCEPT ![c] = held[c]]
           /\ requests \in [Joiners -> SUBSET Int] /\ stateNet \in [Joiners -> SUBSET Int]
           /\ readyNet \in [Joiners -> SUBSET (Int \cup {NotRequired})]
           /\ safe \in [Joiners -> Int \cup {NoTick}]
           /\ joined[c] => /\ manager[c].completed \/ manager[c].pending # NoTick => caughtUp[c]
                           /\ manager[c].activated # NoTick => manager[c].activated \in held[c].state
                           /\ held[c].known /\ ~ manager[c].suppress => caughtUp[c]
BY DEF JoinInv, JoinShape, CatchUpIsHonest, JoinTypeOK, ActivatedOnSnapshot, HonestChecksums,
   ToldIsCaughtUp, Counted

\* on_receive_catchup_gated: a client whose catch-up is not over stops its checksums.
LEMMA ReceiveGatedKeeps ==
    ASSUME JoinInv, NEW c \in Joiners, ReceiveGated(c)
    PROVE  JoinInv'
<1>1. joined[c] /\ UNCHANGED <<serverVars, requests, readyNet, stateNet, safe>>
  BY DEF ReceiveGated, Running
<1>2. /\ held' = [held EXCEPT ![c] = held'[c]]
      /\ held'[c] = [held[c] EXCEPT !.known = TRUE, !.marker = ~ manager[c].completed]
      /\ manager' = [manager EXCEPT ![c] = manager'[c]]
      /\ manager'[c] = [manager[c] EXCEPT !.suppress = @ \/ ~ manager[c].completed]
  BY ClientIsTyped DEF ReceiveGated, JoinInv, JoinShape
<1>3. manager' = [manager EXCEPT ![c] = manager'[c]] /\ held' = [held EXCEPT ![c] = held'[c]]
  BY <1>2
<1>4. /\ manager'[c] \in Managers /\ held'[c] \in Holdings
      /\ held'[c].state = held[c].state
      /\ manager'[c].completed = manager[c].completed /\ manager'[c].pending = manager[c].pending
      /\ manager'[c].sent = manager[c].sent /\ manager'[c].panicked = manager[c].panicked
      /\ manager'[c].activated = manager[c].activated
      /\ manager'[c].suppress \/ manager[c].completed
  <2>1. manager[c] \in Managers /\ held[c] \in Holdings
    BY ClientIsTyped
  <2>2. [held[c] EXCEPT !.known = TRUE] \in Holdings
    BY <2>1 DEF Holdings
  <2>3. held'[c] \in Holdings /\ held'[c].state = held[c].state
    BY <1>2, <2>1, <2>2 DEF Managers, Holdings
  <2> QED  BY <1>2, <2>1, <2>3 DEF Managers
<1>5. Counted(manager'[c])
  BY <1>4, ClientIsTyped DEF Counted
<1> QED  BY <1>1, <1>4, <1>5, <1>3, ClientIsTyped, ClientStep

\* Inputs of the others arrive.
LEMMA ReceiveInputsKeeps ==
    ASSUME JoinInv, NEW c \in Joiners, ReceiveInputs(c)
    PROVE  JoinInv'
<1>1. /\ joined[c] /\ UNCHANGED <<serverVars, requests, readyNet, stateNet, manager, held>>
      /\ safe' \in [Joiners -> Int \cup {NoTick}]
  BY DEF ReceiveInputs, Running, JoinInv, JoinShape
<1> QED  BY <1>1, ClientIsTyped, ClientStep

\* State of the gated entities arrives: what was activated is still held.
LEMMA ReceiveStateKeeps ==
    ASSUME JoinInv, NEW c \in Joiners, NEW tick \in stateNet[c], ReceiveState(c, tick)
    PROVE  JoinInv'
<1>1. /\ joined[c] /\ UNCHANGED <<serverVars, requests, readyNet, manager, safe>>
      /\ stateNet' \in [Joiners -> SUBSET Int] /\ tick \in Int
  BY DEF ReceiveState, Running, JoinInv, JoinShape
<1>2. /\ held' = [held EXCEPT ![c] = held'[c]]
      /\ held'[c] = [held[c] EXCEPT !.state = @ \cup {tick}]
  BY DEF ReceiveState, JoinInv, JoinShape
<1>3. held'[c] \in Holdings /\ held'[c].known = held[c].known /\ held[c].state \subseteq held'[c].state
  BY <1>1, <1>2, ClientIsTyped DEF Holdings
<1>4. held' = [held EXCEPT ![c] = held'[c]]
  BY <1>2
<1> QED  BY <1>1, <1>3, <1>4, ClientIsTyped, ClientStep

\* send_catchup_request below its limit
LEMMA SendRequestKeeps ==
    ASSUME JoinInv, NEW c \in Joiners, SendRequest(c)
    PROVE  JoinInv'
<1>1. /\ joined[c] /\ UNCHANGED <<serverVars, readyNet, stateNet, held, safe>>
      /\ ~ manager[c].panicked /\ manager[c].sent < MaxRequests /\ safe[c] # NoTick
      /\ requests' = [requests EXCEPT ![c] = @ \cup {safe[c]}]
  BY DEF SendRequest, MayRequest, CatchingUp, Running
<1>2. /\ manager' = [manager EXCEPT ![c] = manager'[c]]
      /\ manager'[c] = [manager[c] EXCEPT !.sent = @ + 1, !.sentAt = Now, !.suppress = TRUE]
  BY DEF SendRequest, JoinInv, JoinShape
<1>3. Now \in Int
  BY JoinAssumption DEF Now, JoinInv, CatchUpIsHonest, JoinTypeOK
<1>4. manager[c] \in Managers /\ manager[c].sent \in Nat /\ manager[c].sent + 1 \in Int
  BY <1>1, ClientIsTyped, JoinAssumption DEF Counted
<1>5. manager'[c] \in Managers
  <2>1. [manager[c] EXCEPT !.sent = @ + 1] \in Managers
    BY <1>4, ManagerFields
  <2>2. [manager[c] EXCEPT !.sent = @ + 1, !.sentAt = Now] \in Managers
    BY <1>3, <2>1, ManagerFields
  <2> QED  BY <1>2, <2>2, ManagerFields
<1>6. /\ manager'[c].completed = manager[c].completed /\ manager'[c].pending = manager[c].pending
      /\ manager'[c].activated = manager[c].activated /\ manager'[c].suppress
      /\ manager'[c].panicked = manager[c].panicked /\ manager'[c].sent = manager[c].sent + 1
  BY <1>2, <1>4 DEF Managers
<1>7. Counted(manager'[c])
  BY <1>1, <1>4, <1>6, JoinAssumption DEF Counted
<1>8. requests' \in [Joiners -> SUBSET Int] /\ \A d \in Joiners \ {c} : requests'[d] = requests[d]
  BY <1>1, ClientIsTyped
<1>9. manager' = [manager EXCEPT ![c] = manager'[c]]
  BY <1>2
<1> QED  BY <1>1, <1>5, <1>6, <1>7, <1>8, <1>9, ClientIsTyped, ClientStep

\* At the limit the client counts once more and stops.
LEMMA PanicOnRequestKeeps ==
    ASSUME JoinInv, NEW c \in Joiners, PanicOnRequest(c)
    PROVE  JoinInv'
<1>1. /\ joined[c] /\ UNCHANGED <<serverVars, requests, readyNet, stateNet, held, safe>>
      /\ manager[c].sent = MaxRequests
  BY DEF PanicOnRequest, MayRequest, CatchingUp, Running
<1>2. /\ manager' = [manager EXCEPT ![c] = manager'[c]]
      /\ manager'[c] = [manager[c] EXCEPT !.sent = @ + 1, !.panicked = TRUE]
  BY DEF PanicOnRequest, JoinInv, JoinShape
<1>3. manager[c] \in Managers /\ manager[c].sent \in Nat /\ manager[c].sent + 1 \in Int
  BY <1>1, ClientIsTyped, JoinAssumption
<1>4. manager'[c] \in Managers
  <2>1. [manager[c] EXCEPT !.sent = @ + 1] \in Managers
    BY <1>3, ManagerFields
  <2> QED  BY <1>2, <2>1, ManagerFields
<1>5. /\ manager'[c].completed = manager[c].completed /\ manager'[c].pending = manager[c].pending
      /\ manager'[c].activated = manager[c].activated /\ manager'[c].suppress = manager[c].suppress
      /\ manager'[c].panicked /\ manager'[c].sent = manager[c].sent + 1
  BY <1>2, <1>3 DEF Managers
<1>6. Counted(manager'[c])
  BY <1>1, <1>3, <1>5, JoinAssumption DEF Counted
<1>7. manager' = [manager EXCEPT ![c] = manager'[c]]
  BY <1>2
<1> QED  BY <1>1, <1>4, <1>5, <1>6, <1>7, ClientIsTyped, ClientStep

\* trigger_snapshot_rollback: an event was read, so the client is caught up.
LEMMA ActivateKeeps ==
    ASSUME JoinInv, NEW c \in Joiners, Activate(c)
    PROVE  JoinInv'
<1> DEFINE tick == manager[c].pending
<1>1. /\ joined[c] /\ UNCHANGED <<serverVars, requests, readyNet, stateNet, safe>>
      /\ tick # NoTick /\ tick \in held[c].state
      /\ manager' = [manager EXCEPT ![c] = [Completed(@) EXCEPT !.activated = tick]]
      /\ held' = [held EXCEPT ![c] = Ungated(@)]
  BY DEF Activate, CatchingUp, Running, Confirmed
<1>2. manager[c] \in Managers /\ Counted(manager[c]) /\ held[c] \in Holdings /\ caughtUp[c]
  BY <1>1, ClientIsTyped
<1>3. tick \in Int \cup {NoTick}
  BY <1>2 DEF Managers
<1> HIDE DEF tick
<1>4. PICK m : m = [Completed(manager[c]) EXCEPT !.activated = tick]
  OBVIOUS
<1> DEFINE n == Completed(manager[c])
<1>5. n \in Managers /\ n.sent = 0 /\ m = [n EXCEPT !.activated = tick]
  BY <1>2, <1>4, CompletedIs
<1> HIDE DEF n
<1>6. PICK h : h = Ungated(held[c])
  OBVIOUS
<1>7. /\ m \in Managers /\ m.activated = tick /\ m.sent = 0
  BY <1>3, <1>5, ManagerFields DEF Managers
<1>8. Counted(m)
  BY <1>7, JoinAssumption DEF Counted
<1>9. h \in Holdings /\ h.state = held[c].state
  BY <1>2, <1>6 DEF Ungated, Holdings
<1>10. manager' = [manager EXCEPT ![c] = m] /\ held' = [held EXCEPT ![c] = h]
  BY <1>1, <1>4, <1>6
<1> QED  BY <1>1, <1>2, <1>7, <1>8, <1>9, <1>10, ClientIsTyped, ClientStep

\* receive_catch_up_snapshot_ready
LEMMA ReceiveReadyKeeps ==
    ASSUME JoinInv, NEW c \in Joiners, NEW event \in readyNet[c], ReceiveReady(c, event)
    PROVE  JoinInv'
<1>1. /\ joined[c] /\ caughtUp[c] /\ event \in Int \cup {NotRequired}
      /\ readyNet' = [readyNet EXCEPT ![c] = @ \ {event}]
      /\ UNCHANGED <<serverVars, requests, stateNet, safe>>
  BY DEF ReceiveReady, Running, JoinInv, JoinShape, ToldIsCaughtUp
<1>2. /\ readyNet' \in [Joiners -> SUBSET (Int \cup {NotRequired})]
      /\ \A d \in Joiners : readyNet'[d] \subseteq readyNet[d]
  BY <1>1, ClientIsTyped
<1>3. CASE manager' = manager /\ held' = held
  BY <1>1, <1>2, <1>3, ClientIsTyped, ClientStep
<1>4. CASE /\ manager' = [manager EXCEPT ![c] = Completed(@)]
           /\ held' = [held EXCEPT ![c] = Ungated(@)]
  <2>1. PICK m : m = Completed(manager[c])
    OBVIOUS
  <2>2. PICK h : h = Ungated(held[c])
    OBVIOUS
  <2>3. m \in Managers /\ m.sent = 0 /\ m.activated = manager[c].activated
    BY <2>1, CompletedIs, ClientIsTyped
  <2>4. Counted(m)
    BY <2>3, JoinAssumption DEF Counted
  <2>5. h \in Holdings /\ h.state = held[c].state
    BY <2>2, ClientIsTyped DEF Ungated, Holdings
  <2>6. manager' = [manager EXCEPT ![c] = m] /\ held' = [held EXCEPT ![c] = h]
    BY <1>4, <2>1, <2>2
  <2> QED  BY <1>1, <1>2, <2>3, <2>4, <2>5, <2>6, ClientIsTyped, ClientStep
<1>5. CASE ~ manager[c].completed /\ event # NotRequired
  <2>1. PICK tick : tick = IF manager[c].pending = NoTick THEN event ELSE Later(manager[c].pending, event)
    OBVIOUS
  <2>2. manager[c] \in Managers
    BY ClientIsTyped
  <2>3. tick \in Int \cup {NoTick}
    BY <1>1, <1>5, <2>1, <2>2 DEF Later, Managers
  <2>4. /\ manager' = [manager EXCEPT ![c] = manager'[c]]
        /\ manager'[c] = [manager[c] EXCEPT !.pending = tick] /\ held' = held
    BY <1>5, <2>1 DEF ReceiveReady, JoinInv, JoinShape
  <2>5. manager'[c] \in Managers
    BY SMT, ZenonT(60), <2>2, <2>3, <2>4, ManagerFields
  <2>6. /\ manager'[c].sent = manager[c].sent /\ manager'[c].panicked = manager[c].panicked
        /\ manager'[c].activated = manager[c].activated
    BY <2>2, <2>4 DEF Managers
  <2>7. Counted(manager'[c])
    BY <2>6, ClientIsTyped DEF Counted
  <2>8. manager' = [manager EXCEPT ![c] = manager'[c]] /\ held' = held
    BY <2>4
  <2>9. manager'[c].activated # NoTick => manager'[c].activated \in held[c].state
    BY <1>1, <2>6, ClientIsTyped
  <2>10. held[c].known /\ ~ manager'[c].suppress => caughtUp[c]
    BY <1>1
  <2> QED  BY <1>1, <1>2, <2>5, <2>7, <2>8, <2>9, <2>10, ClientIsTyped, ClientStep
<1> QED  BY <1>3, <1>4, <1>5 DEF ReceiveReady

\* buffer_catch_up_requests: only for a client that is there and not caught up.
LEMMA BufferRequestKeeps ==
    ASSUME JoinInv, NEW c \in Joiners, NEW tick \in requests[c], BufferRequest(c, tick)
    PROVE  JoinInv'
<1>0. JoinTypeOK /\ JoinShape
  BY DEF JoinInv, CatchUpIsHonest
<1>1. /\ joined[c] /\ tick \in Int
      /\ UNCHANGED <<serverTick, gated, revealed, caughtUp, joins, joined, readyNet, stateNet,
                     manager, held, safe>>
      /\ requests' = [requests EXCEPT ![c] = @ \ {tick}]
  BY <1>0 DEF JoinInv, BufferRequest, GoneIsForgotten, JoinShape
<1>2. \/ meta' = meta
      \/ \E low \in Int \cup {NoTick}, ready \in {NoTick, NotRequired} :
            /\ meta' = [meta EXCEPT ![c] = [safe |-> low, ready |-> ready]]
            /\ ready # NoTick => ReadyToTell(c)
  <2>1. CASE caughtUp[c]
    BY <2>1 DEF BufferRequest
  <2>2. CASE ~ caughtUp[c] /\ meta[c] = NoTick
    BY <1>1, <2>2 DEF BufferRequest
  <2>3. CASE ~ caughtUp[c] /\ meta[c] # NoTick
    <3>1. PICK low : low = Later(meta[c].safe, tick)
      OBVIOUS
    <3>2. /\ meta' = [meta EXCEPT ![c] = meta'[c]] /\ meta'[c] = [meta[c] EXCEPT !.safe = low]
      BY <1>0, <2>3, <3>1 DEF BufferRequest, JoinShape
    <3>3. meta[c] \in [safe : Int \cup {NoTick}, ready : {NoTick, NotRequired}]
      BY <1>0, <2>3 DEF JoinShape
    <3>4. low \in Int \cup {NoTick}
      BY <1>1, <3>1, <3>3 DEF Later
    <3>5. meta'[c] = [safe |-> low, ready |-> meta[c].ready]
      BY <3>2, <3>3
    <3> QED  BY <2>3, <3>2, <3>3, <3>4, <3>5 DEF ReadyToTell
  <2> QED  BY <2>1, <2>2, <2>3
<1>3. JoinShape'
  <2>1. meta' \in [Joiners -> {NoTick} \cup [safe : Int \cup {NoTick}, ready : {NoTick, NotRequired}]]
    BY <1>0, <1>2 DEF JoinShape
  <2> QED  BY <1>0, <1>1, <2>1 DEF JoinShape
<1>4. JoinTypeOK'
  BY <1>0, <1>1 DEF JoinShape, JoinTypeOK
<1>5. \A d \in Joiners : GoneIsForgotten(d)' /\ ToldIsCaughtUp(d)'
  BY <1>0, <1>1, <1>2 DEF JoinInv, JoinShape, GoneIsForgotten, ToldIsCaughtUp, ReadyToTell
<1>6. (ActivatedOnSnapshot /\ HonestChecksums)'
  BY <1>1 DEF JoinInv, CatchUpIsHonest, ActivatedOnSnapshot, HonestChecksums
<1> QED  BY <1>3, <1>4, <1>5, <1>6 DEF JoinInv, CatchUpIsHonest, NoneAdrift, ToldIsCaughtUp

\* The application spawns its entities: nobody knows them yet.
LEMMA SpawnGatedKeeps ==
    ASSUME JoinInv, NEW kind \in {"prespawned", "spawned"}, SpawnGated(kind)
    PROVE  JoinInv'
BY DEF SpawnGated, JoinInv, JoinShape, CatchUpIsHonest, JoinTypeOK, NoneAdrift, ActivatedOnSnapshot,
   HonestChecksums, GoneIsForgotten, ToldIsCaughtUp, ReadyToTell

\* Every step of a client that connects as a new entity keeps the invariant.
LEMMA JoinStepInv ==
    ASSUME ~ KeepsEntity, JoinInv, [JoinNext]_joinVars
    PROVE  JoinInv'
<1>1. CASE UNCHANGED joinVars
  BY <1>1 DEF joinVars, serverVars, JoinInv, JoinShape, CatchUpIsHonest, JoinTypeOK, NoneAdrift,
     ActivatedOnSnapshot, HonestChecksums, GoneIsForgotten, ToldIsCaughtUp, ReadyToTell
<1>2. ASSUME NEW c \in Joiners, TooOld(c) PROVE JoinInv'
  BY <1>2, JoinDisconnectKeeps DEF TooOld
<1> QED  BY <1>1, <1>2, ServerFrameKeeps, SpawnGatedKeeps, JoinConnectKeeps, JoinDisconnectKeeps,
            ReceiveGatedKeeps, ReceiveInputsKeeps, SendRequestKeeps, PanicOnRequestKeeps, ActivateKeeps,
            BufferRequestKeeps, ReceiveStateKeeps, ReceiveReadyKeeps DEF JoinNext

\* For any number of clients, leads, limits, late inputs and order in which requests, events
\* and state arrive: a client that connects as a new entity is honest about what it simulates.
THEOREM CatchUpIsHonestAlways ==
    ASSUME ~ KeepsEntity
    PROVE  JoinSpec => []CatchUpIsHonest
<1>1. JoinInv => CatchUpIsHonest
  BY DEF JoinInv
<1>2. JoinInv /\ [JoinNext]_joinVars => JoinInv'
  BY JoinStepInv
<1> QED  BY <1>1, <1>2, JoinInitInv, PTL DEF JoinSpec

-----------------------------------------------------------------------------
(* What interpolation keeps.                                               *)

\* Bases stay in the history: what is presented does not pass the completed tick.
BasesStay == InterpLead = 0 \/ "diff" \notin InterpModes

\* v: the server's values, ms: its messages, gs: those received, a: the newest acknowledged.

AllReceived(ms, gs, t) == \A m \in ms : m.tick = t => m \in gs

\* The server sent nothing in tick t: its value was acknowledged then.
Settled(v, ms, gs, a, t) ==
    /\ v[t] <= a
    /\ \A m \in ms : m.tick > t => m.first > v[t]
    /\ v[t] = 0 \/ \E g \in gs : g.tick < t /\ g.last = v[t]

Growing(v) ==
    /\ \E n \in Nat : v \in [0 .. n -> Nat]
    /\ v[0] = 0
    /\ \A s, t \in DOMAIN v : s <= t => v[s] <= v[t]

Served(v, ms, gs, a) ==
    /\ Growing(v)
    /\ a \in Nat
    /\ gs \subseteq ms
    /\ ms \subseteq [tick : DOMAIN v \ {0}, first : Nat \ {0}, last : Nat \ {0}]
    /\ \A m \in ms : m.last = v[m.tick]
    /\ \A m, o \in ms : m.tick = o.tick => m = o
    /\ a = 0 \/ \E g \in gs : g.last = a
    /\ \A t \in DOMAIN v : (\A m \in ms : m.tick # t) => Settled(v, ms, gs, a, t)

\* The entries that hold a value.
Said(h) == {t \in DOMAIN h : h[t] # Unchanged}

\* The entry t stands for the value of its tick.
Backed(v, h, t) == \E e \in DOMAIN h : e <= t /\ h[e] = v[t]

\* The newest value up to the tick is that one.
LastSaid(h, tick, value) ==
    \E e \in Said(h) : e <= tick /\ h[e] = value /\ \A o \in Said(h) : o <= tick => o <= e

\* Entries are of ticks that are complete, values are true, and the oldest entry,
\* which is not newer than what is presented, is a value.
Kept(v, ms, gs, h, shown) ==
    /\ h = [t \in DOMAIN h |-> h[t]]
    /\ DOMAIN h \subseteq DOMAIN v
    /\ \A t \in Said(h) : h[t] = v[t]
    /\ \E e \in Said(h) : e <= shown /\ \A t \in DOMAIN h : e <= t
    /\ \A t \in DOMAIN h : AllReceived(ms, gs, t)

\* A component that is replicated by value.
OfValues(v, gs, h) ==
    /\ \A g \in gs : \E t \in DOMAIN h : g.tick <= t
    /\ \A t \in DOMAIN h : Backed(v, h, t)

MessageSet == [tick : Nat, first : Nat \ {0}, last : Nat \ {0}]

Receivers == [base : Nat \cup {NoCursor}, baseTick : Nat \cup {NoCursor},
              known : SUBSET [cursor : Nat, tick : Nat],
              pending : Seq(MessageSet)]

\* A cursor at least as new was applied.
Recorded(r, cursor) ==
    (r.base # NoCursor /\ cursor <= r.base) \/ \E k \in r.known : cursor <= k.cursor

\* The entry t was called unchanged while the diffs up to its value were pending:
\* what is applied before them was sent before t, and later messages start from them.
Carried(v, ms, a, r, t) ==
    /\ ~ Recorded(r, v[t])
    /\ \E i \in DOMAIN r.pending : r.pending[i].tick < t /\ r.pending[i].last = v[t]
    /\ \A m \in ms : m.tick > t => m.first > v[t]
    /\ v[t] <= a

BaseHeld(v, ms, gs, c, r, h) ==
    /\ (r.base = NoCursor) <=> (r.baseTick = NoCursor)
    /\ r.base = NoCursor => [cursor |-> 0, tick |-> 0] \in r.known
    /\ r.base # NoCursor =>
          /\ c # NoCursor /\ r.baseTick <= c
          /\ r.baseTick \in DOMAIN v
          /\ AllReceived(ms, gs, r.baseTick)
          /\ LastSaid(h, r.baseTick, r.base)

KnownHeld(r, h) ==
    /\ \A k \in r.known :
          /\ k.tick \in DOMAIN h /\ h[k.tick] = k.cursor
          /\ r.base # NoCursor => k.tick > r.baseTick /\ k.cursor > r.base
    /\ \A k, o \in r.known : k.cursor = o.cursor => k = o
    /\ \A t \in Said(h) : (r.base = NoCursor \/ t > r.baseTick) => [cursor |-> h[t], tick |-> t] \in r.known

PendingIsAhead(gs, r, h, p) ==
    /\ \E m \in gs : m.tick = p.tick /\ m.last = p.last /\ m.first <= p.first
    /\ p.tick \notin DOMAIN h
    /\ p.tick # r.baseTick
    /\ \A k \in r.known : k.cursor # p.last
    /\ r.base # NoCursor => p.last > r.base

\* A component that is replicated by diffs.
OfDiffs(v, ms, gs, a, c, r, h) ==
    /\ r \in Receivers
    /\ BaseHeld(v, ms, gs, c, r, h)
    /\ KnownHeld(r, h)
    /\ \A i \in DOMAIN r.pending : PendingIsAhead(gs, r, h, r.pending[i])
    /\ \A g \in gs : \/ Recorded(r, g.last)
                     \/ \E i \in DOMAIN r.pending : r.pending[i].tick = g.tick /\ r.pending[i].last = g.last
    /\ \A t \in DOMAIN h : Backed(v, h, t) \/ Carried(v, ms, a, r, t)

IsComplete(v, ms, gs, c) == c # NoCursor => c \in DOMAIN v \ {0} /\ AllReceived(ms, gs, c)

InterpInv ==
    /\ mode \in InterpModes
    /\ DOMAIN valueAt \subseteq 0 .. MaxInterpTick
    /\ Served(valueAt, mutations, got, acked)
    /\ IsComplete(valueAt, mutations, got, complete)
    /\ shownTick \in Nat
    /\ Kept(valueAt, mutations, got, history, shownTick)
    /\ mode = "value" => OfValues(valueAt, got, history)
    /\ mode = "diff" => /\ OfDiffs(valueAt, mutations, got, acked, complete, receiver, history)
                        /\ shownTick <= (IF complete = NoCursor THEN 0 ELSE complete)

-----------------------------------------------------------------------------
(* Values and entries. *)

\* The last of some ticks.
LEMMA MaxOfTicks ==
    ASSUME NEW n \in Nat, NEW S, S \subseteq 0 .. n, S # {}
    PROVE  Max(S) \in S /\ \A x \in S : x <= Max(S)
<1> DEFINE T == {x \in Nat : \E y \in S : x = n - y}
<1>1. T \subseteq Nat /\ T # {}
  <2>1. PICK y \in S : TRUE
    OBVIOUS
  <2>2. n - y \in T
    BY <2>1
  <2> QED  BY <2>2
<1>2. PICK x \in T : \A y \in T : x <= y
  <2> HIDE DEF T
  <2> QED  BY <1>1, LeastOf
<1>3. PICK z \in S : x = n - z
  OBVIOUS
<1>4. ASSUME NEW y \in S PROVE z >= y
  <2>1. n - y \in T /\ y \in 0 .. n /\ z \in 0 .. n
    OBVIOUS
  <2>2. n - z <= n - y
    BY <1>2, <1>3, <2>1
  <2> QED  BY <2>1, <2>2
<1>5. Max(S) \in S /\ \A y \in S : Max(S) >= y
  BY <1>4 DEF Max
<1> QED  BY <1>5

\* The first of some ticks.
LEMMA MinOfTicks ==
    ASSUME NEW S, S \subseteq Nat, S # {}
    PROVE  Min(S) \in S /\ \A x \in S : Min(S) <= x
<1>1. \E x \in S : \A y \in S : x <= y
  BY LeastOf
<1> QED  BY <1>1 DEF Min

\* The server's values are numbers, and none of them is a mark of the history.
LEMMA ValueTyped ==
    ASSUME NEW v, Growing(v)
    PROVE  /\ DOMAIN v \subseteq Nat /\ 0 \in DOMAIN v
           /\ \A t \in DOMAIN v : v[t] \in Nat /\ v[t] # Unchanged /\ v[t] # NoState
<1>1. PICK n \in Nat : v \in [0 .. n -> Nat]
  BY DEF Growing
<1> QED  BY <1>1, InterpAssumption

\* What an entry, or the last value before it, stands for.
LEMMA ResolveIs ==
    ASSUME NEW v, Growing(v), NEW h, DOMAIN h \subseteq DOMAIN v, NEW tick, tick \in Int
    PROVE  \/ LastSaid(h, tick, Resolve(h, tick))
           \/ (Resolve(h, tick) = NoState /\ \A o \in Said(h) : o > tick)
<1> DEFINE S == {t \in DOMAIN h : t <= tick /\ h[t] # Unchanged}
<1>1. PICK n \in Nat : v \in [0 .. n -> Nat]
  BY DEF Growing
<1>2. S \subseteq 0 .. n /\ Said(h) \subseteq Nat
  BY <1>1 DEF Said
<1>3. Resolve(h, tick) = IF S = {} THEN NoState ELSE h[Max(S)]
  BY DEF Resolve
<1>4. CASE S = {}
  <2>1. \A o \in Said(h) : ~ (o <= tick)
    BY <1>4 DEF Said
  <2> QED  BY <1>2, <1>3, <1>4, <2>1
<1>5. CASE S # {}
  <2>1. Max(S) \in S /\ \A x \in S : x <= Max(S)
    <3> HIDE DEF S
    <3> QED  BY <1>2, <1>5, MaxOfTicks
  <2>2. Max(S) \in Said(h) /\ Max(S) <= tick
    BY <2>1 DEF Said
  <2>3. \A o \in Said(h) : o <= tick => o \in S
    BY DEF Said
  <2> HIDE DEF S
  <2> QED  BY <1>3, <1>5, <2>1, <2>2, <2>3 DEF LastSaid
<1> QED  BY <1>4, <1>5

\* There is one newest value.
LEMMA LastSaidIs ==
    ASSUME NEW v, Growing(v), NEW h, DOMAIN h \subseteq DOMAIN v, NEW tick \in Int,
           NEW value, LastSaid(h, tick, value)
    PROVE  Resolve(h, tick) = value
<1>1. PICK e \in Said(h) : e <= tick /\ h[e] = value /\ \A o \in Said(h) : o <= tick => o <= e
  BY DEF LastSaid
<1>2. Said(h) \subseteq Nat
  BY ValueTyped DEF Said
<1>3. LastSaid(h, tick, Resolve(h, tick))
  BY <1>1, <1>2, ResolveIs
<1>4. PICK f \in Said(h) : f <= tick /\ h[f] = Resolve(h, tick) /\ \A o \in Said(h) : o <= tick => o <= f
  BY <1>3 DEF LastSaid
<1>5. e = f
  BY <1>1, <1>2, <1>4
<1> QED  BY <1>1, <1>4, <1>5

\* An entry that is backed stands for the true value.
LEMMA BackedIsTrue ==
    ASSUME NEW v, Growing(v), NEW h, DOMAIN h \subseteq DOMAIN v,
           \A t \in Said(h) : h[t] = v[t], NEW t \in DOMAIN v, Backed(v, h, t)
    PROVE  LastSaid(h, t, v[t]) /\ Resolve(h, t) = v[t]
<1>1. PICK e \in DOMAIN h : e <= t /\ h[e] = v[t]
  BY DEF Backed
<1>2. DOMAIN v \subseteq Nat /\ e \in Said(h) /\ v[e] = v[t] /\ Said(h) \subseteq DOMAIN v
  BY <1>1, ValueTyped DEF Said
<1>3. LastSaid(h, t, Resolve(h, t))
  BY <1>1, <1>2, ResolveIs
<1>4. PICK f \in Said(h) : f <= t /\ h[f] = Resolve(h, t) /\ \A o \in Said(h) : o <= t => o <= f
  BY <1>3 DEF LastSaid
<1>5. e <= f /\ v[e] <= v[f] /\ v[f] <= v[t] /\ h[f] = v[f] /\ v[f] \in Nat /\ v[t] \in Nat
  <2>1. e <= f
    BY <1>1, <1>2, <1>4
  <2>2. v[e] <= v[f] /\ v[f] <= v[t]
    BY <2>1, <1>2, <1>4 DEF Growing
  <2> QED  BY <2>1, <2>2, <1>2, ValueTyped
<1>6. v[f] = v[t]
  BY <1>2, <1>5
<1> QED  BY <1>3, <1>4, <1>5, <1>6

-----------------------------------------------------------------------------
(* What happens to the entries.                                            *)

\* A value is entered as it is, or as unchanged when it was said before.
Entered(h, tick, value, g) ==
    g[tick] = value \/ (g[tick] = Unchanged /\ \E o \in Said(h) : o < tick /\ h[o] = value)

\* A tick gets an entry.
Inserted(h, tick, value, g) ==
    /\ g = [t \in DOMAIN h \cup {tick} |-> g[t]]
    /\ DOMAIN g = DOMAIN h \cup {tick}
    /\ \A t \in DOMAIN h : g[t] = h[t]
    /\ Entered(h, tick, value, g)

\* A value of a tick without an entry is added.
LEMMA InsertIs ==
    ASSUME NEW v, Growing(v), NEW h, DOMAIN h \subseteq DOMAIN v,
           NEW tick \in DOMAIN v, tick \notin DOMAIN h,
           NEW g, g = InsertConfirmed(h, tick, v[tick])
    PROVE  Inserted(h, tick, v[tick], g)
<1> DEFINE entry == IF StateBefore(h, tick) = v[tick] THEN Unchanged ELSE v[tick]
<1>1. g = [t \in DOMAIN h \cup {tick} |-> IF t = tick THEN entry ELSE h[t]]
  BY DEF InsertConfirmed, InsertRaw
<1>2. tick \in Nat /\ tick - 1 \in Int /\ v[tick] # NoState
  BY ValueTyped
<1>3. Entered(h, tick, v[tick], g)
  <2>1. g[tick] = entry
    BY <1>1
  <2>2. CASE StateBefore(h, tick) = v[tick]
    <3>1. Resolve(h, tick - 1) = v[tick]
      BY <2>2 DEF StateBefore
    <3>2. LastSaid(h, tick - 1, v[tick])
      <4>1. PICK i : i = tick - 1
        OBVIOUS
      <4>2. LastSaid(h, i, Resolve(h, i)) \/ Resolve(h, i) = NoState
        BY <4>1, <1>2, ResolveIs
      <4> QED  BY <3>1, <4>1, <4>2, <1>2
    <3>3. \E o \in Said(h) : o < tick /\ h[o] = v[tick]
      <4>1. Said(h) \subseteq Nat
        BY ValueTyped DEF Said
      <4> QED  BY <4>1, <3>2, <1>2 DEF LastSaid
    <3> QED  BY <2>1, <2>2, <3>3 DEF Entered
  <2> QED  BY <2>1, <2>2 DEF Entered
<1> HIDE DEF entry
<1> QED  BY <1>1, <1>3 DEF Inserted

\* An entry of the newest tick is added that says the value did not change.
Pushed(h, tick, g) ==
    /\ \A t \in DOMAIN h : t < tick
    /\ DOMAIN g = DOMAIN h \cup {tick}
    /\ g = [t \in DOMAIN g |-> g[t]]
    /\ \A t \in DOMAIN h : g[t] = h[t]
    /\ g[tick] = Unchanged

\* push_unchanged adds nothing, or an entry of the newest tick.
LEMMA PushIs ==
    ASSUME NEW v, Growing(v), NEW h, DOMAIN h \subseteq DOMAIN v, NEW tick \in DOMAIN v
    PROVE  PushUnchanged(h, tick) = h \/ Pushed(h, tick, PushUnchanged(h, tick))
<1>1. SUFFICES ASSUME PushUnchanged(h, tick) # h PROVE Pushed(h, tick, PushUnchanged(h, tick))
  OBVIOUS
<1> PICK g : g = PushUnchanged(h, tick)
  OBVIOUS
<1>2. DOMAIN h # {} /\ ~ (tick <= Max(DOMAIN h)) /\ g = AddUnchanged(h, tick)
  BY <1>1 DEF PushUnchanged
<1>3. PICK n \in Nat : v \in [0 .. n -> Nat]
  BY DEF Growing
<1>4. DOMAIN h \subseteq 0 .. n /\ tick \in 0 .. n
  BY <1>3
<1>5. \A t \in DOMAIN h : t < tick
  <2>1. Max(DOMAIN h) \in DOMAIN h /\ \A x \in DOMAIN h : x <= Max(DOMAIN h)
    BY <1>2, <1>4, MaxOfTicks
  <2> QED  BY <2>1, <1>2, <1>4
<1>6. g = InsertRaw(h, tick, Unchanged)
  BY <1>1, <1>2 DEF AddUnchanged
<1>7. g = [t \in DOMAIN h \cup {tick} |-> IF t = tick THEN Unchanged ELSE h[t]]
  BY <1>6 DEF InsertRaw
<1>8. \A t \in DOMAIN h : t # tick
  BY <1>4, <1>5
<1>9. DOMAIN g = DOMAIN h \cup {tick} /\ g = [t \in DOMAIN g |-> g[t]]
  BY <1>7
<1>10. g[tick] = Unchanged /\ \A t \in DOMAIN h : g[t] = h[t]
  BY <1>7, <1>8
<1> QED  BY <1>5, <1>9, <1>10 DEF Pushed

\* Entries all of which stand for true values, the oldest one a value.
AllTrue(v, h) ==
    /\ h = [t \in DOMAIN h |-> h[t]]
    /\ DOMAIN h \subseteq DOMAIN v
    /\ \A t \in Said(h) : h[t] = v[t]
    /\ \A t \in DOMAIN h : Backed(v, h, t)
    /\ \E e \in Said(h) : \A t \in DOMAIN h : e <= t

\* g is what is left of h when nothing is dropped that is needed after the tick.
Drained(v, h, tick, g) ==
    /\ AllTrue(v, g)
    /\ DOMAIN g \subseteq DOMAIN h
    /\ \A t \in DOMAIN h : t > tick => t \in DOMAIN g /\ g[t] = h[t]
    /\ \A t \in Said(g) : h[t] = Unchanged => t <= tick
    /\ (\E e \in DOMAIN h : e <= tick) => \E e \in DOMAIN g : e <= tick
    /\ \A t \in DOMAIN h : \E u \in DOMAIN g : t <= u
    /\ \A t \in Nat : \A value \in Nat : t >= tick /\ LastSaid(h, t, value) => LastSaid(g, t, value)

\* pop_present, of a history whose second entry is passed.
LEMMA PopKeeps ==
    ASSUME NEW v, Growing(v), NEW tick \in Nat, NEW g, AllTrue(v, g),
           DOMAIN g \ {Min(DOMAIN g)} # {}, Min(DOMAIN g \ {Min(DOMAIN g)}) <= tick
    PROVE  Drained(v, g, tick, PopPresent(g))
<1> DEFINE low == Min(DOMAIN g)
           rest == DOMAIN g \ {low}
           second == Min(rest)
<1>1. DOMAIN g \subseteq DOMAIN v /\ DOMAIN v \subseteq Nat
  BY ValueTyped DEF AllTrue
<1>2. low \in DOMAIN g /\ \A t \in DOMAIN g : low <= t
  <2>1. DOMAIN g \subseteq Nat /\ DOMAIN g # {}
    BY <1>1
  <2> QED  BY <2>1, MinOfTicks
<1>3. second \in rest /\ (\A t \in rest : second <= t) /\ second <= tick
  <2>1. rest \subseteq Nat /\ rest # {}
    BY <1>1
  <2> QED  BY <2>1, MinOfTicks
<1> HIDE DEF low, second
<1>4. low \in Nat /\ second \in Nat /\ low < second
  BY <1>1, <1>2, <1>3
<1>5. Resolve(g, second) = v[second]
  <2>1. second \in DOMAIN v /\ Backed(v, g, second)
    BY <1>1, <1>3 DEF AllTrue
  <2> QED  BY <2>1, BackedIsTrue DEF AllTrue
<1>6. PICK p : p = PopPresent(g)
  OBVIOUS
<1>7. p = [t \in rest |-> IF t = second THEN v[second] ELSE g[t]]
  <2>1. PopPresent(g) = [t \in rest |-> IF t = second THEN Resolve(g, t) ELSE g[t]]
    BY DEF PopPresent, low, second
  <2> QED  BY <1>5, <1>6, <2>1
<1>8. DOMAIN p = rest /\ p = [t \in DOMAIN p |-> p[t]]
  BY <1>7
<1>9. p[second] = v[second] /\ \A t \in rest : t # second => p[t] = g[t]
  BY <1>3, <1>7
<1>10. second \in Said(p) /\ \A t \in Said(p) : p[t] = v[t]
  <2>1. v[second] # Unchanged
    BY <1>1, <1>3, ValueTyped
  <2>2. \A t \in Said(p) : t # second => t \in Said(g)
    BY <1>8, <1>9 DEF Said
  <2> QED  BY <2>1, <2>2, <1>3, <1>8, <1>9 DEF Said, AllTrue
<1>11. \A t \in Said(g) : t \in rest => t \in Said(p) /\ p[t] = g[t]
  <2>1. \A t \in Said(g) : t \in rest /\ t # second => t \in Said(p) /\ p[t] = g[t]
    BY <1>8, <1>9 DEF Said
  <2>2. second \in Said(g) => p[second] = g[second]
    BY <1>9 DEF AllTrue
  <2> QED  BY <2>1, <2>2, <1>10
<1>12. \A t \in Said(p) : t = second \/ t \in Said(g)
  BY <1>8, <1>9 DEF Said
<1>13. ASSUME NEW t \in Nat, NEW value \in Nat, t >= second, LastSaid(g, t, value)
       PROVE  LastSaid(p, t, value)
  <2>1. PICK e \in Said(g) : e <= t /\ g[e] = value /\ \A o \in Said(g) : o <= t => o <= e
    BY <1>13 DEF LastSaid
  <2>2. e \in DOMAIN g /\ e \in Nat
    BY <2>1, <1>1 DEF Said
  <2>3. CASE e = low
    <3>1. \A o \in Said(p) : o <= t => o <= second
      <4>1. \A o \in Said(p) : o # second => o \in Said(g) /\ o \in rest
        BY <1>8, <1>12 DEF Said
      <4> QED  BY <4>1, <2>1, <2>3, <1>4, <1>1, <1>2
    <3>2. v[second] = value
      <4>1. \A o \in Said(g) : o <= second => o <= low
        BY <2>1, <2>3, <1>4, <1>1, <1>13 DEF Said
      <4>2. LastSaid(g, second, value)
        BY <4>1, <2>1, <2>3, <1>4 DEF LastSaid
      <4>3. Resolve(g, second) = value
        BY <4>2, <1>1, <1>4, LastSaidIs
      <4> QED  BY <4>3, <1>5
    <3> QED  BY <3>1, <3>2, <1>9, <1>10, <1>13 DEF LastSaid
  <2>4. CASE e # low
    <3>1. e \in rest /\ second <= e
      BY <2>2, <2>4, <1>3
    <3>2. e \in Said(p) /\ p[e] = value
      BY <3>1, <2>1, <1>11
    <3>3. \A o \in Said(p) : o <= t => o <= e
      BY <3>1, <2>1, <1>12
    <3> QED  BY <3>2, <3>3, <2>1 DEF LastSaid
  <2> QED  BY <2>3, <2>4
<1>14. ASSUME NEW t \in DOMAIN p PROVE Backed(v, p, t)
  <2>1. t \in DOMAIN v /\ t >= second /\ t \in Nat /\ Backed(v, g, t) /\ v[t] \in Nat
    <3>1. t \in rest /\ t \in DOMAIN g
      BY <1>8
    <3>2. Backed(v, g, t)
      BY <3>1 DEF AllTrue
    <3> QED  BY <3>1, <3>2, <1>1, <1>3, ValueTyped
  <2>2. LastSaid(g, t, v[t])
    BY <2>1, BackedIsTrue DEF AllTrue
  <2>3. LastSaid(p, t, v[t])
    BY <2>1, <2>2, <1>13
  <2> QED  BY <2>3 DEF LastSaid, Backed, Said
<1>15. AllTrue(v, p)
  <2>1. DOMAIN p \subseteq DOMAIN v
    BY <1>1, <1>8
  <2>2. \E e \in Said(p) : \A t \in DOMAIN p : e <= t
    BY <1>3, <1>8, <1>10
  <2> QED  BY <2>1, <2>2, <1>8, <1>10, <1>14 DEF AllTrue
<1>16. \A t \in DOMAIN g : t > tick => t \in DOMAIN p /\ p[t] = g[t]
  BY <1>1, <1>3, <1>4, <1>8, <1>9
<1>17. \A t \in Nat : \A value \in Nat : t >= tick /\ LastSaid(g, t, value) => LastSaid(p, t, value)
  BY <1>3, <1>4, <1>13
<1>18. \A t \in Said(p) : g[t] = Unchanged => t <= tick
  BY <1>3, <1>12 DEF Said
<1>19. \E e \in DOMAIN p : e <= tick
  BY <1>3, <1>8
<1>20. \A t \in DOMAIN g : \E u \in DOMAIN p : t <= u
  <2>1. \A t \in DOMAIN g : t \in rest \/ t <= second
    BY <1>4
  <2>2. \A t \in rest : t <= t
    BY <1>1
  <2> QED  BY <2>1, <2>2, <1>3, <1>8
<1> QED  BY <1>6, <1>8, <1>15, <1>16, <1>17, <1>18, <1>19, <1>20 DEF Drained

\* Two drains are one.
LEMMA DrainedIsTransitive ==
    ASSUME NEW v, Growing(v), NEW h, DOMAIN h \subseteq DOMAIN v, NEW tick \in Nat, NEW g, NEW p,
           Drained(v, h, tick, g), Drained(v, g, tick, p)
    PROVE  Drained(v, h, tick, p)
<1>1. AllTrue(v, p) /\ DOMAIN p \subseteq DOMAIN h
  BY DEF Drained
<1>2. \A t \in DOMAIN h : t > tick => t \in DOMAIN p /\ p[t] = h[t]
  BY DEF Drained
<1>3. \A t \in Said(p) : h[t] = Unchanged => t <= tick
  <2>1. ASSUME NEW t \in Said(p), h[t] = Unchanged PROVE t <= tick
    <3>1. t \in DOMAIN g
      BY DEF Drained, Said
    <3>2. CASE g[t] = Unchanged
      BY <3>2 DEF Drained
    <3>3. CASE g[t] # Unchanged
      BY <2>1, <3>1, <3>3 DEF Drained, Said
    <3> QED  BY <3>2, <3>3
  <2> QED  BY <2>1
<1>4. (\E e \in DOMAIN h : e <= tick) => \E e \in DOMAIN p : e <= tick
  BY DEF Drained
<1>5. \A t \in Nat : \A value \in Nat : t >= tick /\ LastSaid(h, t, value) => LastSaid(p, t, value)
  BY DEF Drained
<1>6. \A t \in DOMAIN h : \E u \in DOMAIN p : t <= u
  <2>1. TAKE t \in DOMAIN h
  <2>2. PICK x \in DOMAIN g : t <= x
    BY DEF Drained
  <2>3. PICK u \in DOMAIN p : x <= u
    BY DEF Drained
  <2>4. t \in Nat /\ x \in Nat /\ u \in Nat
    <3>1. DOMAIN v \subseteq Nat
      BY ValueTyped
    <3>2. DOMAIN g \subseteq DOMAIN v /\ DOMAIN p \subseteq DOMAIN v
      BY DEF Drained, AllTrue
    <3> QED  BY <3>1, <3>2
  <2> QED  BY <2>2, <2>3, <2>4
<1> QED  BY <1>1, <1>2, <1>3, <1>4, <1>5, <1>6 DEF Drained

Entries(v) == UNION {[d -> Nat \cup {Unchanged}] : d \in SUBSET DOMAIN v}

\* Such a history is a function of ticks.
LEMMA TrueEntries ==
    ASSUME NEW v, Growing(v), NEW h, AllTrue(v, h)
    PROVE  h \in Entries(v)
<1>1. \A t \in DOMAIN h : h[t] \in Nat \cup {Unchanged}
  <2>1. ASSUME NEW t \in DOMAIN h, h[t] # Unchanged PROVE h[t] \in Nat
    <3>1. t \in Said(h) /\ t \in DOMAIN v
      BY <2>1 DEF Said, AllTrue
    <3> QED  BY <3>1, ValueTyped DEF AllTrue
  <2> QED  BY <2>1
<1>2. PICK d : d = DOMAIN h
  OBVIOUS
<1>3. h = [t \in d |-> h[t]]
  BY <1>2 DEF AllTrue
<1>4. h \in [d -> Nat \cup {Unchanged}]
  BY <1>1, <1>2, <1>3
<1>5. d \in SUBSET DOMAIN v
  BY <1>2 DEF AllTrue
<1> QED  BY <1>4, <1>5 DEF Entries

\* The ticks of a history can be counted.
LEMMA TicksAreFinite ==
    ASSUME NEW v, Growing(v), NEW S, S \subseteq DOMAIN v
    PROVE  IsFiniteSet(S) /\ Cardinality(S) \in Nat
<1>1. PICK n \in Nat : v \in [0 .. n -> Nat]
  BY DEF Growing
<1>2. IsFiniteSet(0 .. n)
  BY <1>1, FS_Interval
<1>3. IsFiniteSet(S)
  BY <1>1, <1>2, FS_Subset
<1> QED  BY <1>3, FS_CardinalityType

\* drain_old_history leaves what is needed.
LEMMA DrainKeeps ==
    ASSUME NEW v, Growing(v), NEW h, AllTrue(v, h), NEW tick \in Nat
    PROVE  Drained(v, h, tick, DrainOldHistory(h, tick))
<1> DEFINE n == Cardinality(DOMAIN h)
           Turn(g) == IF Cardinality(DOMAIN g) >= 3 /\ Min(DOMAIN g \ {Min(DOMAIN g)}) <= tick
                      THEN PopPresent(g) ELSE g
           After(f) == [k \in 0 .. n |-> IF k = 0 THEN h ELSE Turn(f[k - 1])]
           S == {g \in Entries(v) : Drained(v, h, tick, g)}
           step == [k \in 1 .. n |-> [g \in S |-> Turn(g)]]
           run == CHOOSE f : f = After(f)
<1>1. n \in Nat
  BY TicksAreFinite DEF AllTrue
<1>2. h \in S
  <2>1. \A t \in Said(h) : h[t] # Unchanged
    BY DEF Said
  <2>2. \A t \in DOMAIN h : t <= t
    BY ValueTyped DEF AllTrue
  <2>3. Drained(v, h, tick, h)
    BY <2>1, <2>2 DEF Drained
  <2> QED  BY <2>3, TrueEntries
<1>3. ASSUME NEW g \in S PROVE Turn(g) \in S
  <2>1. AllTrue(v, g) /\ Drained(v, h, tick, g)
    BY DEF Drained
  <2>2. CASE Cardinality(DOMAIN g) >= 3 /\ Min(DOMAIN g \ {Min(DOMAIN g)}) <= tick
    <3>1. DOMAIN g \ {Min(DOMAIN g)} # {}
      <4>1. SUFFICES ASSUME DOMAIN g \subseteq {Min(DOMAIN g)} PROVE FALSE
        OBVIOUS
      <4>2. PICK x : x = Min(DOMAIN g)
        OBVIOUS
      <4>3. IsFiniteSet({x}) /\ Cardinality({x}) = 1
        BY FS_Singleton
      <4>4. Cardinality(DOMAIN g) <= Cardinality({x})
        BY <4>1, <4>2, <4>3, FS_Subset
      <4>5. Cardinality(DOMAIN g) \in Nat
        BY <2>1, TicksAreFinite DEF AllTrue
      <4> QED  BY <2>2, <4>3, <4>4, <4>5
    <3>2. Drained(v, g, tick, PopPresent(g))
      BY <2>1, <2>2, <3>1, PopKeeps
    <3>3. Drained(v, h, tick, PopPresent(g))
      BY <2>1, <3>2, DrainedIsTransitive DEF AllTrue
    <3>4. PopPresent(g) \in Entries(v)
      BY <3>3, TrueEntries DEF Drained
    <3> QED  BY <2>2, <3>3, <3>4
  <2>3. CASE ~ (Cardinality(DOMAIN g) >= 3 /\ Min(DOMAIN g \ {Min(DOMAIN g)}) <= tick)
    <3>1. Turn(g) = g
      BY <2>3
    <3> QED  BY <3>1
  <2> QED  BY <2>2, <2>3
<1> HIDE DEF Turn
<1>4. step \in [1 .. n -> [S -> S]]
  BY <1>3
<1>5. PICK f \in [0 .. n -> S] : f[0] = h /\ \A k \in 1 .. n : f[k] = step[k][f[k - 1]]
  <2>1. PICK T : T = S
    OBVIOUS
  <2>2. PICK m : m = n
    OBVIOUS
  <2>3. PICK turn : turn = step
    OBVIOUS
  <2>4. m \in Nat /\ h \in T /\ turn \in [1 .. m -> [T -> T]]
    <3> HIDE DEF step, n, S
    <3> QED  BY <1>1, <1>2, <1>4, <2>1, <2>2, <2>3
  <2>5. \E f \in [0 .. m -> T] : f[0] = h /\ \A k \in 1 .. m : f[k] = turn[k][f[k - 1]]
    BY ONLY <2>4, RunExists
  <2> HIDE DEF step, n, S
  <2> QED  BY <2>1, <2>2, <2>3, <2>5
<1>6. f = After(f)
  <2>1. ASSUME NEW k \in 1 .. n PROVE f[k] = Turn(f[k - 1])
    <3>1. k - 1 \in 0 .. n /\ f[k - 1] \in S
      <4>1. k - 1 \in 0 .. n
        BY <1>1
      <4> HIDE DEF n, S
      <4> QED  BY <4>1
    <3>2. f[k] = step[k][f[k - 1]]
      <4> HIDE DEF step, n, S
      <4> QED  BY <1>5
    <3> HIDE DEF n, S
    <3> QED  BY <3>1, <3>2
  <2>2. \A k \in 0 .. n : k # 0 => k \in 1 .. n
    BY <1>1
  <2> HIDE DEF n, step, S
  <2> QED  BY ONLY <1>5, <2>1, <2>2
<1>7. run = After(run)
  <2> HIDE DEF After
  <2> QED  BY <1>6
<1>8. run[0] = h
  <2>1. 0 \in 0 .. n
    BY <1>1
  <2> HIDE DEF run, n
  <2> QED  BY <1>7, <2>1
<1>9. ASSUME NEW k \in 1 .. n, run[k - 1] \in S PROVE run[k] \in S
  <2>1. k \in 0 .. n /\ k # 0
    BY <1>1
  <2>2. run[k] = Turn(run[k - 1])
    <3> HIDE DEF run, n
    <3> QED  BY <1>7, <2>1
  <2> HIDE DEF run, n, S
  <2> QED  BY <1>3, <1>9, <2>2
<1>10. run[n] \in S
  <2>1. PICK T : T = S
    OBVIOUS
  <2>2. PICK g : g = run
    OBVIOUS
  <2>3. PICK m : m = n
    OBVIOUS
  <2>4. m \in Nat /\ g[0] \in T /\ \A k \in 1 .. m : g[k - 1] \in T => g[k] \in T
    <3> HIDE DEF run, n, S
    <3> QED  BY <1>1, <1>2, <1>8, <1>9, <2>1, <2>2, <2>3
  <2>5. g[m] \in T
    BY ONLY <2>4, RunStays
  <2> HIDE DEF run, n, S
  <2> QED  BY <2>1, <2>2, <2>3, <2>5
<1>11. DrainOldHistory(h, tick) = run[n]
  BY DEF DrainOldHistory, Turn
<1> HIDE DEF run, n
<1> QED  BY <1>10, <1>11

-----------------------------------------------------------------------------
(* The server goes on.                                                     *)

\* New messages are of new ticks, and start after what was acknowledged.
Grows(v, ms, a, v2, ms2, a2) ==
    /\ DOMAIN v \subseteq DOMAIN v2
    /\ \A t \in DOMAIN v : v2[t] = v[t]
    /\ ms \subseteq ms2
    /\ \A m \in ms2 \ ms : m.tick \notin DOMAIN v /\ m.first > a
    /\ \A m \in ms2 : m.first \in Nat
    /\ a \in Nat /\ a2 \in Nat /\ a <= a2

\* What the client has stays true while the server goes on.
LEMMA KeptAsItGrows ==
    ASSUME NEW v, NEW ms, NEW a, NEW v2, NEW ms2, NEW a2, Grows(v, ms, a, v2, ms2, a2),
           NEW gs, NEW h, NEW shown, Kept(v, ms, gs, h, shown)
    PROVE  /\ Kept(v2, ms2, gs, h, shown)
           /\ OfValues(v, gs, h) => OfValues(v2, gs, h)
<1>1. \A t \in DOMAIN h : t \in DOMAIN v2 /\ v2[t] = v[t] /\ AllReceived(ms2, gs, t)
  BY DEF Kept, Grows, AllReceived
<1>2. Kept(v2, ms2, gs, h, shown)
  <2>1. \A t \in Said(h) : t \in DOMAIN h
    BY DEF Said
  <2> QED  BY <1>1, <2>1 DEF Kept
<1>3. \A t \in DOMAIN h : Backed(v, h, t) => Backed(v2, h, t)
  BY <1>1 DEF Backed
<1> QED  BY <1>2, <1>3 DEF OfValues

\* So does what its receiver knows.
LEMMA DiffsAsItGrows ==
    ASSUME NEW v, Growing(v), NEW ms, NEW a, NEW v2, NEW ms2, NEW a2, Grows(v, ms, a, v2, ms2, a2),
           NEW gs, NEW h, NEW shown, Kept(v, ms, gs, h, shown),
           NEW c, NEW r, OfDiffs(v, ms, gs, a, c, r, h)
    PROVE  OfDiffs(v2, ms2, gs, a2, c, r, h)
<1>1. \A t \in DOMAIN h : t \in DOMAIN v /\ t \in DOMAIN v2 /\ v2[t] = v[t] /\ v[t] \in Nat
  BY ValueTyped DEF Kept, Grows
<1>2. BaseHeld(v2, ms2, gs, c, r, h)
  <2>1. \A t \in DOMAIN v : AllReceived(ms, gs, t) => AllReceived(ms2, gs, t)
    BY DEF Grows, AllReceived
  <2> QED  BY <2>1 DEF OfDiffs, BaseHeld, Grows
<1>3. ASSUME NEW t \in DOMAIN h PROVE Backed(v2, h, t) \/ Carried(v2, ms2, a2, r, t)
  <2>1. CASE Backed(v, h, t)
    BY <1>1, <2>1 DEF Backed
  <2>2. CASE Carried(v, ms, a, r, t)
    <3>1. v2[t] = v[t] /\ v[t] \in Nat
      BY <1>1
    <3>2. ASSUME NEW m \in ms2, m.tick > t PROVE m.first > v2[t]
      <4>1. CASE m \in ms
        BY <2>2, <3>1, <3>2, <4>1 DEF Carried
      <4>2. CASE m \notin ms
        BY <2>2, <3>1, <4>2 DEF Carried, Grows
      <4> QED  BY <4>1, <4>2
    <3>3. v2[t] <= a2
      BY <2>2, <3>1 DEF Carried, Grows
    <3> QED  BY <2>2, <3>1, <3>2, <3>3 DEF Carried
  <2> QED  BY <2>1, <2>2 DEF OfDiffs
<1> QED  BY <1>2, <1>3 DEF OfDiffs

\* A send pass: the next value, sent unless it is acknowledged.
LEMMA SendServed ==
    ASSUME NEW v, NEW ms, NEW gs, NEW a, Served(v, ms, gs, a),
           NEW n \in Nat, v \in [0 .. n -> Nat], NEW value \in {v[n], v[n] + 1},
           NEW v2, v2 = [t \in 0 .. n + 1 |-> IF t = n + 1 THEN value ELSE v[t]],
           NEW ms2, ms2 = IF value = a THEN ms
                          ELSE ms \cup {[tick |-> n + 1, first |-> a + 1, last |-> value]}
    PROVE  Served(v2, ms2, gs, a) /\ Grows(v, ms, a, v2, ms2, a)
<1>1. DOMAIN v = 0 .. n /\ DOMAIN v2 = 0 .. n + 1 /\ value \in Nat /\ a \in Nat
  BY DEF Served
<1>2. v2[n + 1] = value /\ \A t \in 0 .. n : v2[t] = v[t]
  BY <1>1
<1>3. \A t \in 0 .. n : v[t] <= v[n] /\ v[t] <= value
  <2>1. \A t \in 0 .. n : v[t] <= v[n] /\ v[t] \in Nat /\ v[n] \in Nat
    BY <1>1 DEF Served, Growing
  <2> QED  BY <2>1
<1>4. Growing(v2)
  <2>1. n + 1 \in Nat /\ v2 \in [0 .. n + 1 -> Nat]
    BY <1>1
  <2>2. v2[0] = 0
    BY <1>2 DEF Served, Growing
  <2>3. ASSUME NEW s \in 0 .. n + 1, NEW t \in 0 .. n + 1, s <= t PROVE v2[s] <= v2[t]
    <3>1. CASE t = n + 1
      BY <1>1, <1>2, <1>3, <3>1
    <3>2. CASE t # n + 1
      <4>1. s \in 0 .. n /\ t \in 0 .. n
        BY <2>3, <3>2
      <4> QED  BY <1>1, <1>2, <2>3, <4>1 DEF Served, Growing
    <3> QED  BY <3>1, <3>2
  <2> QED  BY <1>1, <2>1, <2>2, <2>3 DEF Growing
<1>5. \A m \in ms : m.tick \in 0 .. n /\ m.tick # 0 /\ m.first \in Nat \ {0} /\ m.last \in Nat \ {0} /\ m.last = v[m.tick]
  BY <1>1 DEF Served
<1>6. a <= v[n]
  <2>1. ASSUME NEW g \in gs, g.last = a PROVE a <= v[n]
    BY <2>1, <1>3, <1>5 DEF Served
  <2> QED  BY <2>1, <1>1 DEF Served
<1>7. ms2 = ms \/ (value > a /\ ms2 = ms \cup {[tick |-> n + 1, first |-> a + 1, last |-> value]})
  BY <1>1, <1>6
<1>8. ASSUME NEW m \in ms2, m \notin ms
      PROVE  value > a /\ m = [tick |-> n + 1, first |-> a + 1, last |-> value]
  BY <1>7, <1>8
<1>9. Grows(v, ms, a, v2, ms2, a)
  <2>1. \A m \in ms2 \ ms : m.tick \notin DOMAIN v /\ m.first > a
    BY <1>1, <1>8
  <2>2. \A m \in ms2 : m.first \in Nat
    BY <1>1, <1>5, <1>8
  <2>3. ms \subseteq ms2
    BY <1>7
  <2> QED  BY <1>1, <1>2, <2>1, <2>2, <2>3 DEF Grows
<1>10. ms2 \subseteq [tick : DOMAIN v2 \ {0}, first : Nat \ {0}, last : Nat \ {0}]
  <2>1. ASSUME NEW m \in ms2 PROVE m \in [tick : DOMAIN v2 \ {0}, first : Nat \ {0}, last : Nat \ {0}]
    <3>1. CASE m \in ms
      <4>1. m \in [tick : DOMAIN v \ {0}, first : Nat \ {0}, last : Nat \ {0}]
        BY <3>1 DEF Served
      <4> QED  BY <4>1, <1>1
    <3>2. CASE m \notin ms
      BY <3>2, <1>1, <1>8
    <3> QED  BY <3>1, <3>2
  <2> QED  BY <2>1
<1>11. \A m \in ms2 : m.last = v2[m.tick]
  <2>1. ASSUME NEW m \in ms2 PROVE m.last = v2[m.tick]
    <3>1. CASE m \in ms
      BY <3>1, <1>2, <1>5
    <3>2. CASE m \notin ms
      BY <3>2, <1>2, <1>8
    <3> QED  BY <3>1, <3>2
  <2> QED  BY <2>1
<1>12. \A m, o \in ms2 : m.tick = o.tick => m = o
  <2>1. \A m \in ms2 : m \in ms \/ (m.tick = n + 1 /\ m = [tick |-> n + 1, first |-> a + 1, last |-> value])
    BY <1>8
  <2>2. \A m \in ms : m.tick # n + 1
    BY <1>5
  <2>3. \A m, o \in ms : m.tick = o.tick => m = o
    BY DEF Served
  <2> QED  BY <2>1, <2>2, <2>3
<1>13. ASSUME NEW t \in 0 .. n + 1, \A m \in ms2 : m.tick # t
       PROVE  Settled(v2, ms2, gs, a, t)
  <2>1. CASE t = n + 1
    <3>1. ms2 = ms /\ value = a
      <4>1. SUFFICES ASSUME value # a PROVE FALSE
        OBVIOUS
      <4>2. [tick |-> n + 1, first |-> a + 1, last |-> value] \in ms2
        BY <4>1
      <4> QED  BY <4>2, <2>1, <1>13
    <3>2. v2[t] = a
      BY <2>1, <3>1, <1>2
    <3>3. \A m \in ms2 : ~ (m.tick > t)
      BY <3>1, <2>1, <1>5
    <3>4. \A g \in gs : g.tick < t
      <4>1. \A g \in gs : g \in ms
        BY DEF Served
      <4> QED  BY <4>1, <2>1, <1>5
    <3>5. v2[t] = 0 \/ \E g \in gs : g.tick < t /\ g.last = v2[t]
      BY <3>2, <3>4 DEF Served
    <3> QED  BY <3>2, <3>3, <3>5, <1>1 DEF Settled
  <2>2. CASE t # n + 1
    <3>1. t \in 0 .. n /\ v2[t] = v[t] /\ v[t] \in Nat
      BY <2>2, <1>2
    <3>2. Settled(v, ms, gs, a, t)
      BY <3>1, <1>1, <1>7, <1>13 DEF Served
    <3>3. ASSUME NEW m \in ms2, m.tick > t PROVE m.first > v2[t]
      <4>1. CASE m \in ms
        BY <4>1, <3>1, <3>2, <3>3 DEF Settled
      <4>2. CASE m \notin ms
        BY <4>2, <3>1, <3>2, <1>1, <1>8 DEF Settled
      <4> QED  BY <4>1, <4>2
    <3> QED  BY <3>1, <3>2, <3>3 DEF Settled
  <2> QED  BY <2>1, <2>2
<1>14. gs \subseteq ms2
  BY <1>7 DEF Served
<1>15. Served(v2, ms2, gs, a)
  BY <1>1, <1>4, <1>10, <1>11, <1>12, <1>13, <1>14 DEF Served
<1> QED  BY <1>9, <1>15

\* An acknowledgement: the newest received value is known to the server.
LEMMA AckServed ==
    ASSUME NEW v, NEW ms, NEW gs, NEW a, Served(v, ms, gs, a), NEW m \in gs, m.last > a
    PROVE  Served(v, ms, gs, m.last) /\ Grows(v, ms, a, v, ms, m.last)
<1>1. m \in ms /\ m.last \in Nat /\ a \in Nat /\ \A o \in ms : o.first \in Nat
  BY DEF Served
<1>2. ASSUME NEW t \in DOMAIN v, Settled(v, ms, gs, a, t) PROVE Settled(v, ms, gs, m.last, t)
  <2>1. v[t] \in Nat
    BY ValueTyped DEF Served
  <2> QED  BY <1>1, <1>2, <2>1 DEF Settled
<1>3. Served(v, ms, gs, m.last)
  BY <1>1, <1>2 DEF Served
<1> QED  BY <1>1, <1>3 DEF Grows

\* A message is read.
LEMMA ReadServed ==
    ASSUME NEW v, NEW ms, NEW gs, NEW a, Served(v, ms, gs, a), NEW m \in ms, NEW gs2, gs2 = gs \cup {m}
    PROVE  /\ Served(v, ms, gs2, a)
           /\ \A t : AllReceived(ms, gs, t) => AllReceived(ms, gs2, t)
<1>1. \A t \in DOMAIN v : Settled(v, ms, gs, a, t) => Settled(v, ms, gs2, a, t)
  BY DEF Settled
<1>2. Served(v, ms, gs2, a)
  BY <1>1 DEF Served
<1> QED  BY <1>2 DEF AllReceived

-----------------------------------------------------------------------------
(* The history of the client, and what is shown of it.                     *)

\* What is sampled is the newest value up to the tick.
LEMMA SampleIs ==
    ASSUME NEW v, Growing(v), NEW ms, NEW gs, NEW h, NEW shown \in Nat, Kept(v, ms, gs, h, shown)
    PROVE  LastSaid(h, shown, Sample(h, shown)) /\ Sample(h, shown) \in Nat
<1> DEFINE passed == {t \in DOMAIN h : t <= shown}
<1>1. PICK n \in Nat : v \in [0 .. n -> Nat]
  BY DEF Growing
<1>2. PICK e \in Said(h) : e <= shown /\ \A t \in DOMAIN h : e <= t
  BY DEF Kept
<1>3. e \in passed /\ passed \subseteq 0 .. n
  BY <1>1, <1>2 DEF Said, Kept
<1>4. Max(passed) \in passed /\ \A t \in passed : t <= Max(passed)
  <2> HIDE DEF passed
  <2> QED  BY <1>3, MaxOfTicks
<1>5. PICK top : top = Max(passed)
  OBVIOUS
<1>6. top \in DOMAIN h /\ top <= shown /\ top \in Nat /\ \A t \in DOMAIN h : t <= shown => t <= top
  BY <1>1, <1>3, <1>4, <1>5
<1>7. Sample(h, shown) = Resolve(h, top)
  <2>1. passed # {}
    BY <1>3
  <2> QED  BY <2>1, <1>5 DEF Sample
<1>8. LastSaid(h, top, Resolve(h, top))
  <2>1. e \in Said(h) /\ ~ (e > top)
    BY <1>1, <1>2, <1>3, <1>6
  <2> QED  BY <2>1, <1>6, ResolveIs DEF Kept
<1>9. PICK f \in Said(h) : f <= top /\ h[f] = Resolve(h, top) /\ \A o \in Said(h) : o <= top => o <= f
  BY <1>8 DEF LastSaid
<1>10. f \in DOMAIN v /\ f \in Nat /\ h[f] = v[f]
  BY <1>1 DEF Said, Kept
<1>11. \A o \in Said(h) : o <= shown => o <= f
  BY <1>6, <1>9 DEF Said
<1>12. f <= shown
  BY <1>6, <1>9, <1>10
<1>13. LastSaid(h, shown, Sample(h, shown))
  BY <1>7, <1>9, <1>11, <1>12 DEF LastSaid
<1> QED  BY <1>7, <1>9, <1>10, <1>13, ValueTyped

\* What is shown grows when newer values are not dropped.
LEMMA SampleGrows ==
    ASSUME NEW v, Growing(v), NEW ms, NEW gs, NEW h, NEW s \in Nat, Kept(v, ms, gs, h, s),
           NEW v2, Growing(v2), NEW ms2, NEW gs2, NEW g, NEW s2 \in Nat, Kept(v2, ms2, gs2, g, s2), s <= s2,
           \A e \in Said(h) : e <= s2 => \E f \in Said(g) : f <= s2 /\ h[e] <= g[f]
    PROVE  Sample(g, s2) >= Sample(h, s)
<1>1. PICK e \in Said(h) : e <= s /\ h[e] = Sample(h, s)
  BY SampleIs DEF LastSaid
<1>2. e \in Nat
  BY ValueTyped DEF Said, Kept
<1>3. PICK f \in Said(g) : f <= s2 /\ h[e] <= g[f]
  BY <1>1, <1>2
<1>4. PICK x \in Said(g) : x <= s2 /\ g[x] = Sample(g, s2) /\ \A o \in Said(g) : o <= s2 => o <= x
  BY SampleIs DEF LastSaid
<1>5. f \in DOMAIN v2 /\ x \in DOMAIN v2 /\ f <= x /\ g[f] = v2[f] /\ g[x] = v2[x]
  BY <1>3, <1>4 DEF Said, Kept
<1>6. g[f] <= g[x] /\ g[f] \in Nat /\ g[x] \in Nat
  BY <1>5, ValueTyped DEF Growing
<1>7. h[e] \in Nat
  BY <1>1, SampleIs
<1> QED  BY <1>1, <1>3, <1>4, <1>6, <1>7

\* A value arrives.
LEMMA InsertKept ==
    ASSUME NEW v, Growing(v), NEW ms, NEW gs, NEW h, NEW shown \in Nat, Kept(v, ms, gs, h, shown),
           NEW tick \in DOMAIN v, tick \notin DOMAIN h, AllReceived(ms, gs, tick),
           NEW g, g = InsertConfirmed(h, tick, v[tick])
    PROVE  /\ Kept(v, ms, gs, g, shown)
           /\ DOMAIN g = DOMAIN h \cup {tick}
           /\ \A t \in DOMAIN h : g[t] = h[t]
           /\ Entered(h, tick, v[tick], g)
           /\ \A t \in DOMAIN h : Backed(v, h, t) => Backed(v, g, t)
           /\ Backed(v, g, tick)
<1>1. /\ g = [t \in DOMAIN h \cup {tick} |-> g[t]]
      /\ DOMAIN g = DOMAIN h \cup {tick}
      /\ \A t \in DOMAIN h : g[t] = h[t]
      /\ Entered(h, tick, v[tick], g)
  <2>1. DOMAIN h \subseteq DOMAIN v
    BY DEF Kept
  <2>2. Inserted(h, tick, v[tick], g)
    BY <2>1, InsertIs
  <2> QED  BY <2>2 DEF Inserted
<1>2. DOMAIN h \subseteq Nat /\ tick \in Nat /\ v[tick] # Unchanged
  BY ValueTyped DEF Kept
<1>3. \A t \in DOMAIN h : t \in Said(g) <=> t \in Said(h)
  BY <1>1 DEF Said
<1>4. \A t \in Said(g) : g[t] = v[t]
  <2>1. \A t \in Said(g) : t = tick \/ t \in Said(h)
    BY <1>1, <1>3 DEF Said
  <2>2. tick \in Said(g) => g[tick] = v[tick]
    BY <1>1 DEF Said, Entered
  <2> QED  BY <2>1, <2>2, <1>1 DEF Said, Kept
<1>5. PICK e \in Said(h) : e <= shown /\ \A t \in DOMAIN h : e <= t
  BY DEF Kept
<1>6. e \in DOMAIN h /\ e \in Said(g) /\ e \in Nat
  BY <1>2, <1>3, <1>5 DEF Said
<1>7. g[tick] # v[tick] => \E o \in Said(h) : o < tick /\ h[o] = v[tick]
  BY <1>1 DEF Entered
<1>8. \E x \in Said(g) : x <= shown /\ \A t \in DOMAIN g : x <= t
  <2>1. CASE tick < e
    <3>1. g[tick] = v[tick]
      <4>1. ASSUME NEW o \in Said(h), o < tick PROVE FALSE
        BY <4>1, <2>1, <1>2, <1>5, <1>6 DEF Said
      <4> QED  BY <4>1, <1>7
    <3>2. tick \in Said(g)
      BY <3>1, <1>1, <1>2 DEF Said
    <3>3. \A t \in DOMAIN g : tick <= t
      BY <2>1, <1>1, <1>2, <1>5, <1>6
    <3> QED  BY <3>2, <3>3, <2>1, <1>2, <1>5, <1>6
  <2>2. CASE ~ (tick < e)
    BY <2>2, <1>1, <1>2, <1>5, <1>6
  <2> QED  BY <2>1, <2>2
<1>9. Kept(v, ms, gs, g, shown)
  <2>1. DOMAIN g \subseteq DOMAIN v
    BY <1>1 DEF Kept
  <2>2. \A t \in DOMAIN g : AllReceived(ms, gs, t)
    BY <1>1 DEF Kept
  <2>3. g = [t \in DOMAIN g |-> g[t]]
    BY <1>1
  <2> QED  BY <1>4, <1>8, <2>1, <2>2, <2>3 DEF Kept
<1>10. \A t \in DOMAIN h : Backed(v, h, t) => Backed(v, g, t)
  BY <1>1 DEF Backed
<1>11. Backed(v, g, tick)
  <2>1. CASE g[tick] = v[tick]
    BY <2>1, <1>1, <1>2 DEF Backed
  <2>2. CASE g[tick] # v[tick]
    <3>1. PICK o \in Said(h) : o < tick /\ h[o] = v[tick]
      BY <2>2, <1>1, <1>7
    <3>2. o \in DOMAIN g /\ g[o] = v[tick] /\ o <= tick
      BY <3>1, <1>1, <1>2 DEF Said
    <3> QED  BY <3>2 DEF Backed
  <2> QED  BY <2>1, <2>2
<1> QED  BY <1>1, <1>9, <1>10, <1>11

\* The completed tick is called unchanged.
LEMMA PushKept ==
    ASSUME NEW v, Growing(v), NEW ms, NEW gs, NEW h, NEW shown \in Nat, Kept(v, ms, gs, h, shown),
           NEW tick \in DOMAIN v, AllReceived(ms, gs, tick), NEW g, Pushed(h, tick, g)
    PROVE  /\ Kept(v, ms, gs, g, shown)
           /\ DOMAIN g = DOMAIN h \cup {tick}
           /\ \A t \in DOMAIN h : t < tick /\ g[t] = h[t]
           /\ Said(g) = Said(h)
           /\ \A t \in DOMAIN h : Backed(v, h, t) => Backed(v, g, t)
           /\ \A e \in Said(h) : h[e] = v[tick] => Backed(v, g, tick)
<1>1. /\ \A t \in DOMAIN h : t < tick
      /\ DOMAIN g = DOMAIN h \cup {tick} /\ g = [t \in DOMAIN g |-> g[t]]
      /\ \A t \in DOMAIN h : g[t] = h[t]
      /\ g[tick] = Unchanged
  BY DEF Pushed
<1>2. DOMAIN h \subseteq Nat /\ tick \in Nat
  BY ValueTyped DEF Kept
<1>3. Said(g) = Said(h)
  BY <1>1 DEF Said
<1>4. Kept(v, ms, gs, g, shown)
  <2>1. PICK e \in Said(h) : e <= shown /\ \A t \in DOMAIN h : e <= t
    BY DEF Kept
  <2>2. \A t \in DOMAIN g : e <= t
    BY <2>1, <1>1, <1>2 DEF Said
  <2>3. \A t \in Said(g) : g[t] = v[t]
    BY <1>1, <1>3 DEF Said, Kept
  <2>4. DOMAIN g \subseteq DOMAIN v /\ \A t \in DOMAIN g : AllReceived(ms, gs, t)
    BY <1>1 DEF Kept
  <2> QED  BY <1>1, <1>3, <2>1, <2>2, <2>3, <2>4 DEF Kept
<1>5. \A t \in DOMAIN h : Backed(v, h, t) => Backed(v, g, t)
  BY <1>1 DEF Backed
<1>6. \A e \in Said(h) : h[e] = v[tick] => Backed(v, g, tick)
  BY <1>1, <1>2 DEF Backed, Said
<1> QED  BY <1>1, <1>3, <1>4, <1>5, <1>6

\* The history is drained.
LEMMA DrainKept ==
    ASSUME NEW v, Growing(v), NEW ms, NEW gs, NEW h, NEW shown \in Nat, Kept(v, ms, gs, h, shown),
           \A t \in DOMAIN h : Backed(v, h, t), NEW tick \in Nat, shown <= tick
    PROVE  /\ Drained(v, h, tick, DrainOldHistory(h, tick))
           /\ Kept(v, ms, gs, DrainOldHistory(h, tick), tick)
<1>1. PICK e \in Said(h) : e <= shown /\ \A t \in DOMAIN h : e <= t
  BY DEF Kept
<1>2. AllTrue(v, h)
  BY <1>1 DEF AllTrue, Kept
<1>3. PICK d : d = DrainOldHistory(h, tick)
  OBVIOUS
<1>4. Drained(v, h, tick, d)
  BY <1>2, <1>3, DrainKeeps
<1>5. e \in DOMAIN h /\ e <= tick
  BY <1>1, <1>2, ValueTyped DEF Said, AllTrue
<1>6. PICK x \in DOMAIN d : x <= tick
  BY <1>4, <1>5 DEF Drained
<1>7. PICK f \in Said(d) : \A t \in DOMAIN d : f <= t
  BY <1>4 DEF Drained, AllTrue
<1>8. DOMAIN d \subseteq DOMAIN h /\ DOMAIN h \subseteq Nat
  BY <1>2, <1>4, ValueTyped DEF Drained, AllTrue
<1>9. f <= tick
  BY <1>6, <1>7, <1>8 DEF Said
<1>10. Kept(v, ms, gs, d, tick)
  BY <1>4, <1>7, <1>8, <1>9 DEF Kept, Drained, AllTrue
<1> QED  BY <1>3, <1>4, <1>10

\* A frame shows nothing older.
LEMMA FrameShows ==
    ASSUME NEW v, Growing(v), NEW ms, NEW gs, NEW h, NEW shown \in Nat, Kept(v, ms, gs, h, shown),
           NEW p, Kept(v, ms, gs, p, shown), Said(p) = Said(h), \A t \in Said(h) : p[t] = h[t],
           NEW s2 \in Nat, shown <= s2, NEW d, Kept(v, ms, gs, d, s2), d = p \/ Drained(v, p, s2, d)
    PROVE  Sample(d, s2) >= Sample(h, shown)
<1>1. DOMAIN p \subseteq DOMAIN v /\ DOMAIN v \subseteq Nat /\ \A t \in Said(p) : p[t] = v[t] /\ p[t] \in Nat
  BY ValueTyped DEF Kept, Said
<1>2. ASSUME NEW e \in Said(h), e <= s2
      PROVE  \E f \in Said(d) : f <= s2 /\ h[e] <= d[f]
  <2>1. e \in Said(p) /\ p[e] = h[e] /\ e \in Nat
    BY <1>1 DEF Said
  <2>2. CASE d = p
    BY <2>1, <2>2, <1>1, <1>2
  <2>3. CASE Drained(v, p, s2, d)
    <3>1. LastSaid(p, s2, Resolve(p, s2))
      <4>1. ~ (e > s2)
        BY <2>1, <1>2
      <4> QED  BY <4>1, <2>1, <1>1, ResolveIs
    <3>2. PICK x \in Said(p) : x <= s2 /\ p[x] = Resolve(p, s2) /\ \A o \in Said(p) : o <= s2 => o <= x
      BY <3>1 DEF LastSaid
    <3>3. e <= x /\ x \in DOMAIN v /\ e \in DOMAIN v
      BY <2>1, <3>2, <1>1, <1>2 DEF Said
    <3>4. p[e] <= p[x] /\ p[x] \in Nat
      BY <3>3, <3>2, <2>1, <1>1 DEF Growing
    <3>5. LastSaid(d, s2, p[x])
      <4>1. LastSaid(p, s2, p[x])
        BY <3>1, <3>2
      <4>2. s2 >= s2
        OBVIOUS
      <4> QED  BY <4>1, <4>2, <2>3, <3>4 DEF Drained
    <3>6. PICK f \in Said(d) : f <= s2 /\ d[f] = p[x]
      BY <3>5 DEF LastSaid
    <3> QED  BY <3>4, <3>6, <2>1
  <2> QED  BY <2>2, <2>3
<1> QED  BY <1>2, SampleGrows

-----------------------------------------------------------------------------
(* A component that is replicated by value.                                *)

\* A message that was not read is of a tick without an entry.
LEMMA MessageIsNew ==
    ASSUME NEW v, NEW ms, NEW gs, NEW a, Served(v, ms, gs, a), NEW h, NEW shown, Kept(v, ms, gs, h, shown),
           NEW m \in ms, m \notin gs, NEW gs2, gs2 = gs \cup {m}
    PROVE  /\ m.tick \in DOMAIN v /\ m.tick \notin DOMAIN h /\ m.last = v[m.tick]
           /\ m.tick \in Nat \ {0} /\ m.first \in Nat \ {0} /\ m.last \in Nat \ {0}
           /\ AllReceived(ms, gs2, m.tick)
           /\ Kept(v, ms, gs2, h, shown)
<1>1. m.tick \in DOMAIN v \ {0} /\ m.last = v[m.tick] /\ m.first \in Nat \ {0} /\ m.last \in Nat \ {0}
  BY DEF Served
<1>2. m.tick \in Nat
  BY <1>1, ValueTyped DEF Served
<1>3. m.tick \notin DOMAIN h
  BY DEF Kept, AllReceived
<1>4. AllReceived(ms, gs2, m.tick)
  BY DEF Served, AllReceived
<1>5. Kept(v, ms, gs2, h, shown)
  BY DEF Kept, AllReceived
<1> QED  BY <1>1, <1>2, <1>3, <1>4, <1>5

\* Nothing older is shown when entries are added.
LEMMA InsertShows ==
    ASSUME NEW v, Growing(v), NEW ms, NEW gs, NEW h, NEW shown \in Nat, Kept(v, ms, gs, h, shown),
           NEW g, Kept(v, ms, gs, g, shown), \A t \in DOMAIN h : t \in DOMAIN g /\ g[t] = h[t]
    PROVE  Sample(g, shown) >= Sample(h, shown)
<1>1. \A e \in Said(h) : e \in Said(g) /\ g[e] = h[e] /\ g[e] \in Nat
  BY ValueTyped DEF Said, Kept
<1>2. \A e \in Said(h) : e <= shown => \E f \in Said(g) : f <= shown /\ h[e] <= g[f]
  BY <1>1
<1> QED  BY <1>2, SampleGrows

\* write_history
LEMMA ValueArrives ==
    ASSUME NEW v, NEW ms, NEW gs, NEW a, Served(v, ms, gs, a), NEW h, NEW shown \in Nat,
           Kept(v, ms, gs, h, shown), OfValues(v, gs, h), NEW m \in ms, m \notin gs,
           NEW gs2, gs2 = gs \cup {m}, NEW g, g = InsertConfirmed(h, m.tick, m.last)
    PROVE  /\ Kept(v, ms, gs2, g, shown) /\ OfValues(v, gs2, g)
           /\ Sample(g, shown) >= Sample(h, shown)
<1>1. /\ m.tick \in DOMAIN v /\ m.tick \notin DOMAIN h /\ m.last = v[m.tick]
      /\ m.tick \in Nat
      /\ AllReceived(ms, gs2, m.tick)
      /\ Kept(v, ms, gs2, h, shown)
  BY MessageIsNew
<1>2. Growing(v)
  BY DEF Served
<1>3. PICK tick : tick = m.tick
  OBVIOUS
<1>4. g = InsertConfirmed(h, tick, v[tick])
  BY <1>1, <1>3
<1>5. /\ Kept(v, ms, gs2, g, shown)
      /\ DOMAIN g = DOMAIN h \cup {tick}
      /\ \A t \in DOMAIN h : g[t] = h[t]
      /\ \A t \in DOMAIN h : Backed(v, h, t) => Backed(v, g, t)
      /\ Backed(v, g, tick)
  <2>1. tick \in DOMAIN v /\ tick \notin DOMAIN h /\ AllReceived(ms, gs2, tick) /\ Kept(v, ms, gs2, h, shown)
    BY <1>1, <1>3
  <2> QED  BY ONLY <2>1, <1>2, <1>4, shown \in Nat, InsertKept
<1>6. OfValues(v, gs2, g)
  <2>1. tick <= tick
    BY <1>1, <1>3
  <2> QED  BY <2>1, <1>3, <1>5 DEF OfValues
<1>7. Sample(g, shown) >= Sample(h, shown)
  BY <1>1, <1>2, <1>5, InsertShows
<1> QED  BY <1>5, <1>6, <1>7

\* update_history_inner
LEMMA ValueFrame ==
    ASSUME NEW v, NEW ms, NEW gs, NEW a, Served(v, ms, gs, a), NEW h, NEW shown \in Nat,
           Kept(v, ms, gs, h, shown), OfValues(v, gs, h), NEW c, IsComplete(v, ms, gs, c),
           NEW s2 \in Nat, shown <= s2, NEW p, p = IF c = NoCursor THEN h ELSE PushUnchanged(h, c),
           NEW d, d = DrainOldHistory(p, s2)
    PROVE  /\ Kept(v, ms, gs, d, s2) /\ OfValues(v, gs, d)
           /\ Sample(d, s2) >= Sample(h, shown)
<1>1. Growing(v)
  BY DEF Served
<1>2. p = h \/ (c # NoCursor /\ c \in DOMAIN v /\ AllReceived(ms, gs, c) /\ Pushed(h, c, p))
  <2>1. CASE c = NoCursor
    BY <2>1
  <2>2. CASE c # NoCursor
    <3>1. c \in DOMAIN v /\ AllReceived(ms, gs, c) /\ DOMAIN h \subseteq DOMAIN v
      BY <2>2 DEF IsComplete, Kept
    <3>2. p = PushUnchanged(h, c)
      BY <2>2
    <3>3. PushUnchanged(h, c) = h \/ Pushed(h, c, PushUnchanged(h, c))
      BY <1>1, <3>1, PushIs
    <3> QED  BY <2>2, <3>1, <3>2, <3>3
  <2> QED  BY <2>1, <2>2
<1>3. /\ Kept(v, ms, gs, p, shown) /\ OfValues(v, gs, p)
      /\ Said(p) = Said(h) /\ \A t \in Said(h) : p[t] = h[t]
  <2>1. CASE p = h
    BY <2>1
  <2>2. CASE c # NoCursor /\ c \in DOMAIN v /\ AllReceived(ms, gs, c) /\ Pushed(h, c, p)
    <3>1. /\ Kept(v, ms, gs, p, shown)
          /\ DOMAIN p = DOMAIN h \cup {c}
          /\ \A t \in DOMAIN h : t < c /\ p[t] = h[t]
          /\ Said(p) = Said(h)
          /\ \A t \in DOMAIN h : Backed(v, h, t) => Backed(v, p, t)
          /\ \A e \in Said(h) : h[e] = v[c] => Backed(v, p, c)
      BY <1>1, <2>2, PushKept
    <3>2. DOMAIN h \subseteq DOMAIN v /\ DOMAIN v \subseteq Nat /\ \A t \in DOMAIN v : v[t] \in Nat
      BY <1>1, ValueTyped DEF Kept
    <3>3. Settled(v, ms, gs, a, c)
      <4>1. ASSUME NEW m \in ms, m.tick = c PROVE FALSE
        <5>1. PICK t \in DOMAIN h : c <= t
          BY <4>1, <2>2 DEF AllReceived, OfValues
        <5> QED  BY <5>1, <3>1, <3>2, <2>2
      <4> QED  BY <4>1, <2>2 DEF Served
    <3>4. \E e \in Said(h) : h[e] = v[c]
      <4>1. CASE v[c] = 0
        <5>1. PICK e \in Said(h) : TRUE
          BY DEF Kept
        <5>2. e \in DOMAIN v /\ e <= c /\ h[e] = v[e]
          BY <3>1, <3>2, <2>2 DEF Said, Kept
        <5>3. v[e] <= v[c]
          BY <5>2, <1>1, <2>2 DEF Growing
        <5> QED  BY <5>2, <5>3, <4>1, <3>2
      <4>2. CASE v[c] # 0
        <5>1. PICK g \in gs : g.tick < c /\ g.last = v[c]
          BY <4>2, <3>3 DEF Settled
        <5>2. g \in ms /\ g.tick \in DOMAIN v /\ g.last = v[g.tick]
          BY DEF Served
        <5>3. PICK t \in DOMAIN h : g.tick <= t
          BY DEF OfValues
        <5>4. v[g.tick] <= v[t] /\ v[t] <= v[c]
          BY <5>2, <5>3, <3>1, <3>2, <1>1, <2>2 DEF Growing
        <5>5. v[t] = v[c]
          BY <5>1, <5>2, <5>4, <3>2, <2>2
        <5>6. PICK e \in DOMAIN h : h[e] = v[t]
          BY DEF OfValues, Backed
        <5>7. v[t] # Unchanged
          BY <1>1, <3>2, ValueTyped
        <5> QED  BY <5>5, <5>6, <5>7 DEF Said
      <4> QED  BY <4>1, <4>2
    <3>5. \A t \in DOMAIN p : Backed(v, p, t)
      BY <3>1, <3>4 DEF OfValues
    <3>6. OfValues(v, gs, p)
      BY <3>1, <3>5 DEF OfValues
    <3>7. \A t \in Said(h) : p[t] = h[t]
      BY <3>1 DEF Said
    <3> QED  BY <3>1, <3>6, <3>7
  <2> QED  BY <1>2, <2>1, <2>2
<1>4. Drained(v, p, s2, d) /\ Kept(v, ms, gs, d, s2)
  BY <1>1, <1>3, DrainKept DEF OfValues
<1>5. OfValues(v, gs, d)
  <2>1. ASSUME NEW g \in gs PROVE \E t \in DOMAIN d : g.tick <= t
    <3>1. PICK x \in DOMAIN p : g.tick <= x
      BY <1>3 DEF OfValues
    <3>2. PICK y \in DOMAIN d : x <= y
      BY <1>4 DEF Drained
    <3>3. g.tick \in Nat /\ x \in Nat /\ y \in Nat
      <4>1. g.tick \in DOMAIN v /\ DOMAIN v \subseteq Nat
        BY <1>1, ValueTyped DEF Served
      <4>2. x \in DOMAIN v /\ y \in DOMAIN v
        BY <1>3, <1>4 DEF Kept
      <4> QED  BY <4>1, <4>2
    <3> QED  BY <3>1, <3>2, <3>3
  <2> QED  BY <2>1, <1>4 DEF OfValues, Drained, AllTrue
<1>6. Sample(d, s2) >= Sample(h, shown)
  BY <1>1, <1>3, <1>4, FrameShows
<1> QED  BY <1>4, <1>5, <1>6

-----------------------------------------------------------------------------
(* The messages that are pending.                                          *)

\* What is left of a sequence from which one element is removed.
LEMMA RestIs ==
    ASSUME NEW S, NEW s, s \in Seq(S), NEW i, i \in 1 .. Len(s), NEW u, u = RemoveAt(s, i)
    PROVE  /\ u \in Seq(S)
           /\ \A x \in DOMAIN u : \E j \in DOMAIN s : u[x] = s[j]
           /\ \A j \in DOMAIN s : j # i => \E x \in DOMAIN u : u[x] = s[j]
<1> DEFINE n == Len(s)
           w == [x \in 1 .. n - 1 |-> IF x < i THEN s[x] ELSE s[x + 1]]
<1>1. n \in Nat /\ i \in 1 .. n /\ i \in Nat /\ DOMAIN s = 1 .. n /\ \A j \in 1 .. n : s[j] \in S
  BY LenProperties, ElementOfSeq
<1>2. n - 1 \in Nat /\ w \in Seq(S) /\ DOMAIN w = 1 .. n - 1 /\ Len(w) = n - 1
  <2>1. n - 1 \in Nat
    BY <1>1
  <2>2. \A x \in 1 .. n - 1 : x \in 1 .. n /\ x + 1 \in 1 .. n
    BY <1>1
  <2>3. w \in [1 .. n - 1 -> S]
    <3> HIDE DEF n
    <3> QED  BY <1>1, <2>2
  <2>4. w \in Seq(S)
    <3> HIDE DEF w, n
    <3> QED  BY <2>1, <2>3, SeqDef
  <2> HIDE DEF n
  <2> QED  BY <2>1, <2>4, LenProperties
<1>3. u \in Seq(S) /\ DOMAIN u = 1 .. n - 1 /\ \A x \in 1 .. n - 1 : u[x] = w[x]
  <2>1. SubSeq(s, 1, i - 1) = [x \in 1 .. i - 1 |-> s[x]] /\ SubSeq(s, i + 1, n) = [x \in 1 .. n - i |-> s[x + i]]
    <3>1. SubSeq(s, 1, i - 1) = [x \in 1 .. (i - 1) - 1 + 1 |-> s[x + 1 - 1]]
      BY <1>1, SubSeqProperties
    <3>2. SubSeq(s, i + 1, n) = [x \in 1 .. n - (i + 1) + 1 |-> s[x + (i + 1) - 1]]
      BY <1>1, SubSeqProperties
    <3>3. (i - 1) - 1 + 1 = i - 1 /\ n - (i + 1) + 1 = n - i
      BY <1>1
    <3>4. \A x \in 1 .. i - 1 : x + 1 - 1 = x
      BY <1>1
    <3>5. \A x \in 1 .. n - i : x + (i + 1) - 1 = x + i
      BY <1>1
    <3> HIDE DEF n
    <3> QED  BY <3>1, <3>2, <3>3, <3>4, <3>5
  <2>2. PICK p, q : p = SubSeq(s, 1, i - 1) /\ q = SubSeq(s, i + 1, n)
    OBVIOUS
  <2>3. p \in Seq(S) /\ Len(p) = i - 1 /\ DOMAIN p = 1 .. i - 1 /\ \A x \in 1 .. i - 1 : p[x] = s[x]
    <3>1. p \in [1 .. i - 1 -> S]
      <4>1. \A x \in 1 .. i - 1 : s[x] \in S
        BY <1>1
      <4> HIDE DEF n
      <4> QED  BY <2>1, <2>2, <4>1
    <3>2. i - 1 \in Nat
      BY <1>1
    <3>3. p \in Seq(S)
      BY <3>1, <3>2, SeqDef
    <3> HIDE DEF n
    <3> QED  BY <2>1, <2>2, <3>2, <3>3, LenProperties
  <2>4. q \in Seq(S) /\ Len(q) = n - i /\ DOMAIN q = 1 .. n - i /\ \A x \in 1 .. n - i : q[x] = s[x + i]
    <3>1. q \in [1 .. n - i -> S]
      <4>1. \A x \in 1 .. n - i : s[x + i] \in S
        BY <1>1
      <4> HIDE DEF n
      <4> QED  BY <2>1, <2>2, <4>1
    <3>2. n - i \in Nat
      BY <1>1
    <3>3. q \in Seq(S)
      <4> HIDE DEF n
      <4> QED  BY <3>1, <3>2, SeqDef
    <3> HIDE DEF n
    <3> QED  BY <2>1, <2>2, <3>2, <3>3, LenProperties
  <2>5. u = p \o q
    BY <2>2 DEF RemoveAt
  <2>6. /\ p \o q \in Seq(S) /\ Len(p \o q) = Len(p) + Len(q)
        /\ \A x \in 1 .. Len(p) + Len(q) : (p \o q)[x] = IF x <= Len(p) THEN p[x] ELSE q[x - Len(p)]
    BY <2>3, <2>4, ConcatProperties
  <2>7. (i - 1) + (n - i) = n - 1
    BY <1>1
  <2>8. DOMAIN u = 1 .. n - 1
    <3> HIDE DEF n
    <3> QED  BY <2>3, <2>4, <2>5, <2>6, <2>7, LenProperties
  <2>9. ASSUME NEW x \in 1 .. n - 1 PROVE u[x] = w[x]
    <3>1. u[x] = IF x <= i - 1 THEN p[x] ELSE q[x - (i - 1)]
      <4> HIDE DEF n
      <4> QED  BY <2>3, <2>4, <2>5, <2>6, <2>7
    <3>2. CASE x < i
      <4>1. x \in 1 .. i - 1 /\ x <= i - 1
        BY <1>1, <3>2
      <4> HIDE DEF n
      <4> QED  BY <2>3, <3>1, <3>2, <4>1
    <3>3. CASE ~ (x < i)
      <4>1. x - (i - 1) \in 1 .. n - i /\ ~ (x <= i - 1) /\ x - (i - 1) + i = x + 1
        BY <1>1, <3>3
      <4>2. q[x - (i - 1)] = s[x + 1]
        <5> HIDE DEF n
        <5> QED  BY <2>4, <4>1
      <4> HIDE DEF n
      <4> QED  BY <3>1, <3>3, <4>1, <4>2
    <3> QED  BY <3>2, <3>3
  <2> HIDE DEF w, n
  <2> QED  BY <2>5, <2>6, <2>8, <2>9
<1>4. ASSUME NEW j \in DOMAIN s, j # i PROVE \E x \in DOMAIN w : w[x] = s[j]
  <2>1. CASE j < i
    <3>1. j \in 1 .. n - 1 /\ w[j] = s[j]
      BY <1>1, <2>1
    <3> QED  BY <3>1
  <2>2. CASE ~ (j < i)
    <3>1. j - 1 \in 1 .. n - 1 /\ ~ (j - 1 < i) /\ (j - 1) + 1 = j
      BY <1>1, <1>4, <2>2
    <3>2. w[j - 1] = s[j]
      BY <3>1
    <3> QED  BY <3>1, <3>2
  <2> QED  BY <2>1, <2>2
<1>5. ASSUME NEW x \in DOMAIN w PROVE \E j \in DOMAIN s : w[x] = s[j]
  <2>1. x \in 1 .. n /\ x + 1 \in 1 .. n /\ (w[x] = s[x] \/ w[x] = s[x + 1])
    BY <1>1
  <2> HIDE DEF w, n
  <2> QED  BY <1>1, <2>1
<1> HIDE DEF w
<1> QED  BY <1>2, <1>3, <1>4, <1>5

\* What is still pending is what the cursor does not cover.
LEMMA StillPendingIs ==
    ASSUME NEW queue, queue \in Seq(MessageSet), NEW cursor \in Nat
    PROVE  /\ StillPending(queue, cursor) \in Seq(MessageSet)
           /\ \A x \in DOMAIN StillPending(queue, cursor) :
                 /\ StillPending(queue, cursor)[x].last > cursor
                 /\ \E j \in DOMAIN queue : StillPending(queue, cursor)[x] = queue[j]
           /\ \A j \in DOMAIN queue : queue[j].last > cursor =>
                 \E x \in DOMAIN StillPending(queue, cursor) : StillPending(queue, cursor)[x] = queue[j]
<1> DEFINE n == Len(queue)
           Turn(k, l) == IF queue[k].last > cursor THEN Append(l, queue[k]) ELSE l
           After(f) == [k \in 0 .. n |-> IF k = 0 THEN <<>>
                                         ELSE IF queue[k].last > cursor THEN Append(f[k - 1], queue[k])
                                         ELSE f[k - 1]]
           step == [k \in 1 .. n |-> [l \in Seq(MessageSet) |-> Turn(k, l)]]
           run == CHOOSE f : f = After(f)
<1>1. n \in Nat /\ <<>> \in Seq(MessageSet) /\ DOMAIN queue = 1 .. n /\ \A k \in 1 .. n : queue[k] \in MessageSet
  BY LenProperties, ElementOfSeq
<1>2. ASSUME NEW k \in 1 .. n, NEW l \in Seq(MessageSet)
      PROVE  Turn(k, l) \in Seq(MessageSet)
  BY <1>1, AppendProperties
<1>3. step \in [1 .. n -> [Seq(MessageSet) -> Seq(MessageSet)]]
  BY <1>2
<1>4. PICK f \in [0 .. n -> Seq(MessageSet)] : f[0] = <<>> /\ \A k \in 1 .. n : f[k] = step[k][f[k - 1]]
  <2>1. PICK e : e = <<>>
    OBVIOUS
  <2>2. PICK T : T = Seq(MessageSet)
    OBVIOUS
  <2>3. PICK m : m = n
    OBVIOUS
  <2>4. PICK turn : turn = step
    OBVIOUS
  <2>5. m \in Nat /\ e \in T /\ turn \in [1 .. m -> [T -> T]]
    <3> HIDE DEF step, n
    <3> QED  BY <1>1, <1>3, <2>1, <2>2, <2>3, <2>4
  <2>6. \E f \in [0 .. m -> T] : f[0] = e /\ \A k \in 1 .. m : f[k] = turn[k][f[k - 1]]
    BY ONLY <2>5, RunExists
  <2> HIDE DEF step, n
  <2> QED  BY <2>1, <2>2, <2>3, <2>4, <2>6
<1>5. f = After(f)
  <2>1. ASSUME NEW k \in 1 .. n PROVE f[k] = Turn(k, f[k - 1])
    <3>1. k - 1 \in 0 .. n
      BY <1>1
    <3>2. f[k - 1] \in Seq(MessageSet)
      <4> HIDE DEF step, n, Turn
      <4> QED  BY <3>1
    <3>3. f[k] = step[k][f[k - 1]]
      <4> HIDE DEF step, n, Turn
      <4> QED  BY <1>4
    <3> HIDE DEF n, Turn
    <3> QED  BY <3>2, <3>3
  <2>2. \A k \in 0 .. n : k # 0 => k \in 1 .. n
    BY <1>1
  <2> HIDE DEF n, step
  <2> QED  BY ONLY <1>4, <2>1, <2>2
<1>6. run = After(run)
  <2> HIDE DEF After
  <2> QED  BY <1>5
<1>7. run[0] = <<>> /\ \A k \in 1 .. n : run[k] = Turn(k, run[k - 1])
  <2>1. run[0] = <<>>
    <3> HIDE DEF run, n
    <3> QED  BY <1>6, <1>1
  <2>2. ASSUME NEW k \in 1 .. n PROVE run[k] = Turn(k, run[k - 1])
    <3>1. k \in 0 .. n /\ k # 0
      BY <1>1
    <3> HIDE DEF run, n
    <3> QED  BY <1>6, <3>1
  <2> QED  BY <2>1, <2>2
<1> DEFINE Upto(k) == {l \in Seq(MessageSet) :
                         /\ \A x \in DOMAIN l : l[x].last > cursor /\ \E j \in 1 .. k : l[x] = queue[j]
                         /\ \A j \in 1 .. k : queue[j].last > cursor => \E x \in DOMAIN l : l[x] = queue[j]}
           P == [k \in 0 .. n |-> Upto(k)]
<1>8. ASSUME NEW k \in 1 .. n, run[k - 1] \in P[k - 1] PROVE run[k] \in P[k]
  <2>1. k - 1 \in 0 .. n /\ k \in 0 .. n /\ k \in Nat /\ \A j \in 1 .. k : j = k \/ j \in 1 .. k - 1
    BY <1>1
  <2>2. PICK l : l = run[k - 1]
    OBVIOUS
  <2>3. l \in Upto(k - 1)
    <3> HIDE DEF run, n, Upto
    <3> QED  BY <1>8, <2>1, <2>2
  <2>4. run[k] = Turn(k, l)
    <3> HIDE DEF run, n, Turn
    <3> QED  BY <1>7, <2>2
  <2>5. PICK after : after = Turn(k, l)
    OBVIOUS
  <2>6. after \in Seq(MessageSet)
    <3> HIDE DEF Turn, n
    <3> QED  BY <1>2, <2>3, <2>5
  <2>7. CASE queue[k].last > cursor
    <3>1. after = Append(l, queue[k])
      BY <2>5, <2>7
    <3>2. /\ Len(l) \in Nat /\ DOMAIN l = 1 .. Len(l) /\ DOMAIN after = 1 .. Len(l) + 1
          /\ after[Len(l) + 1] = queue[k] /\ \A x \in 1 .. Len(l) : after[x] = l[x]
      <4>1. l \in Seq(MessageSet) /\ queue[k] \in MessageSet
        BY <1>1, <2>3
      <4> QED  BY <3>1, <4>1, AppendProperties, LenProperties
    <3>3. \A x \in DOMAIN after : x \in DOMAIN l \/ x = Len(l) + 1
      BY <3>2
    <3>4. \A x \in DOMAIN after : after[x].last > cursor /\ \E j \in 1 .. k : after[x] = queue[j]
      <4>1. \A j \in 1 .. k - 1 : j \in 1 .. k
        BY <2>1
      <4>2. k \in 1 .. k
        BY <2>1
      <4> HIDE DEF n, Turn, run
      <4> QED  BY <2>3, <2>7, <3>2, <3>3, <4>1, <4>2
    <3>5. \A j \in 1 .. k : queue[j].last > cursor => \E x \in DOMAIN after : after[x] = queue[j]
      <4>1. Len(l) + 1 \in DOMAIN after /\ \A x \in DOMAIN l : x \in DOMAIN after /\ after[x] = l[x]
        BY <3>2
      <4>2. ASSUME NEW j \in 1 .. k - 1, queue[j].last > cursor
            PROVE  \E x \in DOMAIN after : after[x] = queue[j]
        <5>1. \E x \in DOMAIN l : l[x] = queue[j]
          <6> HIDE DEF n, Turn, run
          <6> QED  BY <2>3, <4>2
        <5> HIDE DEF n, Turn, run
        <5> QED  BY <5>1, <4>1
      <4> HIDE DEF n, Turn, run
      <4> QED  BY <2>1, <3>2, <4>1, <4>2
    <3>6. after \in Upto(k)
      <4> HIDE DEF n, Turn, run
      <4> QED  BY <2>6, <3>4, <3>5
    <3> HIDE DEF run, n, Turn, Upto
    <3> QED  BY <2>1, <2>4, <2>5, <3>6
  <2>8. CASE ~ (queue[k].last > cursor)
    <3>1. after = l
      BY <2>5, <2>8
    <3>2. \A j \in 1 .. k - 1 : j \in 1 .. k
      BY <2>1
    <3>3. l \in Upto(k)
      <4> HIDE DEF n, Turn, run
      <4> QED  BY <2>1, <2>3, <2>8, <3>2
    <3> HIDE DEF run, n, Turn, Upto
    <3> QED  BY <2>1, <2>4, <2>5, <3>1, <3>3
  <2> QED  BY <2>7, <2>8
<1>9. run[0] \in P[0]
  <2>1. run[0] = <<>> /\ DOMAIN <<>> = {} /\ 1 .. 0 = {} /\ 0 \in 0 .. n
    <3> HIDE DEF run, n
    <3> QED  BY <1>1, <1>7
  <2>2. <<>> \in Upto(0)
    BY <1>1, <2>1
  <2> HIDE DEF run, n, Upto
  <2> QED  BY <2>1, <2>2
<1>10. run[n] \in P[n]
  <2> HIDE DEF run, P, n
  <2> QED  BY ONLY <1>1, <1>8, <1>9, RunPasses
<1>11. run[n] \in Upto(n)
  <2>1. n \in 0 .. n
    BY <1>1
  <2> HIDE DEF run, n, Upto
  <2> QED  BY <1>10, <2>1
<1>12. StillPending(queue, cursor) = run[n]
  BY DEF StillPending
<1> HIDE DEF run, n
<1> QED  BY <1>1, <1>11, <1>12

-----------------------------------------------------------------------------
(* A component that is replicated by diffs.                                *)

\* What a receiver is made of.
LEMMA ReceiverTyped ==
    ASSUME NEW r \in Receivers
    PROVE  /\ r.base \in Nat \cup {NoCursor} /\ r.baseTick \in Nat \cup {NoCursor}
           /\ \A k \in r.known : k \in [cursor : Nat, tick : Nat] /\ k.cursor \in Nat /\ k.tick \in Nat
           /\ r.pending \in Seq(MessageSet)
           /\ Len(r.pending) \in Nat /\ DOMAIN r.pending = 1 .. Len(r.pending)
           /\ \A i \in DOMAIN r.pending :
                 /\ r.pending[i] \in MessageSet /\ r.pending[i].tick \in Nat
                 /\ r.pending[i].first \in Nat \ {0} /\ r.pending[i].last \in Nat \ {0}
           /\ NoCursor \notin Int
<1>1. /\ r.base \in Nat \cup {NoCursor} /\ r.baseTick \in Nat \cup {NoCursor}
      /\ \A k \in r.known : k \in [cursor : Nat, tick : Nat]
      /\ r.pending \in Seq(MessageSet)
  BY DEF Receivers
<1>2. Len(r.pending) \in Nat /\ DOMAIN r.pending = 1 .. Len(r.pending)
      /\ \A i \in DOMAIN r.pending : r.pending[i] \in MessageSet
  BY <1>1, LenProperties, ElementOfSeq
<1>3. NoCursor \notin Int
  BY InterpAssumption
<1> QED  BY <1>1, <1>2, <1>3 DEF MessageSet

\* What the receiver finds for a cursor is in the history.
LEMMA TickForCursorIs ==
    ASSUME NEW v, Growing(v), NEW ms, NEW gs, NEW c, NEW r \in Receivers, NEW h, DOMAIN h \subseteq DOMAIN v,
           BaseHeld(v, ms, gs, c, r, h), KnownHeld(r, h),
           NEW cursor \in Nat, TickForCursor(r, cursor) # NoCursor
    PROVE  /\ LastSaid(h, TickForCursor(r, cursor), cursor)
           /\ TickForCursor(r, cursor) \in Nat
           /\ Recorded(r, cursor)
           /\ r.base # NoCursor => r.baseTick <= TickForCursor(r, cursor)
<1>1. NoCursor \notin Int /\ DOMAIN v \subseteq Nat
  BY ValueTyped, ReceiverTyped
<1>2. CASE cursor = r.base
  <2>1. r.base # NoCursor /\ TickForCursor(r, cursor) = r.baseTick
    BY <1>1, <1>2 DEF TickForCursor
  <2>2. r.baseTick \in Nat /\ LastSaid(h, r.baseTick, r.base)
    BY <1>1, <2>1 DEF BaseHeld
  <2>3. Recorded(r, cursor)
    BY <1>2, <2>1 DEF Recorded
  <2> QED  BY <1>2, <2>1, <2>2, <2>3
<1>3. CASE cursor # r.base
  <2>1. PICK k \in r.known : k.cursor = cursor /\ TickForCursor(r, cursor) = k.tick
    BY <1>3 DEF TickForCursor
  <2>2. k.tick \in DOMAIN h /\ h[k.tick] = cursor /\ k.tick \in Nat /\ k.cursor \in Nat
    BY <2>1, ReceiverTyped DEF KnownHeld
  <2>3. cursor # Unchanged
    BY InterpAssumption
  <2>4. LastSaid(h, k.tick, cursor)
    <3>1. k.tick \in Said(h) /\ k.tick <= k.tick
      BY <2>2, <2>3 DEF Said
    <3> QED  BY <3>1, <2>2 DEF LastSaid
  <2>5. Recorded(r, cursor)
    BY <2>1, <2>2 DEF Recorded
  <2>6. r.base # NoCursor => r.baseTick <= k.tick
    <3>1. r.base # NoCursor => r.baseTick \in Nat /\ k.tick > r.baseTick
      BY <2>1, <1>1 DEF KnownHeld, BaseHeld
    <3> QED  BY <3>1, <2>2
  <2> QED  BY <2>1, <2>2, <2>4, <2>5, <2>6
<1> QED  BY <1>2, <1>3

\* A message is queued.
LEMMA QueueKeeps ==
    ASSUME NEW v, NEW ms, NEW gs, NEW a, Served(v, ms, gs, a), NEW h, NEW shown, Kept(v, ms, gs, h, shown),
           NEW c, NEW r, OfDiffs(v, ms, gs, a, c, r, h), NEW m \in ms, m \notin gs, NEW gs2, gs2 = gs \cup {m},
           NEW q, q = QueueDiffs(r, m.tick, m.first, m.last)
    PROVE  OfDiffs(v, ms, gs2, a, c, q, h)
<1> DEFINE message == [tick  |-> m.tick,
                       first |-> IF Retired(r, m.first - 1) THEN r.base + 1 ELSE m.first,
                       last  |-> m.last]
<1>1. r \in Receivers
  BY DEF OfDiffs
<1>2. /\ m.tick \in DOMAIN v /\ m.tick \notin DOMAIN h /\ m.last = v[m.tick]
      /\ m.tick \in Nat \ {0} /\ m.first \in Nat \ {0} /\ m.last \in Nat \ {0}
  BY MessageIsNew
<1>3. message \in MessageSet /\ message.tick = m.tick /\ message.last = m.last /\ m.first <= message.first
  <2>1. CASE Retired(r, m.first - 1)
    <3>1. r.base \in Nat /\ m.first - 1 <= r.base
      BY <2>1, <1>1, ReceiverTyped DEF Retired
    <3> QED  BY <2>1, <3>1, <1>2 DEF MessageSet
  <2>2. CASE ~ Retired(r, m.first - 1)
    BY <2>2, <1>2 DEF MessageSet
  <2> QED  BY <2>1, <2>2
<1> HIDE DEF message
<1>4. BaseHeld(v, ms, gs2, c, r, h)
  BY DEF OfDiffs, BaseHeld, AllReceived
<1>5. \A p : PendingIsAhead(gs, r, h, p) => PendingIsAhead(gs2, r, h, p)
  BY DEF PendingIsAhead
<1>6. CASE q = r /\ (Recorded(r, m.last) \/ \E i \in DOMAIN r.pending : r.pending[i] = message)
  <2>1. Recorded(r, m.last) \/ \E i \in DOMAIN r.pending : r.pending[i].tick = m.tick /\ r.pending[i].last = m.last
    BY <1>3, <1>6
  <2> QED  BY <1>4, <1>5, <1>6, <2>1 DEF OfDiffs
<1>7. CASE /\ q = [r EXCEPT !.pending = Append(@, message)]
           /\ ~ Retired(r, m.last) /\ TickForCursor(r, m.last) = NoCursor
  <2>1. /\ q.base = r.base /\ q.baseTick = r.baseTick /\ q.known = r.known /\ q \in Receivers
        /\ q.pending = Append(r.pending, message)
    <3>1. Append(r.pending, message) \in Seq(MessageSet)
      BY <1>1, <1>3, ReceiverTyped, AppendProperties
    <3> QED  BY <3>1, <1>1, <1>7 DEF Receivers
  <2>2. /\ DOMAIN q.pending = 1 .. Len(r.pending) + 1 /\ DOMAIN r.pending = 1 .. Len(r.pending)
        /\ Len(r.pending) \in Nat
        /\ q.pending[Len(r.pending) + 1] = message /\ \A i \in 1 .. Len(r.pending) : q.pending[i] = r.pending[i]
    BY <1>1, <1>3, <2>1, ReceiverTyped, AppendProperties, LenProperties
  <2>3. /\ \A i \in DOMAIN q.pending : q.pending[i] = message \/ \E j \in DOMAIN r.pending : q.pending[i] = r.pending[j]
        /\ \A i \in DOMAIN r.pending : i \in DOMAIN q.pending /\ q.pending[i] = r.pending[i]
        /\ \E i \in DOMAIN q.pending : q.pending[i] = message
    BY SMTT(60), <2>2
  <2>4. /\ \A cursor : Recorded(q, cursor) = Recorded(r, cursor)
        /\ KnownHeld(q, h) /\ BaseHeld(v, ms, gs2, c, q, h)
    BY <1>4, <2>1 DEF Recorded, KnownHeld, BaseHeld, OfDiffs
  <2>5. PendingIsAhead(gs2, q, h, message)
    <3>1. r.base # NoCursor => m.last > r.base /\ m.tick # r.baseTick
      <4>1. r.base # NoCursor => r.base \in Nat
        BY <1>1, ReceiverTyped
      <4>2. r.base # NoCursor => AllReceived(ms, gs, r.baseTick)
        BY DEF OfDiffs, BaseHeld
      <4> QED  BY <4>1, <4>2, <1>2, <1>7 DEF Retired, AllReceived
    <3>2. m.tick # r.baseTick
      <4>1. r.base = NoCursor => r.baseTick = NoCursor
        BY DEF OfDiffs, BaseHeld
      <4> QED  BY <3>1, <4>1, <1>1, <1>2, ReceiverTyped
    <3>3. ASSUME NEW k \in r.known PROVE k.cursor # m.last
      <4>1. SUFFICES ASSUME k.cursor = m.last PROVE FALSE
        OBVIOUS
      <4>2. m.last # r.base
        BY <3>1, <1>1, <1>2, ReceiverTyped
      <4>3. PICK o \in r.known : TickForCursor(r, m.last) = o.tick
        BY <4>1, <4>2 DEF TickForCursor
      <4>4. o.tick \in Nat /\ NoCursor \notin Int
        BY <1>1, ReceiverTyped
      <4>5. TickForCursor(r, m.last) = NoCursor
        BY <1>7
      <4> QED  BY <4>3, <4>4, <4>5
    <3> QED  BY <1>2, <1>3, <2>1, <3>1, <3>2, <3>3 DEF PendingIsAhead
  <2>6. \A i \in DOMAIN q.pending : PendingIsAhead(gs2, q, h, q.pending[i])
    <3>1. \A p : PendingIsAhead(gs, r, h, p) => PendingIsAhead(gs2, q, h, p)
      BY <1>5, <2>1 DEF PendingIsAhead
    <3> QED  BY <2>3, <2>5, <3>1 DEF OfDiffs
  <2>7. \A t \in DOMAIN h : Backed(v, h, t) \/ Carried(v, ms, a, q, t)
    <3>1. \A t \in DOMAIN h : Carried(v, ms, a, r, t) => Carried(v, ms, a, q, t)
      BY <2>3, <2>4 DEF Carried
    <3> QED  BY <3>1 DEF OfDiffs
  <2>8. \A g \in gs2 : \/ Recorded(q, g.last)
                       \/ \E i \in DOMAIN q.pending : q.pending[i].tick = g.tick /\ q.pending[i].last = g.last
    BY <1>3, <2>3, <2>4 DEF OfDiffs
  <2> QED  BY <2>1, <2>4, <2>6, <2>7, <2>8 DEF OfDiffs
<1>8. Retired(r, m.last) => Recorded(r, m.last)
  BY DEF Retired, Recorded
<1>9. TickForCursor(r, m.last) # NoCursor => Recorded(r, m.last)
  <2>1. DOMAIN h \subseteq DOMAIN v /\ Growing(v) /\ BaseHeld(v, ms, gs, c, r, h) /\ KnownHeld(r, h)
    BY DEF Kept, Served, OfDiffs
  <2> QED  BY <1>1, <1>2, <2>1, TickForCursorIs
<1>10. q = IF \/ Retired(r, m.last) \/ TickForCursor(r, m.last) # NoCursor
              \/ \E i \in DOMAIN r.pending : r.pending[i] = message
           THEN r ELSE [r EXCEPT !.pending = Append(@, message)]
  BY DEF QueueDiffs, message
<1> QED  BY <1>6, <1>7, <1>8, <1>9, <1>10

\* A value is said whose cursor was recorded.
LEMMA RecordedIsSaid ==
    ASSUME NEW v, Growing(v), NEW ms, NEW gs, NEW c, NEW r \in Receivers, NEW h, DOMAIN h \subseteq DOMAIN v,
           BaseHeld(v, ms, gs, c, r, h), KnownHeld(r, h),
           NEW cursor \in Nat, Recorded(r, cursor)
    PROVE  \E e \in Said(h) : cursor <= h[e]
<1>1. CASE r.base # NoCursor /\ cursor <= r.base
  BY <1>1 DEF BaseHeld, LastSaid
<1>2. CASE \E k \in r.known : cursor <= k.cursor
  <2>1. PICK k \in r.known : cursor <= k.cursor
    BY <1>2
  <2>2. k.tick \in DOMAIN h /\ h[k.tick] = k.cursor /\ k.cursor \in Nat
    BY <2>1, ReceiverTyped DEF KnownHeld
  <2>3. k.cursor # Unchanged
    BY <2>2, InterpAssumption
  <2> QED  BY <2>1, <2>2, <2>3 DEF Said
<1> QED  BY <1>1, <1>2 DEF Recorded

\* The value of a pending message is not said yet.
LEMMA PendingIsNotSaid ==
    ASSUME NEW v, Growing(v), NEW ms, NEW gs, NEW c, NEW r \in Receivers,
           NEW h, DOMAIN h \subseteq DOMAIN v, \A t \in Said(h) : h[t] = v[t],
           BaseHeld(v, ms, gs, c, r, h), KnownHeld(r, h),
           NEW p \in MessageSet, PendingIsAhead(gs, r, h, p)
    PROVE  \A e \in Said(h) : h[e] # p.last
<1>1. SUFFICES ASSUME NEW e \in Said(h), h[e] = p.last PROVE FALSE
  OBVIOUS
<1>2. e \in DOMAIN v /\ e \in Nat /\ h[e] = v[e] /\ v[e] \in Nat /\ p.last \in Nat
  BY ValueTyped DEF Said, MessageSet
<1>3. CASE r.base = NoCursor \/ e > r.baseTick
  <2>1. [cursor |-> h[e], tick |-> e] \in r.known
    BY <1>3 DEF KnownHeld
  <2> QED  BY <1>1, <2>1 DEF PendingIsAhead
<1>4. CASE r.base # NoCursor /\ ~ (e > r.baseTick)
  <2>1. r.base \in Nat /\ r.baseTick \in Nat
    BY <1>4, ReceiverTyped DEF BaseHeld
  <2>2. PICK f \in Said(h) : f <= r.baseTick /\ h[f] = r.base /\ \A o \in Said(h) : o <= r.baseTick => o <= f
    BY <1>4 DEF BaseHeld, LastSaid
  <2>3. e <= f /\ f \in DOMAIN v /\ h[f] = v[f]
    BY <1>2, <1>4, <2>1, <2>2 DEF Said
  <2>4. v[e] <= v[f]
    BY <1>2, <2>3 DEF Growing
  <2>5. p.last > r.base
    BY <1>4 DEF PendingIsAhead
  <2> QED  BY <1>1, <1>2, <2>1, <2>2, <2>3, <2>4, <2>5
<1> QED  BY <1>3, <1>4

\* A message that is ready is applied.
LEMMA TakeReadyKeeps ==
    ASSUME NEW v, NEW ms, NEW gs, NEW a, Served(v, ms, gs, a), NEW h, NEW shown \in Nat,
           Kept(v, ms, gs, h, shown), NEW c, NEW r, OfDiffs(v, ms, gs, a, c, r, h),
           NEW s, s = TakeReady([r |-> r, h |-> h])
    PROVE  /\ Kept(v, ms, gs, s.h, shown) /\ OfDiffs(v, ms, gs, a, c, s.r, s.h)
           /\ \A t \in DOMAIN h : t \in DOMAIN s.h /\ s.h[t] = h[t]
           /\ s = [r |-> s.r, h |-> s.h]
<1> DEFINE ready == {i \in DOMAIN r.pending : IsReady(r, h, r.pending[i])}
<1>1. /\ r \in Receivers /\ Growing(v) /\ DOMAIN h \subseteq DOMAIN v /\ DOMAIN v \subseteq Nat
      /\ BaseHeld(v, ms, gs, c, r, h) /\ KnownHeld(r, h) /\ \A t \in Said(h) : h[t] = v[t]
  BY ValueTyped DEF OfDiffs, Kept, Served
<1>2. CASE ready = {}
  <2>1. s = [r |-> r, h |-> h]
    BY <1>2 DEF TakeReady
  <2> QED  BY <2>1
<1>3. CASE ready # {}
  <2>1. PICK i : i = Min(ready)
    OBVIOUS
  <2>2. i \in ready
    <3>1. ready \subseteq Nat
      BY <1>1, ReceiverTyped
    <3> HIDE DEF ready
    <3> QED  BY <3>1, <1>3, <2>1, MinOfTicks
  <2>3. PICK p : p = r.pending[i]
    OBVIOUS
  <2>4. /\ i \in 1 .. Len(r.pending) /\ p \in MessageSet /\ p.tick \in Nat /\ p.first \in Nat \ {0} /\ p.last \in Nat \ {0}
        /\ PendingIsAhead(gs, r, h, p) /\ IsReady(r, h, p) /\ i \in DOMAIN r.pending
    <3>1. i \in DOMAIN r.pending /\ IsReady(r, h, p)
      BY <2>2, <2>3
    <3> QED  BY <3>1, <1>1, <2>3, ReceiverTyped DEF OfDiffs
  <2>5. PICK before : before = p.first - 1
    OBVIOUS
  <2>6. before \in Nat
    BY <2>4, <2>5
  <2>7. PICK bt : bt = TickForCursor(r, before)
    OBVIOUS
  <2>8. bt # NoCursor /\ bt <= p.tick
    BY <2>4, <2>5, <2>7 DEF IsReady
  <2>9. bt \in Nat /\ LastSaid(h, bt, before) /\ Recorded(r, before) /\ (r.base # NoCursor => r.baseTick <= bt)
    BY <1>1, <2>6, <2>7, <2>8, TickForCursorIs
  <2>10. Resolve(h, bt) = before
    BY <1>1, <2>9, LastSaidIs
  <2>11. PICK m \in gs : m.tick = p.tick /\ m.last = p.last /\ m.first <= p.first
    BY <2>4 DEF PendingIsAhead
  <2>12. m \in ms /\ m.first \in Nat /\ p.tick \in DOMAIN v /\ p.last = v[p.tick] /\ AllReceived(ms, gs, p.tick)
    BY <2>11 DEF Served, AllReceived
  <2>13. PICK tick : tick = p.tick
    OBVIOUS
  <2>14. PICK g : g = InsertConfirmed(h, tick, v[tick])
    OBVIOUS
  <2>15. /\ Kept(v, ms, gs, g, shown)
         /\ DOMAIN g = DOMAIN h \cup {tick}
         /\ \A t \in DOMAIN h : g[t] = h[t]
         /\ Entered(h, tick, v[tick], g)
         /\ \A t \in DOMAIN h : Backed(v, h, t) => Backed(v, g, t)
         /\ Backed(v, g, tick)
    <3>1. tick \in DOMAIN v /\ tick \notin DOMAIN h /\ AllReceived(ms, gs, tick)
      BY <2>4, <2>12, <2>13 DEF PendingIsAhead
    <3>2. Growing(v)
      BY <1>1
    <3>3. /\ Kept(v, ms, gs, g, shown)
          /\ DOMAIN g = DOMAIN h \cup {tick}
          /\ \A t \in DOMAIN h : g[t] = h[t]
          /\ \A t \in DOMAIN h : Backed(v, h, t) => Backed(v, g, t)
          /\ Backed(v, g, tick)
      <4>1. tick \in DOMAIN v /\ tick \notin DOMAIN h /\ AllReceived(ms, gs, tick) /\ Kept(v, ms, gs, h, shown)
        BY <3>1
      <4> HIDE DEF ready
      <4> QED  BY ONLY SMTT(60), <4>1, <3>2, <2>14, shown \in Nat, InsertKept
    <3>4. Entered(h, tick, v[tick], g)
      BY <1>1, <3>1, <2>14, InsertIs DEF Inserted
    <3> QED  BY ONLY <3>3, <3>4
  <2>16. g[tick] = v[tick]
    <3>1. /\ Growing(v) /\ r \in Receivers /\ DOMAIN h \subseteq DOMAIN v /\ (\A t \in Said(h) : h[t] = v[t])
          /\ BaseHeld(v, ms, gs, c, r, h) /\ KnownHeld(r, h)
      BY <1>1
    <3>2. p \in MessageSet /\ PendingIsAhead(gs, r, h, p)
      BY <2>4
    <3>3. \A e \in Said(h) : h[e] # p.last
      BY ONLY <3>1, <3>2, PendingIsNotSaid
    <3>4. \A e \in Said(h) : h[e] # v[tick]
      BY <3>3, <2>12, <2>13
    <3> QED  BY <3>4, <2>15 DEF Entered
  <2>17. PICK rest : rest = RemoveAt(r.pending, i)
    OBVIOUS
  <2>18. /\ rest \in Seq(MessageSet)
         /\ \A x \in DOMAIN rest : \E j \in DOMAIN r.pending : rest[x] = r.pending[j]
         /\ \A j \in DOMAIN r.pending : j # i => \E x \in DOMAIN rest : rest[x] = r.pending[j]
    BY <1>1, <2>4, <2>17, RestIs, ReceiverTyped
  <2>19. PICK left : left = StillPending(rest, p.last)
    OBVIOUS
  <2>20. /\ left \in Seq(MessageSet)
         /\ \A x \in DOMAIN left : left[x].last > p.last /\ \E j \in DOMAIN r.pending : left[x] = r.pending[j]
         /\ \A j \in DOMAIN r.pending : r.pending[j].last > p.last => \E x \in DOMAIN left : left[x] = r.pending[j]
    <3>1. /\ left \in Seq(MessageSet)
          /\ \A x \in DOMAIN left : left[x].last > p.last /\ \E j \in DOMAIN rest : left[x] = rest[j]
          /\ \A j \in DOMAIN rest : rest[j].last > p.last => \E x \in DOMAIN left : left[x] = rest[j]
      <4>1. p.last \in Nat
        BY <2>4
      <4>2. PICK l : l = p.last
        OBVIOUS
      <4> QED  BY <2>18, <2>19, <4>1, <4>2, StillPendingIs
    <3>2. \A j \in DOMAIN r.pending : r.pending[j].last > p.last => j # i
      BY <2>3, <2>4
    <3> QED  BY <3>1, <3>2, <2>18
  <2>21. PICK k2 : k2 = [cursor |-> p.last, tick |-> tick]
    OBVIOUS
  <2>22. PICK q : q = [base |-> r.base, baseTick |-> r.baseTick, known |-> r.known \cup {k2}, pending |-> left]
    OBVIOUS
  <2>23. r.base # NoCursor => r.base \in Nat /\ r.baseTick \in Nat /\ p.last > r.base /\ tick > r.baseTick
    <3>1. r.base # NoCursor => r.base \in Nat /\ r.baseTick \in Nat
      BY <1>1, ReceiverTyped DEF BaseHeld
    <3>2. r.base # NoCursor => p.last > r.base /\ p.tick # r.baseTick
      BY <2>4 DEF PendingIsAhead
    <3> QED  BY <3>1, <3>2, <2>4, <2>8, <2>9, <2>13
  <2>24. \A k \in r.known : k.cursor # p.last
    BY <2>4 DEF PendingIsAhead
  <2>25. s = [r |-> q, h |-> g]
    <3>1. PICK r1 : r1 = [r EXCEPT !.pending = rest]
      OBVIOUS
    <3>2. r1.base = r.base /\ r1.baseTick = r.baseTick /\ r1.known = r.known /\ r1.pending = rest
          /\ r1 = [base |-> r.base, baseTick |-> r.baseTick, known |-> r.known, pending |-> rest]
      BY <3>1, <1>1 DEF Receivers
    <3>3. RecordCursor(r1, tick, p.last) = q
      <4>1. ~ (Retired(r1, p.last) /\ p.last # r1.base) /\ p.last # r1.base
        BY <2>4, <2>23, <3>2, <1>1, ReceiverTyped DEF Retired
      <4>2. {k \in r1.known : k.cursor # p.last} = r.known
        BY <2>24, <3>2
      <4>3. RecordCursor(r1, tick, p.last)
            = [r1 EXCEPT !.known = {k \in r1.known : k.cursor # p.last} \cup {k2}, !.pending = left]
        BY <4>1, <2>19, <2>21, <3>2 DEF RecordCursor
      <4> QED  BY <4>2, <4>3, <3>2, <2>22
    <3>4. before + (p.last - p.first + 1) = v[tick]
      BY <2>4, <2>5, <2>12, <2>13
    <3>5. TakeReady([r |-> r, h |-> h]) =
             LET base == StateAtOrBefore(h, TickForCursor(r, p.first - 1))
             IN  [r |-> RecordCursor(r1, p.tick, p.last),
                  h |-> InsertConfirmed(h, p.tick, base + (p.last - p.first + 1))]
      BY <1>3, <2>1, <2>3, <2>17, <3>1 DEF TakeReady
    <3>6. StateAtOrBefore(h, TickForCursor(r, p.first - 1)) = before
      BY <2>5, <2>7, <2>10 DEF StateAtOrBefore
    <3> QED  BY <3>3, <3>4, <3>5, <3>6, <2>13, <2>14
  <2>26. q \in Receivers /\ q.base = r.base /\ q.baseTick = r.baseTick /\ q.known = r.known \cup {k2} /\ q.pending = left
    <3>1. k2 \in [cursor : Nat, tick : Nat]
      BY <2>4, <2>13, <2>21
    <3> QED  BY <3>1, <1>1, <2>20, <2>22 DEF Receivers
  <2>27. \A t \in Said(g) : t = tick \/ t \in Said(h)
    BY <2>15 DEF Said
  <2>28. tick \in Said(g) /\ \A t \in Said(h) : t \in Said(g) /\ g[t] = h[t]
    <3>1. v[tick] # Unchanged
      BY <1>1, <2>12, <2>13, ValueTyped
    <3> QED  BY <3>1, <2>15, <2>16 DEF Said
  <2>29. BaseHeld(v, ms, gs, c, q, g)
    <3>1. r.base # NoCursor => LastSaid(g, r.baseTick, r.base)
      <4>1. SUFFICES ASSUME r.base # NoCursor PROVE LastSaid(g, r.baseTick, r.base)
        OBVIOUS
      <4>2. PICK f \in Said(h) : f <= r.baseTick /\ h[f] = r.base /\ \A o \in Said(h) : o <= r.baseTick => o <= f
        BY <4>1, <1>1 DEF BaseHeld, LastSaid
      <4>3. ~ (tick <= r.baseTick)
        BY <4>1, <2>23, <2>4, <2>13
      <4> QED  BY <4>2, <4>3, <2>27, <2>28 DEF LastSaid
    <3> QED  BY <3>1, <1>1, <2>26 DEF BaseHeld
  <2>30. KnownHeld(q, g)
    <3>1. k2.tick = tick /\ k2.cursor = p.last /\ g[tick] = p.last /\ tick \in DOMAIN g
      BY <2>12, <2>13, <2>15, <2>16, <2>21
    <3>2. ASSUME NEW k \in q.known
          PROVE  /\ k.tick \in DOMAIN g /\ g[k.tick] = k.cursor
                 /\ q.base # NoCursor => k.tick > q.baseTick /\ k.cursor > q.base
      <4>1. CASE k = k2
        BY <4>1, <3>1, <2>23, <2>26
      <4>2. CASE k \in r.known
        BY <4>2, <1>1, <2>15, <2>26 DEF KnownHeld
      <4> QED  BY <4>1, <4>2, <2>26
    <3>3. \A k, o \in q.known : k.cursor = o.cursor => k = o
      BY <1>1, <2>24, <2>26, <3>1 DEF KnownHeld
    <3>4. ASSUME NEW t \in Said(g), q.base = NoCursor \/ t > q.baseTick
          PROVE  [cursor |-> g[t], tick |-> t] \in q.known
      <4>1. CASE t = tick
        BY <4>1, <3>1, <2>21, <2>26
      <4>2. CASE t \in Said(h)
        BY <4>2, <3>4, <1>1, <2>26, <2>28 DEF KnownHeld
      <4> QED  BY <4>1, <4>2, <2>27
    <3> QED  BY <3>2, <3>3, <3>4 DEF KnownHeld
  <2>31. ASSUME NEW x \in DOMAIN q.pending PROVE PendingIsAhead(gs, q, g, q.pending[x])
    <3>1. PICK j \in DOMAIN r.pending : left[x] = r.pending[j]
      BY <2>20, <2>26, <2>31
    <3>2. PICK o : o = r.pending[j]
      OBVIOUS
    <3>3. PendingIsAhead(gs, r, h, o) /\ o.last > p.last /\ q.pending[x] = o /\ o.last \in Nat
      <4>1. o.last \in Nat
        BY <1>1, <3>1, <3>2, ReceiverTyped
      <4> QED  BY <4>1, <3>1, <3>2, <2>20, <2>26, <2>31 DEF OfDiffs
    <3>4. o.tick # tick
      <4>1. PICK w \in gs : w.tick = o.tick /\ w.last = o.last
        BY <3>3 DEF PendingIsAhead
      <4>2. o.last = v[o.tick]
        BY <4>1 DEF Served
      <4> QED  BY <4>2, <3>3, <2>4, <2>12, <2>13
    <3>5. \A k \in q.known : k.cursor # o.last
      <4>1. k2.cursor # o.last
        BY <3>3, <2>4, <2>21
      <4> QED  BY <4>1, <3>3, <2>26 DEF PendingIsAhead
    <3> QED  BY <3>3, <3>4, <3>5, <2>15, <2>26 DEF PendingIsAhead
  <2>32. \A cursor \in Nat : Recorded(q, cursor) <=> (Recorded(r, cursor) \/ cursor <= p.last)
    BY <2>21, <2>26 DEF Recorded
  <2>33. ASSUME NEW o \in gs
         PROVE  \/ Recorded(q, o.last)
                \/ \E x \in DOMAIN q.pending : q.pending[x].tick = o.tick /\ q.pending[x].last = o.last
    <3>1. o.last \in Nat
      BY DEF Served
    <3>2. CASE Recorded(r, o.last)
      BY <3>1, <3>2, <2>32
    <3>3. CASE \E j \in DOMAIN r.pending : r.pending[j].tick = o.tick /\ r.pending[j].last = o.last
      <4>1. PICK j \in DOMAIN r.pending : r.pending[j].tick = o.tick /\ r.pending[j].last = o.last
        BY <3>3
      <4>2. CASE o.last <= p.last
        BY <3>1, <4>2, <2>32
      <4>3. CASE ~ (o.last <= p.last)
        <5>1. r.pending[j].last > p.last
          BY <3>1, <4>1, <4>3, <2>4
        <5>2. \E x \in DOMAIN left : left[x] = r.pending[j]
          BY <5>1, <2>20
        <5> QED  BY <5>2, <4>1, <2>26
      <4> QED  BY <4>2, <4>3
    <3> QED  BY <3>2, <3>3 DEF OfDiffs
  <2>34. ASSUME NEW t \in DOMAIN h, Carried(v, ms, a, r, t)
         PROVE  Backed(v, g, t) \/ Carried(v, ms, a, q, t)
    <3>1. t \in DOMAIN v /\ t \in Nat /\ v[t] \in Nat /\ v[tick] \in Nat
      BY <1>1, <2>12, <2>13, ValueTyped
    <3>2. CASE v[t] <= p.last
      <4>1. before < v[t]
        <5>1. ~ Recorded(r, v[t])
          BY <2>34 DEF Carried
        <5>2. \A x \in Nat : Recorded(r, before) /\ x <= before => Recorded(r, x)
          <6>1. TAKE x \in Nat
          <6>2. \A k \in r.known : k.cursor \in Nat
            BY <1>1, ReceiverTyped
          <6> QED  BY <6>2, <2>6, <2>23 DEF Recorded
        <5> QED  BY <5>1, <5>2, <2>6, <2>9, <3>1
      <4>2. tick <= t
        <5>1. SUFFICES ASSUME tick > t PROVE FALSE
          BY <2>4, <2>13, <3>1
        <5>2. m.first > v[t]
          BY <5>1, <2>11, <2>12, <2>13, <2>34 DEF Carried
        <5> QED  BY <5>2, <4>1, <3>1, <2>4, <2>5, <2>11, <2>12
      <4>3. v[tick] <= v[t]
        BY <4>2, <3>1, <1>1, <2>12, <2>13 DEF Growing
      <4>4. v[tick] = v[t]
        BY <4>3, <3>1, <3>2, <2>12, <2>13
      <4> QED  BY <4>2, <4>4, <2>15, <2>16 DEF Backed
    <3>3. CASE ~ (v[t] <= p.last)
      <4>1. ~ Recorded(q, v[t])
        BY <3>1, <3>3, <2>32, <2>34 DEF Carried
      <4>2. PICK j \in DOMAIN r.pending : r.pending[j].tick < t /\ r.pending[j].last = v[t]
        BY <2>34 DEF Carried
      <4>3. r.pending[j].last > p.last
        BY <4>2, <3>1, <3>3, <2>4
      <4>4. \E x \in DOMAIN left : left[x] = r.pending[j]
        BY <4>3, <2>20
      <4> QED  BY <4>1, <4>2, <4>4, <2>26, <2>34 DEF Carried
    <3> QED  BY <3>2, <3>3
  <2>35. \A t \in DOMAIN g : Backed(v, g, t) \/ Carried(v, ms, a, q, t)
    BY <2>15, <2>34 DEF OfDiffs
  <2>36. OfDiffs(v, ms, gs, a, c, q, g)
    BY <2>26, <2>29, <2>30, <2>31, <2>33, <2>35 DEF OfDiffs
  <2>37. \A t \in DOMAIN h : t \in DOMAIN g /\ g[t] = h[t]
    BY <2>15
  <2> QED  BY <2>15, <2>25, <2>36, <2>37
<1> QED  BY <1>2, <1>3


\* A history that is kept is a function of ticks.
LEMMA KeptEntries ==
    ASSUME NEW v, Growing(v), NEW ms, NEW gs, NEW h, NEW shown, Kept(v, ms, gs, h, shown)
    PROVE  h \in Entries(v)
<1>1. \A t \in DOMAIN h : h[t] \in Nat \cup {Unchanged}
  <2>1. ASSUME NEW t \in DOMAIN h, h[t] # Unchanged PROVE h[t] \in Nat
    <3>1. t \in Said(h) /\ t \in DOMAIN v
      BY <2>1 DEF Said, Kept
    <3> QED  BY <3>1, ValueTyped DEF Kept
  <2> QED  BY <2>1
<1>2. PICK d : d = DOMAIN h
  OBVIOUS
<1>3. h = [t \in d |-> h[t]]
  BY <1>2 DEF Kept
<1>4. h \in [d -> Nat \cup {Unchanged}]
  BY <1>1, <1>2, <1>3
<1>5. d \in SUBSET DOMAIN v
  BY <1>2 DEF Kept
<1> QED  BY <1>4, <1>5 DEF Entries

\* What a round of the loop keeps: the entries of h are still there.
RoundKept(v, ms, gs, a, c, h, shown, x) ==
    /\ Kept(v, ms, gs, x.h, shown) /\ OfDiffs(v, ms, gs, a, c, x.r, x.h)
    /\ \A t \in DOMAIN h : t \in DOMAIN x.h /\ x.h[t] = h[t]

\* A round of the loop.
LEMMA RoundKeeps ==
    ASSUME NEW v, NEW ms, NEW gs, NEW a, Served(v, ms, gs, a), NEW h, NEW shown \in Nat, NEW c,
           NEW x, x = [r |-> x.r, h |-> x.h], RoundKept(v, ms, gs, a, c, h, shown, x),
           NEW y, y = TakeReady(x)
    PROVE  RoundKept(v, ms, gs, a, c, h, shown, y) /\ y = [r |-> y.r, h |-> y.h]
<1>1. PICK r : r = x.r
  OBVIOUS
<1>2. PICK g : g = x.h
  OBVIOUS
<1>3. Kept(v, ms, gs, g, shown) /\ OfDiffs(v, ms, gs, a, c, r, g) /\ \A t \in DOMAIN h : t \in DOMAIN g /\ g[t] = h[t]
  BY <1>1, <1>2 DEF RoundKept
<1>4. y = TakeReady([r |-> r, h |-> g])
  BY <1>1, <1>2
<1>5. /\ Kept(v, ms, gs, y.h, shown) /\ OfDiffs(v, ms, gs, a, c, y.r, y.h)
      /\ \A t \in DOMAIN g : t \in DOMAIN y.h /\ y.h[t] = g[t]
      /\ y = [r |-> y.r, h |-> y.h]
  BY <1>3, <1>4, TakeReadyKeeps
<1>6. \A t \in DOMAIN h : t \in DOMAIN y.h /\ y.h[t] = h[t]
  BY <1>3, <1>5
<1> QED  BY <1>5, <1>6 DEF RoundKept

\* The loop of write_history_diff keeps it.
LEMMA TakeAllKeeps ==
    ASSUME NEW v, NEW ms, NEW gs, NEW a, Served(v, ms, gs, a), NEW h, NEW shown \in Nat,
           Kept(v, ms, gs, h, shown), NEW c, NEW r, OfDiffs(v, ms, gs, a, c, r, h),
           NEW s, s = TakeAllReady([r |-> r, h |-> h])
    PROVE  RoundKept(v, ms, gs, a, c, h, shown, s)
<1> DEFINE n == Len(r.pending)
           s0 == [r |-> r, h |-> h]
           Pairs == [r : Receivers, h : Entries(v)]
           After(f) == [k \in 0 .. n |-> IF k = 0 THEN s0 ELSE TakeReady(f[k - 1])]
           S == {x \in Pairs : RoundKept(v, ms, gs, a, c, h, shown, x)}
           step == [k \in 1 .. n |-> [x \in S |-> TakeReady(x)]]
           run == CHOOSE f : f = After(f)
<1>1. n \in Nat
  <2>1. r \in Receivers
    BY DEF OfDiffs
  <2> QED  BY <2>1, ReceiverTyped
<1>2. ASSUME NEW x, x = [r |-> x.r, h |-> x.h], RoundKept(v, ms, gs, a, c, h, shown, x)
      PROVE  x \in S
  <2>1. x.r \in Receivers
    BY <1>2 DEF RoundKept, OfDiffs
  <2>2. Growing(v) /\ Kept(v, ms, gs, x.h, shown)
    BY <1>2 DEF RoundKept, Served
  <2>3. x.h \in Entries(v)
    <3>1. PICK g : g = x.h
      OBVIOUS
    <3> QED  BY <2>2, <3>1, KeptEntries
  <2>4. x \in Pairs
    BY <1>2, <2>1, <2>3
  <2> QED  BY <1>2, <2>4
<1>3. s0 \in S
  <2>1. PICK x : x = s0
    OBVIOUS
  <2>2. x = [r |-> x.r, h |-> x.h] /\ x.r = r /\ x.h = h
    BY <2>1
  <2>3. RoundKept(v, ms, gs, a, c, h, shown, x)
    BY <2>2 DEF RoundKept
  <2> HIDE DEF S, s0
  <2> QED  BY <1>2, <2>1, <2>2, <2>3
<1>4. ASSUME NEW x \in S PROVE TakeReady(x) \in S
  <2>1. x = [r |-> x.r, h |-> x.h] /\ RoundKept(v, ms, gs, a, c, h, shown, x)
    OBVIOUS
  <2>2. PICK y : y = TakeReady(x)
    OBVIOUS
  <2>3. RoundKept(v, ms, gs, a, c, h, shown, y) /\ y = [r |-> y.r, h |-> y.h]
    BY <2>1, <2>2, RoundKeeps
  <2> HIDE DEF S
  <2> QED  BY <1>2, <2>2, <2>3
<1>5. step \in [1 .. n -> [S -> S]]
  BY <1>4
<1>6. PICK f \in [0 .. n -> S] : f[0] = s0 /\ \A k \in 1 .. n : f[k] = step[k][f[k - 1]]
  <2>1. PICK T : T = S
    OBVIOUS
  <2>2. PICK m : m = n
    OBVIOUS
  <2>3. PICK turn : turn = step
    OBVIOUS
  <2>4. PICK first : first = s0
    OBVIOUS
  <2>5. m \in Nat /\ first \in T /\ turn \in [1 .. m -> [T -> T]]
    <3> HIDE DEF step, n, S, s0
    <3> QED  BY <1>1, <1>3, <1>5, <2>1, <2>2, <2>3, <2>4
  <2>6. \E f \in [0 .. m -> T] : f[0] = first /\ \A k \in 1 .. m : f[k] = turn[k][f[k - 1]]
    BY ONLY <2>5, RunExists
  <2> HIDE DEF step, n, S, s0
  <2> QED  BY <2>1, <2>2, <2>3, <2>4, <2>6
<1>7. f = After(f)
  <2>1. ASSUME NEW k \in 1 .. n PROVE f[k] = TakeReady(f[k - 1])
    <3>1. k - 1 \in 0 .. n
      BY <1>1
    <3>2. f[k - 1] \in S
      <4> HIDE DEF n, S, step
      <4> QED  BY <3>1
    <3>3. f[k] = step[k][f[k - 1]]
      <4> HIDE DEF step, n, S, s0
      <4> QED  BY <1>6
    <3> HIDE DEF n, S
    <3> QED  BY <3>2, <3>3
  <2>2. \A k \in 0 .. n : k # 0 => k \in 1 .. n
    BY <1>1
  <2> HIDE DEF n, step, S, s0
  <2> QED  BY ONLY <1>6, <2>1, <2>2
<1>8. run = After(run)
  <2> HIDE DEF After
  <2> QED  BY <1>7
<1>9. run[0] = s0
  <2>1. 0 \in 0 .. n
    BY <1>1
  <2> HIDE DEF run, n, s0
  <2> QED  BY <1>8, <2>1
<1>10. ASSUME NEW k \in 1 .. n, run[k - 1] \in S PROVE run[k] \in S
  <2>1. k \in 0 .. n /\ k # 0
    BY <1>1
  <2>2. run[k] = TakeReady(run[k - 1])
    <3> HIDE DEF run, n, s0
    <3> QED  BY <1>8, <2>1
  <2> HIDE DEF run, n, S
  <2> QED  BY <1>4, <1>10, <2>2
<1>11. run[n] \in S
  <2>1. PICK T : T = S
    OBVIOUS
  <2>2. PICK g : g = run
    OBVIOUS
  <2>3. PICK m : m = n
    OBVIOUS
  <2>4. m \in Nat /\ g[0] \in T /\ \A k \in 1 .. m : g[k - 1] \in T => g[k] \in T
    <3> HIDE DEF run, n, S, s0
    <3> QED  BY <1>1, <1>3, <1>9, <1>10, <2>1, <2>2, <2>3
  <2>5. g[m] \in T
    BY ONLY <2>4, RunStays
  <2> HIDE DEF run, n, S
  <2> QED  BY <2>1, <2>2, <2>3, <2>5
<1>12. s = run[n]
  BY DEF TakeAllReady
<1>13. \A x \in S : RoundKept(v, ms, gs, a, c, h, shown, x)
  OBVIOUS
<1> HIDE DEF run, n, S
<1> QED  BY <1>11, <1>12, <1>13

\* write_history_diff
LEMMA DiffArrives ==
    ASSUME NEW v, NEW ms, NEW gs, NEW a, Served(v, ms, gs, a), NEW h, NEW shown \in Nat,
           Kept(v, ms, gs, h, shown), NEW c, NEW r, OfDiffs(v, ms, gs, a, c, r, h),
           NEW m \in ms, m \notin gs, NEW gs2, gs2 = gs \cup {m}, Served(v, ms, gs2, a),
           NEW s, s = TakeAllReady([r |-> QueueDiffs(r, m.tick, m.first, m.last), h |-> h])
    PROVE  /\ Kept(v, ms, gs2, s.h, shown) /\ OfDiffs(v, ms, gs2, a, c, s.r, s.h)
           /\ Sample(s.h, shown) >= Sample(h, shown)
<1>1. PICK q : q = QueueDiffs(r, m.tick, m.first, m.last)
  OBVIOUS
<1>2. OfDiffs(v, ms, gs2, a, c, q, h)
  BY <1>1, QueueKeeps
<1>3. Kept(v, ms, gs2, h, shown)
  BY MessageIsNew
<1>4. s = TakeAllReady([r |-> q, h |-> h])
  BY <1>1
<1>5. RoundKept(v, ms, gs2, a, c, h, shown, s)
  BY <1>2, <1>3, <1>4, TakeAllKeeps
<1>6. PICK g : g = s.h
  OBVIOUS
<1>7. Kept(v, ms, gs2, g, shown) /\ \A t \in DOMAIN h : t \in DOMAIN g /\ g[t] = h[t]
  BY <1>5, <1>6 DEF RoundKept
<1>8. Growing(v)
  BY DEF Served
<1>9. Sample(g, shown) >= Sample(h, shown)
  BY <1>3, <1>7, <1>8, InsertShows
<1> QED  BY <1>5, <1>6, <1>9 DEF RoundKept


\* The completed tick is called unchanged, unless its diffs are pending.
LEMMA PushDiffs ==
    ASSUME NEW v, NEW ms, NEW gs, NEW a, Served(v, ms, gs, a), NEW h, NEW shown \in Nat,
           Kept(v, ms, gs, h, shown), NEW c \in DOMAIN v, AllReceived(ms, gs, c),
           NEW r, OfDiffs(v, ms, gs, a, c, r, h), \A i \in DOMAIN r.pending : r.pending[i].tick # c,
           NEW p, Pushed(h, c, p)
    PROVE  OfDiffs(v, ms, gs, a, c, r, p)
<1>1. /\ Growing(v) /\ DOMAIN v \subseteq Nat /\ r \in Receivers /\ DOMAIN h \subseteq DOMAIN v
      /\ BaseHeld(v, ms, gs, c, r, h) /\ KnownHeld(r, h) /\ \A t \in Said(h) : h[t] = v[t]
  BY ValueTyped DEF OfDiffs, Kept, Served
<1>2. /\ DOMAIN p = DOMAIN h \cup {c}
      /\ \A t \in DOMAIN h : t < c /\ p[t] = h[t]
      /\ Said(p) = Said(h)
      /\ \A t \in DOMAIN h : Backed(v, h, t) => Backed(v, p, t)
      /\ \A e \in Said(h) : h[e] = v[c] => Backed(v, p, c)
  <2>1. Growing(v) /\ Kept(v, ms, gs, h, shown) /\ c \in DOMAIN v /\ AllReceived(ms, gs, c) /\ Pushed(h, c, p)
    BY <1>1
  <2> QED  BY ONLY <2>1, shown \in Nat, PushKept
<1>3. \A t \in Said(h) : t \in Said(p) /\ p[t] = h[t] /\ t \in DOMAIN h
  BY <1>2 DEF Said
<1>4. BaseHeld(v, ms, gs, c, r, p)
  <2>1. ASSUME LastSaid(h, r.baseTick, r.base) PROVE LastSaid(p, r.baseTick, r.base)
    BY <2>1, <1>2, <1>3 DEF LastSaid
  <2> QED  BY <2>1, <1>1 DEF BaseHeld
<1>5. KnownHeld(r, p)
  BY <1>1, <1>2, <1>3 DEF KnownHeld
<1>6. \A i \in DOMAIN r.pending : PendingIsAhead(gs, r, p, r.pending[i])
  BY <1>2 DEF OfDiffs, PendingIsAhead
<1>7. v[c] \in Nat
  BY <1>1, ValueTyped
<1>8. ASSUME Recorded(r, v[c]) PROVE Backed(v, p, c)
  <2>1. PICK e \in Said(h) : v[c] <= h[e]
    BY <1>1, <1>7, <1>8, RecordedIsSaid
  <2>2. e \in DOMAIN v /\ e <= c /\ h[e] = v[e] /\ v[e] \in Nat
    BY <1>1, <1>2, <1>3, ValueTyped
  <2>3. v[e] <= v[c]
    BY <2>2, <1>1 DEF Growing
  <2>4. h[e] = v[c]
    BY <2>1, <2>2, <2>3, <1>7
  <2> QED  BY <2>4, <1>2
<1>9. Backed(v, p, c) \/ Carried(v, ms, a, r, c)
  <2>1. CASE \E m \in ms : m.tick = c
    <3>1. PICK m \in gs : m.tick = c /\ m.last = v[c]
      BY <2>1 DEF AllReceived, Served
    <3>2. Recorded(r, m.last)
      BY <3>1 DEF OfDiffs
    <3> QED  BY <3>1, <3>2, <1>8
  <2>2. CASE \A m \in ms : m.tick # c
    <3>1. Settled(v, ms, gs, a, c)
      BY <2>2 DEF Served
    <3>2. CASE v[c] = 0
      <4>1. CASE r.base = NoCursor
        <5>1. [cursor |-> 0, tick |-> 0] \in r.known
          BY <4>1, <1>1 DEF BaseHeld
        <5>2. PICK k \in r.known : k.cursor = 0
          BY <5>1
        <5>3. v[c] <= k.cursor
          BY <5>2, <3>2
        <5> QED  BY <5>3, <1>8 DEF Recorded
      <4>2. CASE r.base # NoCursor
        <5>1. r.base \in Nat
          BY <4>2, <1>1, ReceiverTyped
        <5>2. v[c] <= r.base
          BY <5>1, <3>2
        <5> QED  BY <5>2, <4>2, <1>8 DEF Recorded
      <4> QED  BY <4>1, <4>2
    <3>3. CASE v[c] # 0
      <4>1. PICK g \in gs : g.tick < c /\ g.last = v[c]
        BY <3>1, <3>3 DEF Settled
      <4>2. CASE Recorded(r, g.last)
        BY <4>1, <4>2, <1>8
      <4>3. CASE \E i \in DOMAIN r.pending : r.pending[i].tick = g.tick /\ r.pending[i].last = g.last
        <5>1. \E i \in DOMAIN r.pending : r.pending[i].tick < c /\ r.pending[i].last = v[c]
          BY <4>1, <4>3
        <5>2. Recorded(r, v[c]) \/ Carried(v, ms, a, r, c)
          BY <5>1, <3>1 DEF Settled, Carried
        <5> QED  BY <5>2, <1>8
      <4> QED  BY <4>2, <4>3 DEF OfDiffs
    <3> QED  BY <3>2, <3>3
  <2> QED  BY <2>1, <2>2
<1>10. \A t \in DOMAIN p : Backed(v, p, t) \/ Carried(v, ms, a, r, t)
  BY <1>2, <1>9 DEF OfDiffs
<1> QED  BY <1>4, <1>5, <1>6, <1>10 DEF OfDiffs

\* While nothing is complete nothing is cleared, and the oldest entry stays.
LEMMA DrainAtStart ==
    ASSUME NEW v, NEW ms, NEW gs, NEW a, Served(v, ms, gs, a), NEW p,
           NEW r, OfDiffs(v, ms, gs, a, NoCursor, r, p), r.pending = <<>>, Kept(v, ms, gs, p, 0),
           NEW d, Drained(v, p, 0, d), Kept(v, ms, gs, d, 0)
    PROVE  OfDiffs(v, ms, gs, a, NoCursor, r, d)
<1>1. /\ Growing(v) /\ DOMAIN v \subseteq Nat /\ v[0] = 0 /\ r \in Receivers
      /\ BaseHeld(v, ms, gs, NoCursor, r, p) /\ KnownHeld(r, p) /\ \A t \in Said(p) : p[t] = v[t]
      /\ DOMAIN d \subseteq DOMAIN v /\ DOMAIN p \subseteq DOMAIN v /\ \A t \in Said(d) : d[t] = v[t]
  BY ValueTyped DEF OfDiffs, Kept, Served, Growing
<1>2. r.base = NoCursor /\ r.baseTick = NoCursor
  BY <1>1 DEF BaseHeld
<1>3. 0 \in Said(d) /\ 0 \in DOMAIN d /\ d[0] = 0
  <2>1. PICK e \in Said(d) : e <= 0
    BY DEF Kept
  <2>2. e = 0
    BY <2>1, <1>1 DEF Said
  <2> QED  BY <2>1, <2>2, <1>1 DEF Said
<1>4. \A t \in DOMAIN p : t # 0 => t \in DOMAIN d /\ d[t] = p[t]
  BY <1>1 DEF Drained
<1>5. \A t \in Said(d) : t # 0 => t \in Said(p) /\ p[t] = d[t]
  <2>1. ASSUME NEW t \in Said(d), t # 0 PROVE t \in Said(p) /\ p[t] = d[t]
    <3>1. t \in DOMAIN p /\ t > 0
      BY <2>1, <1>1 DEF Drained, Said
    <3>2. p[t] # Unchanged
      BY <2>1, <3>1 DEF Drained
    <3> QED  BY <2>1, <3>1, <3>2, <1>4 DEF Said
  <2> QED  BY <2>1
<1>6. KnownHeld(r, d)
  <2>1. ASSUME NEW k \in r.known PROVE k.tick \in DOMAIN d /\ d[k.tick] = k.cursor
    <3>1. k.tick \in DOMAIN p /\ p[k.tick] = k.cursor /\ k.cursor \in Nat
      BY <1>1, ReceiverTyped DEF KnownHeld
    <3>2. k.cursor # Unchanged
      BY <3>1, InterpAssumption
    <3>3. CASE k.tick = 0
      BY <3>1, <3>2, <3>3, <1>1, <1>3 DEF Said
    <3>4. CASE k.tick # 0
      BY <3>1, <3>4, <1>4
    <3> QED  BY <3>3, <3>4
  <2>2. ASSUME NEW t \in Said(d) PROVE [cursor |-> d[t], tick |-> t] \in r.known
    <3>1. CASE t = 0
      BY <3>1, <1>1, <1>2, <1>3 DEF BaseHeld
    <3>2. CASE t # 0
      <4>1. t \in Said(p) /\ p[t] = d[t]
        BY <3>2, <1>5
      <4> QED  BY <4>1, <1>1, <1>2 DEF KnownHeld
    <3> QED  BY <3>1, <3>2
  <2> QED  BY <2>1, <2>2, <1>1, <1>2 DEF KnownHeld
<1>7. BaseHeld(v, ms, gs, NoCursor, r, d)
  BY <1>1, <1>2 DEF BaseHeld
<1>8. DOMAIN r.pending = {}
  OBVIOUS
<1>9. \A t \in DOMAIN d : Backed(v, d, t)
  BY DEF Drained, AllTrue
<1> QED  BY <1>1, <1>6, <1>7, <1>8, <1>9 DEF OfDiffs

\* What clear_before_tick takes for the base is the value of the completed tick.
LEMMA BaseIsNewest ==
    ASSUME NEW v, Growing(v), NEW ms, NEW gs, NEW c, c \in DOMAIN v, NEW r \in Receivers,
           NEW p, DOMAIN p \subseteq DOMAIN v, \A t \in Said(p) : p[t] = v[t],
           BaseHeld(v, ms, gs, c, r, p), KnownHeld(r, p),
           NEW e \in Said(p), e <= c, \A o \in Said(p) : o <= c => o <= e
    PROVE  /\ CursorAtOrBefore(r, c) = p[e]
           /\ \/ r.base # NoCursor /\ e <= r.baseTick /\ r.base = p[e]
              \/ [cursor |-> p[e], tick |-> e] \in r.known /\ (r.base # NoCursor => r.base <= p[e])
<1> DEFINE base == IF r.baseTick = NoCursor THEN {} ELSE {[cursor |-> r.base, tick |-> r.baseTick]}
           passed == {k \in r.known \cup base : k.tick <= c}
<1>1. DOMAIN v \subseteq Nat /\ c \in Nat /\ e \in Nat /\ e \in DOMAIN v /\ NoCursor \notin Int
  BY ValueTyped, ReceiverTyped DEF Said
<1>2. \A k \in r.known : k.tick \in Said(p) /\ p[k.tick] = k.cursor /\ k.tick \in Nat
  <2>1. \A k \in r.known : k.tick \in DOMAIN p /\ p[k.tick] = k.cursor /\ k.cursor \in Nat /\ k.tick \in Nat
    BY ReceiverTyped DEF KnownHeld
  <2>2. Unchanged \notin Nat
    BY InterpAssumption
  <2> QED  BY <2>1, <2>2 DEF Said
<1>3. CursorAtOrBefore(r, c)
      = IF passed = {} THEN NoCursor ELSE (CHOOSE k \in passed : \A o \in passed : o.tick <= k.tick).cursor
  BY DEF CursorAtOrBefore
<1>4. CASE r.base # NoCursor /\ e <= r.baseTick
  <2>1. r.baseTick \in Nat /\ r.baseTick <= c /\ r.baseTick # NoCursor
    BY <1>4, ReceiverTyped DEF BaseHeld
  <2>2. PICK f \in Said(p) : f <= r.baseTick /\ p[f] = r.base /\ \A o \in Said(p) : o <= r.baseTick => o <= f
    BY <1>4 DEF BaseHeld, LastSaid
  <2>3. f = e
    <3>1. f \in Nat
      BY <2>2, <1>1 DEF Said
    <3> QED  BY <3>1, <2>1, <2>2, <1>1, <1>4
  <2>4. PICK b : b = [cursor |-> r.base, tick |-> r.baseTick]
    OBVIOUS
  <2>5. \A k \in r.known : ~ (k.tick <= c)
    <3>1. TAKE k \in r.known
    <3>2. k.tick > r.baseTick
      BY <1>4 DEF KnownHeld
    <3> QED  BY <3>2, <1>1, <1>2, <1>4, <2>1
  <2>6. passed = {b}
    <3>1. base = {b} /\ b.tick <= c
      BY <2>1, <2>4
    <3> HIDE DEF base
    <3> QED  BY <3>1, <2>5
  <2>7. (CHOOSE k \in {b} : \A o \in {b} : o.tick <= k.tick) = b
    <3>1. b.tick <= b.tick
      BY <2>1, <2>4
    <3> QED  BY <3>1
  <2>8. CursorAtOrBefore(r, c) = b.cursor
    <3> HIDE DEF passed
    <3> QED  BY <1>3, <2>6, <2>7
  <2> QED  BY <2>2, <2>3, <2>4, <2>8, <1>4
<1>5. CASE ~ (r.base # NoCursor /\ e <= r.baseTick)
  <2>1. r.base # NoCursor => r.baseTick \in Nat /\ e > r.baseTick
    BY <1>1, <1>5, ReceiverTyped DEF BaseHeld
  <2>2. PICK x : x = [cursor |-> p[e], tick |-> e]
    OBVIOUS
  <2>3. x \in r.known /\ x \in passed /\ x.tick = e /\ x.cursor = p[e]
    <3>1. x \in r.known
      BY <2>1, <2>2 DEF KnownHeld
    <3> QED  BY <3>1, <2>2
  <2>4. ASSUME NEW o \in passed PROVE o.tick <= e /\ o.tick \in Nat /\ (o.tick = e => o.cursor = p[e])
    <3>1. CASE o \in r.known
      BY <3>1, <1>2
    <3>2. CASE o \in base
      <4>1. r.baseTick # NoCursor /\ o = [cursor |-> r.base, tick |-> r.baseTick]
        BY <3>2
      <4>2. r.base # NoCursor
        BY <4>1 DEF BaseHeld
      <4> QED  BY <4>1, <4>2, <2>1, <1>1
    <3> QED  BY <3>1, <3>2
  <2>5. PICK top : top = CHOOSE k \in passed : \A o \in passed : o.tick <= k.tick
    OBVIOUS
  <2> HIDE DEF passed
  <2>6. top \in passed /\ \A o \in passed : o.tick <= top.tick
    BY <2>3, <2>4, <2>5
  <2>7. top.tick = e
    BY <2>3, <2>4, <2>6, <1>1
  <2>8. CursorAtOrBefore(r, c) = p[e]
    BY <1>3, <2>3, <2>4, <2>5, <2>6, <2>7
  <2>9. r.base # NoCursor => r.base <= p[e]
    <3>1. SUFFICES ASSUME r.base # NoCursor PROVE r.base <= p[e]
      OBVIOUS
    <3>2. x.cursor > r.base /\ r.base \in Nat /\ x.cursor \in Nat
      BY <3>1, <2>3, ReceiverTyped DEF KnownHeld
    <3> QED  BY <3>2, <2>3
  <2> QED  BY <2>2, <2>3, <2>8, <2>9
<1> QED  BY <1>4, <1>5


\* clear_before_tick, of a receiver without pending diffs, after the drain.
LEMMA ClearIs ==
    ASSUME NEW v, Growing(v), NEW r \in Receivers, r.pending = <<>>, NEW c \in DOMAIN v,
           r.baseTick = NoCursor \/ r.baseTick <= c, NEW d, DOMAIN d \subseteq DOMAIN v,
           NEW value \in Nat, LastSaid(d, c, value), CursorAtOrBefore(r, c) = value
    PROVE  ClearBeforeTick(r, c, d) = [base     |-> value,
                                       baseTick |-> c,
                                       known    |-> {k \in r.known : k.tick >= c /\ k.cursor > value},
                                       pending  |-> <<>>]
<1>1. c \in Nat /\ value # NoCursor /\ value # NoState
  BY ValueTyped, InterpAssumption
<1>2. StateAtOrBefore(d, c) = value
  <2>1. c \in Int
    BY <1>1
  <2> QED  BY <2>1, LastSaidIs DEF StateAtOrBefore
<1>3. ~ (r.pending # <<>> \/ (IF r.baseTick = NoCursor THEN FALSE ELSE c < r.baseTick))
  BY <1>1, ReceiverTyped
<1> DEFINE cursor == CursorAtOrBefore(r, c)
           usable == StateAtOrBefore(d, c) # NoState /\ cursor # NoCursor
<1>4. ClearBeforeTick(r, c, d)
        = IF r.pending # <<>> \/ (IF r.baseTick = NoCursor THEN FALSE ELSE c < r.baseTick)
          THEN r
          ELSE [base     |-> IF usable THEN cursor ELSE NoCursor,
                baseTick |-> IF usable THEN c ELSE NoCursor,
                known    |-> {k \in r.known : k.tick >= c /\ (usable => k.cursor > cursor)},
                pending  |-> <<>>]
  BY DEF ClearBeforeTick
<1>5. usable /\ cursor = value
  BY <1>1, <1>2
<1>6. {k \in r.known : k.tick >= c /\ (usable => k.cursor > cursor)}
      = {k \in r.known : k.tick >= c /\ k.cursor > value}
  <2> HIDE DEF usable, cursor
  <2> QED  BY <1>5
<1> HIDE DEF usable, cursor
<1> QED  BY <1>3, <1>4, <1>5, <1>6

\* The completed tick becomes the base.
LEMMA ClearKeeps ==
    ASSUME NEW v, NEW ms, NEW gs, NEW a, Served(v, ms, gs, a), NEW c, c # NoCursor, IsComplete(v, ms, gs, c),
           NEW p, NEW s2 \in Nat, s2 <= c, Kept(v, ms, gs, p, s2),
           NEW r, OfDiffs(v, ms, gs, a, c, r, p), r.pending = <<>>,
           NEW d, Drained(v, p, s2, d), Kept(v, ms, gs, d, s2)
    PROVE  OfDiffs(v, ms, gs, a, c, ClearBeforeTick(r, c, d), d)
<1>1. /\ Growing(v) /\ DOMAIN v \subseteq Nat /\ r \in Receivers /\ c \in DOMAIN v /\ c \in Nat
      /\ BaseHeld(v, ms, gs, c, r, p) /\ KnownHeld(r, p) /\ \A t \in Said(p) : p[t] = v[t]
      /\ DOMAIN d \subseteq DOMAIN v /\ DOMAIN p \subseteq DOMAIN v /\ \A t \in Said(d) : d[t] = v[t]
      /\ AllReceived(ms, gs, c)
  <2>1. c \in DOMAIN v /\ AllReceived(ms, gs, c)
    BY DEF IsComplete
  <2> QED  BY <2>1, ValueTyped DEF OfDiffs, Kept, Served
<1>2. PICK e \in Said(p) : e <= c /\ \A o \in Said(p) : o <= c => o <= e
  <2>1. PICK o \in Said(p) : o <= s2
    BY DEF Kept
  <2>2. ~ (o > c) /\ o \in Said(p)
    <3>1. o \in Nat
      BY <1>1 DEF Said
    <3> QED  BY <3>1, <2>1, <1>1
  <2>3. c \in Int
    BY <1>1
  <2>4. LastSaid(p, c, Resolve(p, c))
    BY <1>1, <2>2, <2>3, ResolveIs
  <2> QED  BY <2>4 DEF LastSaid
<1>3. e \in DOMAIN v /\ e \in Nat /\ p[e] = v[e] /\ v[e] \in Nat
  BY <1>1, ValueTyped DEF Said
<1>4. PICK x : x = p[e]
  OBVIOUS
<1>5. /\ x \in Nat /\ CursorAtOrBefore(r, c) = x
      /\ \/ r.base # NoCursor /\ e <= r.baseTick /\ r.base = x
         \/ [cursor |-> x, tick |-> e] \in r.known /\ (r.base # NoCursor => r.base <= x)
  <2>1. /\ CursorAtOrBefore(r, c) = p[e]
        /\ \/ r.base # NoCursor /\ e <= r.baseTick /\ r.base = p[e]
           \/ [cursor |-> p[e], tick |-> e] \in r.known /\ (r.base # NoCursor => r.base <= p[e])
    BY <1>1, <1>2, BaseIsNewest
  <2> QED  BY <2>1, <1>3, <1>4
<1>6. LastSaid(d, c, x)
  <2>1. LastSaid(p, c, x)
    BY <1>2, <1>4 DEF LastSaid
  <2>2. c >= s2
    BY <1>1
  <2> QED  BY <2>1, <2>2, <1>1, <1>5 DEF Drained
<1>7. PICK q : q = ClearBeforeTick(r, c, d)
  OBVIOUS
<1>8. PICK known2 : known2 = {k \in r.known : k.tick >= c /\ k.cursor > x}
  OBVIOUS
<1>9. q = [base |-> x, baseTick |-> c, known |-> known2, pending |-> <<>>]
  <2>1. r.baseTick = NoCursor \/ r.baseTick <= c
    BY <1>1 DEF BaseHeld
  <2> QED  BY <2>1, <1>1, <1>5, <1>6, <1>7, <1>8, ClearIs
<1>10. q.base = x /\ q.baseTick = c /\ q.known = known2 /\ q.pending = <<>> /\ q.base # NoCursor /\ q.baseTick # NoCursor
  BY <1>1, <1>5, <1>9, ReceiverTyped
<1>11. q \in Receivers
  <2>1. known2 \in SUBSET [cursor : Nat, tick : Nat]
    BY <1>1, <1>8 DEF Receivers
  <2>2. <<>> \in Seq(MessageSet)
    OBVIOUS
  <2> QED  BY <2>1, <2>2, <1>1, <1>5, <1>9 DEF Receivers
<1>12. BaseHeld(v, ms, gs, c, q, d)
  BY <1>1, <1>6, <1>10 DEF BaseHeld
<1>13. \A k \in r.known : k.tick \in Said(p) /\ p[k.tick] = k.cursor /\ k.tick \in Nat /\ k.cursor \in Nat
  <2>1. \A k \in r.known : k.tick \in DOMAIN p /\ p[k.tick] = k.cursor /\ k.cursor \in Nat /\ k.tick \in Nat
    BY <1>1, ReceiverTyped DEF KnownHeld
  <2>2. Unchanged \notin Nat
    BY InterpAssumption
  <2> QED  BY <2>1, <2>2 DEF Said
<1>14. \A t \in DOMAIN p : t > s2 => t \in DOMAIN d /\ d[t] = p[t]
  BY DEF Drained
<1>15. ASSUME NEW k \in known2
       PROVE  k.tick \in DOMAIN d /\ d[k.tick] = k.cursor /\ k.tick > c /\ k.cursor > x
  <2>1. k \in r.known /\ k.tick >= c /\ k.cursor > x
    BY <1>8
  <2>2. k.tick # c
    <3>1. SUFFICES ASSUME k.tick = c PROVE FALSE
      OBVIOUS
    <3>2. c \in Said(p) /\ p[c] = k.cursor
      BY <2>1, <3>1, <1>13
    <3>3. e = c
      BY <3>2, <1>1, <1>2, <1>3
    <3> QED  BY <3>2, <3>3, <2>1, <1>4, <1>5
  <2>3. k.tick > c /\ k.tick > s2 /\ k.tick \in DOMAIN p
    BY <2>1, <2>2, <1>1, <1>13 DEF Said
  <2> QED  BY <2>1, <2>3, <1>13, <1>14
<1>16. ASSUME NEW t \in Said(d), t > c
       PROVE  [cursor |-> d[t], tick |-> t] \in known2
  <2>1. t \in DOMAIN p /\ t \in Nat /\ t > s2 /\ t \in DOMAIN v
    BY <1>1, <1>16 DEF Drained, Said
  <2>2. d[t] = p[t] /\ t \in Said(p) /\ p[t] = v[t] /\ v[t] \in Nat
    <3>1. d[t] = p[t] /\ d[t] # Unchanged
      BY <2>1, <1>14 DEF Said
    <3>2. t \in Said(p)
      BY <3>1, <2>1 DEF Said
    <3> QED  BY <3>1, <3>2, <2>1, <1>1, ValueTyped
  <2>3. PICK k : k = [cursor |-> p[t], tick |-> t]
    OBVIOUS
  <2>4. k \in r.known
    <3>1. r.base # NoCursor => r.baseTick \in Nat /\ r.baseTick <= c
      BY <1>1, ReceiverTyped DEF BaseHeld
    <3>2. r.base = NoCursor \/ t > r.baseTick
      BY <3>1, <2>1, <1>1, <1>16
    <3> QED  BY <3>2, <2>2, <2>3, <1>1 DEF KnownHeld
  <2>5. k.tick = t /\ k.cursor = p[t]
    BY <2>3
  <2>6. x <= p[t]
    <3>1. e <= t
      BY <2>1, <1>1, <1>2, <1>3, <1>16
    <3>2. v[e] <= v[t]
      BY <3>1, <2>1, <1>1, <1>3 DEF Growing
    <3> QED  BY <3>2, <2>2, <1>3, <1>4
  <2>7. x # p[t]
    <3>1. CASE r.base # NoCursor /\ e <= r.baseTick /\ r.base = x
      <4>1. k.cursor > r.base
        BY <3>1, <2>4, <1>1 DEF KnownHeld
      <4> QED  BY <4>1, <3>1, <2>2, <2>5, <1>5
    <3>2. CASE [cursor |-> x, tick |-> e] \in r.known
      <4>1. SUFFICES ASSUME x = p[t] PROVE FALSE
        OBVIOUS
      <4>2. PICK o : o = [cursor |-> x, tick |-> e]
        OBVIOUS
      <4>3. o \in r.known /\ o.cursor = k.cursor /\ o.tick = e
        BY <4>1, <4>2, <3>2, <2>5
      <4>4. o = k
        BY <4>3, <2>4, <1>1 DEF KnownHeld
      <4> QED  BY <4>3, <4>4, <2>5, <1>1, <1>2, <1>3, <1>16, <2>1
    <3> QED  BY <3>1, <3>2, <1>5
  <2>8. k.tick >= c /\ k.cursor > x
    BY <2>1, <2>2, <2>5, <2>6, <2>7, <1>1, <1>5, <1>16
  <2> QED  BY <2>2, <2>3, <2>4, <2>8, <1>8
<1>17. KnownHeld(q, d)
  <2>1. \A k, o \in known2 : k.cursor = o.cursor => k = o
    BY <1>1, <1>8 DEF KnownHeld
  <2> QED  BY <2>1, <1>10, <1>15, <1>16 DEF KnownHeld
<1>18. DOMAIN q.pending = {} /\ DOMAIN r.pending = {}
  BY <1>10
<1>19. ASSUME NEW g \in gs PROVE Recorded(q, g.last)
  <2>1. Recorded(r, g.last) /\ g.last \in Nat
    BY <1>18 DEF OfDiffs, Served
  <2>2. CASE r.base # NoCursor /\ g.last <= r.base
    <3>1. r.base \in Nat /\ r.base <= x
      BY <2>2, <1>1, <1>5, ReceiverTyped
    <3>2. g.last <= q.base
      BY <3>1, <2>1, <2>2, <1>5, <1>10
    <3> QED  BY <3>2, <1>10 DEF Recorded
  <2>3. CASE \E k \in r.known : g.last <= k.cursor
    <3>1. PICK k \in r.known : g.last <= k.cursor
      BY <2>3
    <3>2. k.tick \in Said(p) /\ p[k.tick] = k.cursor /\ k.tick \in Nat /\ k.cursor \in Nat
      BY <1>13
    <3>3. CASE k \in known2
      BY <3>1, <3>3, <1>10 DEF Recorded
    <3>4. CASE k \notin known2
      <4>1. k.cursor <= x
        <5>1. CASE k.tick >= c
          BY <5>1, <3>2, <3>4, <1>5, <1>8
        <5>2. CASE ~ (k.tick >= c)
          <6>1. k.tick <= e
            BY <5>2, <3>2, <1>1, <1>2
          <6>2. v[k.tick] <= v[e] /\ k.cursor = v[k.tick]
            BY <6>1, <3>2, <1>1, <1>3 DEF Growing, Said
          <6> QED  BY <6>2, <1>3, <1>4
        <5> QED  BY <5>1, <5>2
      <4>2. g.last <= q.base
        BY <4>1, <3>1, <3>2, <2>1, <1>5, <1>10
      <4> QED  BY <4>2, <1>10 DEF Recorded
    <3> QED  BY <3>3, <3>4
  <2> QED  BY <2>1, <2>2, <2>3 DEF Recorded
<1>20. \A t \in DOMAIN d : Backed(v, d, t)
  BY DEF Drained, AllTrue
<1>21. OfDiffs(v, ms, gs, a, c, q, d)
  BY <1>11, <1>12, <1>17, <1>18, <1>19, <1>20 DEF OfDiffs
<1> QED  BY <1>7, <1>21


\* A frame's first step, in which the completed tick may be called unchanged.
LEMMA DiffPushes ==
    ASSUME NEW v, NEW ms, NEW gs, NEW a, Served(v, ms, gs, a), NEW h, NEW shown \in Nat,
           Kept(v, ms, gs, h, shown), NEW c, IsComplete(v, ms, gs, c), NEW r, OfDiffs(v, ms, gs, a, c, r, h),
           NEW s2 \in Nat, shown <= s2,
           NEW p, p = IF c # NoCursor /\ ~ (\E i \in DOMAIN r.pending : r.pending[i].tick = c)
                      THEN PushUnchanged(h, c) ELSE h
    PROVE  /\ Kept(v, ms, gs, p, shown) /\ Kept(v, ms, gs, p, s2) /\ OfDiffs(v, ms, gs, a, c, r, p)
           /\ Said(p) = Said(h) /\ \A t \in Said(h) : p[t] = h[t]
<1>1. Growing(v)
  BY DEF Served
<1>2. p = h \/ /\ c # NoCursor /\ c \in DOMAIN v /\ AllReceived(ms, gs, c) /\ Pushed(h, c, p)
               /\ \A i \in DOMAIN r.pending : r.pending[i].tick # c
  <2>1. SUFFICES ASSUME p # h PROVE
                   /\ c # NoCursor /\ c \in DOMAIN v /\ AllReceived(ms, gs, c) /\ Pushed(h, c, p)
                   /\ \A i \in DOMAIN r.pending : r.pending[i].tick # c
    OBVIOUS
  <2>2. c # NoCursor /\ p = PushUnchanged(h, c) /\ \A i \in DOMAIN r.pending : r.pending[i].tick # c
    BY <2>1
  <2>3. c \in DOMAIN v /\ AllReceived(ms, gs, c) /\ DOMAIN h \subseteq DOMAIN v
    BY <2>2 DEF IsComplete, Kept
  <2>4. PushUnchanged(h, c) = h \/ Pushed(h, c, PushUnchanged(h, c))
    BY <1>1, <2>3, PushIs
  <2> QED  BY <2>1, <2>2, <2>3, <2>4
<1>3. /\ Kept(v, ms, gs, p, shown) /\ OfDiffs(v, ms, gs, a, c, r, p)
      /\ Said(p) = Said(h) /\ \A t \in Said(h) : p[t] = h[t]
  <2>1. CASE p = h
    BY <2>1
  <2>2. CASE /\ c # NoCursor /\ c \in DOMAIN v /\ AllReceived(ms, gs, c) /\ Pushed(h, c, p)
             /\ \A i \in DOMAIN r.pending : r.pending[i].tick # c
    <3>1. Kept(v, ms, gs, p, shown) /\ Said(p) = Said(h)
      <4>1. PICK tick : tick = c
        OBVIOUS
      <4>2. tick \in DOMAIN v /\ AllReceived(ms, gs, tick) /\ Pushed(h, tick, p) /\ Growing(v) /\ Kept(v, ms, gs, h, shown)
        BY <1>1, <2>2, <4>1
      <4>3. /\ Kept(v, ms, gs, p, shown)
            /\ DOMAIN p = DOMAIN h \cup {tick}
            /\ \A t \in DOMAIN h : t < tick /\ p[t] = h[t]
            /\ Said(p) = Said(h)
            /\ \A t \in DOMAIN h : Backed(v, h, t) => Backed(v, p, t)
            /\ \A e \in Said(h) : h[e] = v[tick] => Backed(v, p, tick)
        BY ONLY <4>2, shown \in Nat, PushKept
      <4> QED  BY <4>3
    <3>2. OfDiffs(v, ms, gs, a, c, r, p)
      BY <2>2, PushDiffs
    <3>3. \A t \in Said(h) : p[t] = h[t]
      BY <2>2 DEF Pushed, Said
    <3> QED  BY <3>1, <3>2, <3>3
  <2> QED  BY <1>2, <2>1, <2>2
<1>4. Kept(v, ms, gs, p, s2)
  <2>1. PICK e \in Said(p) : e <= shown /\ \A t \in DOMAIN p : e <= t
    BY <1>3 DEF Kept
  <2>2. e \in Nat
    BY <1>1, <1>3, ValueTyped DEF Kept, Said
  <2>3. e <= s2
    BY <2>1, <2>2
  <2> QED  BY <2>1, <2>3, <1>3 DEF Kept
<1> QED  BY <1>3, <1>4

\* The rest of a frame: the history is drained, and the receiver cleared.
LEMMA DiffDrains ==
    ASSUME NEW v, NEW ms, NEW gs, NEW a, Served(v, ms, gs, a), NEW p, NEW s2 \in Nat,
           Kept(v, ms, gs, p, s2), NEW c, IsComplete(v, ms, gs, c), NEW r, OfDiffs(v, ms, gs, a, c, r, p),
           r.pending = <<>>, s2 <= (IF c = NoCursor THEN 0 ELSE c),
           NEW d, d = DrainOldHistory(p, s2),
           NEW q, q = IF c = NoCursor THEN r ELSE ClearBeforeTick(r, c, d)
    PROVE  Drained(v, p, s2, d) /\ Kept(v, ms, gs, d, s2) /\ OfDiffs(v, ms, gs, a, c, q, d)
<1>1. Growing(v)
  BY DEF Served
<1>2. \A t \in DOMAIN p : Backed(v, p, t)
  <2>1. DOMAIN r.pending = {}
    OBVIOUS
  <2> QED  BY <2>1 DEF OfDiffs, Carried
<1>3. Drained(v, p, s2, d) /\ Kept(v, ms, gs, d, s2)
  <2>1. s2 <= s2
    OBVIOUS
  <2> QED  BY <2>1, <1>1, <1>2, DrainKept
<1>4. CASE c = NoCursor
  <2>1. s2 = 0 /\ q = r
    BY <1>4
  <2> QED  BY <2>1, <1>3, <1>4, DrainAtStart
<1>5. CASE c # NoCursor
  <2>1. s2 <= c /\ q = ClearBeforeTick(r, c, d)
    BY <1>5
  <2> QED  BY <2>1, <1>3, <1>5, ClearKeeps
<1> QED  BY <1>4, <1>5

-----------------------------------------------------------------------------
(* The inductive invariant holds at the start and in every step.           *)

\* The spawned component.
LEMMA InterpInitInv == InterpInit => InterpInv
<1> SUFFICES ASSUME InterpInit PROVE InterpInv
  OBVIOUS
<1>1. /\ mode \in InterpModes /\ acked = 0 /\ mutations = {} /\ got = {} /\ complete = NoCursor /\ shownTick = 0
      /\ DOMAIN valueAt = {0} /\ valueAt[0] = 0 /\ DOMAIN history = {0} /\ history[0] = 0
      /\ valueAt = [t \in {0} |-> 0] /\ history = [t \in DOMAIN history |-> history[t]]
  BY DEF InterpInit
<1>2. Growing(valueAt)
  <2>1. 0 .. 0 = {0} /\ 0 \in Nat
    OBVIOUS
  <2>2. valueAt \in [0 .. 0 -> Nat]
    BY <1>1, <2>1
  <2> QED  BY <1>1, <2>1, <2>2 DEF Growing
<1>3. Served(valueAt, mutations, got, acked)
  <2>1. Settled(valueAt, mutations, got, acked, 0)
    BY <1>1 DEF Settled
  <2> QED  BY <1>1, <1>2, <2>1 DEF Served
<1>4. DOMAIN valueAt \subseteq 0 .. MaxInterpTick
  BY <1>1, InterpAssumption
<1>5. 0 # Unchanged /\ NoCursor \notin Int
  BY InterpAssumption
<1>6. Said(history) = {0}
  BY <1>1, <1>5 DEF Said
<1>7. Kept(valueAt, mutations, got, history, shownTick)
  BY <1>1, <1>6 DEF Kept, AllReceived
<1>8. \A t \in DOMAIN history : Backed(valueAt, history, t)
  BY <1>1 DEF Backed
<1>9. OfValues(valueAt, got, history)
  BY <1>1, <1>8 DEF OfValues
<1>10. receiver = [base |-> NoCursor, baseTick |-> NoCursor,
                   known |-> {[cursor |-> 0, tick |-> 0]}, pending |-> <<>>]
  <2>1. PICK r0 : r0 = [base |-> NoCursor, baseTick |-> NoCursor, known |-> {}, pending |-> <<>>]
    OBVIOUS
  <2>2. r0.base = NoCursor /\ r0.baseTick = NoCursor /\ r0.known = {} /\ r0.pending = <<>>
    BY <2>1
  <2>3. PICK left : left = StillPending(r0.pending, 0)
    OBVIOUS
  <2>4. left = <<>>
    <3>1. <<>> \in Seq(MessageSet) /\ 0 \in Nat /\ DOMAIN <<>> = {}
      OBVIOUS
    <3>2. left = StillPending(<<>>, 0)
      BY <2>2, <2>3
    <3>3. left \in Seq(MessageSet) /\ \A x \in DOMAIN left : \E j \in DOMAIN <<>> : left[x] = <<>>[j]
      BY <3>1, <3>2, StillPendingIs
    <3>4. DOMAIN left = {}
      BY <3>1, <3>3
    <3>5. Len(left) \in Nat /\ DOMAIN left = 1 .. Len(left)
      BY <3>3, LenProperties
    <3>6. Len(left) = 0
      BY <3>4, <3>5
    <3> QED  BY <3>3, <3>6, EmptySeq
  <2>5. ~ (Retired(r0, 0) /\ 0 # r0.base) /\ 0 # r0.base
    BY <2>2, <1>5 DEF Retired
  <2>6. RecordCursor(r0, 0, 0) = [r0 EXCEPT !.known = {k \in r0.known : k.cursor # 0} \cup {[cursor |-> 0, tick |-> 0]},
                                            !.pending = left]
    BY <2>3, <2>5 DEF RecordCursor
  <2>7. {k \in r0.known : k.cursor # 0} \cup {[cursor |-> 0, tick |-> 0]} = {[cursor |-> 0, tick |-> 0]}
    BY <2>2
  <2>8. receiver = RecordCursor(r0, 0, 0)
    BY <2>1 DEF InterpInit
  <2> QED  BY <2>1, <2>4, <2>6, <2>7, <2>8
<1>11. OfDiffs(valueAt, mutations, got, acked, complete, receiver, history)
  <2>1. PICK k0 : k0 = [cursor |-> 0, tick |-> 0]
    OBVIOUS
  <2>2. receiver.base = NoCursor /\ receiver.baseTick = NoCursor /\ receiver.known = {k0} /\ receiver.pending = <<>>
    BY <1>10, <2>1
  <2>3. receiver \in Receivers
    <3>1. k0 \in [cursor : Nat, tick : Nat] /\ <<>> \in Seq(MessageSet)
      BY <2>1
    <3> QED  BY <3>1, <1>10, <2>1 DEF Receivers
  <2>4. BaseHeld(valueAt, mutations, got, complete, receiver, history)
    BY <2>1, <2>2 DEF BaseHeld
  <2>5. KnownHeld(receiver, history)
    BY <2>1, <2>2, <1>1, <1>6 DEF KnownHeld
  <2>6. DOMAIN receiver.pending = {}
    BY <2>2
  <2> QED  BY <2>3, <2>4, <2>5, <2>6, <1>1, <1>8 DEF OfDiffs
<1>12. IsComplete(valueAt, mutations, got, complete)
  BY <1>1 DEF IsComplete
<1>13. shownTick \in Nat /\ shownTick <= (IF complete = NoCursor THEN 0 ELSE complete)
  BY <1>1
<1> QED  BY <1>1, <1>3, <1>4, <1>7, <1>9, <1>11, <1>12, <1>13 DEF InterpInv


\* What a step keeps, and that it shows nothing older.
ShowsOn == Sample(history', shownTick') >= Sample(history, shownTick)

\* The mode is one of the two, and the completed tick is the limit of the second.
LEMMA InterpModeIs ==
    ASSUME InterpInv
    PROVE  /\ mode = "value" \/ mode = "diff"
           /\ Growing(valueAt) /\ shownTick \in Nat
           /\ (BasesStay /\ mode = "diff") => InterpLead = 0
<1>1. mode \in InterpModes /\ InterpModes \subseteq {"value", "diff"}
  BY InterpAssumption DEF InterpInv
<1> QED  BY <1>1 DEF InterpInv, Served, BasesStay

\* A client that does not move shows what it showed.
LEMMA NothingMoves ==
    ASSUME InterpInv, UNCHANGED <<history, shownTick>>
    PROVE  ShowsOn
<1>1. Sample(history, shownTick) \in Nat
  BY SampleIs DEF InterpInv, Served
<1>2. PICK x : x = Sample(history, shownTick)
  OBVIOUS
<1>3. x >= x
  BY <1>1, <1>2
<1> QED  BY <1>2, <1>3 DEF ShowsOn

\* The server goes on, the client does not move.
LEMMA ServerGoesOn ==
    ASSUME InterpInv, Served(valueAt', mutations', got, acked'),
           Grows(valueAt, mutations, acked, valueAt', mutations', acked'),
           DOMAIN valueAt' \subseteq 0 .. MaxInterpTick,
           UNCHANGED <<mode, got, complete, receiver, history, shownTick>>
    PROVE  InterpInv' /\ ShowsOn
<1>1. PICK v2, ms2, a2 : v2 = valueAt' /\ ms2 = mutations' /\ a2 = acked'
  OBVIOUS
<1>2. Grows(valueAt, mutations, acked, v2, ms2, a2) /\ Growing(valueAt)
  BY <1>1 DEF InterpInv, Served
<1>3. /\ Kept(v2, ms2, got, history, shownTick)
      /\ OfValues(valueAt, got, history) => OfValues(v2, got, history)
  BY <1>2, KeptAsItGrows DEF InterpInv
<1>4. mode = "diff" => OfDiffs(v2, ms2, got, a2, complete, receiver, history)
  <2>1. SUFFICES ASSUME mode = "diff" PROVE OfDiffs(v2, ms2, got, a2, complete, receiver, history)
    OBVIOUS
  <2>2. OfDiffs(valueAt, mutations, got, acked, complete, receiver, history)
        /\ Kept(valueAt, mutations, got, history, shownTick)
    BY <2>1 DEF InterpInv
  <2> QED  BY <1>2, <2>2, DiffsAsItGrows
<1>5. IsComplete(v2, ms2, got, complete)
  BY <1>2 DEF InterpInv, IsComplete, Grows, AllReceived
<1>6. InterpInv'
  BY <1>1, <1>3, <1>4, <1>5 DEF InterpInv
<1> QED  BY <1>6, NothingMoves

\* A send pass.
LEMMA SendKeeps ==
    ASSUME InterpInv, NEW value, ServerSend(value)
    PROVE  InterpInv' /\ ShowsOn
<1>1. Served(valueAt, mutations, got, acked) /\ DOMAIN valueAt \subseteq 0 .. MaxInterpTick
  BY DEF InterpInv
<1>2. PICK n \in Nat : valueAt \in [0 .. n -> Nat]
  BY <1>1 DEF Served, Growing
<1>3. serverNow = n
  <2>1. Max(0 .. n) \in 0 .. n /\ \A x \in 0 .. n : x <= Max(0 .. n)
    <3>1. PICK S : S = 0 .. n
      OBVIOUS
    <3>2. S \subseteq 0 .. n /\ n \in S
      BY <3>1
    <3>3. Max(S) \in S /\ \A x \in S : x <= Max(S)
      BY <3>2, S # {}, MaxOfTicks
    <3> QED  BY <3>1, <3>3
  <2>2. DOMAIN valueAt = 0 .. n
    BY <1>2
  <2>3. n \in 0 .. n
    OBVIOUS
  <2>4. Max(0 .. n) = n
    BY <2>1, <2>3
  <2> QED  BY <2>2, <2>4 DEF serverNow
<1>4. /\ n < MaxInterpTick /\ value \in {valueAt[n], valueAt[n] + 1}
      /\ valueAt' = [t \in DOMAIN valueAt \cup {n + 1} |-> IF t = n + 1 THEN value ELSE valueAt[t]]
      /\ mutations' = IF value = acked THEN mutations
                      ELSE mutations \cup {[tick |-> n + 1, first |-> acked + 1, last |-> value]}
      /\ UNCHANGED <<mode, acked, got, complete, receiver, history, shownTick>>
  BY <1>3 DEF ServerSend
<1>5. DOMAIN valueAt \cup {n + 1} = 0 .. n + 1 /\ DOMAIN valueAt = 0 .. n
  BY <1>2
<1>6. PICK v2 : v2 = valueAt'
  OBVIOUS
<1>7. PICK ms2 : ms2 = mutations'
  OBVIOUS
<1>8. v2 = [t \in 0 .. n + 1 |-> IF t = n + 1 THEN value ELSE valueAt[t]]
  BY <1>4, <1>5, <1>6
<1>9. Served(v2, ms2, got, acked) /\ Grows(valueAt, mutations, acked, v2, ms2, acked)
  BY <1>1, <1>2, <1>4, <1>7, <1>8, SendServed
<1>10. DOMAIN v2 \subseteq 0 .. MaxInterpTick
  <2>1. DOMAIN v2 = 0 .. n + 1
    BY <1>8
  <2> QED  BY <2>1, <1>4, InterpAssumption
<1> QED  BY <1>4, <1>6, <1>7, <1>9, <1>10, ServerGoesOn

\* An acknowledgement.
LEMMA AckKeeps ==
    ASSUME InterpInv, NEW m \in got, AckMutation(m)
    PROVE  InterpInv' /\ ShowsOn
<1>1. m.last > acked /\ acked' = m.last
      /\ UNCHANGED <<mode, valueAt, mutations, got, complete, receiver, history, shownTick>>
  BY DEF AckMutation
<1>2. Served(valueAt, mutations, got, m.last) /\ Grows(valueAt, mutations, acked, valueAt, mutations, m.last)
  BY <1>1, AckServed DEF InterpInv
<1>3. DOMAIN valueAt' \subseteq 0 .. MaxInterpTick
  BY <1>1 DEF InterpInv
<1> QED  BY <1>1, <1>2, <1>3, ServerGoesOn

\* A message arrives: write_history or write_history_diff.
LEMMA WriteKeeps ==
    ASSUME InterpInv, NEW m, WriteHistory(m)
    PROVE  InterpInv' /\ ShowsOn
<1>1. /\ m \in mutations /\ m \notin got /\ got' = got \cup {m}
      /\ UNCHANGED <<mode, valueAt, acked, mutations, complete, shownTick>>
  BY DEF WriteHistory, serverSide
<1>2. /\ Served(valueAt, mutations, got, acked) /\ Kept(valueAt, mutations, got, history, shownTick)
      /\ shownTick \in Nat
  BY DEF InterpInv
<1>3. PICK gs2 : gs2 = got'
  OBVIOUS
<1>4. /\ Served(valueAt, mutations, gs2, acked)
      /\ \A t : AllReceived(mutations, got, t) => AllReceived(mutations, gs2, t)
  BY <1>1, <1>2, <1>3, ReadServed
<1>5. IsComplete(valueAt, mutations, gs2, complete)
  BY <1>4 DEF InterpInv, IsComplete
<1>6. CASE mode = "value"
  <2>1. PICK g : g = history'
    OBVIOUS
  <2>2. g = InsertConfirmed(history, m.tick, m.last)
    BY <1>6, <2>1 DEF WriteHistory
  <2>3. OfValues(valueAt, got, history)
    BY <1>6 DEF InterpInv
  <2>4. /\ Kept(valueAt, mutations, gs2, g, shownTick) /\ OfValues(valueAt, gs2, g)
        /\ Sample(g, shownTick) >= Sample(history, shownTick)
    BY <1>1, <1>2, <1>3, <2>2, <2>3, ValueArrives
  <2>5. ShowsOn
    BY <1>1, <2>1, <2>4 DEF ShowsOn
  <2>6. mode' = "value"
    BY <1>1, <1>6
  <2>7. InterpInv'
    BY <1>1, <1>3, <1>4, <1>5, <2>1, <2>4, <2>6 DEF InterpInv
  <2> QED  BY <2>5, <2>7
<1>7. CASE mode = "diff"
  <2>1. PICK s : /\ s = TakeAllReady([r |-> QueueDiffs(receiver, m.tick, m.first, m.last), h |-> history])
                 /\ receiver' = s.r /\ history' = s.h
    BY <1>7 DEF WriteHistory
  <2>2. OfDiffs(valueAt, mutations, got, acked, complete, receiver, history)
        /\ shownTick <= (IF complete = NoCursor THEN 0 ELSE complete)
    BY <1>7 DEF InterpInv
  <2>3. /\ Kept(valueAt, mutations, gs2, s.h, shownTick) /\ OfDiffs(valueAt, mutations, gs2, acked, complete, s.r, s.h)
        /\ Sample(s.h, shownTick) >= Sample(history, shownTick)
    BY <1>1, <1>2, <1>3, <1>4, <2>1, <2>2, DiffArrives
  <2>4. PICK g : g = history'
    OBVIOUS
  <2>5. PICK q : q = receiver'
    OBVIOUS
  <2>6. /\ Kept(valueAt, mutations, gs2, g, shownTick) /\ OfDiffs(valueAt, mutations, gs2, acked, complete, q, g)
        /\ Sample(g, shownTick) >= Sample(history, shownTick)
    BY <2>1, <2>3, <2>4, <2>5
  <2>7. ShowsOn
    BY <1>1, <2>4, <2>6 DEF ShowsOn
  <2>8. mode' = "diff"
    BY <1>1, <1>7
  <2>9. InterpInv'
    BY <1>1, <1>3, <1>4, <1>5, <2>2, <2>4, <2>5, <2>6, <2>8 DEF InterpInv
  <2> QED  BY <2>7, <2>9
<1> QED  BY <1>6, <1>7, InterpModeIs

\* A tick is complete.
LEMMA CompleteKeeps ==
    ASSUME InterpInv, NEW tick, CompleteTick(tick)
    PROVE  InterpInv' /\ ShowsOn
<1>1. /\ tick \in DOMAIN valueAt /\ tick # 0 /\ complete' = tick /\ ReceivedAllOf(tick)
      /\ complete # NoCursor => tick > complete
      /\ UNCHANGED <<mode, valueAt, acked, mutations, got, receiver, history, shownTick>>
  BY DEF CompleteTick, serverSide
<1>2. DOMAIN valueAt \subseteq Nat /\ tick \in Nat /\ NoCursor \notin Int
  BY <1>1, InterpModeIs, ValueTyped, InterpAssumption
<1>3. IsComplete(valueAt, mutations, got, tick)
  BY <1>1 DEF IsComplete, AllReceived, ReceivedAllOf
<1>4. complete # NoCursor => complete \in Nat
  BY <1>2 DEF InterpInv, IsComplete
<1>5. ASSUME mode = "diff"
      PROVE  /\ OfDiffs(valueAt, mutations, got, acked, tick, receiver, history)
             /\ shownTick <= (IF tick = NoCursor THEN 0 ELSE tick)
  <2>1. OfDiffs(valueAt, mutations, got, acked, complete, receiver, history)
        /\ shownTick <= (IF complete = NoCursor THEN 0 ELSE complete)
    BY <1>5 DEF InterpInv
  <2>2. BaseHeld(valueAt, mutations, got, complete, receiver, history) /\ receiver \in Receivers
    BY <2>1 DEF OfDiffs
  <2>3. receiver.base # NoCursor => receiver.baseTick <= tick
    <3>1. SUFFICES ASSUME receiver.base # NoCursor PROVE receiver.baseTick <= tick
      OBVIOUS
    <3>2. complete # NoCursor /\ receiver.baseTick <= complete /\ receiver.baseTick \in DOMAIN valueAt
      BY <2>2, <3>1 DEF BaseHeld
    <3> QED  BY <3>2, <1>1, <1>2, <1>4
  <2>4. tick # NoCursor
    BY <1>2
  <2>5. BaseHeld(valueAt, mutations, got, tick, receiver, history)
    BY <2>2, <2>3, <2>4 DEF BaseHeld
  <2>6. OfDiffs(valueAt, mutations, got, acked, tick, receiver, history)
    BY <2>1, <2>5 DEF OfDiffs
  <2>7. shownTick <= tick
    BY <2>1, <1>1, <1>2, <1>4, InterpModeIs
  <2> QED  BY <2>4, <2>6, <2>7
<1>6. InterpInv'
  BY <1>1, <1>3, <1>5 DEF InterpInv
<1> QED  BY <1>1, <1>6, NothingMoves

\* A frame: update_history_inner or update_history_diff_archetype_erased.
LEMMA InterpFrameKeeps ==
    ASSUME InterpInv, BasesStay, NEW tick, InterpFrame(tick)
    PROVE  InterpInv' /\ ShowsOn
<1>1. /\ tick \in {shownTick, shownTick + 1} /\ shownTick' = tick
      /\ tick <= (IF complete = NoCursor THEN 0 ELSE complete) + InterpLead
      /\ UNCHANGED <<mode, valueAt, acked, mutations, got, complete>>
      /\ IF mode = "value" THEN UpdateHistory ELSE UpdateHistoryDiff
  BY DEF InterpFrame, serverSide
<1>2. /\ Served(valueAt, mutations, got, acked) /\ Kept(valueAt, mutations, got, history, shownTick)
      /\ IsComplete(valueAt, mutations, got, complete)
      /\ shownTick \in Nat /\ Growing(valueAt)
  BY InterpModeIs DEF InterpInv
<1>3. PICK s2 : s2 = shownTick'
  OBVIOUS
<1>4. s2 \in Nat /\ shownTick <= s2 /\ s2 = tick
  BY <1>1, <1>2, <1>3
<1>5. PICK d : d = history'
  OBVIOUS
<1>6. CASE mode = "value"
  <2>1. PICK p : p = IF complete = NoCursor THEN history ELSE PushUnchanged(history, complete)
    OBVIOUS
  <2>2. d = DrainOldHistory(p, s2)
    BY <1>1, <1>3, <1>5, <1>6, <2>1 DEF UpdateHistory
  <2>3. OfValues(valueAt, got, history)
    BY <1>6 DEF InterpInv
  <2>4. /\ Kept(valueAt, mutations, got, d, s2) /\ OfValues(valueAt, got, d)
        /\ Sample(d, s2) >= Sample(history, shownTick)
    BY <1>2, <1>4, <2>1, <2>2, <2>3, ValueFrame
  <2>5. ShowsOn
    BY <1>3, <1>5, <2>4 DEF ShowsOn
  <2>6. mode' = "value"
    BY <1>1, <1>6
  <2>7. InterpInv'
    BY <1>1, <1>3, <1>4, <1>5, <2>4, <2>6 DEF InterpInv
  <2> QED  BY <2>5, <2>7
<1>7. CASE mode = "diff"
  <2>1. OfDiffs(valueAt, mutations, got, acked, complete, receiver, history)
    BY <1>7 DEF InterpInv
  <2>2. s2 <= (IF complete = NoCursor THEN 0 ELSE complete)
    <3>1. InterpLead = 0
      BY <1>7, InterpModeIs
    <3>2. complete = NoCursor \/ complete \in Nat
      BY <1>2, ValueTyped DEF IsComplete
    <3> QED  BY <3>1, <3>2, <1>1, <1>4
  <2>3. PICK p : p = IF complete # NoCursor /\ ~ (\E i \in DOMAIN receiver.pending : receiver.pending[i].tick = complete)
                     THEN PushUnchanged(history, complete) ELSE history
    OBVIOUS
  <2>4. /\ Kept(valueAt, mutations, got, p, shownTick) /\ Kept(valueAt, mutations, got, p, s2)
        /\ OfDiffs(valueAt, mutations, got, acked, complete, receiver, p)
        /\ Said(p) = Said(history) /\ \A t \in Said(history) : p[t] = history[t]
    BY <1>2, <1>4, <2>1, <2>3, DiffPushes
  <2>5. PICK q : q = receiver'
    OBVIOUS
  <2>6. IF receiver.pending # <<>> THEN d = p /\ q = receiver
        ELSE /\ d = DrainOldHistory(p, s2)
             /\ q = IF complete = NoCursor THEN receiver ELSE ClearBeforeTick(receiver, complete, d)
    <3>1. UpdateHistoryDiff
      BY <1>1, <1>7
    <3> QED  BY <3>1, <1>3, <1>5, <2>3, <2>5 DEF UpdateHistoryDiff, PendingAt
  <2>7. /\ Kept(valueAt, mutations, got, d, s2) /\ OfDiffs(valueAt, mutations, got, acked, complete, q, d)
        /\ d = p \/ Drained(valueAt, p, s2, d)
    <3>1. CASE receiver.pending # <<>>
      BY <3>1, <2>4, <2>6
    <3>2. CASE receiver.pending = <<>>
      <4>1. /\ d = DrainOldHistory(p, s2)
            /\ q = IF complete = NoCursor THEN receiver ELSE ClearBeforeTick(receiver, complete, d)
        BY <3>2, <2>6
      <4> QED  BY <1>2, <1>4, <2>2, <2>4, <3>2, <4>1, DiffDrains
    <3> QED  BY <3>1, <3>2
  <2>8. Sample(d, s2) >= Sample(history, shownTick)
    BY <1>2, <1>4, <2>4, <2>7, FrameShows
  <2>9. ShowsOn
    BY <1>3, <1>5, <2>8 DEF ShowsOn
  <2>10. mode' = "diff"
    BY <1>1, <1>7
  <2>11. InterpInv'
    BY <1>1, <1>2, <1>3, <1>4, <1>5, <2>2, <2>5, <2>7, <2>10 DEF InterpInv
  <2> QED  BY <2>9, <2>11
<1> QED  BY <1>6, <1>7, InterpModeIs

\* Every step.
LEMMA InterpStepInv ==
    ASSUME BasesStay, InterpInv, [InterpNext]_interpVars
    PROVE  InterpInv' /\ ShowsOn
<1>1. CASE UNCHANGED interpVars
  <2>1. UNCHANGED <<mode, valueAt, acked, mutations, got, complete, receiver, history, shownTick>>
    BY <1>1 DEF interpVars, serverSide
  <2>2. InterpInv'
    BY <2>1 DEF InterpInv
  <2> QED  BY <2>1, <2>2, NothingMoves
<1>2. CASE \E value \in {valueAt[serverNow], valueAt[serverNow] + 1} : ServerSend(value)
  BY <1>2, SendKeeps
<1>3. CASE \E m \in got : AckMutation(m)
  BY <1>3, AckKeeps
<1>4. CASE \E m \in mutations : WriteHistory(m)
  BY <1>4, WriteKeeps
<1>5. CASE \E tick \in DOMAIN valueAt : CompleteTick(tick)
  BY <1>5, CompleteKeeps
<1>6. CASE \E tick \in {shownTick, shownTick + 1} : InterpFrame(tick)
  BY <1>6, InterpFrameKeeps
<1> QED  BY <1>1, <1>2, <1>3, <1>4, <1>5, <1>6 DEF InterpNext

\* What the invariant says of the history.
LEMMA InterpInvImplies == ASSUME InterpInv PROVE HistorySound
<1>1. /\ Growing(valueAt) /\ DOMAIN valueAt \subseteq Nat /\ shownTick \in Nat
      /\ Kept(valueAt, mutations, got, history, shownTick)
      /\ IsComplete(valueAt, mutations, got, complete)
      /\ DOMAIN history \subseteq DOMAIN valueAt /\ \A t \in Said(history) : history[t] = valueAt[t]
  BY InterpModeIs, ValueTyped DEF InterpInv, Kept
<1>2. InterpTypeOK
  BY <1>1 DEF InterpInv, InterpTypeOK, IsComplete
<1>3. HistoryIsTrue
  <2>1. SUFFICES ASSUME NEW t \in DOMAIN history,
                        mode = "diff" => \A i \in DOMAIN receiver.pending : receiver.pending[i].tick > t
                 PROVE  Resolve(history, t) = valueAt[t]
    BY DEF HistoryIsTrue
  <2>2. Backed(valueAt, history, t)
    <3>1. CASE mode = "value"
      BY <3>1 DEF InterpInv, OfValues
    <3>2. CASE mode = "diff"
      <4>1. OfDiffs(valueAt, mutations, got, acked, complete, receiver, history)
        BY <3>2 DEF InterpInv
      <4>2. \A i \in DOMAIN receiver.pending : receiver.pending[i].tick \in Nat
        BY <4>1, ReceiverTyped DEF OfDiffs
      <4>3. ~ Carried(valueAt, mutations, acked, receiver, t)
        <5>1. t \in Nat
          BY <1>1
        <5> QED  BY <2>1, <3>2, <4>2, <5>1 DEF Carried
      <4> QED  BY <4>1, <4>3 DEF OfDiffs
    <3> QED  BY <3>1, <3>2, InterpModeIs
  <2> QED  BY <1>1, <2>2, BackedIsTrue
<1>4. BasesAreHeld
  <2>1. SUFFICES ASSUME mode = "diff",
                        NEW k \in receiver.known \cup (IF receiver.baseTick = NoCursor THEN {}
                                     ELSE {[cursor |-> receiver.base, tick |-> receiver.baseTick]})
                 PROVE  StateAtOrBefore(history, k.tick) = k.cursor
    BY DEF BasesAreHeld
  <2>2. /\ BaseHeld(valueAt, mutations, got, complete, receiver, history) /\ KnownHeld(receiver, history)
        /\ receiver \in Receivers
    BY <2>1 DEF InterpInv, OfDiffs
  <2>3. LastSaid(history, k.tick, k.cursor) /\ k.tick \in Int
    <3>1. CASE k \in receiver.known
      <4>1. k.tick \in DOMAIN history /\ history[k.tick] = k.cursor /\ k.cursor \in Nat /\ k.tick \in Nat
        BY <3>1, <2>2, ReceiverTyped DEF KnownHeld
      <4>2. k.tick \in Said(history) /\ k.tick <= k.tick
        BY <4>1, InterpAssumption DEF Said
      <4> QED  BY <4>1, <4>2 DEF LastSaid
    <3>2. CASE k \notin receiver.known
      <4>1. receiver.baseTick # NoCursor /\ k = [cursor |-> receiver.base, tick |-> receiver.baseTick]
        BY <2>1, <3>2
      <4>2. receiver.base # NoCursor /\ k.tick = receiver.baseTick /\ k.cursor = receiver.base
        BY <4>1, <2>2 DEF BaseHeld
      <4>3. k.tick \in DOMAIN valueAt /\ LastSaid(history, k.tick, k.cursor)
        BY <4>2, <2>2 DEF BaseHeld
      <4> QED  BY <4>3, <1>1
    <3> QED  BY <3>1, <3>2
  <2>4. PICK tick, cursor : tick = k.tick /\ cursor = k.cursor
    OBVIOUS
  <2>5. Resolve(history, tick) = cursor
    BY <1>1, <2>3, <2>4, LastSaidIs
  <2> QED  BY <2>4, <2>5 DEF StateAtOrBefore
<1>5. SomethingToShow
  <2>1. Sample(history, shownTick) \in Nat
    BY <1>1, SampleIs
  <2> QED  BY <2>1, InterpAssumption DEF SomethingToShow
<1> QED  BY <1>2, <1>3, <1>4, <1>5 DEF HistorySound

\* Whatever is lost, late or out of order, the history of an interpolated component
\* holds true values (write_history, write_history_diff), the bases of diffs that
\* are still to come, and always something to show (drain_old_history,
\* clear_before_tick); by value for any presentation, by diffs for one that does
\* not pass the completed tick.
THEOREM HistorySoundAlways == ASSUME BasesStay PROVE InterpSpec => []HistorySound
<1>1. InterpInit => InterpInv
  BY InterpInitInv
<1>2. BasesStay /\ InterpInv /\ [InterpNext]_interpVars => InterpInv'
  BY InterpStepInv
<1>3. InterpInv => HistorySound
  BY InterpInvImplies
<1> QED  BY BasesStay, <1>1, <1>2, <1>3, PTL DEF InterpSpec

\* What is shown never goes back to an older value.
THEOREM ShownNeverGoesBackAlways == ASSUME BasesStay PROVE InterpSpec => ShownNeverGoesBack
<1>1. InterpInit => InterpInv
  BY InterpInitInv
<1>2. BasesStay /\ InterpInv /\ [InterpNext]_interpVars
         => InterpInv' /\ [Sample(history', shownTick') >= Sample(history, shownTick)]_interpVars
  BY InterpStepInv DEF ShowsOn
<1> QED  BY BasesStay, <1>1, <1>2, PTL DEF InterpSpec, ShownNeverGoesBack
=============================================================================
