---------------------------- MODULE CommonLemmas ----------------------------
(***************************************************************************)
(* Facts that the proofs of several modules rest on.                       *)
(*                                                                         *)
(* The loops of a frame (a model writes one as a function on 0..n, each    *)
(* value a step from the one before): they run to their end, and what each *)
(* turn keeps they keep.                                                   *)
(*                                                                         *)
(* Wrapping identifiers, for every width: residues determine sequence      *)
(* numbers that are less than one cycle apart, and the signed difference   *)
(* of two identifiers is the difference of the sequence numbers they stand *)
(* for when these are less than half a cycle apart.                        *)
(***************************************************************************)
EXTENDS WrappingId, SequencesExt, SequenceTheorems, WellFoundedInduction, TLAPS

-----------------------------------------------------------------------------
(* Loops and sequences. *)

\* A set of natural numbers that is not empty has a least element.
LEMMA LeastOf ==
    ASSUME NEW S, S \subseteq Nat, S # {}
    PROVE  \E x \in S : \A y \in S : x <= y
<1>1. PICK x \in S : \A y \in S : ~ (<<y, x>> \in OpToRel(<, Nat))
  BY WFMin, NatLessThanWellFounded
<1>2. ASSUME NEW y \in S, y < x PROVE <<y, x>> \in OpToRel(<, Nat)
  BY <1>2 DEF OpToRel
<1>3. \A y \in S : ~ (y < x)
  BY <1>1, <1>2
<1> QED  BY <1>3

\* The steps can be taken one after the other.
LEMMA RunExists ==
    ASSUME NEW S, NEW s \in S, NEW n \in Nat, NEW step \in [1 .. n -> [S -> S]]
    PROVE  \E f \in [0 .. n -> S] : f[0] = s /\ \A k \in 1 .. n : f[k] = step[k][f[k - 1]]
<1> DEFINE IsRun(f, m) == f[0] = s /\ \A k \in 1 .. m : f[k] = step[k][f[k - 1]]
           Bad == {m \in 0 .. n : ~ \E f \in [0 .. m -> S] : IsRun(f, m)}
<1>1. SUFFICES ASSUME Bad # {} PROVE FALSE
  <2>1. n \notin Bad
    <3> HIDE DEF Bad
    <3> QED  BY <1>1
  <2>2. n \in 0 .. n
    OBVIOUS
  <2>3. \E f \in [0 .. n -> S] : IsRun(f, n)
    <3> HIDE DEF IsRun
    <3> QED  BY <2>1, <2>2
  <2> QED  BY <2>3
<1>2. PICK m \in Bad : \A y \in Bad : m <= y
  <2>1. Bad \subseteq Nat
    OBVIOUS
  <2> HIDE DEF Bad
  <2> QED  BY <2>1, <1>1, LeastOf
<1>3. m # 0
  <2>1. SUFFICES ASSUME m = 0 PROVE FALSE
    OBVIOUS
  <2> DEFINE g == [k \in 0 .. 0 |-> s]
  <2>2. g \in [0 .. m -> S] /\ IsRun(g, m)
    BY <2>1
  <2> QED  BY <2>2
<1>4. m \in Nat /\ m - 1 \in 0 .. n /\ m - 1 \notin Bad /\ m \in 1 .. n
  <2>1. m \in 0 .. n
    OBVIOUS
  <2>2. m \in Nat /\ m - 1 \in 0 .. n /\ m \in 1 .. n /\ ~ (m <= m - 1)
    BY <2>1, <1>3
  <2> HIDE DEF Bad
  <2> QED  BY <1>2, <2>2
<1>5. PICK f \in [0 .. m - 1 -> S] : IsRun(f, m - 1)
  BY <1>4
<1> DEFINE g == [k \in 0 .. m |-> IF k < m THEN f[k] ELSE step[m][f[m - 1]]]
<1>6. g \in [0 .. m -> S]
  <2>1. f[m - 1] \in S
    BY <1>4
  <2>2. step[m][f[m - 1]] \in S
    BY <1>4, <2>1
  <2>3. \A k \in 0 .. m : k < m => f[k] \in S
    BY <1>4
  <2> QED  BY <2>2, <2>3
<1>7. ASSUME NEW k \in 1 .. m PROVE g[k] = step[k][g[k - 1]]
  <2>1. k \in Nat /\ k \in 0 .. m /\ k - 1 \in 0 .. m /\ k - 1 < m
    BY <1>4
  <2>2. g[k - 1] = f[k - 1]
    BY <2>1
  <2>3. CASE k < m
    <3>1. k \in 1 .. m - 1
      BY <2>3, <2>1, <1>4
    <3>2. f[k] = step[k][f[k - 1]]
      BY <3>1, <1>5
    <3>3. g[k] = f[k]
      BY <2>1, <2>3
    <3> QED  BY <3>2, <3>3, <2>2
  <2>4. CASE k = m
    BY <2>1, <2>2, <2>4
  <2> QED  BY <2>1, <2>3, <2>4, <1>4
<1>8. g[0] = s
  BY <1>4, <1>5
<1>9. IsRun(g, m)
  BY <1>7, <1>8
<1> QED  BY <1>2, <1>6, <1>9

\* What holds at first and goes from each turn to the next holds in the end.
LEMMA RunPasses ==
    ASSUME NEW n \in Nat, NEW P, NEW f, f[0] \in P[0],
           \A k \in 1 .. n : f[k - 1] \in P[k - 1] => f[k] \in P[k]
    PROVE  f[n] \in P[n]
<1> DEFINE Bad == {m \in 0 .. n : f[m] \notin P[m]}
<1>1. SUFFICES ASSUME Bad # {} PROVE FALSE
  OBVIOUS
<1>2. PICK m \in Bad : \A y \in Bad : m <= y
  <2>1. Bad \subseteq Nat
    OBVIOUS
  <2> HIDE DEF Bad
  <2> QED  BY <2>1, <1>1, LeastOf
<1>3. m \in 1 .. n /\ m - 1 \in 0 .. n /\ m - 1 \notin Bad
  BY <1>2
<1> QED  BY <1>2, <1>3

\* What each turn keeps holds in the end.
LEMMA RunStays ==
    ASSUME NEW S, NEW n \in Nat, NEW f, f[0] \in S,
           \A k \in 1 .. n : f[k - 1] \in S => f[k] \in S
    PROVE  f[n] \in S
<1> DEFINE P == [k \in 0 .. n |-> S]
<1>1. f[0] \in P[0] /\ \A k \in 1 .. n : f[k - 1] \in P[k - 1] => f[k] \in P[k]
  OBVIOUS
<1>2. f[n] \in P[n]
  <2> HIDE DEF P
  <2> QED  BY <1>1, RunPasses
<1> QED  BY <1>2

\* What is left of a sequence from which one element is removed.
LEMMA RemoveAtIs ==
    ASSUME NEW S, NEW s \in Seq(S), NEW i \in 1 .. Len(s)
    PROVE  /\ RemoveAt(s, i) \in Seq(S) /\ Len(RemoveAt(s, i)) = Len(s) - 1
           /\ \A j \in 1 .. (Len(s) - 1) : RemoveAt(s, i)[j] = IF j < i THEN s[j] ELSE s[j + 1]
<1> DEFINE a == SubSeq(s, 1, i - 1)
           b == SubSeq(s, i + 1, Len(s))
<1>1. Len(s) \in Nat /\ i \in 1 .. Len(s) /\ i - 1 \in Int /\ i + 1 \in Int /\ \A j \in 1 .. Len(s) : s[j] \in S
  OBVIOUS
<1>2. a \in Seq(S) /\ Len(a) = i - 1 /\ \A j \in 1 .. (i - 1) : a[j] = s[j]
  <2>1. \A j \in 1 .. (i - 1) : s[j] \in S
    BY <1>1
  <2>2. /\ a \in Seq(S)
        /\ Len(a) = IF 1 <= i - 1 THEN (i - 1) - 1 + 1 ELSE 0
        /\ \A j \in 1 .. (i - 1) - 1 + 1 : a[j] = s[1 + j - 1]
    BY <1>1, <2>1, SubSeqProperties
  <2> HIDE DEF a
  <2>3. Len(a) = i - 1
    BY <1>1, <2>2
  <2>4. ASSUME NEW j \in 1 .. (i - 1) PROVE a[j] = s[j]
    <3>1. 1 + j - 1 = j /\ j \in 1 .. (i - 1) - 1 + 1
      BY <1>1
    <3> QED  BY <2>2, <3>1
  <2> QED  BY <2>2, <2>3, <2>4
<1>3. b \in Seq(S) /\ Len(b) = Len(s) - i /\ \A j \in 1 .. (Len(s) - i) : b[j] = s[i + j]
  <2>1. \A j \in (i + 1) .. Len(s) : s[j] \in S
    BY <1>1
  <2>2. /\ b \in Seq(S)
        /\ Len(b) = IF i + 1 <= Len(s) THEN Len(s) - (i + 1) + 1 ELSE 0
        /\ \A j \in 1 .. Len(s) - (i + 1) + 1 : b[j] = s[(i + 1) + j - 1]
    BY <1>1, <2>1, SubSeqProperties
  <2> HIDE DEF b
  <2>3. Len(b) = Len(s) - i
    BY <1>1, <2>2
  <2>4. ASSUME NEW j \in 1 .. (Len(s) - i) PROVE b[j] = s[i + j]
    <3>1. (i + 1) + j - 1 = i + j /\ j \in 1 .. Len(s) - (i + 1) + 1
      BY <1>1
    <3> QED  BY <2>2, <3>1
  <2> QED  BY <2>2, <2>3, <2>4
<1>4. RemoveAt(s, i) = a \o b
  BY DEF RemoveAt
<1> HIDE DEF a, b
<1>5. /\ a \o b \in Seq(S)
      /\ Len(a \o b) = Len(a) + Len(b)
      /\ \A j \in 1 .. Len(a) + Len(b) : (a \o b)[j] = IF j <= Len(a) THEN a[j] ELSE b[j - Len(a)]
  BY <1>2, <1>3, ConcatProperties
<1>6. Len(a \o b) = Len(s) - 1 /\ Len(a) + Len(b) = Len(s) - 1
  BY <1>1, <1>2, <1>3, <1>5
<1>7. ASSUME NEW j \in 1 .. (Len(s) - 1)
      PROVE  (a \o b)[j] = IF j < i THEN s[j] ELSE s[j + 1]
  <2>1. (a \o b)[j] = IF j <= Len(a) THEN a[j] ELSE b[j - Len(a)]
    BY <1>5, <1>6
  <2>2. CASE j < i
    <3>1. j <= Len(a) /\ j \in 1 .. (i - 1)
      BY <1>1, <1>2, <2>2
    <3> QED  BY <1>2, <2>1, <2>2, <3>1
  <2>3. CASE ~ (j < i)
    <3>1. ~ (j <= Len(a)) /\ j - Len(a) \in 1 .. (Len(s) - i) /\ i + (j - Len(a)) = j + 1
      BY <1>1, <1>2, <2>3
    <3>2. (a \o b)[j] = b[j - Len(a)]
      BY <2>1, <3>1, Zenon
    <3>3. b[j - Len(a)] = s[i + (j - Len(a))]
      BY <1>3, <3>1, Zenon
    <3> QED  BY <2>3, <3>1, <3>2, <3>3
  <2> QED  BY <2>2, <2>3
<1> QED  BY <1>4, <1>5, <1>6, <1>7

-----------------------------------------------------------------------------
(* Wrapping identifiers. *)

\* A residue lies in the identifier range.
LEMMA ModRange == \A x \in Int : x % IdModulus \in WireId
  BY IdModulusAssumption DEF WireId

LEMMA IdModulusPositive == IdModulus \in Nat /\ IdModulus > 0
  BY IdModulusAssumption

\* Euclidean division by IdModulus.
LEMMA ModDiv == \A x \in Int : \E q \in Int : x = IdModulus * q + (x % IdModulus)
  BY IdModulusPositive

\* The only multiple of IdModulus smaller than it in absolute value is zero.
LEMMA SmallMultiple ==
  ASSUME NEW q \in Int, NEW d \in Int, d = IdModulus * q,
         d < IdModulus, -d < IdModulus
  PROVE  d = 0
  BY IdModulusAssumption

\* Two sequence numbers with the same identifier that are less than one cycle
\* apart are equal: the fact that lets wrapping identifiers name packets.
LEMMA WrapInjective ==
  ASSUME NEW x \in Int, NEW y \in Int, Wrap(x) = Wrap(y),
         x - y < IdModulus, y - x < IdModulus
  PROVE  x = y
<1>1. PICK q \in Int : x = IdModulus * q + (x % IdModulus)
  BY ModDiv
<1>2. PICK r \in Int : y = IdModulus * r + (y % IdModulus)
  BY ModDiv
<1>3. x % IdModulus \in Int /\ x % IdModulus = y % IdModulus
  BY ModRange, IdModulusAssumption DEF WireId, Wrap
<1>4. x - y = IdModulus * (q - r)
  BY <1>1, <1>2, <1>3, IdModulusAssumption
<1>5. x - y = 0
  BY <1>4, SmallMultiple, q - r \in Int, x - y \in Int
<1> QED BY <1>5

\* The residue is the only remainder in range.
LEMMA ModUnique ==
  ASSUME NEW x \in Int, NEW q \in Int, NEW r \in WireId, x = IdModulus * q + r
  PROVE  x % IdModulus = r
<1>1. PICK p \in Int : x = IdModulus * p + (x % IdModulus)
  BY ModDiv
<1>2. /\ x % IdModulus \in WireId
      /\ x % IdModulus \in Int /\ r \in Int
  BY ModRange, IdModulusAssumption DEF WireId
<1>3. (x % IdModulus) - r = IdModulus * (q - p)
  BY <1>1, <1>2, IdModulusAssumption
<1>4. (x % IdModulus) - r < IdModulus /\ -((x % IdModulus) - r) < IdModulus
  BY <1>2, IdModulusAssumption DEF WireId
<1>5. (x % IdModulus) - r = 0
  BY <1>2, <1>3, <1>4, SmallMultiple, q - p \in Int, (x % IdModulus) - r \in Int
<1> QED BY <1>2, <1>5

\* Adding a whole number of cycles does not change the residue.
LEMMA ModAddCycles ==
  ASSUME NEW x \in Int, NEW q \in Int, NEW y \in Int, y = x + IdModulus * q
  PROVE  y % IdModulus = x % IdModulus
<1>1. PICK p \in Int : x = IdModulus * p + (x % IdModulus)
  BY ModDiv
<1>2. x % IdModulus \in WireId /\ x % IdModulus \in Int
  BY ModRange, IdModulusAssumption DEF WireId
<1>3. y = IdModulus * (p + q) + (x % IdModulus)
  BY <1>1, <1>2, IdModulusAssumption
<1> QED BY <1>2, <1>3, ModUnique, p + q \in Int

\* An identifier plus an offset names the sequence number plus that offset.
LEMMA WrapAdd ==
  ASSUME NEW x \in Int, NEW d \in Int
  PROVE  (Wrap(x) + d) % IdModulus = Wrap(x + d)
<1>1. PICK p \in Int : x = IdModulus * p + (x % IdModulus)
  BY ModDiv
<1>2. x % IdModulus \in Int
  BY ModRange, IdModulusAssumption DEF WireId
<1>3. x + d = ((x % IdModulus) + d) + IdModulus * p
  BY <1>1, <1>2, IdModulusAssumption
<1>4. (x + d) % IdModulus = ((x % IdModulus) + d) % IdModulus
  BY <1>2, <1>3, ModAddCycles, (x % IdModulus) + d \in Int
<1> QED BY <1>4 DEF Wrap

\* The difference of two identifiers names the difference of what they name.
LEMMA WrapSub ==
  ASSUME NEW x \in Int, NEW y \in Int
  PROVE  (Wrap(x) - Wrap(y)) % IdModulus = Wrap(x - y)
<1>1. PICK p \in Int : x = IdModulus * p + (x % IdModulus)
  BY ModDiv
<1>2. PICK q \in Int : y = IdModulus * q + (y % IdModulus)
  BY ModDiv
<1>3. x % IdModulus \in Int /\ y % IdModulus \in Int
  BY ModRange, IdModulusAssumption DEF WireId
<1>4. x - y = ((x % IdModulus) - (y % IdModulus)) + IdModulus * (p - q)
  BY <1>1, <1>2, <1>3, IdModulusAssumption
<1>5. (x - y) % IdModulus = ((x % IdModulus) - (y % IdModulus)) % IdModulus
  BY <1>3, <1>4, ModAddCycles, p - q \in Int, (x % IdModulus) - (y % IdModulus) \in Int
<1> QED BY <1>5 DEF Wrap

LEMMA WrapType == \A x \in Int : Wrap(x) \in WireId
  BY ModRange DEF Wrap

LEMMA MaxDiffBound == MaxDiff \in Nat /\ 2 * MaxDiff + 2 = IdModulus
  BY IdModulusAssumption DEF MaxDiff

\* Sub for identifiers: the i16 difference of two identifiers is the difference of
\* the sequence numbers they stand for, from one half of the cycle to the other.
LEMMA WrappingDiffHalf ==
  ASSUME NEW x \in Int, NEW y \in Int, x - y <= MaxDiff, y - x <= MaxDiff + 1
  PROVE  WrappingDiff(Wrap(x), Wrap(y)) = x - y
<1> DEFINE d == (Wrap(x) - Wrap(y)) % IdModulus
<1>1. d = (x - y) % IdModulus
  BY WrapSub DEF Wrap
<1>2. CASE x >= y
  <2>1. x - y \in WireId /\ x - y = IdModulus * 0 + (x - y)
    BY <1>2, MaxDiffBound, IdModulusAssumption DEF WireId
  <2>2. d = x - y
    BY <1>1, <2>1, ModUnique, 0 \in Int, x - y \in Int
  <2> QED BY <2>2, MaxDiffBound DEF WrappingDiff
<1>3. CASE x < y
  <2>1. /\ (x - y) + IdModulus \in WireId
        /\ x - y = IdModulus * (-1) + ((x - y) + IdModulus)
    BY <1>3, MaxDiffBound, IdModulusAssumption DEF WireId
  <2>2. d = (x - y) + IdModulus
    BY <1>1, <2>1, ModUnique, -1 \in Int, x - y \in Int
  <2>3. d > MaxDiff
    BY <2>2, MaxDiffBound, IdModulusAssumption
  <2> QED BY <2>2, <2>3, IdModulusAssumption, MaxDiffBound DEF WrappingDiff
<1> QED BY <1>2, <1>3

\* Sub for identifiers: less than half a cycle apart, the i16 difference of two
\* identifiers is the difference of the sequence numbers they stand for.
THEOREM WrappingDiffExact ==
  ASSUME NEW x \in Int, NEW y \in Int, x - y <= MaxDiff, y - x <= MaxDiff
  PROVE  WrappingDiff(Wrap(x), Wrap(y)) = x - y
BY WrappingDiffHalf, MaxDiffBound

\* AddAssign: the successor of the identifier of x is the identifier of x + 1.
LEMMA NextIdWrap == \A x \in Int : NextId(Wrap(x)) = Wrap(x + 1)
  BY WrapAdd, 1 \in Int DEF NextId
=============================================================================
