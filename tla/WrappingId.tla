----------------------------- MODULE WrappingId -----------------------------
(***************************************************************************)
(* Sequence numbers of fixed width with wrapping arithmetic: the           *)
(* wrapping_id! macro of lightyear_utils, from which PacketId and          *)
(* MessageId are generated.  The code has u16 identifiers and i16          *)
(* differences; here the width is the constant IdModulus (2^16 in the      *)
(* code).  A wire identifier is a number in 0 .. IdModulus-1, and the      *)
(* sequence number it stands for is a natural number whose residue it is.  *)
(***************************************************************************)
EXTENDS Integers

CONSTANT IdModulus      \* 65536: the number of distinct identifiers

\* An identifier space has an even, positive number of identifiers (2^16).
ASSUME IdModulusAssumption == /\ IdModulus \in Nat
                              /\ IdModulus > 1
                              /\ IdModulus % 2 = 0

WireId == 0 .. (IdModulus - 1)

\* PacketId(seq as u16): the identifier under which sequence number seq travels.
Wrap(seq) == seq % IdModulus

\* i16::MAX for the width in use.
MaxDiff == (IdModulus \div 2) - 1

\* Sub for the identifier: self.0.wrapping_sub(rhs.0) as i16.
WrappingDiff(a, b) ==
    LET d == (a - b) % IdModulus
    IN  IF d > MaxDiff THEN d - IdModulus ELSE d

\* Mutant of NextId: the counter grows past the width of the identifier.
NextIdUnwrapped(a) == a + 1

\* AddAssign<u16>: self.0.wrapping_add(1).
NextId(a) == (a + 1) % IdModulus

\* PartialOrd: a < b when b is a short way ahead of a around the circle.
IdLess(a, b) == WrappingDiff(b, a) > 0
=============================================================================
