------------------------------ MODULE FixedPoint ------------------------------
(***************************************************************************)
(* The arithmetic of Bluespec's FixedPoint#(iw, fw), a library type that   *)
(* the accelerator imports, on the integers that its bits encode: x stands *)
(* for the number x / FRAC.  A result keeps iw + fw bits: what does not    *)
(* fit wraps around.                                                       *)
(***************************************************************************)
EXTENDS Integers

CONSTANTS FRAC,   \* 2^fw, the encoding of 1.0
          HALF    \* 2^(iw + fw - 1), half of the number of encodings

ASSUME FixedPointAssumption ==
  /\ FRAC \in Nat \ {0}
  /\ HALF \in Nat \ {0}
  /\ FRAC < HALF

Elem == -HALF .. HALF - 1

Wrap(x) == ((x + HALF) % (2 * HALF)) - HALF

\* fxptTruncate(fxptMult(a, b)): the low fw bits of the product are dropped.
FxMul(a, b) == Wrap((a * b) \div FRAC)

FxSub(a, b) == Wrap(a - b)

\* The quotient of two signed integers is truncated towards zero.
Magnitude(x) == IF x < 0 THEN -x ELSE x
Quot(x, y) == IF (x < 0) = (y < 0)
              THEN Magnitude(x) \div Magnitude(y)
              ELSE -(Magnitude(x) \div Magnitude(y))

FxDiv(a, b) == Wrap(Quot(a * FRAC, b))
=============================================================================
