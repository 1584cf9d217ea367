---------------------------- MODULE KKCell_proofs ----------------------------
(***************************************************************************)
(* Facts about the fixed point arithmetic and the cells of an iteration:   *)
(* every result fits in its register, whatever overflows on the way, and   *)
(* the cyclic neighbours cover the whole matrix.                           *)
(***************************************************************************)
EXTENDS KKCell, TLAPS

\* The remainder of a division by a positive number.
LEMMA ModRange ==
  ASSUME NEW x \in Int, NEW m \in Nat \ {0}
  PROVE  x % m \in 0 .. m - 1
OBVIOUS

\* A number already in the range is its own remainder.
LEMMA ModSmall ==
  ASSUME NEW m \in Nat \ {0}, NEW x \in 0 .. m - 1
  PROVE  x % m = x
OBVIOUS

LEMMA ModSelf ==
  ASSUME NEW m \in Nat \ {0}
  PROVE  m % m = 0
OBVIOUS

\* A quotient and a remainder in the range are the quotient and the remainder.
LEMMA ModUnique ==
  ASSUME NEW m \in Nat \ {0}, NEW q \in Nat, NEW r \in 0 .. m - 1
  PROVE  (m * q + r) % m = r
<1> DEFINE x == m * q + r
           p == x \div m
<1>1. x \in Nat /\ m * q \in Nat
  OBVIOUS
<1>2. p \in Nat /\ x = m * p + (x % m) /\ x % m \in 0 .. m - 1
  BY <1>1
<1> HIDE DEF x, p
<1>3. ~(p >= q + 1)
  <2> SUFFICES ASSUME p >= q + 1 PROVE FALSE
    OBVIOUS
  <2>1. m * p >= m * q + m
    BY <1>2
  <2> QED
    BY <1>1, <1>2, <2>1 DEF x
<1>4. ~(q >= p + 1)
  <2> SUFFICES ASSUME q >= p + 1 PROVE FALSE
    OBVIOUS
  <2>1. m * q >= m * p + m
    BY <1>2
  <2> QED
    BY <1>1, <1>2, <2>1 DEF x
<1>5. p = q
  BY <1>2, <1>3, <1>4
<1> QED
  BY <1>1, <1>2, <1>5 DEF x

\* What a counter of m values shows does not depend on when it wraps.
LEMMA ModSucc ==
  ASSUME NEW m \in Nat \ {0}, NEW x \in Nat
  PROVE  ((x % m) + 1) % m = (x + 1) % m
<1> DEFINE q == x \div m
           r == x % m
<1>1. q \in Nat /\ r \in 0 .. m - 1 /\ x = m * q + r
  OBVIOUS
<1> HIDE DEF q, r
<1>2. CASE r + 1 < m
  <2>1. r + 1 \in 0 .. m - 1 /\ x + 1 = m * q + (r + 1)
    BY <1>1, <1>2
  <2>2. (x + 1) % m = r + 1
    BY <1>1, <2>1, ModUnique
  <2>3. (r + 1) % m = r + 1
    BY <2>1, ModSmall
  <2> QED
    BY <2>2, <2>3 DEF r
<1>3. CASE r + 1 = m
  <2>1. 0 \in 0 .. m - 1 /\ q + 1 \in Nat /\ x + 1 = m * (q + 1) + 0
    BY <1>1, <1>3
  <2>2. (x + 1) % m = 0
    BY <2>1, ModUnique
  <2>3. (r + 1) % m = 0
    BY <1>3, ModSelf
  <2> QED
    BY <2>2, <2>3 DEF r
<1> QED
  BY <1>1, <1>2, <1>3

LEMMA WrapType == ASSUME NEW x \in Int PROVE Wrap(x) \in Elem
<1>1. 2 * HALF \in Nat \ {0} /\ HALF \in Nat
  BY FixedPointAssumption
<1>2. (x + HALF) % (2 * HALF) \in 0 .. 2 * HALF - 1
  BY <1>1, ModRange
<1> QED
  BY <1>1, <1>2 DEF Wrap, Elem

LEMMA FxSubType == ASSUME NEW a \in Int, NEW b \in Int PROVE FxSub(a, b) \in Elem
BY WrapType DEF FxSub

LEMMA FxMulType == ASSUME NEW a \in Int, NEW b \in Int PROVE FxMul(a, b) \in Elem
<1>1. (a * b) \div FRAC \in Int
  BY FixedPointAssumption
<1> QED
  BY <1>1, WrapType DEF FxMul

LEMMA QuotType ==
  ASSUME NEW x \in Int, NEW y \in Int \ {0} PROVE Quot(x, y) \in Int
<1>1. Magnitude(x) \in Nat /\ Magnitude(y) \in Nat \ {0}
  BY DEF Magnitude
<1>2. Magnitude(x) \div Magnitude(y) \in Int
  BY <1>1
<1> QED
  BY <1>2 DEF Quot

LEMMA FxDivType ==
  ASSUME NEW a \in Int, NEW b \in Int \ {0} PROVE FxDiv(a, b) \in Elem
<1>1. a * FRAC \in Int
  BY FixedPointAssumption
<1> QED
  BY <1>1, QuotType, WrapType DEF FxDiv

-----------------------------------------------------------------------------
LEMMA ElemInt == Elem \subseteq Int
BY FixedPointAssumption DEF Elem

LEMMA OneType == FRAC \in Elem /\ FRAC # 0
BY FixedPointAssumption DEF Elem

\* The cyclic successor of an index.
LEMMA UpValue ==
  ASSUME NEW i \in Idx
  PROVE  Up(i) = IF i = n - 1 THEN 0 ELSE i + 1
<1>1. CASE i = n - 1
  BY <1>1, SizeAssumption, ModSelf DEF Up, Idx
<1>2. CASE i # n - 1
  BY <1>2, SizeAssumption, ModSmall DEF Up, Idx
<1> QED
  BY <1>1, <1>2

LEMMA UpType == ASSUME NEW i \in Idx PROVE Up(i) \in Idx
BY UpValue, SizeAssumption DEF Idx

\* Every index is the cyclic successor of one.
LEMMA UpOnto == ASSUME NEW j \in Idx PROVE \E i \in Idx : Up(i) = j
<1>1. CASE j = 0
  <2>1. n - 1 \in Idx
    BY SizeAssumption DEF Idx
  <2> QED
    BY <1>1, <2>1, UpValue
<1>2. CASE j # 0
  <2>1. j - 1 \in Idx /\ j - 1 # n - 1 /\ (j - 1) + 1 = j
    BY <1>2, SizeAssumption DEF Idx
  <2> QED
    BY <2>1, UpValue
<1> QED
  BY <1>1, <1>2

LEMMA MinorType ==
  ASSUME NEW curr \in Matrix, NEW i \in Idx, NEW j \in Idx
  PROVE  Minor(curr, i, j) \in Elem
<1>1. /\ curr[<<i, j>>] \in Elem /\ curr[<<Up(i), Up(j)>>] \in Elem
      /\ curr[<<Up(i), j>>] \in Elem /\ curr[<<i, Up(j)>>] \in Elem
  BY UpType DEF Matrix, Cells
<1>2. /\ FxMul(curr[<<i, j>>], curr[<<Up(i), Up(j)>>]) \in Elem
      /\ FxMul(curr[<<Up(i), j>>], curr[<<i, Up(j)>>]) \in Elem
  BY <1>1, FxMulType, ElemInt
<1> QED
  BY <1>2, FxSubType, ElemInt DEF Minor

\* An iteration of the whole matrix gives a matrix, whatever the dividers
\* return for a zero divisor.
LEMMA CondensedType ==
  ASSUME NEW curr \in Matrix, NEW div \in Matrix,
         NEW junk \in [ZeroDivisions(div) -> Junk]
  PROVE  Condensed(curr, div, junk) \in Matrix
<1> SUFFICES ASSUME NEW c \in Cells
             PROVE  (IF div[c] = 0 THEN junk[c]
                     ELSE FxDiv(Minor(curr, c[1], c[2]), div[c])) \in Elem
  BY DEF Condensed, Matrix
<1>1. CASE div[c] = 0
  BY <1>1, JunkAssumption DEF ZeroDivisions
<1>2. CASE div[c] # 0
  <2>1. div[c] \in Int \ {0}
    BY <1>2, ElemInt DEF Matrix
  <2>2. Minor(curr, c[1], c[2]) \in Int
    BY MinorType, ElemInt DEF Cells
  <2> QED
    BY <1>2, <2>1, <2>2, FxDivType
<1> QED
  BY <1>1, <1>2
=============================================================================
