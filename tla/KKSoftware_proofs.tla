-------------------------- MODULE KKSoftware_proofs --------------------------
(***************************************************************************)
(* The software inversion implements Condensation, for every size, every   *)
(* input and everything the scratchpad may hold before.                    *)
(***************************************************************************)
EXTENDS KKSoftware, KKCell_proofs

\* What cell c is divided by in this iteration, and what it may become.
DivisorOf(c) == IF k = 0 THEN FRAC ELSE matrix_K[prev][<<Up(c[1]), Up(c[2])>>]
Right(c, x) == IF DivisorOf(c) = 0 THEN x \in Junk
               ELSE x = FxDiv(Minor(matrix_K[curr], c[1], c[2]), DivisorOf(c))

Number(c) == c[1] * n + c[2]

\* The three parts are distinct and follow the iteration.
Rotated == next = k % 3 /\ prev = (k + 1) % 3 /\ curr = (k + 2) % 3

\* The matrices that are read are whole, whatever the third one holds.
Whole ==
  /\ matrix_K = [b \in 0 .. 2 |-> matrix_K[b]]
  /\ matrix_K[curr] \in Matrix
  /\ matrix_K[prev] \in Matrix
  /\ pc \in {"transfer", "iterate"} => matrix_K[next] \in Matrix

\* The cells that the loops have passed have their new values.
PassedCells ==
  pc = "iterate" => \A c \in Cells : Number(c) < at => Right(c, matrix_K[next][c])

SoftwareInv ==
  /\ pc \in {"transfer", "iterate", "final", "identity", "done"}
  /\ k \in 0 .. n - 1
  /\ at \in 0 .. n * n - 1
  /\ matrix_O \in Inputs
  /\ pc = "transfer" => k = 0 /\ at = 0
  /\ pc = "iterate" => k < n - 1
  /\ Rotated
  /\ Whole
  /\ PassedCells

-----------------------------------------------------------------------------
(* The cell that the loops have come to. *)

LEMMA Grid == n \in Nat /\ n > 1 /\ n * n \in Nat /\ n * n > n /\ Cells = (0 .. n - 1) \X (0 .. n - 1)
<1>1. n \in Nat /\ n > 1
  BY SizeAssumption
<1>2. n * n \in Nat /\ n * n > n
  BY <1>1
<1> QED
  BY <1>1, <1>2 DEF Cells, Idx

LEMMA NumberRange == ASSUME NEW c \in Cells PROVE Number(c) \in 0 .. n * n - 1
<1>1. PICK a \in 0 .. n - 1, b \in 0 .. n - 1 : c = <<a, b>>
  BY Grid
<1>2. c[1] = a /\ c[2] = b
  BY <1>1
<1>3. a * n \in Nat /\ a * n <= (n - 1) * n /\ (n - 1) * n = n * n - n
  BY Grid
<1> QED
  BY <1>2, <1>3, Grid DEF Number

LEMMA HereIsCell ==
  ASSUME at \in 0 .. n * n - 1
  PROVE  <<i, j>> \in Cells /\ Number(<<i, j>>) = at
<1>1. j \in 0 .. n - 1
  BY Grid, ModRange DEF j
<1>2. i \in Int /\ at = n * i + j
  BY Grid DEF i, j
<1>3. i >= 0
  BY <1>1, <1>2, Grid
<1>4. i <= n - 1
  <2>1. SUFFICES ASSUME i >= n PROVE FALSE
    BY <1>2, Grid
  <2>2. n * i >= n * n
    BY <1>2, <2>1, Grid
  <2> QED
    BY <1>1, <1>2, <2>2, Grid
<1>5. n * i = i * n
  BY <1>2, Grid
<1> QED
  BY <1>1, <1>2, <1>3, <1>4, <1>5, Grid DEF Number

\* Two cells have different numbers.
LEMMA NumberInjective ==
  ASSUME NEW c \in Cells, NEW d \in Cells, Number(c) = Number(d)
  PROVE  c = d
<1>1. PICK a \in 0 .. n - 1, b \in 0 .. n - 1 : c = <<a, b>>
  BY Grid
<1>2. PICK e \in 0 .. n - 1, f \in 0 .. n - 1 : d = <<e, f>>
  BY Grid
<1>3. (n * a + b) % n = b /\ (n * e + f) % n = f
  BY ModUnique, Grid
<1>4. n * a + b = n * e + f
  BY <1>1, <1>2, Grid DEF Number
<1>5. b = f
  BY <1>3, <1>4
<1>6. n * a = n * e
  BY <1>4, <1>5, Grid
<1>7. a = e
  <2>1. ASSUME NEW x \in 0 .. n - 1, NEW y \in 0 .. n - 1, x < y PROVE n * x < n * y
    BY <2>1, Grid
  <2> QED
    BY <1>6, <2>1, Grid
<1> QED
  BY <1>1, <1>2, <1>5, <1>7

LEMMA PartsDiffer ==
  ASSUME k \in Nat, Rotated
  PROVE  /\ next \in 0 .. 2 /\ prev \in 0 .. 2 /\ curr \in 0 .. 2
         /\ next # prev /\ next # curr /\ prev # curr
BY DEF Rotated

LEMMA RotatedOn ==
  ASSUME k \in Nat, Rotated
  PROVE  /\ (next + 1) % 3 = (k + 1) % 3 /\ (prev + 1) % 3 = ((k + 1) + 1) % 3
         /\ (curr + 1) % 3 = ((k + 1) + 2) % 3
         /\ (next + 1) % 3 = prev /\ (prev + 1) % 3 = curr /\ (curr + 1) % 3 = next
BY DEF Rotated

-----------------------------------------------------------------------------
(* The invariant. *)

LEMMA DivisorType ==
  ASSUME SoftwareInv, NEW c \in Cells
  PROVE  DivisorOf(c) \in Elem
<1>1. <<Up(c[1]), Up(c[2])>> \in Cells
  BY UpType DEF Cells
<1>2. matrix_K[prev] \in [Cells -> Elem]
  BY DEF SoftwareInv, Whole, Matrix
<1> QED
  BY <1>1, <1>2, OneType DEF DivisorOf

LEMMA RightType ==
  ASSUME SoftwareInv, NEW c \in Cells, NEW x, Right(c, x)
  PROVE  x \in Elem
<1>1. CASE DivisorOf(c) = 0
  BY <1>1, JunkAssumption DEF Right
<1>2. CASE DivisorOf(c) # 0
  <2>1. c[1] \in Idx /\ c[2] \in Idx
    BY DEF Cells
  <2>2. Minor(matrix_K[curr], c[1], c[2]) \in Elem
    BY <2>1, MinorType DEF SoftwareInv, Whole
  <2> QED
    BY <1>2, <2>2, DivisorType, FxDivType, ElemInt DEF Right
<1> QED
  BY <1>1, <1>2

\* The body of the loops gives the cell they have come to a right value and
\* changes no other cell and no other part.
LEMMA CellEffect ==
  ASSUME SoftwareInv, pc = "iterate", Cell
  PROVE  /\ matrix_K' = [b \in 0 .. 2 |-> matrix_K'[b]]
         /\ matrix_K'[curr] = matrix_K[curr] /\ matrix_K'[prev] = matrix_K[prev]
         /\ matrix_K'[next] \in Matrix
         /\ \A c \in Cells : Number(c) <= at => Right(c, matrix_K'[next][c])
<1>1. <<i, j>> \in Cells /\ Number(<<i, j>>) = at
  BY HereIsCell DEF SoftwareInv
<1>2. /\ next \in 0 .. 2 /\ prev \in 0 .. 2 /\ curr \in 0 .. 2
      /\ next # prev /\ next # curr
  BY PartsDiffer DEF SoftwareInv
<1>3. PICK junk \in Junk :
        matrix_K' = [matrix_K EXCEPT ![next][<<i, j>>] =
                       IF divisor = 0 THEN junk
                       ELSE FxDiv(Minor(matrix_K[curr], i, j), divisor)]
  BY DEF Cell
<1> DEFINE x == IF divisor = 0 THEN junk ELSE FxDiv(Minor(matrix_K[curr], i, j), divisor)
<1>4. divisor = DivisorOf(<<i, j>>)
  BY DEF divisor, DivisorOf
<1>5. Right(<<i, j>>, x)
  BY <1>4 DEF Right
<1>6. x \in Elem
  BY <1>1, <1>5, RightType
<1>7. matrix_K[next] \in [Cells -> Elem]
  BY DEF SoftwareInv, Whole, Matrix
<1>8. matrix_K' = [matrix_K EXCEPT ![next] = [matrix_K[next] EXCEPT ![<<i, j>>] = x]]
  BY <1>3
<1> HIDE DEF x
<1>9. /\ matrix_K' = [b \in 0 .. 2 |-> matrix_K'[b]]
      /\ matrix_K'[next] = [matrix_K[next] EXCEPT ![<<i, j>>] = x]
      /\ matrix_K'[curr] = matrix_K[curr] /\ matrix_K'[prev] = matrix_K[prev]
  BY <1>2, <1>8 DEF SoftwareInv, Whole
<1>10. matrix_K'[next] \in Matrix
  BY <1>6, <1>7, <1>9 DEF Matrix
<1>11. ASSUME NEW c \in Cells, Number(c) <= at PROVE Right(c, matrix_K'[next][c])
  <2>1. CASE c = <<i, j>>
    BY <1>1, <1>5, <1>7, <1>9, <2>1
  <2>2. CASE c # <<i, j>>
    <3>1. Number(c) < at
      <4>1. Number(c) # at
        BY <1>1, <2>2, NumberInjective
      <4>2. Number(c) \in Int /\ at \in Int
        BY NumberRange, Grid DEF SoftwareInv
      <4> QED
        BY <1>11, <4>1, <4>2
    <3>2. matrix_K'[next][c] = matrix_K[next][c]
      BY <1>7, <1>9, <2>2
    <3> QED
      BY <3>1, <3>2 DEF SoftwareInv, PassedCells
  <2> QED
    BY <2>1, <2>2
<1> QED
  BY <1>9, <1>10, <1>11

LEMMA InvInit == Init => SoftwareInv
<1> SUFFICES ASSUME Init PROVE SoftwareInv
  OBVIOUS
<1>1. matrix_K \in [0 .. 2 -> Matrix]
  BY ProgramInputsAssumption DEF Init
<1>2. 0 \in 0 .. n * n - 1 /\ 0 \in 0 .. n - 1
  BY Grid
<1> QED
  BY <1>1, <1>2 DEF Init, SoftwareInv, Rotated, Whole, PassedCells

LEMMA InvNext == SoftwareInv /\ [Next]_vars => SoftwareInv'
<1> SUFFICES ASSUME SoftwareInv, [Next]_vars PROVE SoftwareInv'
  OBVIOUS
<1>0. /\ next \in 0 .. 2 /\ prev \in 0 .. 2 /\ curr \in 0 .. 2
      /\ next # prev /\ next # curr /\ prev # curr
  BY PartsDiffer DEF SoftwareInv
<1>1. CASE TransferMatrix
  <2>1. matrix_O \in Matrix
    BY ProgramInputsAssumption DEF SoftwareInv
  <2>2. Whole'
    BY <1>0, <1>1, <2>1 DEF TransferMatrix, SoftwareInv, Whole
  <2>3. PassedCells'
    <3>1. \A c \in Cells : Number(c) >= 0 /\ Number(c) \in Int
      BY NumberRange, Grid
    <3>2. at' = 0
      BY <1>1 DEF TransferMatrix, SoftwareInv
    <3> QED
      BY <3>1, <3>2 DEF PassedCells, Number
  <2> QED
    BY <1>1, <2>2, <2>3, SizeAssumption DEF TransferMatrix, SoftwareInv, Rotated
<1>2. CASE IterateCell
  <2>1. /\ matrix_K' = [b \in 0 .. 2 |-> matrix_K'[b]]
        /\ matrix_K'[curr] = matrix_K[curr] /\ matrix_K'[prev] = matrix_K[prev]
        /\ matrix_K'[next] \in Matrix
        /\ \A c \in Cells : Number(c) <= at => Right(c, matrix_K'[next][c])
    BY <1>2, CellEffect DEF IterateCell
  <2>2. \A c \in Cells : Number(c) \in 0 .. n * n - 1
    BY NumberRange
  <2>3. CASE at < n * n - 1
    <3>1. at' = at + 1 /\ UNCHANGED <<pc, k, next, prev, curr, matrix_O>>
      BY <1>2, <2>3 DEF IterateCell
    <3>2. Whole'
      BY <2>1, <3>1 DEF SoftwareInv, Whole
    <3>3. PassedCells'
      <4>1. \A c \in Cells : Number(c) < at + 1 => Right(c, matrix_K'[next][c])
        BY <2>1, <2>2, Grid DEF SoftwareInv
      <4>2. \A c \in Cells : DivisorOf(c)' = DivisorOf(c)
        BY <2>1, <3>1 DEF DivisorOf
      <4>3. \A c \in Cells : Right(c, matrix_K'[next][c]) => Right(c, matrix_K[next][c])'
        BY <2>1, <3>1, <4>2 DEF Right
      <4> QED
        BY <3>1, <4>1, <4>3 DEF PassedCells, Number
    <3>4. at' \in 0 .. n * n - 1
      BY <2>3, <3>1, Grid DEF SoftwareInv
    <3> QED
      BY <1>2, <3>1, <3>2, <3>3, <3>4 DEF SoftwareInv, Rotated, IterateCell
  <2>4. CASE ~(at < n * n - 1)
    <3>1. /\ at' = 0 /\ k' = k + 1 /\ RefreshIndexes /\ matrix_O' = matrix_O
          /\ pc' = IF k + 1 < n - 1 THEN "iterate" ELSE "final"
      BY <1>2, <2>4 DEF IterateCell
    <3>2. next' = prev /\ prev' = curr /\ curr' = next /\ Rotated'
      BY <3>1, RotatedOn DEF SoftwareInv, RefreshIndexes, Rotated
    <3>3. Whole'
      BY <2>1, <3>2 DEF SoftwareInv, Whole
    <3>4. PassedCells'
      BY <2>2, <3>1, Grid DEF PassedCells, Number
    <3>5. k' \in 0 .. n - 1 /\ (pc' = "iterate" => k' < n - 1)
      BY <1>2, <3>1, SizeAssumption DEF SoftwareInv, IterateCell
    <3> QED
      BY <3>1, <3>2, <3>3, <3>4, <3>5, Grid DEF SoftwareInv
  <2> QED
    BY <2>3, <2>4
<1>3. CASE FinalIteration
  <2>1. Whole'
    BY <1>0, <1>3 DEF FinalIteration, SoftwareInv, Whole
  <2> QED
    BY <1>3, <2>1 DEF FinalIteration, SoftwareInv, Rotated, PassedCells
<1>4. CASE CalculateIdentity
  BY <1>4 DEF CalculateIdentity, SoftwareInv, Rotated, Whole, PassedCells
<1>5. CASE UNCHANGED vars
  BY <1>5 DEF vars, SoftwareInv, Rotated, Whole, PassedCells, Right, DivisorOf
<1> QED
  BY <1>1, <1>2, <1>3, <1>4, <1>5 DEF Next

LEMMA SoftwareInvariant == Spec => []SoftwareInv
BY InvInit, InvNext, PTL DEF Spec

-----------------------------------------------------------------------------
(* The refinement. *)

LEMMA SameMatrix == Abstract!Matrix = Matrix
BY DEF Abstract!Matrix, Matrix, Abstract!Cells, Cells, Abstract!Idx, Idx,
       Abstract!Elem, Elem

LEMMA SameArithmetic ==
  /\ Abstract!Cells = Cells /\ \A x : Abstract!Up(x) = Up(x)
  /\ \A m, x, y : Abstract!Minor(m, x, y) = Minor(m, x, y)
  /\ \A x, y : Abstract!FxDiv(x, y) = FxDiv(x, y)
  /\ \A d : Abstract!ZeroDivisions(d) = ZeroDivisions(d)
<1>1. Abstract!Cells = Cells /\ \A x : Abstract!Up(x) = Up(x)
  BY DEF Abstract!Cells, Cells, Abstract!Idx, Idx, Abstract!Up, Up
<1>2. \A x, y : /\ Abstract!FxMul(x, y) = FxMul(x, y)
                /\ Abstract!FxSub(x, y) = FxSub(x, y)
                /\ Abstract!FxDiv(x, y) = FxDiv(x, y)
  BY DEF Abstract!FxMul, FxMul, Abstract!FxSub, FxSub, Abstract!FxDiv, FxDiv,
         Abstract!Wrap, Wrap, Abstract!Quot, Quot, Abstract!Magnitude, Magnitude
<1> QED
  BY <1>1, <1>2 DEF Abstract!Minor, Minor, Abstract!ZeroDivisions, ZeroDivisions

LEMMA InitRefines == Init => Abstract!Init
<1> SUFFICES ASSUME Init PROVE Abstract!Init
  OBVIOUS
<1>1. matrix_K \in [0 .. 2 -> Matrix]
  BY ProgramInputsAssumption DEF Init
<1> QED
  BY <1>1, SameMatrix DEF Init, Abstract!Init

\* The last cell of the loops completes a condensation.
LEMMA LastCellRefines ==
  ASSUME SoftwareInv, SoftwareInv', IterateCell, ~(at < n * n - 1)
  PROVE  Abstract!Condense
<1>1. /\ matrix_K'[curr] = matrix_K[curr] /\ matrix_K'[next] \in Matrix
      /\ \A c \in Cells : Number(c) <= at => Right(c, matrix_K'[next][c])
  BY CellEffect DEF IterateCell
<1>2. \A c \in Cells : Right(c, matrix_K'[next][c])
  <2>1. at = n * n - 1
    BY Grid DEF SoftwareInv
  <2> QED
    BY <1>1, <2>1, NumberRange, Grid
<1> DEFINE div == Abstract!Divisor(k = 0, matrix_K[prev])
           new == matrix_K'[next]
           junk == [c \in ZeroDivisions(div) |-> new[c]]
<1>3. div = [c \in Cells |-> DivisorOf(c)]
  BY SameArithmetic DEF Abstract!Divisor, DivisorOf
<1> HIDE DEF div
<1>4. junk \in [ZeroDivisions(div) -> Junk]
  BY <1>2, <1>3 DEF ZeroDivisions, Right
<1>5. new = Abstract!Condensed(matrix_K[curr], div, junk)
  <2>1. new = [c \in Cells |-> new[c]]
    BY <1>1 DEF Matrix
  <2>2. ASSUME NEW c \in Cells
        PROVE  new[c] = IF div[c] = 0 THEN junk[c]
                        ELSE FxDiv(Minor(matrix_K[curr], c[1], c[2]), div[c])
    BY <1>2, <1>3, <2>2 DEF Right, ZeroDivisions
  <2> HIDE DEF new, junk
  <2> QED
    BY <2>1, <2>2, SameArithmetic DEF Abstract!Condensed
<1>6. k < n - 1 /\ k' = k + 1 /\ matrix_K'[prev'] = matrix_K[curr] /\ matrix_K'[curr'] = new
  BY <1>1, RotatedOn DEF SoftwareInv, IterateCell, RefreshIndexes
<1> QED
  BY <1>4, <1>5, <1>6, SameArithmetic DEF Abstract!Condense, div

LEMMA StepRefines ==
  ASSUME SoftwareInv, SoftwareInv', [Next]_vars
  PROVE  [Abstract!Next]_<<k, matrix_K[curr], matrix_K[prev]>>
<1>0. next \in 0 .. 2 /\ next # prev /\ next # curr
  BY PartsDiffer DEF SoftwareInv
<1>1. CASE TransferMatrix
  <2>1. k' = 0
    BY <1>1 DEF TransferMatrix, SoftwareInv
  <2> QED
    BY <2>1, SameMatrix DEF SoftwareInv, Whole, Abstract!Next, Abstract!Load
<1>2. CASE IterateCell
  <2>1. CASE at < n * n - 1
    <3>1. matrix_K'[curr] = matrix_K[curr] /\ matrix_K'[prev] = matrix_K[prev]
      BY <1>2, CellEffect DEF IterateCell
    <3> QED
      BY <1>2, <2>1, <3>1 DEF IterateCell
  <2>2. CASE ~(at < n * n - 1)
    BY <1>2, <2>2, LastCellRefines DEF Abstract!Next
  <2> QED
    BY <2>1, <2>2
<1>3. CASE FinalIteration
  BY <1>0, <1>3 DEF FinalIteration, SoftwareInv, Whole
<1>4. CASE CalculateIdentity
  BY <1>4 DEF CalculateIdentity
<1>5. CASE UNCHANGED vars
  BY <1>5 DEF vars
<1> QED
  BY <1>1, <1>2, <1>3, <1>4, <1>5 DEF Next

\* IsCondensation: the software inversion computes, with three matrices that
\* it overwrites in turn and cell by cell, n - 1 condensations of its input,
\* whatever the scratchpad held, whatever a division by zero gives, and
\* whatever the width of the numbers.
THEOREM Implements == Spec => IsCondensation
<1>1. SoftwareInv /\ SoftwareInv' /\ [Next]_vars
        => [Abstract!Next]_<<k, matrix_K[curr], matrix_K[prev]>>
  BY StepRefines
<1>2. [Abstract!Next]_<<k, matrix_K[curr], matrix_K[prev]>>
        => [Abstract!Next]_(Abstract!vars)
  BY DEF Abstract!vars
<1> QED
  BY <1>1, <1>2, InitRefines, SoftwareInvariant, PTL
  DEF Spec, IsCondensation, Abstract!Spec

\* TypeOK: the indices stay a permutation of the three parts and the loops
\* inside the matrices, for every size.
THEOREM TypeCorrect == Spec => []TypeOK
<1>1. SoftwareInv => TypeOK
  <2> SUFFICES ASSUME SoftwareInv PROVE TypeOK
    OBVIOUS
  <2>1. {next, prev, curr} = 0 .. 2
    BY DEF SoftwareInv, Rotated
  <2>2. pc \in {"transfer", "iterate"} => matrix_K \in [0 .. 2 -> Matrix]
    BY <2>1 DEF SoftwareInv, Whole
  <2> QED
    BY <2>1, <2>2 DEF SoftwareInv, TypeOK
<1> QED
  BY <1>1, SoftwareInvariant, PTL
=============================================================================
