-------------------------------- MODULE KKCell --------------------------------
(***************************************************************************)
(* Matrices and the arithmetic of one cell of a KK iteration.  The indices *)
(* are cyclic: the neighbour of the last line is the first one.            *)
(***************************************************************************)
EXTENDS FixedPoint

CONSTANTS n,      \* the size of the matrix
          Junk    \* what a divider may return when the divisor is zero

ASSUME SizeAssumption == n \in Nat /\ n > 1
ASSUME JunkAssumption == Junk \subseteq Elem /\ Junk # {}

Idx == 0 .. n - 1
Cells == Idx \X Idx
Matrix == [Cells -> Elem]

Up(i) == (i + 1) % n

\* The 2 x 2 determinant whose upper left corner is cell <<i, j>>.
Minor(curr, i, j) ==
  FxSub(FxMul(curr[<<i, j>>], curr[<<Up(i), Up(j)>>]),
        FxMul(curr[<<Up(i), j>>], curr[<<i, Up(j)>>]))

\* The cells whose division has a zero divisor: div[c] is the divisor.
ZeroDivisions(div) == {c \in Cells : div[c] = 0}

\* One iteration over the whole matrix.  Cells divided by zero take an
\* arbitrary value each, chosen by junk.
Condensed(curr, div, junk) ==
  [c \in Cells |-> IF div[c] = 0
                   THEN junk[c]
                   ELSE FxDiv(Minor(curr, c[1], c[2]), div[c])]
=============================================================================
