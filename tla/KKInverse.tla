------------------------------ MODULE KKInverse ------------------------------
(***************************************************************************)
(* The end of the_algorithm, the same in the three programs (main.c): the  *)
(* inverse out of the last two matrices, and its product with the input.   *)
(* An element of the inverse is kept as a fraction, numerator and          *)
(* denominator: the rounding of the final divisions is left out.           *)
(***************************************************************************)
EXTENDS KKCell

LOCAL INSTANCE Functions

\* Mutant: the indices of the numerator are not exchanged.
QuotientsStraight(before, current) ==
  [c \in Cells |-> <<before[<<Up(c[1]), Up(c[2])>>], current[c]>>]

\* The final iteration: the quotients of the intermediate matrix, transposed
\* and shifted, and the determinants.
Quotients(before, current) ==
  [c \in Cells |-> <<before[<<Up(c[2]), Up(c[1])>>], current[c]>>]

Product(f, S) == FoldFunctionOnSet(LAMBDA x, y : x * y, 1, f, S)
Sum(f, S) == FoldFunctionOnSet(LAMBDA x, y : x + y, 0, f, S)

\* The product of a matrix of fractions and a matrix of numbers, brought to
\* the common denominator of each line.
multiply_matrix(A, B) ==
  [c \in Cells |->
     LET den == [k \in Idx |-> A[<<c[1], k>>][2]]
     IN  <<Sum([k \in Idx |-> A[<<c[1], k>>][1] * B[<<k, c[2]>>]
                                * Product(den, Idx \ {k})], Idx),
           Product(den, Idx)>>]

\* calculate_error is zero: the product is the identity, where one is a unit.
NoError(IC, unit) ==
  \A c \in Cells : IC[c][1] = IF c[1] = c[2] THEN IC[c][2] * unit ELSE 0
=============================================================================
