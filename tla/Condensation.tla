----------------------------- MODULE Condensation -----------------------------
(***************************************************************************)
(* What the KK algorithm computes, free of buffers, indices and clocks: a  *)
(* pair of matrices, the current one and the one before it, condensed      *)
(* n - 1 times.  At the end curr is the determinant matrix and prev the    *)
(* intermediate matrix, which give the inverse.  A new input can be loaded *)
(* at any time.                                                            *)
(***************************************************************************)
EXTENDS KKCell

VARIABLES k,      \* how many iterations have been done
          curr,   \* the matrix after k of them
          prev    \* the matrix after k - 1 of them (anything when k = 0)

vars == <<k, curr, prev>>

\* The divisor of cell <<i, j>>: the centre of the minor, one iteration ago.
Divisor(first, before) ==
  [c \in Cells |-> IF first THEN FRAC ELSE before[<<Up(c[1]), Up(c[2])>>]]

Init == /\ k = 0
        /\ curr \in Matrix
        /\ prev \in Matrix

Load == /\ k' = 0
        /\ curr' \in Matrix
        /\ prev' \in Matrix

Condense ==
  /\ k < n - 1
  /\ k' = k + 1
  /\ prev' = curr
  /\ LET div == Divisor(k = 0, prev)
     IN  \E junk \in [ZeroDivisions(div) -> Junk] :
           curr' = Condensed(curr, div, junk)

Next == Load \/ Condense

Spec == Init /\ [][Next]_vars
=============================================================================
