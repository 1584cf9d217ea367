----------------------------- MODULE Determinants -----------------------------
(***************************************************************************)
(* The reference: determinants by expansion along the last line, and the   *)
(* contiguous minors of a matrix whose lines and columns are cyclic.       *)
(***************************************************************************)
EXTENDS Integers, FiniteSets

LOCAL INSTANCE FiniteSetsExt

\* The determinant of the first lines of A, as many as there are columns in
\* cols, with these columns.
Det(A, cols) ==
  LET det[S \in SUBSET cols] ==
        LET line == Cardinality(S) - 1
            Sign(c) == IF Cardinality({d \in S : d > c}) % 2 = 0 THEN 1 ELSE -1
        IN  IF S = {} THEN 1
            ELSE MapThenSumSet(LAMBDA c : Sign(c) * A[<<line, c>>] * det[S \ {c}], S)
  IN  det[cols]

\* The matrix of the minors of size m of an n x n matrix A: m successive lines and
\* columns, the first ones after the last ones.
ContiguousMinors(A, n, m) ==
  [c \in (0 .. n - 1) \X (0 .. n - 1) |->
     Det([d \in (0 .. m - 1) \X (0 .. m - 1) |->
            A[<<(c[1] + d[1]) % n, (c[2] + d[2]) % n>>]], 0 .. m - 1)]

\* No contiguous minor is zero.
StronglyNonSingular(A, n) ==
  \A m \in 1 .. n : \A c \in (0 .. n - 1) \X (0 .. n - 1) :
    ContiguousMinors(A, n, m)[c] # 0
=============================================================================
