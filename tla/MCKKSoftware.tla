----------------------------- MODULE MCKKSoftware -----------------------------
(***************************************************************************)
(* Values of the constants of KKSoftware for TLC, and what only TLC        *)
(* checks: the results against the reference definition of determinants.   *)
(***************************************************************************)
EXTENDS KKSoftware

Reference == INSTANCE Determinants

\* matrix_O of main.c, one column per power.
Vandermonde == [c \in Cells |-> (c[1] + 1) ^ c[2]]
Regular(m) == Reference!StronglyNonSingular(m, n)

Diagonal == [c \in Cells |-> IF c[1] = c[2] THEN 3 ELSE 1 + ((c[1] * c[2]) % 2)]
Triangle == [c \in Cells |-> IF c[1] <= c[2] THEN 1 ELSE -1]
\* Every matrix with at most one other element than A.
Variants(A) == {[A EXCEPT ![c] = x] : c \in Cells, x \in {-2, -1, 0, 1, 2, 4, 5}}
\* Those whose determinants are small: TLC has 32 bits.
Small(m) == \A c \in Cells : Reference!ContiguousMinors(m, n, n)[c] \in -60 .. 60
\* Inputs without a zero minor, and others where zero divisors come early or late.
MCInputs == {Vandermonde} \cup {m \in Variants(Diagonal) : Regular(m) /\ Small(m)}
            \cup {[Triangle EXCEPT ![c] = 0] : c \in Cells}
MCGarbage == {[b \in 0 .. 2 |-> [c \in Cells |-> 7]]}
MCJunk == {-3}

-----------------------------------------------------------------------------
\* After each iteration the current matrix has the minors one larger than
\* those of the matrix before: the lemma the algorithm rests on, which the
\* order of the factors and the cyclic borders must respect.
HasTheMinors ==
  pc # "transfer" /\ at = 0 /\ Regular(matrix_O) =>
    /\ matrix_K[curr] = Reference!ContiguousMinors(matrix_O, n, k + 1)
    /\ k > 0 => matrix_K[prev] = Reference!ContiguousMinors(matrix_O, n, k)

\* The last quotients are the inverse of every strongly non-singular matrix.
Inverts == pc = "done" /\ Regular(matrix_O) => NoError(matrix_IC, 1)
=============================================================================
