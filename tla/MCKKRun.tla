------------------------------- MODULE MCKKRun -------------------------------
(***************************************************************************)
(* Values of the constants of KKRun for TLC.  The fixed point numbers have *)
(* five bits, two of them fractional, so products and quotients truncate   *)
(* and overflow on the small matrices already.                             *)
(***************************************************************************)
EXTENDS KKRun

ASSUME FRAC < HALF

\* The state register is wide enough for every matrix that can be built.
ASSUME \A m \in 1 .. 64 : StateMax(m) > m + 1

MCStateMax == StateMax(n)

\* Inputs of zeroes and ones, with every pattern in the first line and the
\* last cell; ones elsewhere on the diagonal.  The other buffers are junk.
Corner == {0} \X Idx \cup {<<n - 1, n - 1>>}
Uniform(x) == [c \in Cells |-> x]
Inputs ==
  {[c \in Cells |-> IF c \in Corner
                    THEN IF c \in ones THEN FRAC ELSE 0
                    ELSE IF c[1] = c[2] THEN FRAC ELSE c[1] - c[2]]
     : ones \in SUBSET Corner}
MCPowerUp ==
  {[b \in 0 .. 2 |-> IF b = 1 THEN m ELSE Uniform(x)] :
     m \in Inputs, x \in {0, 1}}

\* One element outside the matrix, one zero, one other.
MCPuts == {<<n, 0, FRAC>>, <<0, 0, 0>>, <<n - 1, 0, -HALF>>}
MCJunk == {-1}
MCTwoJunk == {-1, HALF - 1}

Never == {}
Always == {"init", "iterate"}
=============================================================================
