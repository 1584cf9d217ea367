------------------------------ MODULE MCKKSystem ------------------------------
(***************************************************************************)
(* Values of the constants of KKSystem for TLC.  Requests are all that the *)
(* program can make.                                                       *)
(***************************************************************************)
EXTENDS KKSystem

MCStateMax == StateMax(n)

\* matrix_O of main.c, which is the same for every size, one column per power.
Vandermonde == [c \in Cells |-> (c[1] + 1) ^ c[2] * FRAC * Finer]
\* One whose condensation divides by zero, and one with rests of odd bits.
Singular == [c \in Cells |-> IF c = <<1, 1>> THEN 0 ELSE FRAC * Finer]
Odd == [c \in Cells |-> (5 + c[1] - (n + 1) * c[2]) * FRAC + c[2] - c[1]]
\* One whose determinant is minus one.
Swap == [c \in Cells |-> IF c[1] + c[2] = n - 1 \/ c[1] < c[2]
                         THEN FRAC * Finer ELSE 0]
\* One whose minors overflow, and whose results take all bits of a number.
Wide == [c \in Cells |-> (HALF \div 8 + 37 * c[1] * c[1] - 29 * c[2]) * Finer + 1]
MCInputs == {Vandermonde, Singular, Odd, Swap, Wide}
MCExact == {Vandermonde}

MCPuts == {<<c[1], c[2], to_bit(m[c])>> : c \in Cells, m \in MCInputs}

MCRequest == {kkRequest \in [command : {"Read"},
                             addr : {<<1, 0, 1>>} \cup ({2, 3} \X Idx \X Idx),
                             data : {0}] : TRUE}
             \cup {Write(<<0, p[1], p[2]>>, p[3]) : p \in MCPuts}
             \cup {kk_start}

Diagonal == [c \in Cells |-> IF c[1] = c[2] THEN FRAC ELSE 0]
Uniform == [c \in Cells |-> 1]
MCPowerUp == {[b \in 0 .. 2 |-> m] : m \in {Diagonal, Uniform}}
MCJunk == {-1}
MCTwoJunk == {-1, HALF - 1}

Never == {}
Always == {"init", "iterate"}
=============================================================================
