------------------------------ MODULE KKSoftware ------------------------------
(***************************************************************************)
(* the_algorithm of the programs that have no accelerator: PC/main.c and   *)
(* Nios/software/KKNios/main.c, which differ in the size of the matrix and *)
(* in how they measure.  Printing and measuring are left out.              *)
(*                                                                         *)
(* Where no division leaves a rest, a double below 2^53 computes what a    *)
(* number of FixedPoint with FRAC = 1 and a large HALF does.               *)
(***************************************************************************)
EXTENDS KKInverse

CONSTANTS Inputs,    \* the matrices that matrix_O may be initialised with
          Garbage    \* what the scratchpad may hold when the program starts

ASSUME ProgramInputsAssumption ==
  Inputs \subseteq Matrix /\ Garbage \subseteq [0 .. 2 -> Matrix]

VARIABLES pc,                  \* the loop to execute
          k, at,               \* the iteration and the element it has come to
          next, prev, curr,    \* the parts of the scratchpad
          matrix_O,            \* the input
          matrix_K,            \* the scratchpad: three matrices
          matrix_IC            \* the check product, nothing before it is computed

vars == <<pc, k, at, next, prev, curr, matrix_O, matrix_K, matrix_IC>>

i == at \div n
j == at % n

Init ==
  /\ pc = "transfer"
  /\ k = 0
  /\ at = 0
  /\ next = 0 /\ prev = 1 /\ curr = 2
  /\ matrix_O \in Inputs
  /\ matrix_K \in Garbage
  /\ matrix_IC = <<>>

TransferMatrix ==
  /\ pc = "transfer"
  /\ matrix_K' = [matrix_K EXCEPT ![curr] = matrix_O]
  /\ pc' = "iterate"
  /\ UNCHANGED <<k, at, next, prev, curr, matrix_O, matrix_IC>>

\* Mutant: the first iteration divides like the others.
divisorAlwaysPrev == matrix_K[prev][<<Up(i), Up(j)>>]

divisor == IF k = 0 THEN FRAC ELSE matrix_K[prev][<<Up(i), Up(j)>>]

\* The body of the three loops.
Cell ==
  \E junk \in Junk :
    matrix_K' = [matrix_K EXCEPT ![next][<<i, j>>] =
                   IF divisor = 0 THEN junk
                   ELSE FxDiv(Minor(matrix_K[curr], i, j), divisor)]

\* Mutant: the index of the matrix before is not refreshed.
RefreshIndexesForgetsPrev ==
  next' = (next + 1) % 3 /\ prev' = prev /\ curr' = (curr + 1) % 3

RefreshIndexes ==
  next' = (next + 1) % 3 /\ prev' = (prev + 1) % 3 /\ curr' = (curr + 1) % 3

IterateCell ==
  /\ pc = "iterate"
  /\ Cell
  /\ IF at < n * n - 1
     THEN at' = at + 1 /\ UNCHANGED <<pc, k, next, prev, curr>>
     ELSE /\ at' = 0
          /\ k' = k + 1
          /\ RefreshIndexes
          /\ pc' = IF k + 1 < n - 1 THEN "iterate" ELSE "final"
  /\ UNCHANGED <<matrix_O, matrix_IC>>

FinalIteration ==
  /\ pc = "final"
  /\ matrix_K' = [matrix_K EXCEPT ![next] = Quotients(matrix_K[prev], matrix_K[curr])]
  /\ pc' = "identity"
  /\ UNCHANGED <<k, at, next, prev, curr, matrix_O, matrix_IC>>

CalculateIdentity ==
  /\ pc = "identity"
  /\ matrix_IC' = multiply_matrix(matrix_K[next], matrix_O)
  /\ pc' = "done"
  /\ UNCHANGED <<k, at, next, prev, curr, matrix_O, matrix_K>>

Next == TransferMatrix \/ IterateCell \/ FinalIteration \/ CalculateIdentity

Spec == Init /\ [][Next]_vars

-----------------------------------------------------------------------------
TypeOK ==
  /\ pc \in {"transfer", "iterate", "final", "identity", "done"}
  /\ k \in 0 .. n - 1
  /\ at \in 0 .. n * n - 1
  /\ {next, prev, curr} = 0 .. 2
  /\ matrix_O \in Inputs
  /\ pc \in {"transfer", "iterate"} => matrix_K \in [0 .. 2 -> Matrix]

Abstract ==
  INSTANCE Condensation WITH k <- k, curr <- matrix_K[curr], prev <- matrix_K[prev]

\* The loops, which overwrite the oldest of three matrices cell by cell, do
\* what the accelerator is shown to do too: one condensation per iteration.
IsCondensation == Abstract!Spec
=============================================================================
