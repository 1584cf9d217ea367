--------------------------- MODULE MCKKAvalonSlave ---------------------------
(***************************************************************************)
(* Values of the constants of KKAvalonSlave for TLC: matrices of size two, *)
(* numbers of three bits, and one request of every kind that the handlers  *)
(* tell apart.                                                             *)
(***************************************************************************)
EXTENDS KKAvalonSlave

MCStateMax == StateMax(n)

Write(a, d) == [command |-> "Write", addr |-> a, data |-> d]
Read(a) == [command |-> "Read", addr |-> a, data |-> 0]

MCRequest ==
  {Write(<<0, 0, 1>>, FRAC), Write(<<0, 1, 0>>, 0),   \* put a one, a zero
   Write(<<0, n, 0>>, FRAC),                          \* put outside
   Write(<<1, 0, 0>>, 0),                             \* start
   Write(<<1, 0, 3>>, 0),                             \* not mapped
   Read(<<1, 0, 1>>),                                 \* isRunning
   Read(<<1, 0, 2>>),                                 \* the counter
   Read(<<1, 0, 3>>),                                 \* the flag
   Read(<<2, 0, 0>>),                                 \* a minor
   Read(<<3, 0, n>>),                                 \* no determinant
   Read(<<1, 0, 0>>)}                                 \* not mapped

MCPuts == {<<0, 1, FRAC>>, <<1, 0, 0>>, <<n, 0, FRAC>>}

Diagonal == [c \in Cells |-> IF c[1] = c[2] THEN FRAC ELSE 0]
MCPowerUp == {[b \in 0 .. 2 |-> Diagonal]}
MCJunk == {-1}

Never == {}
=============================================================================
