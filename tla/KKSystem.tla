------------------------------- MODULE KKSystem -------------------------------
(***************************************************************************)
(* The program on the Nios processor, the_algorithm of                     *)
(* Nios_Accel/.../KKNios/main.c, in front of the accelerator on the bus.   *)
(* A step is one clock cycle.  IOWR_32DIRECT is a posted store: the        *)
(* processor goes on when the bus has accepted it.  IORD_32DIRECT is a     *)
(* load: the processor waits for the answer.  Between two of them it       *)
(* computes for any number of cycles.                                      *)
(*                                                                         *)
(* A float is the integer that counts it in units of 1 / (FRAC * Finer).   *)
(***************************************************************************)
EXTENDS KKAvalonSlave, KKInverse

CONSTANTS Inputs,     \* the matrices that matrix_O may be initialised with
          Exact,      \* those whose condensation needs no rounding, does not
                      \* overflow and has no zero
          Finer,      \* how much finer the floats are than the fixed points
          Mantissa    \* how many significant bits a float has

ASSUME FloatAssumption == Finer \in Nat \ {0} /\ Mantissa \in Nat \ {0}

VARIABLES pc,         \* the statement of the_algorithm to execute
          at,         \* the element that its two loops have come to
          matrix_O,   \* the input
          matrix_K    \* the scratchpad: three matrices

program == <<pc, at, matrix_O, matrix_K>>
system == <<wires, awaiting, reqFIFO, issued, rX, rState, rCounter, rDivZero,
            cliReq, readdata, served, held, pc, at, matrix_O, matrix_K>>

-----------------------------------------------------------------------------
(* The conversions. *)

\* The product with FRAC, truncated to an integer.  The sign bit that is
\* or'ed in is the sign bit already, for numbers of 32 bits.
to_bit(elem) == Quot(elem, Finer)

\* Rounding to the nearest number of so many bits, ties to even.
Ulp(x) == 2^(CHOOSE e \in 0 .. 31 : /\ Magnitude(x) < 2^(e + Mantissa)
                                    /\ e = 0 \/ Magnitude(x) >= 2^(e - 1 + Mantissa))
Nearest(x, u) ==
  LET low == x \div u
      twice == 2 * (x % u)
  IN  IF twice > u \/ (twice = u /\ low % 2 = 1) THEN (low + 1) * u ELSE low * u

\* The conversion from int to float rounds; the division by FRAC is exact.
to_float(elem) == Nearest(elem, Ulp(elem)) * Finer

ASSUME InputsAssumption ==
  Inputs \subseteq {m \in [Cells -> Int] : \A c \in Cells : to_bit(m[c]) \in Elem}

ASSUME ExactAssumption == Exact \subseteq Inputs

-----------------------------------------------------------------------------
(* The accesses to the registers. *)

Write(addr, data) == [command |-> "Write", addr |-> addr, data |-> data]
Read(addr) == [command |-> "Read", addr |-> addr, data |-> 0]

i == at \div n
j == at % n

\* Mutant: line and column change places.
kk_putelemSwapped(elem) == Write(<<0, j % 256, i % 256>>, to_bit(elem))

kk_putelem(elem) == Write(<<0, i % 256, j % 256>>, to_bit(elem))
kk_start == Write(<<1, 0, 0>>, 0)
kk_isrunning == Read(<<1, 0, 1>>)
kk_getintelem == Read(<<2, i % 256, j % 256>>)
kk_getdetelem == Read(<<3, i % 256, j % 256>>)

\* The bus carries whatever the program may ask for.
ASSUME ProgramRequestsAssumption ==
  /\ {kk_start, kk_isrunning} \subseteq Request
  /\ \A c \in Cells :
       /\ \A s \in {2, 3} : Read(<<s, c[1] % 256, c[2] % 256>>) \in Request
       /\ \A m \in Inputs :
            Write(<<0, c[1] % 256, c[2] % 256>>, to_bit(m[c])) \in Request

-----------------------------------------------------------------------------
(* The statements. *)

next == (n + 2) % 3
prev == n % 3
curr == (n + 1) % 3

last == at = n * n - 1

\* The program issues a request.
Store(r) == wires' = r /\ issued' = r
Load(r) == wires' = r /\ issued' = r /\ UNCHANGED program

TransferMatrix ==
  /\ pc = "transfer"
  /\ Store(kk_putelem(matrix_O[<<i, j>>]))
  /\ pc' = IF last THEN "start" ELSE "transfer"
  /\ at' = IF last THEN 0 ELSE at + 1
  /\ UNCHANGED <<matrix_O, matrix_K>>

\* Mutant: the start is in the loop of the transfer.
StartHardwareInLoop ==
  /\ pc \in {"transfer", "start"}
  /\ Store(kk_start)
  /\ pc' = IF pc = "start" THEN "poll" ELSE pc
  /\ UNCHANGED <<at, matrix_O, matrix_K>>

StartHardware ==
  /\ pc = "start"
  /\ Store(kk_start)
  /\ pc' = "poll"
  /\ UNCHANGED <<at, matrix_O, matrix_K>>

Poll == pc = "poll" /\ Load(kk_isrunning)
GetInt == pc = "getint" /\ Load(kk_getintelem)
GetDet == pc = "getdet" /\ Load(kk_getdetelem)

\* Mutant: the loop waits while the core is not running.
pollEndsEarly == readdata' = 1

pollEnds == readdata' = 0

\* The answer of the load comes.
Answered ==
  /\ \/ /\ pc = "poll"
        /\ pc' = IF pollEnds THEN "getint" ELSE "poll"
        /\ UNCHANGED <<at, matrix_K>>
     \/ /\ pc = "getint"
        /\ matrix_K' = [matrix_K EXCEPT ![prev][<<i, j>>] = to_float(readdata')]
        /\ pc' = "getdet"
        /\ UNCHANGED at
     \/ /\ pc = "getdet"
        /\ matrix_K' = [matrix_K EXCEPT ![curr][<<i, j>>] = to_float(readdata')]
        /\ pc' = IF last THEN "final" ELSE "getint"
        /\ at' = IF last THEN 0 ELSE at + 1
  /\ UNCHANGED matrix_O

FinalIteration ==
  /\ pc = "final"
  /\ matrix_K' = [matrix_K EXCEPT ![next] = Quotients(matrix_K[prev], matrix_K[curr])]
  /\ pc' = "done"
  /\ UNCHANGED <<at, matrix_O>>

-----------------------------------------------------------------------------
(* The processor in a cycle. *)

Silent == wires' = Nothing /\ issued' = Nothing

\* The request on the wires has to wait.
Stalled == wires # Nothing /\ waitrequest

\* Mutant: the program goes on while its load is not answered.
AnswerDueNever == FALSE

\* A load that was accepted in this cycle or before has no answer yet.
AnswerDue == awaiting'

Processor ==
  IF Stalled THEN wires' = wires /\ issued' = Nothing /\ UNCHANGED program
  ELSE IF readdata' # Nothing THEN Silent /\ Answered
  ELSE IF AnswerDue THEN Silent /\ UNCHANGED program
  ELSE \/ TransferMatrix \/ StartHardware \/ Poll \/ GetInt \/ GetDet
       \/ Silent /\ FinalIteration
       \/ Silent /\ UNCHANGED program

SystemInit ==
  /\ SlaveInit
  /\ pc = "transfer"
  /\ at = 0
  /\ matrix_O \in Inputs
  /\ matrix_K = [b \in 0 .. 2 |-> [c \in Cells |-> Nothing]]

SystemNext == SlaveCycle /\ Processor

Progress == SystemNext /\ (issued' # Nothing \/ pc' = "done")

\* The clock does not stop, and the program does not compute forever between
\* two statements.
SystemFairness == WF_system(SystemNext) /\ WF_system(Progress)

SystemSpec == SystemInit /\ [][SystemNext]_system
FairSystem == SystemSpec /\ SystemFairness

-----------------------------------------------------------------------------
(* What the program is for. *)

\* The loops stay inside the matrices.
ProgramTypeOK ==
  /\ pc \in {"transfer", "start", "poll", "getint", "getdet", "final", "done"}
  /\ at \in 0 .. n * n - 1
  /\ matrix_O \in Inputs

\* The pairs of matrices, the one before and the current one, that k
\* iterations of the algorithm may give.
Algorithm == INSTANCE Condensation WITH k <- at, curr <- matrix_O, prev <- matrix_O

Step(k, pair) ==
  LET div == Algorithm!Divisor(k = 0, pair[1])
  IN  {<<pair[2], Condensed(pair[2], div, junk)>> :
         junk \in [ZeroDivisions(div) -> Junk]}

After(m) ==
  LET after[k \in 0 .. n - 1] ==
        IF k = 0 THEN {<<m, m>>}
        ELSE UNION {Step(k - 1, pair) : pair \in after[k - 1]}
  IN  after

Outcomes(m) == After(m)[n - 1]

Bits(m) == [c \in Cells |-> to_bit(m[c])]
Floats(m) == [c \in Cells |-> to_float(m[c])]

\* What the program has read when it comes to the final iteration is the
\* condensation of its input, whatever the matrices held at power up, and
\* however the bus and the schedule of the core delay its requests.
ReadsTheCondensation ==
  pc \in {"final", "done"} =>
    \E pair \in Outcomes(Bits(matrix_O)) :
      matrix_K[prev] = Floats(pair[1]) /\ matrix_K[curr] = Floats(pair[2])

\* The error that the program prints is zero for these inputs: what it puts
\* together from the two matrices is the inverse of the input, with the
\* lines and columns where they belong.
InvertsExactly ==
  pc = "done" /\ matrix_O \in Exact =>
    NoError(multiply_matrix(matrix_K[next], matrix_O), FRAC * Finer)

\* An element reaches the core only while it is idle, although the stores
\* are posted: the discipline that KKRun assumes of the callers.
PutsReachAnIdleCore ==
  first # Nothing /\ first.command = "Write" /\ Put => ~isRunning

Loads == {"poll", "getint", "getdet"}

\* What is left to do: statements of the program, cycles of the core for a run
\* that is to come or goes on, accesses on their way to the core, the one
\* on the wires counting twice, and the load that the program waits to issue.
Statements ==
  CASE pc = "transfer" -> 3 * (n * n) - at + 3
    [] pc = "start" -> 2 * (n * n) + 3
    [] pc = "poll" -> 2 * (n * n) + 2
    [] pc = "getint" -> 2 * (n * n - at) + 1
    [] pc = "getdet" -> 2 * (n * n - at)
    [] pc = "final" -> 1
    [] pc = "done" -> 0
StartToCome ==
  \/ pc \in {"transfer", "start"}
  \/ \E p \in DOMAIN Unserved : ~IsRead(Unserved[p])
RunCycles == IF Idle /\ StartToCome THEN n + 2 ELSE CyclesToIdle
Accesses == Len(Unserved) + IF wires = Nothing THEN 0 ELSE 1
LoadToCome == pc \in Loads /\ \A p \in DOMAIN Unserved : ~IsRead(Unserved[p])
Effort == 6 * (Statements + RunCycles) + Accesses + IF LoadToCome THEN 3 ELSE 0

\* The processor computes, while the bus and the core are at rest.
Computing == /\ Silent /\ UNCHANGED program
             /\ Unserved = <<>> /\ ~isRunning

\* Every cycle counts, but those in which only the processor is busy: there
\* are at most as many others as the effort at the start, whatever the
\* schedule of the core.  In particular the program polls so often at most.
EveryCycleCounts ==
  [][Effort' < Effort \/ (Effort' = Effort /\ Computing)]_system

\* The program is a legal master of the slave port: it holds a request
\* that has to wait and issues no load before the last one is answered.
LegalMaster == SlaveSpec

\* The program ends, in every build.
ProgramEnds == <>(pc = "done")
=============================================================================
