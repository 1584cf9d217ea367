-------------------------------- MODULE FIFO2 --------------------------------
(***************************************************************************)
(* The two-deep FIFO of Nios_Accel/Verilog/src/FIFO2.v, register by        *)
(* register: it is the request queue (mkFIFOF) of the Avalon slave.        *)
(* A step is one rising clock edge.  full_reg and empty_reg are active     *)
(* low, as in the source: full_reg holds when there is room, empty_reg     *)
(* holds when there is a word.  A word is the set of its bits that are     *)
(* one, so the AND-OR selector in front of data0_reg is a union of gated   *)
(* sets, and two sources selected at once would merge two words.           *)
(***************************************************************************)
EXTENDS Naturals, Sequences

CONSTANTS Bit,      \* the bit positions of a word
          guarded   \* the parameter of the Verilog module

ASSUME GuardedAssumption == guarded \in BOOLEAN

VARIABLES full_reg, empty_reg, data0_reg, data1_reg,   \* the registers
          ENQ, DEQ, D_IN,                              \* the inputs
          CLR                                          \* CLR or RST

registers == <<full_reg, empty_reg, data0_reg, data1_reg>>
vars == <<full_reg, empty_reg, data0_reg, data1_reg, ENQ, DEQ, D_IN, CLR>>

Word == SUBSET Bit

FULL_N == full_reg
EMPTY_N == empty_reg
D_OUT == data0_reg

-----------------------------------------------------------------------------
(* Which source data0_reg takes at the edge: the input, data1_reg, itself. *)

\* Mutant: no bypass into data0_reg when the only word leaves.
d0diNoBypass == ENQ /\ ~empty_reg

d0di == (ENQ /\ ~empty_reg) \/ (ENQ /\ DEQ /\ full_reg)
d0d1 == DEQ /\ ~full_reg
d0h == (~DEQ /\ ~ENQ) \/ (~DEQ /\ empty_reg) \/ (~ENQ /\ full_reg)
d1di == ENQ /\ empty_reg

Gate(sel, w) == IF sel THEN w ELSE {}

\* The data registers have no reset: they are clocked at every edge.
DataEdge ==
  /\ data0_reg' = Gate(d0di, D_IN) \cup Gate(d0d1, data1_reg)
                                   \cup Gate(d0h, data0_reg)
  /\ data1_reg' = IF d1di THEN D_IN ELSE data1_reg

-----------------------------------------------------------------------------
(* What the flags do at the edge. *)

Clear ==
  /\ CLR
  /\ empty_reg' = FALSE
  /\ full_reg' = TRUE

Enqueue ==
  /\ ~CLR /\ ENQ /\ ~DEQ
  /\ empty_reg' = TRUE
  /\ full_reg' = ~empty_reg

\* Mutant: the words after a dequeue are not counted.
DequeueAlways ==
  /\ ~CLR /\ DEQ /\ ~ENQ
  /\ full_reg' = full_reg
  /\ empty_reg' = FALSE

Dequeue ==
  /\ ~CLR /\ DEQ /\ ~ENQ
  /\ full_reg' = TRUE
  /\ empty_reg' = ~full_reg

\* Neither input, or both: the number of words stays.
Keep ==
  /\ ~CLR /\ (ENQ <=> DEQ)
  /\ UNCHANGED <<full_reg, empty_reg>>

Edge == DataEdge /\ (Clear \/ Enqueue \/ Dequeue \/ Keep)

-----------------------------------------------------------------------------
\* The inputs for which error_checks displays no warning.  The rules that
\* drive them see the flags of the same cycle.  In a cycle that clears, any
\* inputs are let in (the source warns of them when CLR clears, not RST).
NoWarning ==
  ~CLR => /\ DEQ => empty_reg
          /\ ENQ => full_reg \/ (DEQ /\ ~guarded)

Inputs == /\ CLR \in BOOLEAN /\ ENQ \in BOOLEAN /\ DEQ \in BOOLEAN
          /\ D_IN \in Word
          /\ NoWarning

\* After reset: empty, and the data registers hold anything.
Init ==
  /\ full_reg = TRUE
  /\ empty_reg = FALSE
  /\ data0_reg \in Word
  /\ data1_reg \in Word
  /\ Inputs

\* The inputs of the next cycle.
NewInputs == /\ CLR' \in BOOLEAN /\ ENQ' \in BOOLEAN /\ DEQ' \in BOOLEAN
             /\ D_IN' \in Word
             /\ NoWarning'

Next == Edge /\ NewInputs

Spec == Init /\ [][Next]_vars

-----------------------------------------------------------------------------
\* The registers hold values of their widths, and the fourth encoding of
\* the two flags, full and empty at the same time, never occurs.
TypeOK ==
  /\ full_reg \in BOOLEAN /\ empty_reg \in BOOLEAN
  /\ data0_reg \in Word /\ data1_reg \in Word
  /\ full_reg \/ empty_reg
  /\ Inputs

\* The words in the queue, oldest first.
Contents == IF ~empty_reg THEN <<>>
            ELSE IF full_reg THEN <<data0_reg>>
            ELSE <<data0_reg, data1_reg>>

Abstract == INSTANCE BoundedFIFO
              WITH Element <- Word, Capacity <- 2, queue <- Contents,
                   clear <- CLR, deq <- DEQ, enq <- ENQ, word <- D_IN

\* The registers behave as a queue of two words: the flags, the selector of
\* data0_reg and the load of data1_reg together lose, merge or reorder no
\* word, also when one word leaves in the cycle another one enters.
IsFIFO == Abstract!Spec
=============================================================================
