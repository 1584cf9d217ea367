----------------------------- MODULE BoundedFIFO -----------------------------
(***************************************************************************)
(* What a first-in first-out buffer promises, whatever registers it is     *)
(* built from: at every clock edge the oldest word leaves, a word enters   *)
(* behind all the others, both or neither happens, as the inputs say, and  *)
(* nothing else changes.  FIFO2 is shown to implement this specification.  *)
(***************************************************************************)
EXTENDS Naturals, Sequences

CONSTANTS Element,   \* the words that can be stored
          Capacity   \* how many of them at most

VARIABLES queue,     \* the words held, oldest first
          clear,     \* the inputs of this cycle: empty the buffer,
          deq,       \* take the oldest word,
          enq,       \* store a word,
          word       \* this one

vars == <<queue, clear, deq, enq, word>>

\* What the users of the buffer may ask of it in a cycle.
Allowed ==
  /\ clear \in BOOLEAN /\ deq \in BOOLEAN /\ enq \in BOOLEAN /\ word \in Element
  /\ ~clear /\ deq => queue # <<>>
  /\ ~clear /\ enq => deq \/ Len(queue) < Capacity

Kept == IF deq THEN Tail(queue) ELSE queue
Stored == IF enq THEN <<word>> ELSE <<>>

Init == queue = <<>> /\ Allowed

Next == /\ queue' = IF clear THEN <<>> ELSE Kept \o Stored
        /\ Allowed'

Spec == Init /\ [][Next]_vars
=============================================================================
