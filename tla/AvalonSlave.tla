----------------------------- MODULE AvalonSlave -----------------------------
(***************************************************************************)
(* The Avalon-MM slave port, mkAvalonSlave of AvalonSlave.bsv, and the bus *)
(* master in front of it.  The port queues the request on the wires at     *)
(* every clock edge at which it has room, and raises waitrequest when it   *)
(* has none.  FIFO2 shows what the registers of reqFIFO do.                *)
(*                                                                         *)
(* The master is the Avalon fabric with the processor behind it, which are *)
(* not part of the source: it holds a request until an edge at which       *)
(* waitrequest is low, and has at most one read without an answer          *)
(* (maximumPendingReadTransactions of kk_accel_hw.tcl).                    *)
(***************************************************************************)
EXTENDS Naturals, Sequences

CONSTANTS Request,   \* records [command, addr, data], see KKAvalonSlave
          Nothing    \* no request, or no answer

ASSUME NothingAssumption == Nothing \notin Request

VARIABLES wires,      \* the request that the master drives in this cycle
          awaiting,   \* the master waits for the answer of a read
          reqFIFO,    \* the requests that the port holds, oldest first
          issued      \* history: the request that is new on the wires, or Nothing

bus == <<wires, awaiting, reqFIFO, issued>>

Depth == 2   \* of a mkFIFOF

\* Mutant: room is seen in a full queue.
notFullLate == Len(reqFIFO) <= Depth

notFull == Len(reqFIFO) < Depth
waitrequest == ~notFull

\* What produceRequest enqueues in this cycle.
produceRequest == IF wires # Nothing /\ notFull THEN <<wires>> ELSE <<>>

\* The queue at the next edge, if the client takes the oldest request or not.
QueueEdge(taken) ==
  reqFIFO' = (IF taken THEN Tail(reqFIFO) ELSE reqFIFO) \o produceRequest

-----------------------------------------------------------------------------
\* The request on the wires is accepted at the end of this cycle.
Accepted == wires # Nothing /\ ~waitrequest

\* An answer that comes in this cycle ends the wait for it.
AwaitEdge(answered) ==
  awaiting' = \/ Accepted /\ wires.command = "Read"
              \/ awaiting /\ ~answered

\* A master that may issue any request in any cycle.
AnyRequest ==
  IF wires # Nothing /\ waitrequest
  THEN wires' = wires /\ issued' = Nothing
  ELSE /\ \/ wires' = Nothing
          \/ \E r \in Request : /\ r.command = "Read" => ~awaiting'
                                /\ wires' = r
       /\ issued' = wires'

BusInit == /\ wires = Nothing
           /\ awaiting = FALSE
           /\ reqFIFO = <<>>
           /\ issued = Nothing
=============================================================================
