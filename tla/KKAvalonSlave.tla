---------------------------- MODULE KKAvalonSlave ----------------------------
(***************************************************************************)
(* The accelerator on the bus, mkKKAvalonSlave of KKAvalonSlave.bsv: the   *)
(* slave port, a bypass FIFO of one request, and the core, all in one      *)
(* clock domain.  A step is one clock cycle.  The request that is served   *)
(* may have entered the bypass FIFO in the same cycle; a write that the    *)
(* schedule of the core does not let fire waits there, and everything      *)
(* behind it waits too, reads included.                                    *)
(*                                                                         *)
(* An address is <<selector, i, j>>: its bits 17-16, 15-8 and 7-0.         *)
(***************************************************************************)
EXTENDS AvalonSlave, KKIteration, FiniteSets

CONSTANT Unmapped    \* what the array read returns for an index outside it

ASSUME AnswerAssumption == Nothing \notin Int
ASSUME UnmappedAssumption == Unmapped \subseteq Elem /\ Unmapped # {}
ASSUME RequestAssumption ==
  Request \subseteq [command : {"Read", "Write"},
                     addr : (0 .. 3) \X (0 .. 255) \X (0 .. 255),
                     data : Elem]
ASSUME BusPutsAssumption ==
  \A r \in Request : r.command = "Write" /\ r.addr[1] = 0 =>
                     <<r.addr[2], r.addr[3], r.data>> \in Puts

VARIABLES cliReq,     \* the bypass FIFO: a request or Nothing
          readdata,   \* the word put on readdata in the last cycle, or Nothing
          served,     \* history: the request served in the last cycle
          held        \* history: for how many cycles the oldest one has waited

slave == <<cliReq, readdata, served, held>>
all == <<wires, awaiting, reqFIFO, issued, rX, rState, rCounter, rDivZero,
         cliReq, readdata, served, held>>

-----------------------------------------------------------------------------
\* Mutant: a request that waits in the bypass FIFO does not hold the next.
ConnectAlways == reqFIFO # <<>>

\* mkConnection moves a request into the bypass FIFO when that is empty.
Connect == cliReq = Nothing /\ reqFIFO # <<>>

\* cliReq.first: what came in this cycle is seen in this cycle.
first == IF cliReq # Nothing THEN cliReq
         ELSE IF Connect THEN Head(reqFIFO)
         ELSE Nothing

line == first.addr[2]
column == first.addr[3]

\* The rules of the core, in a cycle in which no write is processed.
CoreRules == \/ InitCycle
             \/ IterateCycle
             \/ Idle /\ UNCHANGED core

Put == first.addr[1] = 0
Start == first.addr = <<1, 0, 0>>

\* A write to any other address has no effect, but takes the cycle.
IgnoreCycle == CallerMayFire /\ Bystanders /\ UNCHANGED <<rX, rState>>

processWrite ==
  /\ first # Nothing /\ first.command = "Write"
  /\ \/ Put /\ PutCycle(line, column, first.data)
     \/ Start /\ StartCycle
     \/ ~Put /\ ~Start /\ IgnoreCycle
  /\ readdata' = Nothing

Bool(b) == IF b THEN 1 ELSE 0

\* The values that a read of the address may return.
Result ==
  CASE first.addr = <<1, 0, 1>> -> {Bool(isRunning)}
    [] first.addr = <<1, 0, 2>> -> {getCounter}
    [] first.addr = <<1, 0, 3>> -> {Bool(divZero)}
    [] first.addr[1] = 2 ->
         IF <<line, column>> \in Cells THEN {getIntElem(line, column)} ELSE Unmapped
    [] first.addr[1] = 3 ->
         IF <<line, column>> \in Cells THEN {getDetElem(line, column)} ELSE Unmapped
    [] OTHER -> {0}

\* Mutant: only the matrices are answered.
processReadSilent ==
  /\ first # Nothing /\ first.command = "Read"
  /\ readdata' \in IF first.addr[1] \in {2, 3} THEN Result ELSE {Nothing}
  /\ CoreRules

processRead ==
  /\ first # Nothing /\ first.command = "Read"
  /\ readdata' \in Result
  /\ CoreRules

\* Neither rule can fire: there is no request, or a write has to wait.
NothingToServe ==
  first # Nothing => first.command = "Write" /\ ~CallerMayFire

NoService ==
  /\ NothingToServe
  /\ readdata' = Nothing
  /\ CoreRules

\* Mutant: a read stays in the bypass FIFO.
DequeuedWrite == served' # Nothing /\ served'.command = "Write"

Dequeued == served' # Nothing

\* Both FIFOs at the end of the cycle.
QueuesEdge ==
  /\ cliReq' = IF Dequeued THEN Nothing ELSE first
  /\ QueueEdge(Connect)
  /\ held' = IF first = Nothing \/ Dequeued THEN 0 ELSE held + 1

SlaveCycle ==
  /\ \/ processWrite /\ served' = first
     \/ processRead /\ served' = first
     \/ NoService /\ served' = Nothing
  /\ QueuesEdge
  /\ AwaitEdge(readdata' # Nothing)

SlaveInit == /\ Init
             /\ BusInit
             /\ cliReq = Nothing
             /\ readdata = Nothing
             /\ served = Nothing
             /\ held = 0

SlaveNext == SlaveCycle /\ AnyRequest

SlaveSpec == SlaveInit /\ [][SlaveNext]_all

\* The clock does not stop.
Clock == WF_all(SlaveNext)

FairSlave == SlaveSpec /\ Clock

-----------------------------------------------------------------------------
\* The registers of the bus side hold requests, words and counts of their
\* kinds, and neither FIFO is overrun.
SlaveTypeOK ==
  /\ wires \in Request \cup {Nothing}
  /\ awaiting \in BOOLEAN
  /\ reqFIFO \in Seq(Request) /\ Len(reqFIFO) <= Depth
  /\ cliReq \in Request \cup {Nothing}
  /\ issued \in {wires, Nothing}
  /\ served \in Request \cup {Nothing}
  /\ held \in Nat

IsRead(r) == r # Nothing /\ r.command = "Read"

\* The requests accepted and not served, oldest first.
OneOrNone(r) == IF r = Nothing THEN <<>> ELSE <<r>>
Pending == OneOrNone(cliReq) \o reqFIFO

\* The requests issued and not served.
Unserved == Pending \o OneOrNone(wires)

\* The master waits exactly while its read is in one of the FIFOs, where it
\* is alone; a word on readdata answers a read, and every read that is
\* served is answered in the same cycle.
OneAnswerPerRead ==
  /\ Cardinality({p \in DOMAIN Pending : IsRead(Pending[p])})
       = IF awaiting THEN 1 ELSE 0
  /\ readdata # Nothing <=> IsRead(served)

\* The two FIFOs, the bypass and waitrequest lose, duplicate and reorder no
\* request between the wires and the core.
Service == INSTANCE InOrderService
             WITH queue <- Unserved
InOrder == Service!Spec

\* A request waits at the head of the FIFOs for a whole run at most: one
\* cycle to begin it and n iterations.
HeadWaitBounded == held <= n + 1

\* How many cycles the core needs to be idle when no write is processed.
CyclesToIdle == IF Idle THEN 0 ELSE IF Starting THEN n + 1 ELSE n - rState

\* How many cycles the answer is away at most: a run, and the cycle of its
\* start, for every request up to the read, and the run that goes on.
AnswerDistance ==
  LET place == CHOOSE p \in DOMAIN Pending : IsRead(Pending[p])
  IN  place * (n + 2) + CyclesToIdle

\* With every cycle of the wait the answer comes nearer: neither the writes
\* that the master puts behind the read nor the runs that the writes before
\* it start can put it off.
AnswerComesNearer ==
  [][awaiting /\ awaiting' => AnswerDistance' < AnswerDistance]_all

\* Every read that the port accepts is answered, whatever is queued before
\* it, so the processor never hangs in a load.
ReadsAnswered == awaiting ~> ~awaiting

\* Every run ends, however many writes wait for it.
RunsEnd == isRunning ~> ~isRunning
=============================================================================
