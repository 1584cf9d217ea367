------------------------- MODULE KKAvalonSlave_proofs -------------------------
(***************************************************************************)
(* The accelerator on the bus: neither FIFO is overrun, and the requests   *)
(* are served once and in the order in which the master issued them, for   *)
(* every core, schedule and master; every read has one answer, in bounded  *)
(* time.                                                                   *)
(***************************************************************************)
EXTENDS KKAvalonSlave, KKCell_proofs, SequenceTheorems, FiniteSetTheorems, TLAPS

\* The request at the head, and the queue behind it, in this cycle.
AtHead == OneOrNone(first)
Behind == IF Connect THEN Tail(reqFIFO) ELSE reqFIFO

LEMMA OneOrNoneType ==
  ASSUME NEW r \in Request \cup {Nothing}
  PROVE  OneOrNone(r) \in Seq(Request)
BY DEF OneOrNone

\* The bypass takes the oldest request of the queue, or none.
LEMMA BypassType ==
  ASSUME SlaveTypeOK
  PROVE  /\ first \in Request \cup {Nothing}
         /\ Behind \in Seq(Request)
         /\ Len(Behind) <= Len(reqFIFO)
<1>1. CASE Connect
  <2>1. reqFIFO \in Seq(Request) /\ reqFIFO # <<>>
    BY <1>1 DEF SlaveTypeOK, Connect
  <2>2. /\ Head(reqFIFO) \in Request /\ Tail(reqFIFO) \in Seq(Request)
        /\ Len(Tail(reqFIFO)) = Len(reqFIFO) - 1 /\ Len(reqFIFO) \in Nat
    BY <2>1, HeadTailProperties, LenProperties
  <2> QED
    BY <1>1, <2>2 DEF SlaveTypeOK, Behind, first, Connect
<1>2. CASE ~Connect
  <2>1. Len(reqFIFO) \in Nat
    BY LenProperties DEF SlaveTypeOK
  <2> QED
    BY <1>2, <2>1 DEF SlaveTypeOK, Behind, first
<1> QED
  BY <1>1, <1>2

\* What enters the queue is one request at most, and none if it is full.
LEMMA ProduceType ==
  ASSUME SlaveTypeOK
  PROVE  /\ produceRequest \in Seq(Request)
         /\ Len(Behind) + Len(produceRequest) <= Depth
<1>1. Len(reqFIFO) \in Nat /\ Len(reqFIFO) <= 2 /\ Len(Behind) \in Nat
  BY BypassType, LenProperties DEF SlaveTypeOK, Depth
<1>2. CASE wires # Nothing /\ notFull
  <2>1. produceRequest = <<wires>> /\ wires \in Request
    BY <1>2 DEF produceRequest, SlaveTypeOK
  <2>2. Len(produceRequest) = 1 /\ produceRequest \in Seq(Request)
    BY <2>1
  <2> QED
    BY <1>1, <1>2, <2>2, BypassType DEF notFull, Depth
<1>3. CASE ~(wires # Nothing /\ notFull)
  <2>1. produceRequest = <<>>
    BY <1>3 DEF produceRequest
  <2> QED
    BY <1>1, <2>1, BypassType DEF Depth
<1> QED
  BY <1>2, <1>3

\* A master that may issue any request drives a request or nothing.
LEMMA MasterType ==
  ASSUME SlaveTypeOK, AnyRequest
  PROVE  wires' \in Request \cup {Nothing} /\ issued' \in {wires', Nothing}
BY DEF SlaveTypeOK, AnyRequest

LEMMA SlaveTypeStep == SlaveTypeOK /\ [SlaveNext]_all => SlaveTypeOK'
<1> SUFFICES ASSUME SlaveTypeOK, [SlaveNext]_all PROVE SlaveTypeOK'
  OBVIOUS
<1>1. CASE UNCHANGED all
  BY <1>1 DEF all, SlaveTypeOK
<1>2. CASE SlaveNext
  <2>1. SlaveCycle /\ AnyRequest
    BY <1>2 DEF SlaveNext
  <2>2. served' \in Request \cup {Nothing}
    BY <2>1, BypassType DEF SlaveCycle
  <2>3. cliReq' \in Request \cup {Nothing}
    BY <2>1, BypassType DEF SlaveCycle, QueuesEdge
  <2>4. held' \in Nat
    BY <2>1 DEF SlaveCycle, QueuesEdge, SlaveTypeOK
  <2>5. awaiting' \in BOOLEAN
    BY <2>1 DEF SlaveCycle, AwaitEdge
  <2>6. reqFIFO' = Behind \o produceRequest
    BY <2>1 DEF SlaveCycle, QueuesEdge, QueueEdge, Behind
  <2>7. reqFIFO' \in Seq(Request) /\ Len(reqFIFO') <= Depth
    BY <2>6, BypassType, ProduceType, ConcatProperties
  <2> QED
    BY <2>1, <2>2, <2>3, <2>4, <2>5, <2>7, MasterType DEF SlaveTypeOK
<1> QED
  BY <1>1, <1>2

\* The queue of the port never holds more than its two registers and the
\* bypass FIFO never more than one request, whatever the master drives.
THEOREM SlaveTypeCorrect == SlaveSpec => []SlaveTypeOK
<1>1. SlaveInit => SlaveTypeOK
  <2> SUFFICES ASSUME SlaveInit PROVE SlaveTypeOK
    OBVIOUS
  <2>1. reqFIFO \in Seq(Request) /\ Len(reqFIFO) <= Depth
    BY DEF SlaveInit, BusInit, Depth
  <2>2. wires = Nothing /\ awaiting = FALSE /\ issued = Nothing
    BY DEF SlaveInit, BusInit
  <2>3. cliReq = Nothing /\ served = Nothing /\ held = 0
    BY DEF SlaveInit
  <2> QED
    BY <2>1, <2>2, <2>3 DEF SlaveTypeOK
<1> QED
  BY <1>1, SlaveTypeStep, PTL DEF SlaveSpec

-----------------------------------------------------------------------------
(* The order of service. *)

\* The bypass moves the head without changing the order.
LEMMA BypassKeepsOrder ==
  ASSUME SlaveTypeOK
  PROVE  Pending = AtHead \o Behind
<1>1. CASE Connect
  <2>1. reqFIFO \in Seq(Request) /\ reqFIFO # <<>> /\ cliReq = Nothing
    BY <1>1 DEF SlaveTypeOK, Connect
  <2>2. Head(reqFIFO) \in Request
    BY <2>1, HeadTailProperties
  <2>3. first = Head(reqFIFO) /\ first # Nothing
    BY <1>1, <2>1, <2>2, NothingAssumption DEF first
  <2>4. Pending = reqFIFO
    BY <2>1 DEF Pending, OneOrNone
  <2>5. reqFIFO = <<Head(reqFIFO)>> \o Tail(reqFIFO)
    BY <2>1
  <2> QED
    BY <1>1, <2>3, <2>4, <2>5 DEF AtHead, Behind, OneOrNone
<1>2. CASE ~Connect
  BY <1>2 DEF Pending, AtHead, Behind, first
<1> QED
  BY <1>1, <1>2

\* The request on the wires stays there, or goes to the queue and makes room
\* for the next one.
LEMMA WiresKeepOrder ==
  ASSUME SlaveTypeOK, AnyRequest
  PROVE  produceRequest \o OneOrNone(wires') = OneOrNone(wires) \o OneOrNone(issued')
<1>1. OneOrNone(wires') \in Seq(Request) /\ OneOrNone(wires) \in Seq(Request)
  BY MasterType, OneOrNoneType DEF SlaveTypeOK
<1>2. CASE wires # Nothing /\ waitrequest
  <2>1. wires' = wires /\ issued' = Nothing /\ produceRequest = <<>>
    BY <1>2 DEF AnyRequest, produceRequest, waitrequest
  <2> QED
    BY <1>1, <2>1, ConcatEmptySeq DEF OneOrNone
<1>3. CASE ~(wires # Nothing /\ waitrequest)
  <2>1. issued' = wires' /\ produceRequest = OneOrNone(wires)
    BY <1>3 DEF AnyRequest, produceRequest, waitrequest, OneOrNone
  <2> QED
    BY <2>1
<1> QED
  BY <1>2, <1>3

\* A cycle serves the head, or nothing, and adds what is issued.
LEMMA CycleInOrder == SlaveTypeOK /\ SlaveTypeOK' /\ SlaveNext => Service!Next
<1> SUFFICES ASSUME SlaveTypeOK, SlaveTypeOK', SlaveNext PROVE Service!Next
  OBVIOUS
<1> DEFINE New == OneOrNone(issued')
           Rest == Behind \o OneOrNone(wires)
<1>1. SlaveCycle /\ AnyRequest
  BY DEF SlaveNext
<1>2. /\ first \in Request \cup {Nothing}
      /\ AtHead \in Seq(Request) /\ Behind \in Seq(Request)
      /\ OneOrNone(wires) \in Seq(Request) /\ OneOrNone(wires') \in Seq(Request)
      /\ New \in Seq(Request) /\ produceRequest \in Seq(Request)
  BY BypassType, ProduceType, OneOrNoneType DEF SlaveTypeOK, AtHead
<1>3. Unserved = AtHead \o Rest /\ Rest \in Seq(Request)
  <2>1. Unserved = (AtHead \o Behind) \o OneOrNone(wires)
    BY BypassKeepsOrder DEF Unserved
  <2>2. (AtHead \o Behind) \o OneOrNone(wires) = AtHead \o Rest
    BY <1>2, ConcatAssociative
  <2>3. Rest \in Seq(Request)
    BY <1>2, ConcatProperties
  <2> QED
    BY <2>1, <2>2, <2>3
<1>4. /\ reqFIFO' = Behind \o produceRequest
      /\ cliReq' = IF Dequeued THEN Nothing ELSE first
  BY <1>1 DEF SlaveCycle, QueuesEdge, QueueEdge, Behind
<1>5. reqFIFO' \o OneOrNone(wires') = Rest \o New
  <2>1. (Behind \o produceRequest) \o OneOrNone(wires')
          = Behind \o (produceRequest \o OneOrNone(wires'))
    BY <1>2, ConcatAssociative
  <2>2. produceRequest \o OneOrNone(wires') = OneOrNone(wires) \o New
    BY <1>1, WiresKeepOrder
  <2>3. Rest \o New = Behind \o (OneOrNone(wires) \o New)
    <3> HIDE DEF New
    <3> QED
      BY <1>2, ConcatAssociative
  <2> QED
    BY <1>4, <2>1, <2>2, <2>3
<1>6. Unserved' = OneOrNone(cliReq') \o (Rest \o New)
  <2>1. reqFIFO' \in Seq(Request) /\ OneOrNone(cliReq') \in Seq(Request)
    BY OneOrNoneType DEF SlaveTypeOK
  <2>2. Unserved' = (OneOrNone(cliReq') \o reqFIFO') \o OneOrNone(wires')
    BY DEF Unserved, Pending, OneOrNone
  <2>3. (OneOrNone(cliReq') \o reqFIFO') \o OneOrNone(wires')
          = OneOrNone(cliReq') \o (reqFIFO' \o OneOrNone(wires'))
    <3>1. OneOrNone(wires') \in Seq(Request)
      BY <1>2
    <3> QED
      BY <2>1, <3>1, ConcatAssociative
  <2> QED
    BY <1>5, <2>2, <2>3
<1>7. Rest \o New \in Seq(Request)
  BY <1>2, <1>3, ConcatProperties
<1>8. issued' \in Request \cup {Nothing}
  BY DEF SlaveTypeOK
<1>9. New = IF issued' = Nothing THEN <<>> ELSE <<issued'>>
  BY DEF OneOrNone
<1>10. CASE Dequeued
  <2>1. served' = first /\ first # Nothing /\ first \in Request
    BY <1>1, <1>2, <1>10 DEF SlaveCycle, Dequeued
  <2>2. Unserved = <<first>> \o Rest
    BY <1>3, <2>1 DEF AtHead, OneOrNone
  <2>3. Unserved # <<>> /\ Head(Unserved) = first /\ Tail(Unserved) = Rest
    <3> HIDE DEF Rest
    <3> QED
      BY <1>3, <2>1, <2>2
  <2>4. Unserved' = Rest \o New
    BY <1>4, <1>6, <1>7, <1>10, ConcatEmptySeq DEF OneOrNone
  <2>5. Service!Serve
    BY <1>9, <2>1, <2>3, <2>4 DEF Service!Serve, Service!New, Unserved
  <2> QED
    BY <1>8, <2>5 DEF Service!Next
<1>11. CASE ~Dequeued
  <2>1. served' = Nothing /\ cliReq' = first
    BY <1>4, <1>11 DEF Dequeued
  <2>2. Unserved' = AtHead \o (Rest \o New)
    BY <1>6, <2>1 DEF AtHead, OneOrNone
  <2>3. (AtHead \o Rest) \o New = AtHead \o (Rest \o New)
    <3>1. AtHead \in Seq(Request) /\ Rest \in Seq(Request) /\ New \in Seq(Request)
      BY <1>2, <1>3
    <3> HIDE DEF Rest, New
    <3> QED
      BY <3>1, ConcatAssociative
  <2>4. Service!Wait
    BY <1>3, <1>9, <2>1, <2>2, <2>3 DEF Service!Wait, Service!New, Unserved
  <2> QED
    BY <1>8, <2>4 DEF Service!Next
<1> QED
  BY <1>10, <1>11

\* The port, the bypass FIFO and the handlers implement a slave that serves
\* every request exactly once, in the order of their issue.
THEOREM ServesInOrder == SlaveSpec => InOrder
<1>1. SlaveInit => Service!Init
  BY DEF SlaveInit, BusInit, Service!Init, Unserved, Pending, OneOrNone
<1>2. SlaveTypeOK /\ SlaveTypeOK' /\ [SlaveNext]_all => [Service!Next]_(Service!vars)
  <2>1. UNCHANGED all => UNCHANGED Service!vars
    BY DEF all, Service!vars, Unserved, Pending, OneOrNone
  <2> QED
    BY <2>1, CycleInOrder
<1> QED
  BY <1>1, <1>2, SlaveTypeCorrect, PTL DEF SlaveSpec, InOrder, Service!Spec

-----------------------------------------------------------------------------
(* How long the head waits, whatever the schedule.                         *)

\* A write that has to wait in the cycle that begins a run waits for the run at
\* most: the cycles it has waited are not more than those the core has spent.
HeadInv ==
  /\ rState \in (0 .. n - 1) \cup {stateMaxVal - 1, stateMaxVal}
  /\ held \in Nat
  /\ Starting => held = 0
  /\ Iterating => held <= rState + 1
  /\ Idle => held <= n + 1

\* The numbers of the states, apart from each other.
LEMMA StateFacts ==
  /\ n \in Nat /\ n > 1 /\ stateMaxVal \in Nat /\ stateMaxVal > n + 1
BY SizeAssumption, StateAssumption

\* The head, if it waits, is a write that finds the core not idle.
LEMMA WriteBlocked ==
  ASSUME NothingToServe, first # Nothing
  PROVE  first.command = "Write" /\ (Starting \/ Iterating)
BY DEF NothingToServe, CallerMayFire

\* What the rules of the core do to its state.
LEMMA CoreMoves ==
  ASSUME CoreRules
  PROVE  \/ Starting /\ rState' = 0
         \/ Iterating /\ rState' = IF rState = n - 1 THEN stateMaxVal ELSE rState + 1
         \/ Idle /\ rState' = rState
BY DEF CoreRules, InitCycle, init, IterateCycle, iterate, core

LEMMA HeadStep == HeadInv /\ [SlaveNext]_all => HeadInv'
<1> SUFFICES ASSUME HeadInv, [SlaveNext]_all PROVE HeadInv'
  OBVIOUS
<1>1. CASE UNCHANGED all
  BY <1>1 DEF all, HeadInv, Starting, Iterating, Idle
<1>2. ASSUME processWrite, served' = first, QueuesEdge PROVE HeadInv'
  <2>1. held' = 0
    BY <1>2 DEF processWrite, QueuesEdge, Dequeued
  <2>2. rState' \in {rState, stateMaxVal - 1}
    BY <1>2 DEF processWrite, PutCycle, StartCycle, IgnoreCycle, putElem, start
  <2>3. rState' \in (0 .. n - 1) \cup {stateMaxVal - 1, stateMaxVal}
    BY <2>2 DEF HeadInv
  <2>4. 0 <= n + 1 /\ (rState' \in 0 .. n - 1 => 0 <= rState' + 1)
    BY StateFacts
  <2>5. Iterating' => rState' \in 0 .. n - 1
    BY <2>3, StateFacts DEF Iterating
  <2> QED
    BY <2>1, <2>3, <2>4, <2>5 DEF HeadInv
<1>3. ASSUME processRead, served' = first, QueuesEdge PROVE HeadInv'
  <2>1. held' = 0 /\ CoreRules
    BY <1>3 DEF processRead, QueuesEdge, Dequeued
  <2> QED
    BY <2>1, CoreMoves, StateFacts DEF HeadInv, Starting, Iterating, Idle
<1>4. ASSUME NoService, served' = Nothing, QueuesEdge PROVE HeadInv'
  <2>1. CoreRules /\ NothingToServe
    BY <1>4 DEF NoService
  <2>2. CASE first = Nothing
    <3>1. held' = 0
      BY <1>4, <2>2 DEF QueuesEdge
    <3> QED
      BY <2>1, <3>1, CoreMoves, StateFacts DEF HeadInv, Starting, Iterating, Idle
  <2>3. CASE first # Nothing
    <3>1. ~Idle
      BY <2>1, <2>3, WriteBlocked, StateFacts DEF Starting, Iterating, Idle
    <3>2. held' = held + 1
      BY <1>4, <2>3 DEF QueuesEdge, Dequeued
    <3> QED
      BY <2>1, <3>1, <3>2, CoreMoves, StateFacts DEF HeadInv, Starting, Iterating, Idle
  <2> QED
    BY <2>2, <2>3
<1> QED
  BY <1>1, <1>2, <1>3, <1>4 DEF SlaveNext, SlaveCycle

\* Whatever the master does and whichever rules win, nothing waits at the
\* head of the FIFOs for longer than a whole run, one cycle to begin it and n
\* iterations.
THEOREM HeadWait == SlaveSpec => []HeadWaitBounded
<1>1. SlaveInit => HeadInv
  BY StateFacts DEF SlaveInit, Init, HeadInv, Starting, Iterating, Idle
<1>2. HeadInv => HeadWaitBounded
  BY StateFacts DEF HeadInv, HeadWaitBounded, Starting, Iterating, Idle
<1> QED
  BY <1>1, <1>2, HeadStep, PTL DEF SlaveSpec

-----------------------------------------------------------------------------
(* The core behind the bus. *)

\* An idle core is not iterating, so its counter and its flag stand still.
LEMMA IdleStands == Idle /\ Bystanders => UNCHANGED <<rCounter, rDivZero>>
BY StateFacts DEF Idle, Iterating, Bystanders, countCycles

LEMMA CoreStep == SlaveTypeOK /\ [SlaveNext]_all => [Next]_core
<1> SUFFICES ASSUME SlaveTypeOK, [SlaveNext]_all PROVE [Next]_core
  OBVIOUS
<1>1. CASE UNCHANGED all
  BY <1>1 DEF all, core
<1>2. CASE CoreRules
  BY <1>2 DEF CoreRules, Next
<1>3. CASE processWrite
  <2>1. CASE Put /\ PutCycle(line, column, first.data)
    <3>1. first \in Request /\ first.command = "Write" /\ first.addr[1] = 0
      BY <1>3, <2>1, BypassType DEF processWrite, Put
    <3>2. <<line, column, first.data>> \in Puts
      BY <3>1, BusPutsAssumption DEF line, column
    <3>3. \E p \in Puts : PutCycle(p[1], p[2], p[3])
      <4> DEFINE p == <<line, column, first.data>>
      <4>1. p \in Puts /\ PutCycle(p[1], p[2], p[3])
        BY <2>1, <3>2
      <4> QED
        BY <4>1
    <3> QED
      BY <3>3 DEF Next
  <2>2. CASE StartCycle
    BY <2>2 DEF Next
  <2>3. CASE IgnoreCycle
    <3>1. CASE Idle
      BY <2>3, <3>1, IdleStands DEF IgnoreCycle, core
    <3>2. CASE ~Idle
      BY <2>3, <3>2 DEF IgnoreCycle, StartCycle, start, Next
    <3> QED
      BY <3>1, <3>2
  <2> QED
    BY <1>3, <2>1, <2>2, <2>3 DEF processWrite
<1> QED
  BY <1>1, <1>2, <1>3 DEF SlaveNext, SlaveCycle, processRead, NoService

-----------------------------------------------------------------------------
(* Every read has one answer.  First the types of what a read may return. *)

CoreTypeOK ==
  /\ rX \in [0 .. 2 -> Matrix]
  /\ rState \in (0 .. n - 1) \cup {stateMaxVal - 1, stateMaxVal}
  /\ rCounter \in Int

\* The buffers are numbered by remainders, and divisors are numbers.
LEMMA BufferTypes ==
  ASSUME CoreTypeOK
  PROVE  /\ iPrev \in 0 .. 2 /\ iCurr \in 0 .. 2 /\ iNext \in 0 .. 2
         /\ Divisors \in Matrix
<1>1. rState \in Int
  BY StateFacts DEF CoreTypeOK
<1>2. iPrev \in 0 .. 2 /\ iCurr \in 0 .. 2 /\ iNext \in 0 .. 2
  BY <1>1 DEF iPrev, iCurr, iNext
<1>3. ASSUME NEW c \in Cells
      PROVE  (IF rState = 0 THEN FRAC ELSE rX[iPrev][<<Up(c[1]), Up(c[2])>>]) \in Elem
  <2>1. <<Up(c[1]), Up(c[2])>> \in Cells
    BY UpType DEF Cells
  <2>2. rX[iPrev] \in Matrix
    BY <1>2 DEF CoreTypeOK
  <2> QED
    BY <2>1, <2>2, OneType DEF Matrix
<1> QED
  BY <1>2, <1>3 DEF Divisors, Matrix

LEMMA ComputeType ==
  ASSUME CoreTypeOK, ComputeNext
  PROVE  rX' \in [0 .. 2 -> Matrix]
<1>1. PICK junk \in [ZeroDivisions(Divisors) -> Junk] :
        rX' = [rX EXCEPT ![iNext] = Condensed(rX[iCurr], Divisors, junk)]
  BY DEF ComputeNext
<1>2. rX[iCurr] \in Matrix
  BY BufferTypes DEF CoreTypeOK
<1>3. Condensed(rX[iCurr], Divisors, junk) \in Matrix
  BY <1>2, BufferTypes, CondensedType
<1> QED
  BY <1>1, <1>3 DEF CoreTypeOK

LEMMA PutType ==
  ASSUME CoreTypeOK, NEW p \in Puts, putElem(p[1], p[2], p[3])
  PROVE  rX' \in [0 .. 2 -> Matrix]
<1>1. p[3] \in Elem
  BY PutsAssumption
<1>2. rX[1] \in Matrix
  BY DEF CoreTypeOK
<1>3. [rX[1] EXCEPT ![<<p[1], p[2]>>] = p[3]] \in Matrix
  BY <1>1, <1>2 DEF Matrix
<1>4. [rX EXCEPT ![1][<<p[1], p[2]>>] = p[3]] \in [0 .. 2 -> Matrix]
  BY <1>3 DEF CoreTypeOK
<1> QED
  BY <1>4 DEF putElem, CoreTypeOK

LEMMA BystandersType ==
  ASSUME CoreTypeOK, Bystanders PROVE rCounter' \in Int
<1>1. (rCounter + 1) % CounterMod \in Int
  BY CounterAssumption, ModRange DEF CoreTypeOK
<1> QED
  BY <1>1 DEF CoreTypeOK, Bystanders, countCycles

LEMMA CoreTypeStep == CoreTypeOK /\ [Next]_core => CoreTypeOK'
<1> SUFFICES ASSUME CoreTypeOK, [Next]_core PROVE CoreTypeOK'
  OBVIOUS
<1>1. CASE UNCHANGED core
  BY <1>1 DEF core, CoreTypeOK
<1>2. CASE InitCycle
  BY <1>2, StateFacts DEF InitCycle, init, CoreTypeOK
<1>3. CASE IterateCycle
  <2>1. rX' \in [0 .. 2 -> Matrix]
    BY <1>3, ComputeType DEF IterateCycle, iterate
  <2>2. rState' \in (0 .. n - 1) \cup {stateMaxVal - 1, stateMaxVal}
    BY <1>3, StateFacts DEF IterateCycle, iterate, Iterating, CoreTypeOK
  <2>3. rCounter' \in Int
    BY <1>3, BystandersType DEF IterateCycle, Bystanders
  <2> QED
    BY <2>1, <2>2, <2>3 DEF CoreTypeOK
<1>4. ASSUME NEW p \in Puts, PutCycle(p[1], p[2], p[3]) PROVE CoreTypeOK'
  BY <1>4, PutType, BystandersType DEF PutCycle, putElem, CoreTypeOK
<1>5. CASE StartCycle
  BY <1>5, BystandersType DEF StartCycle, start, CoreTypeOK
<1> QED
  BY <1>1, <1>2, <1>3, <1>4, <1>5 DEF Next

\* A word on readdata is a word: the absence of an answer cannot be taken for
\* one, nor the other way round.
LEMMA ResultIsAWord ==
  ASSUME CoreTypeOK, NEW word \in Result
  PROVE  word # Nothing
<1> SUFFICES word \in Int
  BY AnswerAssumption
<1>1. Bool(isRunning) \in Int /\ Bool(divZero) \in Int
  BY DEF Bool
<1>2. getCounter \in Int
  BY DEF CoreTypeOK, getCounter
<1>3. Unmapped \subseteq Int
  BY UnmappedAssumption, ElemInt
<1>4. ASSUME <<line, column>> \in Cells
      PROVE  getIntElem(line, column) \in Int /\ getDetElem(line, column) \in Int
  <2>1. (n - 1) % 3 \in 0 .. 2 /\ n % 3 \in 0 .. 2
    BY StateFacts
  <2>2. rX[(n - 1) % 3] \in Matrix /\ rX[n % 3] \in Matrix
    BY <2>1 DEF CoreTypeOK
  <2> QED
    BY <1>4, <2>2, ElemInt DEF Matrix, getIntElem, getDetElem
<1>5. /\ word \in {Bool(isRunning)} => word \in Int
      /\ word \in {Bool(divZero)} => word \in Int
      /\ word \in {getCounter} => word \in Int
      /\ word \in {0} => word \in Int
  BY <1>1, <1>2
<1>6. /\ word \in (IF <<line, column>> \in Cells THEN {getIntElem(line, column)} ELSE Unmapped)
           => word \in Int
      /\ word \in (IF <<line, column>> \in Cells THEN {getDetElem(line, column)} ELSE Unmapped)
           => word \in Int
  BY <1>3, <1>4
<1> QED
  BY <1>5, <1>6, Zenon DEF Result
-----------------------------------------------------------------------------
(* Where the reads are.  The count of the property is replaced by none or one *)
(* place, which concatenation respects.                                       *)

NoRead(s) == \A p \in DOMAIN s : ~IsRead(s[p])
OneRead(s) == \E p \in DOMAIN s : IsRead(s[p]) /\ \A q \in DOMAIN s : IsRead(s[q]) => q = p

LEMMA ReadsOfOne ==
  ASSUME NEW r \in Request \cup {Nothing}
  PROVE  /\ IsRead(r) => OneRead(OneOrNone(r))
         /\ ~IsRead(r) => NoRead(OneOrNone(r))
<1>1. CASE r = Nothing
  BY <1>1 DEF OneOrNone, IsRead, NoRead
<1>2. CASE r # Nothing
  <2>1. OneOrNone(r) = <<r>> /\ DOMAIN <<r>> = {1} /\ <<r>>[1] = r
    BY <1>2 DEF OneOrNone
  <2> HIDE DEF IsRead
  <2> QED
    BY <2>1 DEF NoRead, OneRead
<1> QED
  BY <1>1, <1>2

LEMMA NotBoth == ASSUME NEW s PROVE ~(NoRead(s) /\ OneRead(s))
BY DEF NoRead, OneRead

\* The places of a concatenation.
LEMMA Places ==
  ASSUME NEW s \in Seq(Request), NEW t \in Seq(Request)
  PROVE  /\ Len(s) \in Nat /\ Len(t) \in Nat
         /\ DOMAIN s = 1 .. Len(s) /\ DOMAIN t = 1 .. Len(t)
         /\ DOMAIN (s \o t) = 1 .. Len(s) + Len(t)
         /\ \A p \in 1 .. Len(s) : (s \o t)[p] = s[p]
         /\ \A p \in 1 .. Len(t) : (s \o t)[Len(s) + p] = t[p]
<1>1. Len(s) \in Nat /\ Len(t) \in Nat /\ DOMAIN s = 1 .. Len(s) /\ DOMAIN t = 1 .. Len(t)
  BY LenProperties
<1>2. /\ s \o t \in Seq(Request) /\ Len(s \o t) = Len(s) + Len(t)
      /\ \A p \in 1 .. Len(s) + Len(t) :
           (s \o t)[p] = IF p <= Len(s) THEN s[p] ELSE t[p - Len(s)]
  BY ConcatProperties
<1>3. DOMAIN (s \o t) = 1 .. Len(s) + Len(t)
  BY <1>2, LenProperties
<1>4. ASSUME NEW p \in 1 .. Len(s) PROVE (s \o t)[p] = s[p]
  BY <1>1, <1>2
<1>5. ASSUME NEW p \in 1 .. Len(t) PROVE (s \o t)[Len(s) + p] = t[p]
  <2>1. Len(s) + p \in 1 .. Len(s) + Len(t) /\ ~(Len(s) + p <= Len(s)) /\ Len(s) + p - Len(s) = p
    BY <1>1
  <2> QED
    BY <1>2, <2>1
<1> QED
  BY <1>1, <1>3, <1>4, <1>5

LEMMA NoReadConcat ==
  ASSUME NEW s \in Seq(Request), NEW t \in Seq(Request)
  PROVE  NoRead(s \o t) <=> NoRead(s) /\ NoRead(t)
<1> DEFINE st == s \o t
<1>1. /\ Len(s) \in Nat /\ Len(t) \in Nat
      /\ DOMAIN s = 1 .. Len(s) /\ DOMAIN t = 1 .. Len(t)
      /\ DOMAIN st = 1 .. Len(s) + Len(t)
      /\ \A p \in 1 .. Len(s) : st[p] = s[p]
      /\ \A p \in 1 .. Len(t) : st[Len(s) + p] = t[p]
  BY Places
<1> HIDE DEF st
<1>2. ASSUME NoRead(st) PROVE NoRead(s) /\ NoRead(t)
  <2>1. ASSUME NEW p \in 1 .. Len(s) PROVE ~IsRead(s[p])
    <3>1. p \in DOMAIN st /\ st[p] = s[p]
      BY <1>1
    <3> QED
      BY <1>2, <3>1 DEF NoRead
  <2>2. ASSUME NEW p \in 1 .. Len(t) PROVE ~IsRead(t[p])
    <3>1. Len(s) + p \in DOMAIN st /\ st[Len(s) + p] = t[p]
      BY <1>1
    <3> QED
      BY <1>2, <3>1 DEF NoRead
  <2> QED
    BY <1>1, <2>1, <2>2 DEF NoRead
<1>3. ASSUME NoRead(s), NoRead(t), NEW p \in DOMAIN st PROVE ~IsRead(st[p])
  <2>1. CASE p <= Len(s)
    <3>1. p \in DOMAIN s /\ st[p] = s[p]
      BY <1>1, <2>1
    <3> QED
      BY <1>3, <3>1 DEF NoRead
  <2>2. CASE p > Len(s)
    <3>1. p - Len(s) \in 1 .. Len(t) /\ Len(s) + (p - Len(s)) = p
      BY <1>1, <2>2
    <3>2. st[p] = t[p - Len(s)] /\ p - Len(s) \in DOMAIN t
      BY <1>1, <3>1
    <3> QED
      BY <1>3, <3>2 DEF NoRead
  <2> QED
    BY <1>1, <2>1, <2>2
<1>4. NoRead(s) /\ NoRead(t) => NoRead(st)
  BY <1>3 DEF NoRead
<1> QED
  BY <1>2, <1>4 DEF st
LEMMA OneReadConcat ==
  ASSUME NEW s \in Seq(Request), NEW t \in Seq(Request)
  PROVE  OneRead(s \o t) <=> \/ OneRead(s) /\ NoRead(t)
                             \/ NoRead(s) /\ OneRead(t)
<1> DEFINE st == s \o t
<1>1. /\ Len(s) \in Nat /\ Len(t) \in Nat
      /\ DOMAIN s = 1 .. Len(s) /\ DOMAIN t = 1 .. Len(t)
      /\ DOMAIN st = 1 .. Len(s) + Len(t)
      /\ \A p \in 1 .. Len(s) : st[p] = s[p]
      /\ \A p \in 1 .. Len(t) : st[Len(s) + p] = t[p]
  BY Places
<1> HIDE DEF st
\* A place in the concatenation is one in the first part or one in the second.
<1>2. ASSUME NEW p \in DOMAIN st
      PROVE  \/ p \in DOMAIN s /\ st[p] = s[p]
             \/ p > Len(s) /\ p - Len(s) \in DOMAIN t /\ st[p] = t[p - Len(s)]
  <2>1. CASE p <= Len(s)
    BY <1>1, <2>1
  <2>2. CASE p > Len(s)
    <3>1. p - Len(s) \in 1 .. Len(t) /\ Len(s) + (p - Len(s)) = p
      BY <1>1, <2>2
    <3> QED
      BY <1>1, <2>2, <3>1
  <2> QED
    BY <1>1, <2>1, <2>2
<1>3. ASSUME OneRead(s), NoRead(t) PROVE OneRead(st)
  <2>1. PICK p \in DOMAIN s : IsRead(s[p]) /\ \A q \in DOMAIN s : IsRead(s[q]) => q = p
    BY <1>3 DEF OneRead
  <2>2. p \in DOMAIN st /\ IsRead(st[p])
    BY <1>1, <2>1
  <2>3. ASSUME NEW q \in DOMAIN st, IsRead(st[q]) PROVE q = p
    BY <1>2, <1>3, <2>1, <2>3 DEF NoRead
  <2> QED
    BY <2>2, <2>3 DEF OneRead
<1>4. ASSUME NoRead(s), OneRead(t) PROVE OneRead(st)
  <2>1. PICK p \in DOMAIN t : IsRead(t[p]) /\ \A q \in DOMAIN t : IsRead(t[q]) => q = p
    BY <1>4 DEF OneRead
  <2>2. Len(s) + p \in DOMAIN st /\ IsRead(st[Len(s) + p])
    BY <1>1, <2>1
  <2>3. ASSUME NEW q \in DOMAIN st, IsRead(st[q]) PROVE q = Len(s) + p
    <3>1. q - Len(s) \in DOMAIN t /\ IsRead(t[q - Len(s)])
      BY <1>2, <1>4, <2>3 DEF NoRead
    <3>2. q - Len(s) = p
      BY <2>1, <3>1
    <3> QED
      BY <1>1, <3>2
  <2> QED
    BY <2>2, <2>3 DEF OneRead
<1>5. ASSUME OneRead(st)
      PROVE  (OneRead(s) /\ NoRead(t)) \/ (NoRead(s) /\ OneRead(t))
  <2>1. PICK p \in DOMAIN st : IsRead(st[p]) /\ \A q \in DOMAIN st : IsRead(st[q]) => q = p
    BY <1>5 DEF OneRead
  <2>2. \A q \in DOMAIN s : IsRead(s[q]) => q = p
    BY <1>1, <2>1
  <2>3. ASSUME NEW q \in DOMAIN t, IsRead(t[q]) PROVE Len(s) + q = p
    <3>1. Len(s) + q \in DOMAIN st /\ IsRead(st[Len(s) + q])
      BY <1>1, <2>3
    <3> QED
      BY <2>1, <3>1
  <2>4. CASE p \in DOMAIN s /\ st[p] = s[p]
    <3>1. OneRead(s)
      BY <2>1, <2>2, <2>4 DEF OneRead
    <3>2. ASSUME NEW q \in DOMAIN t, IsRead(t[q]) PROVE FALSE
      <4>1. Len(s) + q = p /\ p <= Len(s) /\ q >= 1
        BY <1>1, <2>3, <2>4, <3>2
      <4> QED
        BY <1>1, <4>1
    <3> QED
      BY <3>1, <3>2 DEF NoRead
  <2>5. CASE p > Len(s) /\ p - Len(s) \in DOMAIN t /\ st[p] = t[p - Len(s)]
    <3>1. \A q \in DOMAIN t : IsRead(t[q]) => q = p - Len(s)
      <4> SUFFICES ASSUME NEW q \in DOMAIN t, IsRead(t[q]) PROVE q = p - Len(s)
        OBVIOUS
      <4>1. Len(s) + q = p
        BY <2>3
      <4> QED
        BY <1>1, <4>1
    <3>2. OneRead(t)
      BY <2>1, <2>5, <3>1 DEF OneRead
    <3>3. NoRead(s)
      BY <1>1, <2>2, <2>5 DEF NoRead
    <3> QED
      BY <3>2, <3>3
  <2> QED
    BY <1>2, <2>4, <2>5
<1> QED
  BY <1>3, <1>4, <1>5 DEF st

\* The property counts what NoRead and OneRead say.
LEMMA ReadCount ==
  ASSUME NEW s
  PROVE  /\ NoRead(s) => Cardinality({p \in DOMAIN s : IsRead(s[p])}) = 0
         /\ OneRead(s) => Cardinality({p \in DOMAIN s : IsRead(s[p])}) = 1
<1> DEFINE at == {p \in DOMAIN s : IsRead(s[p])}
<1>1. ASSUME NoRead(s) PROVE Cardinality(at) = 0
  <2>1. at = {}
    BY <1>1 DEF NoRead
  <2> QED
    BY <2>1, FS_EmptySet
<1>2. ASSUME OneRead(s) PROVE Cardinality(at) = 1
  <2>1. PICK p \in DOMAIN s : IsRead(s[p]) /\ \A q \in DOMAIN s : IsRead(s[q]) => q = p
    BY <1>2 DEF OneRead
  <2>2. at = {p}
    BY <2>1
  <2> QED
    BY <2>2, FS_Singleton
<1> QED
  BY <1>1, <1>2
\* The master waits exactly while a read is in the FIFOs, and has then no other
\* on the wires.
WaitInv ==
  /\ IF awaiting THEN OneRead(Pending) ELSE NoRead(Pending)
  /\ IsRead(wires) => ~awaiting
  /\ readdata # Nothing <=> IsRead(served)
AnswerInv == SlaveTypeOK /\ CoreTypeOK /\ WaitInv

\* An answer is given in the cycle that serves a read, and in no other.
LEMMA AnswerIsService ==
  ASSUME CoreTypeOK, SlaveCycle
  PROVE  readdata' # Nothing <=> IsRead(served')
<1>1. CASE processWrite /\ served' = first
  BY <1>1 DEF processWrite, IsRead
<1>2. CASE processRead /\ served' = first
  BY <1>2, ResultIsAWord DEF processRead, IsRead
<1>3. CASE NoService /\ served' = Nothing
  BY <1>3 DEF NoService, IsRead
<1> QED
  BY <1>1, <1>2, <1>3 DEF SlaveCycle

\* What the cycle leaves at the head, behind it, and what it adds.
LEMMA PendingEdge ==
  ASSUME SlaveTypeOK, SlaveCycle
  PROVE  /\ Pending' = OneOrNone(cliReq') \o (Behind \o produceRequest)
         /\ \/ served' = first /\ first # Nothing /\ cliReq' = Nothing
            \/ served' = Nothing /\ cliReq' = first
<1>1. reqFIFO' = Behind \o produceRequest
  BY DEF SlaveCycle, QueuesEdge, QueueEdge, Behind
<1>2. Pending' = OneOrNone(cliReq') \o reqFIFO'
  BY DEF Pending, OneOrNone
<1>3. \/ served' = first /\ first # Nothing
      \/ served' = Nothing
  BY DEF SlaveCycle, processWrite, processRead
<1>4. cliReq' = IF served' # Nothing THEN Nothing ELSE first
  BY DEF SlaveCycle, QueuesEdge, Dequeued
<1> QED
  BY <1>1, <1>2, <1>3, <1>4

\* The read among what enters the queue is the one that is accepted.
LEMMA ProducedRead ==
  ASSUME SlaveTypeOK
  PROVE  /\ Accepted /\ IsRead(wires) => OneRead(produceRequest)
         /\ ~(Accepted /\ IsRead(wires)) => NoRead(produceRequest)
<1>1. CASE Accepted
  <2>1. produceRequest = OneOrNone(wires)
    BY <1>1 DEF produceRequest, Accepted, waitrequest, OneOrNone
  <2> QED
    BY <1>1, <2>1, ReadsOfOne DEF SlaveTypeOK
<1>2. CASE ~Accepted
  <2>1. produceRequest = <<>>
    BY <1>2 DEF produceRequest, Accepted, waitrequest
  <2> QED
    BY <1>2, <2>1 DEF NoRead
<1> QED
  BY <1>1, <1>2

LEMMA WaitStep == AnswerInv /\ [SlaveNext]_all => WaitInv'
<1> SUFFICES ASSUME AnswerInv, [SlaveNext]_all PROVE WaitInv'
  OBVIOUS
<1>1. SlaveTypeOK /\ CoreTypeOK /\ WaitInv
  BY DEF AnswerInv
<1>2. CASE UNCHANGED all
  BY <1>1, <1>2 DEF all, WaitInv, Pending, OneOrNone, NoRead, OneRead, IsRead
<1>3. CASE SlaveNext
  <2>1. SlaveCycle /\ AnyRequest
    BY <1>3 DEF SlaveNext
  <2>2. /\ AtHead \in Seq(Request) /\ Behind \in Seq(Request) /\ produceRequest \in Seq(Request)
        /\ first \in Request \cup {Nothing} /\ cliReq' \in Request \cup {Nothing}
        /\ OneOrNone(cliReq') \in Seq(Request) /\ Behind \o produceRequest \in Seq(Request)
    <3>1. first \in Request \cup {Nothing}
      BY <1>1, BypassType
    <3>2. cliReq' \in Request \cup {Nothing}
      BY <1>1, <2>1, <3>1, PendingEdge
    <3> QED
      BY <1>1, <3>1, <3>2, BypassType, ProduceType, OneOrNoneType, ConcatProperties DEF AtHead
  <2>3. readdata' # Nothing <=> IsRead(served')
    BY <1>1, <2>1, AnswerIsService
  <2>4. Pending = AtHead \o Behind
    BY <1>1, BypassKeepsOrder
  <2>5. awaiting' = ((Accepted /\ IsRead(wires)) \/ (awaiting /\ ~IsRead(served')))
    BY <2>1, <2>3 DEF SlaveCycle, AwaitEdge, Accepted, IsRead
  <2>6. Pending' = OneOrNone(cliReq') \o (Behind \o produceRequest)
    BY <1>1, <2>1, PendingEdge
  <2>7. /\ NoRead(Pending') <=> /\ NoRead(OneOrNone(cliReq'))
                                /\ NoRead(Behind) /\ NoRead(produceRequest)
        /\ OneRead(Pending') <=>
             \/ OneRead(OneOrNone(cliReq')) /\ NoRead(Behind) /\ NoRead(produceRequest)
             \/ NoRead(OneOrNone(cliReq')) /\ OneRead(Behind) /\ NoRead(produceRequest)
             \/ NoRead(OneOrNone(cliReq')) /\ NoRead(Behind) /\ OneRead(produceRequest)
    BY <2>2, <2>6, NoReadConcat, OneReadConcat
  <2>8. /\ NoRead(Pending) <=> NoRead(AtHead) /\ NoRead(Behind)
        /\ OneRead(Pending) <=> \/ OneRead(AtHead) /\ NoRead(Behind)
                                \/ NoRead(AtHead) /\ OneRead(Behind)
    BY <2>2, <2>4, NoReadConcat, OneReadConcat
  <2>9. IF awaiting' THEN OneRead(Pending') ELSE NoRead(Pending')
    <3>1. CASE IsRead(served')
      <4>1. served' = first /\ IsRead(first) /\ cliReq' = Nothing
        BY <1>1, <2>1, <3>1, PendingEdge DEF IsRead
      <4>2. OneRead(AtHead) /\ NoRead(OneOrNone(cliReq'))
        BY <2>2, <4>1, ReadsOfOne DEF AtHead, IsRead
      <4>3. awaiting /\ OneRead(Pending) /\ NoRead(Behind)
        BY <1>1, <2>8, <4>2, NotBoth DEF WaitInv
      <4>4. ~IsRead(wires) /\ ~awaiting'
        BY <1>1, <2>5, <3>1, <4>3 DEF WaitInv
      <4>5. NoRead(produceRequest)
        BY <1>1, <4>4, ProducedRead
      <4> QED
        BY <2>7, <4>2, <4>3, <4>4, <4>5
    <3>2. CASE ~IsRead(served')
      <4>1. /\ NoRead(OneOrNone(cliReq')) <=> NoRead(AtHead)
            /\ OneRead(OneOrNone(cliReq')) <=> OneRead(AtHead)
        <5>1. CASE cliReq' = first
          BY <5>1 DEF AtHead, OneOrNone
        <5>2. CASE served' = first /\ cliReq' = Nothing
          <6>1. ~IsRead(first) /\ ~IsRead(cliReq')
            BY <3>2, <5>2 DEF IsRead
          <6>2. NoRead(AtHead) /\ NoRead(OneOrNone(cliReq'))
            BY <2>2, <6>1, ReadsOfOne DEF AtHead
          <6> QED
            BY <6>2, NotBoth
        <5> QED
          BY <1>1, <2>1, <5>1, <5>2, PendingEdge
      <4>2. CASE Accepted /\ IsRead(wires)
        <5>1. awaiting' /\ ~awaiting /\ NoRead(Pending) /\ OneRead(produceRequest)
          BY <1>1, <2>5, <4>2, ProducedRead DEF WaitInv
        <5> QED
          BY <2>7, <2>8, <4>1, <5>1
      <4>3. CASE ~(Accepted /\ IsRead(wires))
        <5>1. NoRead(produceRequest) /\ awaiting' = awaiting
          BY <1>1, <2>5, <3>2, <4>3, ProducedRead DEF SlaveTypeOK
        <5> QED
          BY <1>1, <2>7, <2>8, <4>1, <5>1 DEF WaitInv
      <4> QED
        BY <4>2, <4>3
    <3> QED
      BY <3>1, <3>2
  <2>10. ASSUME IsRead(wires') PROVE ~awaiting'
    <3>1. CASE wires # Nothing /\ waitrequest
      <4>1. IsRead(wires) /\ ~Accepted
        BY <2>1, <2>10, <3>1 DEF AnyRequest, Accepted, IsRead
      <4> QED
        BY <1>1, <2>5, <4>1 DEF WaitInv
    <3>2. CASE ~(wires # Nothing /\ waitrequest)
      BY <2>1, <2>10, <3>2 DEF AnyRequest, IsRead
    <3> QED
      BY <3>1, <3>2
  <2> QED
    BY <2>3, <2>9, <2>10 DEF WaitInv, IsRead
<1> QED
  BY <1>2, <1>3

LEMMA AnswerAlways == SlaveSpec => []AnswerInv
<1>1. SlaveInit => AnswerInv
  <2> SUFFICES ASSUME SlaveInit PROVE AnswerInv
    OBVIOUS
  <2>1. /\ wires = Nothing /\ awaiting = FALSE /\ Pending = <<>>
        /\ readdata = Nothing /\ served = Nothing
    BY DEF SlaveInit, BusInit, Pending, OneOrNone
  <2>2. WaitInv
    BY <2>1 DEF WaitInv, NoRead, IsRead
  <2>3. CoreTypeOK
    BY PowerUpAssumption, CounterAssumption, StateFacts DEF SlaveInit, Init, CoreTypeOK
  <2>4. SlaveTypeOK
    <3>1. reqFIFO \in Seq(Request) /\ Len(reqFIFO) <= Depth
      BY DEF SlaveInit, BusInit, Depth
    <3> QED
      BY <3>1 DEF SlaveInit, BusInit, SlaveTypeOK
  <2> QED
    BY <2>2, <2>3, <2>4 DEF AnswerInv
<1>2. AnswerInv /\ [SlaveNext]_all => AnswerInv'
  BY SlaveTypeStep, CoreStep, CoreTypeStep, WaitStep DEF AnswerInv
<1> QED
  BY <1>1, <1>2, PTL DEF SlaveSpec

\* The master waits exactly while one read is on its way, and is answered once,
\* in the cycle in which the read is served: for every size, schedule and master.
THEOREM AnswersOnce == SlaveSpec => []OneAnswerPerRead
<1>1. AnswerInv => OneAnswerPerRead
  BY ReadCount DEF AnswerInv, WaitInv, OneAnswerPerRead
<1> QED
  BY <1>1, AnswerAlways, PTL

-----------------------------------------------------------------------------
(* How long the answer takes.                                              *)

\* The core counts down, or is idle.
LEMMA CycleCounts ==
  ASSUME CoreTypeOK
  PROVE  /\ CyclesToIdle \in 0 .. n + 1
         /\ CyclesToIdle = 0 <=> Idle
         /\ Idle \/ Starting \/ Iterating
BY StateFacts DEF CoreTypeOK, CyclesToIdle, Idle, Starting, Iterating

LEMMA CoreCounts ==
  ASSUME CoreTypeOK, CoreRules
  PROVE  CyclesToIdle' = IF Idle THEN 0 ELSE CyclesToIdle - 1
<1>1. CASE Starting /\ rState' = 0
  BY <1>1, StateFacts DEF CyclesToIdle, Idle, Starting
<1>2. CASE Iterating /\ rState' = IF rState = n - 1 THEN stateMaxVal ELSE rState + 1
  <2>1. rState \in 0 .. n - 1 /\ ~Idle /\ ~Starting
    BY <1>2, StateFacts DEF CoreTypeOK, Idle, Starting, Iterating
  <2> QED
    BY <1>2, <2>1, StateFacts DEF CyclesToIdle, Idle, Starting
<1>3. CASE Idle /\ rState' = rState
  BY <1>3 DEF CyclesToIdle, Idle
<1> QED
  BY <1>1, <1>2, <1>3, CoreMoves

\* The place of the one read.
Place(s) == CHOOSE p \in DOMAIN s : IsRead(s[p])

LEMMA OnePlace ==
  ASSUME NEW s, OneRead(s)
  PROVE  /\ Place(s) \in DOMAIN s /\ IsRead(s[Place(s)])
         /\ \A p \in DOMAIN s : IsRead(s[p]) => p = Place(s)
BY DEF OneRead, Place

\* What comes behind the read leaves it in its place, and what goes before it
\* brings it nearer.
LEMMA PlaceBehind ==
  ASSUME NEW s \in Seq(Request), NEW t \in Seq(Request), OneRead(s), OneRead(s \o t)
  PROVE  Place(s \o t) = Place(s)
<1> DEFINE st == s \o t
           p == Place(s)
<1>1. p \in 1 .. Len(s) /\ IsRead(s[p]) /\ Len(s) \in Nat /\ Len(t) \in Nat
  BY OnePlace, Places
<1>2. st[p] = s[p] /\ p \in DOMAIN st
  BY <1>1, Places
<1> HIDE DEF st, p
<1>3. p = Place(st)
  BY <1>1, <1>2, OnePlace DEF st
<1> QED
  BY <1>3 DEF st, p

LEMMA PlaceAhead ==
  ASSUME NEW r \in Request, NEW t \in Seq(Request), OneRead(<<r>> \o t), ~IsRead(r)
  PROVE  OneRead(t) /\ Place(<<r>> \o t) = Place(t) + 1
<1> DEFINE u == <<r>>
           ut == u \o t
<1>1. u \in Seq(Request) /\ Len(u) = 1 /\ NoRead(u)
  BY DEF NoRead
<1> HIDE DEF u
<1>2. OneRead(t)
  BY <1>1, OneReadConcat, NotBoth DEF u
<1> DEFINE p == Place(t)
<1>3. p \in 1 .. Len(t) /\ IsRead(t[p]) /\ Len(t) \in Nat
  BY <1>2, OnePlace, Places
<1>4. ut[1 + p] = t[p] /\ 1 + p \in DOMAIN ut
  BY <1>1, <1>3, Places
<1> HIDE DEF p, ut
<1>5. 1 + p = Place(ut)
  BY <1>3, <1>4, OnePlace DEF ut, u
<1> QED
  BY <1>2, <1>3, <1>5 DEF p, ut, u

\* A cycle of the wait serves a write before the read, or lets the core go on.
LEMMA DistanceStep ==
  ASSUME AnswerInv, AnswerInv', SlaveNext, awaiting, awaiting'
  PROVE  AnswerDistance' < AnswerDistance
<1>1. /\ SlaveTypeOK /\ SlaveTypeOK' /\ CoreTypeOK /\ CoreTypeOK' /\ SlaveCycle /\ AnyRequest
      /\ OneRead(Pending) /\ OneRead(Pending') /\ ~IsRead(wires)
  BY DEF AnswerInv, WaitInv, SlaveNext
<1> DEFINE t == Behind \o produceRequest
           a == Place(Pending)
           b == Place(Pending')
           c == CyclesToIdle
           d == CyclesToIdle'
<1>2. /\ AtHead \in Seq(Request) /\ Behind \in Seq(Request) /\ produceRequest \in Seq(Request)
      /\ t \in Seq(Request) /\ first \in Request \cup {Nothing}
  BY <1>1, BypassType, ProduceType, OneOrNoneType, ConcatProperties DEF AtHead
<1>3. Pending = AtHead \o Behind /\ Pending \in Seq(Request)
  BY <1>1, <1>2, BypassKeepsOrder, ConcatProperties
<1>4. Pending' = OneOrNone(cliReq') \o t
  BY <1>1, PendingEdge
<1>5. NoRead(produceRequest)
  BY <1>1, ProducedRead
<1>6. a \in Nat /\ b \in Nat
  <2>1. DOMAIN Pending' \subseteq Nat
    <3>1. OneOrNone(cliReq') \in Seq(Request)
      BY <1>1, OneOrNoneType DEF SlaveTypeOK
    <3>2. Pending' \in Seq(Request)
      BY <1>2, <1>4, <3>1, ConcatProperties
    <3> QED
      BY <3>2, LenProperties
  <2>2. DOMAIN Pending \subseteq Nat
    BY <1>3, LenProperties
  <2> QED
    BY <1>1, <2>1, <2>2, OnePlace
<1>7. c \in 0 .. n + 1 /\ d \in 0 .. n + 1 /\ n \in Nat
  <2>1. d \in 0 .. n + 1
    <3> DEFINE s == rState'
    <3>1. d = IF s = stateMaxVal THEN 0 ELSE IF s = stateMaxVal - 1 THEN n + 1 ELSE n - s
      BY DEF CyclesToIdle, Idle, Starting
    <3>2. s \in 0 .. n - 1 \cup {stateMaxVal - 1, stateMaxVal}
      BY <1>1 DEF CoreTypeOK
    <3> HIDE DEF s, d
    <3> QED
      BY <3>1, <3>2, StateFacts
  <2> QED
    BY <1>1, <2>1, CycleCounts, StateFacts
<1>8. AnswerDistance = a * (n + 2) + c /\ AnswerDistance' = b * (n + 2) + d
  BY DEF AnswerDistance, Place
<1>9. CASE served' = Nothing /\ cliReq' = first
  <2>1. Pending' = Pending \o produceRequest
    <3>1. Pending' = AtHead \o (Behind \o produceRequest)
      BY <1>4, <1>9 DEF AtHead, OneOrNone
    <3> QED
      BY <1>2, <1>3, <3>1, ConcatAssociative
  <2>2. b = a
    BY <1>1, <1>2, <1>3, <2>1, PlaceBehind
  <2>3. first # Nothing
    <3>1. Pending # <<>>
      BY <1>1 DEF OneRead
    <3>2. cliReq # Nothing => first # Nothing
      BY DEF first
    <3>3. reqFIFO # <<>> => Head(reqFIFO) # Nothing
      BY <1>1, NothingAssumption, HeadTailProperties DEF SlaveTypeOK
    <3>4. cliReq = Nothing /\ reqFIFO # <<>> => first # Nothing
      BY <3>3 DEF first, Connect
    <3>5. cliReq = Nothing /\ reqFIFO = <<>> => Pending = <<>>
      BY DEF Pending, OneOrNone
    <3> QED
      BY <3>1, <3>2, <3>4, <3>5
  <2>4. CoreRules /\ ~Idle
    <3>1. NoService
      BY <1>1, <1>9, <2>3 DEF SlaveCycle
    <3> QED
      BY <2>3, <3>1, WriteBlocked, StateFacts DEF NoService, Starting, Iterating, Idle
  <2>5. d = c - 1
    BY <1>1, <2>4, CoreCounts
  <2> HIDE DEF a, b, c, d
  <2> QED
    BY <1>6, <1>7, <1>8, <2>2, <2>5
<1>10. CASE served' = first /\ first # Nothing /\ cliReq' = Nothing
  <2>1. ~IsRead(first)
    <3>1. readdata' = Nothing
      BY <1>1 DEF SlaveCycle, AwaitEdge, Accepted, IsRead
    <3> QED
      BY <1>1, <1>10, <3>1, AnswerIsService
  <2>2. first \in Request /\ AtHead = <<first>>
    BY <1>2, <1>10 DEF AtHead, OneOrNone
  <2>3. OneRead(Behind) /\ a = Place(Behind) + 1
    BY <1>1, <1>2, <1>3, <2>1, <2>2, PlaceAhead
  <2>4. Pending' = t
    BY <1>2, <1>4, <1>10, ConcatEmptySeq DEF OneOrNone
  <2>5. b = Place(Behind)
    BY <1>1, <1>2, <2>3, <2>4, PlaceBehind
  <2>6. a = b + 1
    BY <2>3, <2>5
  <2> HIDE DEF a, b, c, d
  <2>7. a * (n + 2) = b * (n + 2) + (n + 2)
    BY <1>6, <1>7, <2>6
  <2>8. b * (n + 2) \in Nat
    BY <1>6, <1>7
  <2>9. CASE d = 0
    BY <1>6, <1>7, <1>8, <2>7, <2>8, <2>9
  <2>10. CASE d # 0
    BY <1>6, <1>7, <1>8, <2>7, <2>8
  <2> QED
    BY <2>9, <2>10
<1> QED
  BY <1>1, <1>9, <1>10, PendingEdge

\* At most three requests, the read among them, are in the two FIFOs.
LEMMA DistanceBounded ==
  ASSUME AnswerInv, awaiting
  PROVE  AnswerDistance \in n + 2 .. 4 * n + 7
<1>1. SlaveTypeOK /\ CoreTypeOK /\ OneRead(Pending)
  BY DEF AnswerInv, WaitInv
<1> DEFINE a == Place(Pending)
           c == CyclesToIdle
<1>2. a \in 1 .. 3
  <2> DEFINE h == OneOrNone(cliReq)
  <2>1. h \in Seq(Request) /\ Len(h) \in 0 .. 1
    BY <1>1, OneOrNoneType DEF SlaveTypeOK, OneOrNone
  <2>2. reqFIFO \in Seq(Request) /\ Len(reqFIFO) \in 0 .. 2
    <3>1. reqFIFO \in Seq(Request) /\ Len(reqFIFO) <= 2
      BY <1>1 DEF SlaveTypeOK, Depth
    <3> DEFINE l == Len(reqFIFO)
    <3>2. l \in Nat /\ l <= 2
      BY <3>1, LenProperties
    <3> HIDE DEF l
    <3>3. l \in 0 .. 2
      BY <3>2
    <3> QED
      BY <3>1, <3>3 DEF l
  <2>3. Pending = h \o reqFIFO
    BY DEF Pending
  <2> HIDE DEF h
  <2>4. DOMAIN Pending = 1 .. Len(h) + Len(reqFIFO)
    BY <2>1, <2>2, <2>3, Places
  <2>5. a \in DOMAIN Pending
    BY <1>1, OnePlace
  <2>6. a \in 1 .. Len(h) + Len(reqFIFO)
    BY <2>4, <2>5
  <2> DEFINE k == Len(h)
             l == Len(reqFIFO)
  <2>7. k \in 0 .. 1 /\ l \in 0 .. 2 /\ a \in 1 .. k + l
    BY <2>1, <2>2, <2>6
  <2> HIDE DEF a, k, l
  <2> QED
    BY <2>7
<1>3. c \in 0 .. n + 1 /\ n \in Nat
  BY <1>1, CycleCounts, StateFacts
<1>4. AnswerDistance = a * (n + 2) + c
  BY DEF AnswerDistance, Place
<1> HIDE DEF a, c
<1>5. a * (n + 2) \in {n + 2, 2 * n + 4, 3 * n + 6}
  BY <1>2, <1>3
<1> QED
  BY <1>3, <1>4, <1>5

\* The wait for an answer is bounded, and not only finite: at most 4 n + 7
\* cycles for each read, less the n + 2 at which it is answered at the latest,
\* whatever the master puts into the FIFOs before and behind it, and
\* whichever rules win.
THEOREM AnswersInTime ==
  SlaveSpec => [](awaiting => AnswerDistance \in n + 2 .. 4 * n + 7) /\ AnswerComesNearer
<1>1. AnswerInv => (awaiting => AnswerDistance \in n + 2 .. 4 * n + 7)
  BY DistanceBounded
<1>2. AnswerInv /\ AnswerInv' /\ [SlaveNext]_all
        => [awaiting /\ awaiting' => AnswerDistance' < AnswerDistance]_all
  BY DistanceStep
<1> QED
  BY <1>1, <1>2, AnswerAlways, PTL DEF SlaveSpec, AnswerComesNearer
=============================================================================
